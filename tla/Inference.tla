------------------------------ MODULE Inference ------------------------------
(***************************************************************************)
(* RealKernel: mount, unmount and load for the arches, submit_task,        *)
(* read_register and infer, with failed writes, an arch that errs and a    *)
(* daemon that dies between any two durable effects.  One call holds the   *)
(* kernel mutex to its end, so calls do not interleave.                    *)
(*                                                                         *)
(* There is one register; the ledger is kept as the number of events of    *)
(* each kind.  A manifest is its arch id, its clearance and its context    *)
(* ceiling: two manifests may share an id and differ in the rest.          *)
(***************************************************************************)
EXTENDS Projection, Labels

CONSTANTS
    Manifests,      \* records [id, ceiling, maxScope, thirdParty]
    Budgets,        \* what an adapter may report as loaded
    Goals, Labels,  \* what a task may be submitted with
    Edits,          \* what a caller may write: records [constraints, evidence]
    Clearances,     \* of the callers: records [maxScope, thirdParty]
    Roles,          \* of "plan", "draft" and "judge"
    Answers,        \* what an arch may answer, besides an echo
    MaxCalls,       \* bound: inferences and mounts
    MaxFaults       \* bound: failed writes, arch errors and crashes

ASSUME BoundsAssumption == MaxCalls \in Nat /\ MaxFaults \in Nat

\* A text is any string, by its lines: rank_of knows a kind for every line.
Texts == Seq([kind : DOMAIN Rank, len : Nat])
ASSUME TextsAssumption ==
    /\ Goals \subseteq Texts /\ Answers \subseteq Texts
    /\ \A e \in Edits : e.constraints \in Seq(Texts) /\ e.evidence \in Seq(Texts)
ASSUME BudgetsAssumption == Budgets \subseteq Nat /\ \A m \in Manifests : m.ceiling \in Nat

VARIABLES
    \* The disk.
    arches,         \* table `arches`: arch id -> manifest
    register,       \* the row in `registers`, or NoRegister
    stats,          \* stats:<arch>, summed over the arches: [calls, projected]
    events,         \* the ledger: number of events of each kind
    \* The process.
    up,
    mounted,        \* adapters and budgets: arch id -> [manifest, budget]
    call,           \* the syscall in progress
    \* What happened.
    sent,           \* the last prompt handed to an arch, or Nothing
    sends,          \* how many were
    projections,    \* how many prompts were projected
    gone,           \* arch ids a caller was told are unmounted
    calls,
    faults

disk == <<arches, register, stats, events>>
history == <<sent, sends, projections, gone>>
vars == <<disk, up, mounted, call, history, calls, faults>>

-----------------------------------------------------------------------------
Ids == {m.id : m \in Manifests}
EventKinds == {"mounted", "unmounted", "submitted", "projected", "infer", "written"}
Idle == [at |-> "idle"]
NoRegister == [goal |-> <<>>]   \* no goal is empty of lines
Nothing == [id |-> "none"]
Drop(f, k) == [x \in DOMAIN f \ {k} |-> f[x]]
Set(f, k, v) == [x \in DOMAIN f \cup {k} |-> IF x = k THEN v ELSE f[x]]

Ready == up /\ call = Idle
Begin(c) == call' = c /\ calls' = calls + 1
Goto(at) == call' = [call EXCEPT !.at = at]
Log(kind) == events' = [events EXCEPT ![kind] = @ + 1]

\* ArchManifest::validate; capabilities are not modelled.
Valid(m) == m.ceiling > 0

-----------------------------------------------------------------------------
(* mount and unmount *)

\* Variant of Conflicts: a second manifest takes the id over.
ConflictsNever(m) == FALSE

Conflicts(m) == m.id \in DOMAIN mounted /\ mounted[m.id].manifest # m

Mounted(m, budget) == mounted' = Set(mounted, m.id, [manifest |-> m, budget |-> budget])

\* An identical manifest: another adapter takes over, nothing is written.
Remount ==
    /\ Ready /\ calls < MaxCalls
    /\ \E m \in Manifests, b \in Budgets :
         /\ Valid(m) /\ m.id \in DOMAIN mounted /\ ~Conflicts(m)
         /\ Mounted(m, b)
    /\ calls' = calls + 1
    /\ UNCHANGED <<disk, up, call, history, faults>>

CallMount ==
    /\ Ready /\ calls < MaxCalls
    /\ \E m \in Manifests, b \in Budgets :
         /\ Valid(m) /\ m.id \notin DOMAIN mounted
         /\ Begin([at |-> "mountRow", manifest |-> m, budget |-> b])
    /\ UNCHANGED <<disk, up, mounted, history, faults>>

\* The row, and the adapter in memory.
MountRow ==
    /\ call.at = "mountRow"
    /\ arches' = Set(arches, call.manifest.id, call.manifest)
    /\ Mounted(call.manifest, call.budget)
    /\ gone' = gone \ {call.manifest.id}
    /\ Goto("logMounted")
    /\ UNCHANGED <<register, stats, events, up, sent, sends, projections, calls, faults>>

\* The adapter leaves memory before its row does.
CallUnmount ==
    /\ Ready /\ calls < MaxCalls
    /\ \E id \in Ids :
         /\ mounted' = Drop(mounted, id)
         /\ Begin([at |-> "deleteRow", id |-> id])
    /\ UNCHANGED <<disk, up, history, faults>>

\* Variant of DeleteRow: the row stays.
DeleteRowNot ==
    /\ call.at = "deleteRow"
    /\ Goto("logUnmounted")
    /\ UNCHANGED <<disk, up, mounted, history, calls, faults>>

DeleteRow ==
    /\ call.at = "deleteRow"
    /\ arches' = Drop(arches, call.id)
    /\ Goto("logUnmounted")
    /\ UNCHANGED <<register, stats, events, up, mounted, history, calls, faults>>

\* The event that ends a mount, an unmount, a submission or a raise.
LogLast ==
    /\ \/ call.at = "logMounted" /\ Log("mounted") /\ UNCHANGED gone
       \/ call.at = "logUnmounted" /\ Log("unmounted") /\ gone' = gone \cup {call.id}
       \/ call.at = "logSubmitted" /\ Log("submitted") /\ UNCHANGED gone
       \/ call.at = "logWritten" /\ Log("written") /\ UNCHANGED gone
    /\ call' = Idle
    /\ UNCHANGED <<arches, register, stats, up, mounted, sent, sends, projections, calls, faults>>

-----------------------------------------------------------------------------
(* submit_task *)

\* next_id, twice, numbers the register and its task; the row follows.
Submit ==
    /\ Ready /\ register = NoRegister
    /\ \E goal \in Goals, label \in Labels :
         register' = [goal |-> goal, label |-> label, constraints |-> <<>>,
                      evidence |-> <<>>, decisions |-> <<>>, open |-> <<>>]
    /\ call' = [at |-> "logSubmitted"]
    /\ UNCHANGED <<arches, stats, events, up, mounted, history, calls, faults>>

\* write_register by a caller: the row of the whole register, no check of its label.
Edit ==
    /\ Ready /\ register # NoRegister /\ calls < MaxCalls
    /\ \E e \in Edits : register' = [register EXCEPT !.constraints = e.constraints,
                                                   !.evidence = e.evidence]
    /\ Begin([at |-> "logWritten"])
    /\ UNCHANGED <<arches, stats, events, up, mounted, history, faults>>

-----------------------------------------------------------------------------
(* infer *)

\* read_register under the caller's clearance, then i2_flow to the arch's.
MayInfer(id, clearance) ==
    /\ id \in DOMAIN mounted
    /\ register # NoRegister
    /\ FlowsTo(register.label, clearance)
    /\ FlowsTo(register.label, mounted[id].manifest)

Exceeds(p, budget) == Count(p) > budget

CallInfer ==
    /\ Ready /\ calls < MaxCalls
    /\ \E id \in Ids, role \in Roles, c \in Clearances :
         LET full == Lower(register)
             budget == mounted[id].budget
         IN  /\ MayInfer(id, c)
             /\ Begin([at |-> IF Exceeds(full, budget) THEN "project" ELSE "complete",
                       id |-> id, role |-> role, full |-> full, budget |-> budget,
                       prompt |-> full, output |-> <<>>])
    /\ UNCHANGED <<disk, up, mounted, history, faults>>

\* Variant of ProjectPrompt: the event first, the projection second.
ProjectPromptLogged ==
    /\ call.at = "project"
    /\ LET fitted == Project(call.full, call.budget)
       IN  /\ Log("projected")
           /\ IF fitted = Unfit THEN call' = Idle /\ UNCHANGED projections
              ELSE call' = [call EXCEPT !.at = "complete", !.prompt = fitted]
                   /\ projections' = projections + 1
    /\ UNCHANGED <<arches, register, stats, up, mounted, sent, sends, gone, calls, faults>>

\* A prompt over the budget is projected, or refused when nothing honest fits (I4').
ProjectPrompt ==
    /\ call.at = "project"
    /\ LET fitted == Project(call.full, call.budget)
       IN  \/ fitted = Unfit /\ call' = Idle /\ UNCHANGED projections
           \/ /\ fitted # Unfit
              /\ call' = [call EXCEPT !.at = "logProjected", !.prompt = fitted]
              /\ projections' = projections + 1
    /\ UNCHANGED <<disk, up, mounted, sent, sends, gone, calls, faults>>

LogProjected ==
    /\ call.at = "logProjected"
    /\ Log("projected")
    /\ Goto("complete")
    /\ UNCHANGED <<arches, register, stats, up, mounted, history, calls, faults>>

\* The call leaves the kernel.
Send ==
    /\ sent' = [id |-> call.id, full |-> call.full, prompt |-> call.prompt,
                budget |-> call.budget, label |-> register.label]
    /\ sends' = sends + 1
    /\ UNCHANGED <<disk, up, mounted, projections, gone, calls>>

Complete ==
    /\ call.at = "complete"
    /\ Send
    /\ \E out \in Answers \cup {Echo(call.prompt)} :
         call' = [call EXCEPT !.at = "logInfer", !.output = out]
    /\ UNCHANGED faults

\* The arch was handed the prompt and errs: the caller has an error, the ledger nothing.
ArchErrs ==
    /\ call.at = "complete" /\ faults < MaxFaults
    /\ Send
    /\ call' = Idle
    /\ faults' = faults + 1

LogInfer ==
    /\ call.at = "logInfer"
    /\ Log("infer")
    /\ Goto("stats")
    /\ UNCHANGED <<arches, register, stats, up, mounted, history, calls, faults>>

Projected == call.prompt # call.full

BumpStats ==
    /\ call.at = "stats"
    /\ stats' = [calls |-> stats.calls + 1,
                 projected |-> stats.projected + IF Projected THEN 1 ELSE 0]
    /\ Goto("raise")
    /\ UNCHANGED <<arches, register, events, up, mounted, history, calls, faults>>

\* raise, and the row of write_register.
WriteRegister ==
    /\ call.at = "raise"
    /\ register' = Raise(register, call.role, call.output)
    /\ Goto("logWritten")
    /\ UNCHANGED <<arches, stats, events, up, mounted, history, calls, faults>>

-----------------------------------------------------------------------------
(* Faults *)

\* A write of the call in progress fails: store_failed, and the call returns.
WriteFails ==
    /\ call.at \notin {"idle", "project", "complete"} /\ faults < MaxFaults
    /\ call' = Idle
    /\ faults' = faults + 1
    /\ UNCHANGED <<disk, up, mounted, history, calls>>

Crash ==
    /\ up /\ faults < MaxFaults
    /\ up' = FALSE
    /\ call' = Idle
    /\ mounted' = <<>>
    /\ faults' = faults + 1
    /\ UNCHANGED <<disk, history, calls>>

\* load: every row comes back as a mock with the manifest's ceiling for a budget.
Restored ==
    [id \in DOMAIN arches |-> [manifest |-> arches[id], budget |-> arches[id].ceiling]]

Load ==
    /\ ~up
    /\ up' = TRUE
    /\ mounted' = Restored
    /\ UNCHANGED <<disk, call, history, calls, faults>>

-----------------------------------------------------------------------------
Init ==
    /\ arches = <<>>
    /\ register = NoRegister
    /\ stats = [calls |-> 0, projected |-> 0]
    /\ events = [k \in EventKinds |-> 0]
    /\ up = TRUE
    /\ mounted = <<>>
    /\ call = Idle
    /\ sent = Nothing
    /\ sends = 0
    /\ projections = 0
    /\ gone = {}
    /\ calls = 0
    /\ faults = 0

Next ==
    \/ Remount \/ CallMount \/ MountRow \/ CallUnmount \/ DeleteRow \/ LogLast
    \/ Submit \/ Edit \/ CallInfer \/ ProjectPrompt \/ LogProjected \/ Complete \/ ArchErrs
    \/ LogInfer \/ BumpStats \/ WriteRegister \/ WriteFails \/ Crash \/ Load

Spec == Init /\ [][Next]_vars

-----------------------------------------------------------------------------
(* Properties *)

\* Every variable keeps its type; adapters are only in the memory of a running node.
TypeOK ==
    /\ \A id \in DOMAIN arches : arches[id] \in Manifests /\ arches[id].id = id
    /\ \A id \in DOMAIN mounted : mounted[id].manifest \in Manifests
    /\ register = NoRegister \/ (register.label \in Labels /\ register.goal \in Goals)
    /\ events \in [EventKinds -> Nat] /\ stats \in [{"calls", "projected"} -> Nat]
    /\ up \in BOOLEAN /\ (~up => mounted = <<>> /\ call = Idle)
    /\ gone \subseteq Ids

Sent == sent # Nothing
Marked == sent.prompt # sent.full
Kept == {sent.prompt[i].at : i \in {j \in DOMAIN sent.prompt : sent.prompt[j].kind # "MARKER"}}

\* What an arch is handed fits the context that was loaded when the call was made,
\* the marker included (infer, project).
SentFits == Sent => Count(sent.prompt) <= sent.budget

\* A projection is never a silent truncation: the marker says how many lines of the
\* register are missing, and the others are there, in order (project).
DropsAreDeclared ==
    Sent => LET p == sent.prompt
                kept == IF Marked THEN Len(p) - 1 ELSE Len(p)
            IN  /\ Marked => p[Len(p)].kind = "MARKER" /\ kept + p[Len(p)].n = Len(sent.full)
                /\ \A i, j \in 1..kept : i < j => p[i].at < p[j].at

\* A unit is dropped only if it does not fit beside what is more important than it:
\* nothing of a lower priority took its place (project).
ImportantFirst ==
    Sent /\ Marked =>
        LET units == {u \in Units(sent.full) : u \in Kept}
        IN  \A u \in Units(sent.full) \ units :
              ~Fits(sent.full, {v \in units : Before(sent.full, v, u)} \cup {u}, sent.budget)

\* What the call is survives every projection: the role, and the goal where it has
\* one line (rank_of, project).
RoleAndGoalSurvive ==
    Sent => \A n \in DOMAIN sent.full :
              sent.full[n].kind \in {"ROLE", "GOAL"} => n \in Kept

\* No constraint is sent without the heading it stands under, where constraints have
\* one line each (units_of).
NoBulletWithoutHeading ==
    Sent /\ (\A n \in DOMAIN sent.full : sent.full[n].field = "BULLET" =>
                                         sent.full[n].kind = "BULLET") =>
        \A n \in Kept : sent.full[n].field = "BULLET" =>
            \E h \in Kept : h < n /\ sent.full[h].kind = "CONSTRAINTS"

\* A projection keeps its word: it fits, says what is missing, and what is missing is
\* what mattered least.
ProjectionKeepsItsWord ==
    /\ SentFits
    /\ DropsAreDeclared
    /\ ImportantFirst
    /\ RoleAndGoalSurvive
    /\ NoBulletWithoutHeading

\* What a later durable effect of an inference holds, the earlier ones hold: an answer
\* in the register is in the stats, in the ledger, and was sent; an `infer.projected`
\* event stands for a projection that happened (infer).
EffectsInOrder ==
    /\ register # NoRegister =>
         Len(register.decisions) + Len(register.open) <= stats.calls
    /\ stats.calls <= events["infer"] /\ events["infer"] <= sends
    /\ stats.projected <= events["projected"] /\ events["projected"] <= projections

\* What a running node has mounted is what a restart would mount, clearance and all,
\* so no register reaches an arch the rows would not let it reach (mount, load).
MountsAreOnDisk ==
    \A id \in DOMAIN mounted :
        id \in DOMAIN arches /\ mounted[id].manifest = arches[id]

\* An arch a caller was told is unmounted stays so across restarts until the next mount.
UnmountedStaysOut == gone \cap (DOMAIN mounted \cup DOMAIN arches) = {}

\* Mounts survive as they are: every restart mounts what was mounted, and nothing else.
MountsAreKept == TypeOK /\ MountsAreOnDisk /\ UnmountedStaysOut

\* The clearance of an arch id never changes while it is mounted, and no register is
\* sent to an arch whose row it does not flow to (mount, i2_flow).
SendsAreCleared ==
    [][sends' # sends => /\ call.id \in DOMAIN arches
                         /\ FlowsTo(register.label, arches[call.id])]_vars
=============================================================================
