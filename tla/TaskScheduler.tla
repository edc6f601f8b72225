---------------------------- MODULE TaskScheduler ----------------------------
(***************************************************************************)
(* One task under the sequential scheduler: RealKernel::run_task_step and  *)
(* run_step, with the `vk task step --all` that calls it, the STOP, the    *)
(* RESUME and the human approval that meet it and a daemon that may die at *)
(* any write.                                                              *)
(*                                                                         *)
(* A call of run_task_step holds the kernel mutex, so nothing but a crash  *)
(* comes between its steps; each action is one durable effect of the call. *)
(* The call keeps nothing in memory that the next one does not read back   *)
(* from the rows (a STOP too is read back, see StopKernel), so a crash is  *)
(* the end of the call in progress and the restart has no action of its    *)
(* own.                                                                    *)
(*                                                                         *)
(* An artefact is named by its content.  What an arch answers is any of    *)
(* Contents, again at every call.                                          *)
(***************************************************************************)
EXTENDS Naturals, Sequences, FiniteSets

CONSTANTS
    Plans,          \* the plans a task may be created with
    Contents,       \* what an arch may draft
    MaxSteps,       \* MAX_STEPS: calls one `vk task step --all` makes
    MaxCalls,       \* bound: calls to an arch
    MaxFaults,      \* bound: crashes and failed writes
    MaxStops        \* bound: STOPs of the node

Kinds == {"infer", "draft", "harness", "approve", "release"}

ASSUME PlansAssumption == \A p \in Plans : p \in Seq(Kinds)
ASSUME BoundsAssumption ==
    MaxSteps \in Nat \ {0} /\ MaxCalls \in Nat /\ MaxFaults \in Nat /\ MaxStops \in Nat

VARIABLES
    plan,           \* the kinds of the task's steps
    \* The disk.
    status,         \* Task.status
    steps,          \* Task.steps[i].status
    revision,       \* how often an arch's answer was raised into the register
    artefacts,      \* Register.artefacts
    approvals,      \* subjects with a human approval (table `approvals`)
    stopped,        \* a STOP of scope "node" is in force
    \* The ledger and the export directory.
    inferred,       \* the number of "infer" events: calls that left the kernel
    stepEvents,     \* the number of "task.step" events, per step
    released,       \* the artefact lists of "artefact.released" events
    exported,       \* artefacts whose plaintext is under the export root
    \* The process and its callers.
    call,           \* run_task_step in progress
    runs,           \* the calls a running `vk task step --all` has made; 0: none runs
    asked,          \* subjects task.subject has handed to a client
    faults,
    stops

row == <<status, steps>>
register == <<revision, artefacts>>
record == <<inferred, stepEvents, released>>
world == <<runs, asked, faults, stops>>
vars == <<plan, row, register, approvals, stopped, record, exported, call, world>>

-----------------------------------------------------------------------------
Steps == 1..Len(plan)
StepStatus == {"pending", "running", "waiting_human", "done", "failed"}
TaskStatus == {"queued", "running", "waiting_human", "done", "failed", "stopped"}
Idle == [at |-> "idle"]
Called == [at |-> "called"]

\* `vk task submit`: a plan step, a draft, and what its flags add.
Submitted(approve, release) ==
    <<"infer", "draft">> \o (IF approve THEN <<"approve">> ELSE <<>>)
                         \o (IF release THEN <<"release">> ELSE <<>>)

Terminal == status \in {"done", "failed"}

\* The steps not yet done; the scheduler runs the first of them and no other.
Open == {i \in Steps : steps[i] # "done"}
Current == CHOOSE i \in Open : \A j \in Open : i <= j

\* Variant of Subject: the first artefact stays the one to approve.
FirstSubject == IF artefacts # <<>> THEN artefacts[1] ELSE [register |-> revision]

\* approval_subject: the latest artefact, or with none the register itself.
Subject == IF artefacts # <<>> THEN artefacts[Len(artefacts)]
           ELSE [register |-> revision]

Subjects == Contents \cup [register : 0..MaxCalls]

Save(i, stepStatus, taskStatus) ==
    /\ steps' = [steps EXCEPT ![i] = stepStatus]
    /\ status' = taskStatus

Goto(at) == call' = [call EXCEPT !.at = at]
Return == call' = Idle
\* Variant of Conclude: the row is saved before the ledger has the step.
ConcludeUnlogged(outcome) == call' = [call EXCEPT !.at = "save", !.outcome = outcome]

Conclude(outcome) == call' = [call EXCEPT !.at = "log", !.outcome = outcome]

Working(kinds) == call.at = "work" /\ plan[call.i] \in kinds

-----------------------------------------------------------------------------
\* create_task: the row as it is first saved.
Init ==
    /\ plan \in Plans
    /\ status = "queued"
    /\ steps = [i \in Steps |-> "pending"]
    /\ revision = 0
    /\ artefacts = <<>>
    /\ approvals = {}
    /\ stopped = FALSE
    /\ inferred = 0
    /\ stepEvents = [i \in Steps |-> 0]
    /\ released = {}
    /\ exported = {}
    /\ call = Idle
    /\ runs = 0
    /\ asked = {}
    /\ faults = 0
    /\ stops = 0

-----------------------------------------------------------------------------
(* vk task step --all *)

\* Variant of Settled: a task that waits for a human is called on and on.
SettledUnlessWaiting == status \in {"done", "failed", "stopped"}

\* "A task that will not move again without something else happening".
Settled == status \in {"waiting_human", "done", "failed", "stopped"}

\* The first call, and the next one for as long as the answer is not settled.
TaskStep ==
    /\ call = Idle
    /\ runs > 0 => ~Settled /\ runs < MaxSteps
    /\ call' = Called
    /\ runs' = runs + 1
    /\ UNCHANGED <<plan, row, register, approvals, stopped, record, exported, asked, faults, stops>>

\* The command ends: the task has settled, or the patience of MAX_STEPS is over.
EndCommand ==
    /\ call = Idle
    /\ runs > 0
    /\ Settled \/ runs >= MaxSteps
    /\ runs' = 0
    /\ UNCHANGED <<plan, row, register, approvals, stopped, record, exported, call, asked, faults, stops>>

-----------------------------------------------------------------------------
(* run_task_step, up to the step's own work. *)

Runnable == call = Called /\ ~Terminal

\* A terminal task is returned unchanged.
ReturnTerminal ==
    /\ call = Called
    /\ Terminal
    /\ Return
    /\ UNCHANGED <<plan, row, register, approvals, stopped, record, exported, world>>

\* The node is stopped: the row says so, and the command ends in an error.
RefuseUnderStop ==
    /\ Runnable
    /\ stopped
    /\ status' = "stopped"
    /\ Return
    /\ runs' = 0
    /\ UNCHANGED <<plan, steps, register, approvals, stopped, record, exported, asked, faults, stops>>

\* Nothing is left to do (a task created without steps).
FinishEmpty ==
    /\ Runnable
    /\ ~stopped
    /\ Open = {}
    /\ status' = "done"
    /\ Return
    /\ UNCHANGED <<plan, steps, register, approvals, stopped, record, exported, world>>

\* Variant of StartStep: the STOP is not asked for.
StartStepUnderStop ==
    /\ Runnable
    /\ Open # {}
    /\ steps[Current] # "waiting_human"
    /\ Save(Current, "running", "running")
    /\ call' = [at |-> "work", i |-> Current, wasWaiting |-> FALSE,
                outcome |-> "done", files |-> <<>>]
    /\ UNCHANGED <<plan, register, approvals, stopped, record, exported, world>>

\* The step is marked running, durably, before its work begins.
StartStep ==
    /\ Runnable
    /\ ~stopped
    /\ Open # {}
    /\ steps[Current] # "waiting_human"
    /\ Save(Current, "running", "running")
    /\ call' = [at |-> "work", i |-> Current, wasWaiting |-> FALSE,
                outcome |-> "done", files |-> <<>>]
    /\ UNCHANGED <<plan, register, approvals, stopped, record, exported, world>>

\* A step already waiting for a human is polled, which writes nothing.
PollStep ==
    /\ Runnable
    /\ ~stopped
    /\ Open # {}
    /\ steps[Current] = "waiting_human"
    /\ call' = [at |-> "work", i |-> Current, wasWaiting |-> TRUE,
                outcome |-> "done", files |-> <<>>]
    /\ UNCHANGED <<plan, row, register, approvals, stopped, record, exported, world>>

-----------------------------------------------------------------------------
(* run_step. *)

\* infer: the arch has answered, and that it was called is recorded first.
CallArch ==
    /\ Working({"infer", "draft"})
    /\ inferred < MaxCalls
    /\ inferred' = inferred + 1
    /\ Goto("raise")
    /\ UNCHANGED <<plan, row, register, approvals, stopped, stepEvents, released, exported, world>>

\* ... then its answer is raised into the register.  A draft goes on to attach
\* the answer, any other inference step is done.
RaiseAnswer ==
    /\ call.at = "raise"
    /\ revision' = revision + 1
    /\ IF plan[call.i] = "draft" THEN Goto("attach") ELSE Conclude("done")
    /\ UNCHANGED <<plan, row, artefacts, approvals, stopped, record, exported, world>>

\* attach_artefact: the reference is pushed onto the register.
AttachArtefact ==
    /\ call.at = "attach"
    /\ \E c \in Contents : artefacts' = Append(artefacts, c)
    /\ Conclude("done")
    /\ UNCHANGED <<plan, row, revision, approvals, stopped, record, exported, world>>

\* A harness step, or an approve step without the human approval of its
\* subject.  Polled again, nothing transitions and nothing is written.
Wait ==
    /\ \/ Working({"harness"})
       \/ Working({"approve"}) /\ Subject \notin approvals
    /\ IF call.wasWaiting THEN Return ELSE Conclude("waiting_human")
    /\ UNCHANGED <<plan, row, register, approvals, stopped, record, exported, world>>

\* Variant of FindApproval: a polled step returns without looking at the outcome.
FindApprovalUnpolled ==
    /\ Working({"approve"})
    /\ Subject \in approvals
    /\ IF call.wasWaiting THEN Return ELSE Conclude("done")
    /\ UNCHANGED <<plan, row, register, approvals, stopped, record, exported, world>>

FindApproval ==
    /\ Working({"approve"})
    /\ Subject \in approvals
    /\ Conclude("done")
    /\ UNCHANGED <<plan, row, register, approvals, stopped, record, exported, world>>

\* Every artefact of the register is named in the ledger before any is written.
RecordRelease ==
    /\ Working({"release"})
    /\ released' = released \cup {artefacts}
    /\ call' = [call EXCEPT !.at = "export", !.files = artefacts]
    /\ UNCHANGED <<plan, row, register, approvals, stopped, inferred, stepEvents, exported, world>>

ExportFile ==
    /\ call.at = "export"
    /\ call.files # <<>>
    /\ exported' = exported \cup {Head(call.files)}
    /\ call' = [call EXCEPT !.files = Tail(@)]
    /\ UNCHANGED <<plan, row, register, approvals, stopped, record, world>>

FinishRelease ==
    /\ call.at = "export"
    /\ call.files = <<>>
    /\ Conclude("done")
    /\ UNCHANGED <<plan, row, register, approvals, stopped, record, exported, world>>

-----------------------------------------------------------------------------
(* run_task_step, after the work: the ledger, then the row. *)

LogStep ==
    /\ call.at = "log"
    /\ stepEvents' = [stepEvents EXCEPT ![call.i] = @ + 1]
    /\ Goto("save")
    /\ UNCHANGED <<plan, row, register, approvals, stopped, inferred, released, exported, world>>

SaveStep ==
    /\ call.at = "save"
    /\ Save(call.i, call.outcome,
            IF call.outcome = "waiting_human" THEN "waiting_human"
            ELSE IF Open \ {call.i} = {} THEN "done" ELSE "running")
    /\ Return
    /\ UNCHANGED <<plan, register, approvals, stopped, record, exported, world>>

\* write_register puts the row and then logs "register.written": when the log
\* fails, the register has already changed.
RegisterWritten ==
    \/ call.at = "raise" /\ revision' = revision + 1 /\ UNCHANGED artefacts
    \/ /\ call.at = "attach"
       /\ \E c \in Contents : artefacts' = Append(artefacts, c)
       /\ UNCHANGED revision

\* The work of the step fails (no arch, a refused label, a write, a file): the
\* reason is kept on the step and the task is failed.
FailStep ==
    /\ faults < MaxFaults
    /\ call.at \in {"work", "raise", "attach", "export"}
    /\ UNCHANGED register \/ RegisterWritten
    /\ Save(call.i, "failed", "failed")
    /\ Return
    /\ faults' = faults + 1
    /\ UNCHANGED <<plan, approvals, stopped, record, exported, runs, asked, stops>>

\* The daemon dies in mid-call, or a write of the scheduler itself fails and
\* `?` leaves the row as it was last saved; the command ends in an error.
Abandon ==
    /\ faults < MaxFaults
    /\ call # Idle
    /\ Return
    /\ runs' = 0
    /\ faults' = faults + 1
    /\ UNCHANGED <<plan, row, register, approvals, stopped, record, exported, asked, stops>>

-----------------------------------------------------------------------------
(* The human, between calls. *)

\* task.subject answers only while the task is at an approve step.
AskSubject ==
    /\ call = Idle
    /\ Open # {}
    /\ plan[Current] = "approve"
    /\ asked' = asked \cup {Subject}
    /\ UNCHANGED <<plan, row, register, approvals, stopped, record, exported, call, runs, faults, stops>>

\* approve: a subject once asked for, signed and sent at any later time.
Approve(subject) ==
    /\ call = Idle
    /\ subject \in asked
    /\ approvals' = approvals \cup {subject}
    /\ UNCHANGED <<plan, row, register, stopped, record, exported, call, world>>

StopNode ==
    /\ call = Idle
    /\ ~stopped
    /\ stops < MaxStops
    /\ stopped' = TRUE
    /\ stops' = stops + 1
    /\ UNCHANGED <<plan, row, register, approvals, record, exported, call, runs, asked, faults>>

ResumeNode ==
    /\ call = Idle
    /\ stopped
    /\ stopped' = FALSE
    /\ UNCHANGED <<plan, row, register, approvals, record, exported, call, world>>

-----------------------------------------------------------------------------
RunTaskStep ==
    \/ ReturnTerminal
    \/ RefuseUnderStop
    \/ FinishEmpty
    \/ StartStep
    \/ PollStep
    \/ CallArch
    \/ RaiseAnswer
    \/ AttachArtefact
    \/ Wait
    \/ FindApproval
    \/ RecordRelease
    \/ ExportFile
    \/ FinishRelease
    \/ LogStep
    \/ SaveStep

Next ==
    \/ TaskStep
    \/ EndCommand
    \/ RunTaskStep
    \/ FailStep
    \/ Abandon
    \/ AskSubject
    \/ \E subject \in Subjects : Approve(subject)
    \/ StopNode
    \/ ResumeNode

Spec == Init /\ [][Next]_vars

\* A client keeps stepping the task (`vk task step --all`, repeated), a STOP is
\* lifted in the end, and a human answers what the task waits for.  The human's
\* requests take the kernel mutex between the client's: strongly fair, since a
\* client that polls is between two round trips infinitely often and a request
\* that waits for the mutex is not passed over for ever.
ApproveCurrent == Subject \notin approvals /\ Approve(Subject)
FairSpec ==
    /\ Spec
    /\ WF_vars(TaskStep \/ EndCommand)
    /\ WF_vars(RunTaskStep)
    /\ SF_vars(AskSubject)
    /\ SF_vars(ApproveCurrent)
    /\ SF_vars(ResumeNode)

-----------------------------------------------------------------------------
(* Properties. *)

TypeOK ==
    /\ plan \in Plans
    /\ status \in TaskStatus
    /\ steps \in [Steps -> StepStatus]
    /\ revision \in 0..MaxCalls
    /\ artefacts \in Seq(Contents) /\ Len(artefacts) <= revision
    /\ approvals \subseteq Subjects
    /\ stopped \in BOOLEAN
    /\ inferred \in 0..MaxCalls
    /\ stepEvents \in [Steps -> Nat]
    /\ \A r \in released : r \in Seq(Contents)
    /\ exported \subseteq Contents
    /\ runs \in 0..MaxSteps
    /\ call \in {Idle, Called}
       \/ (call.at \in {"work", "raise", "attach", "export", "log", "save"}
           /\ call.i \in Steps /\ call.i = Current)
    /\ asked \subseteq Subjects
    /\ faults \in 0..MaxFaults
    /\ stops \in 0..MaxStops

\* A plan that guards its release: an approve step with no draft after it.
Guarded == \A i \in Steps : plan[i] = "release" =>
    \E a \in 1..(i - 1) : plan[a] = "approve" /\ \A d \in a..i : plan[d] # "draft"

\* No release is recorded whose latest artefact no human approved, however
\* often steps crashed and ran again.
ReleaseIsApproved ==
    Guarded => \A r \in released : r # <<>> => r[Len(r)] \in approvals

\* No plaintext leaves the kernel unrecorded: every exported artefact is named
\* by a release event ("Ledger before the bytes", tasks.rs).
ExportIsRecorded ==
    \A a \in exported : \E r \in released : \E k \in 1..Len(r) : r[k] = a

\* A step recorded as done left its trace in the ledger ("never a step recorded
\* as `Done` with no trace of it having happened", tasks.rs).
DoneIsRecorded == \A i \in Steps : steps[i] = "done" => stepEvents[i] > 0

\* Nothing overtakes a step, in particular one that waits for a human.
StepsRunInOrder ==
    \A i \in Steps : steps[i] # "pending" => \A j \in 1..(i - 1) : steps[j] = "done"

\* The record of a task is whole, whatever step crashed, failed or ran again: types
\* included, its steps in order, none done and nothing exported without a trace.
RecordIsWhole == TypeOK /\ StepsRunInOrder /\ DoneIsRecorded /\ ExportIsRecorded

\* A task that something holds stays as it is: one that ended is not restarted,
\* restated or retried; on a stopped node no step starts, no arch is called and
\* nothing is released or exported; polling a step that waits for a human leaves no
\* trace until the approval is there, so the ledger does not grow with the wait.
HeldTaskIsStill ==
    [][/\ Terminal => row' = row
       /\ stopped => UNCHANGED <<steps, record, register, exported>>
       /\ \A i \in Steps : steps[i] = "waiting_human" /\ stepEvents'[i] # stepEvents[i]
            => Subject \in approvals]_vars

\* `vk task step --all` never gives up on a task that would still move: one
\* command needs no more calls than the longest plan has steps ("had not settled
\* after MAX_STEPS steps", vk-cli/src/main.rs:346-351).
CommandSettles == call = Idle /\ runs >= MaxSteps => Settled

\* With a client that keeps stepping and a human that answers, every task ends,
\* or waits for a harness: no crash, failed write or STOP leaves it stuck.
AtRest == Terminal \/ (\E i \in Steps : plan[i] = "harness" /\ steps[i] = "waiting_human")
TaskSettles == <>AtRest

\* "approval names it, release writes it": every artefact that is exported from
\* a guarded plan is one a human approved.
ExportIsApproved == Guarded => exported \subseteq approvals
=============================================================================
