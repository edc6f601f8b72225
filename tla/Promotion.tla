------------------------------ MODULE Promotion ------------------------------
(***************************************************************************)
(* RealKernel: enrolment of devices, approve, promote and export, one      *)
(* action per durable write, with failed writes and a daemon that dies     *)
(* between any two of them.  A call holds the kernel mutex to its end.     *)
(***************************************************************************)
EXTENDS ModuleGates, FiniteSets

CONSTANTS
    Devices, Keys,  \* devices that may be enrolled, and their keys
    Approvals,      \* what a client may present
    Manifests,
    Verdicts,       \* the sets of verdicts a promotion may come with
    Times,          \* ctx.now_ms of a request
    ExportScopes,
    MaxFaults       \* bound: failed writes, failed reads and crashes

ASSUME BoundsAssumption == MaxFaults \in Nat

VARIABLES
    \* The disk.
    deviceRows,     \* table `devices`: device -> key
    approvals,      \* table `approvals`
    hot,            \* table `hot`: subject -> manifest
    events,         \* what the ledger holds: a set of <<kind, what>>
    \* The process.
    up,
    devices,        \* DeviceRegistry
    call,           \* the syscall in progress
    \* What happened.
    refused,        \* approvals that were only ever answered with an error
    faults

disk == <<deviceRows, approvals, hot, events>>
vars == <<disk, up, devices, call, refused, faults>>

-----------------------------------------------------------------------------
Subjects == {m.subject : m \in Manifests}
Idle == [at |-> "idle"]
Put(f, k, v) == [x \in DOMAIN f \cup {k} |-> IF x = k THEN v ELSE f[x]]
Ready == up /\ call = Idle
Goto(at) == call' = [call EXCEPT !.at = at]
Log(kind, what) == events' = events \cup {<<kind, what>>}
Callers == Devices \cup {Machine}

-----------------------------------------------------------------------------
(* enroll_device_persisted: row, registry, event. *)

CallEnroll ==
    /\ Ready
    /\ \E d \in Devices, k \in Keys : call' = [at |-> "deviceRow", device |-> d, key |-> k]
    /\ UNCHANGED <<disk, up, devices, refused, faults>>

DeviceRow ==
    /\ call.at = "deviceRow"
    /\ deviceRows' = Put(deviceRows, call.device, call.key)
    /\ devices' = Put(devices, call.device, call.key)
    /\ Goto("logDevice")
    /\ UNCHANGED <<approvals, hot, events, up, refused, faults>>

LogDevice ==
    /\ call.at = "logDevice"
    /\ Log("device.enrolled", call.device)
    /\ call' = Idle
    /\ UNCHANGED <<deviceRows, approvals, hot, up, devices, refused, faults>>

-----------------------------------------------------------------------------
(* approve: the event, then the row. *)

CallApprove ==
    /\ Ready
    /\ \E caller \in Callers, a \in Approvals, now \in Times :
         /\ I1Approval(caller, a, devices, now)
         /\ call' = [at |-> "logApproval", approval |-> a, known |-> a \in approvals]
    /\ UNCHANGED <<disk, up, devices, refused, faults>>

\* Variant of LogApproval: the row goes with the event, before it can have failed.
LogApprovalAfterRow ==
    /\ call.at = "logApproval"
    /\ approvals' = approvals \cup {call.approval}
    /\ Goto("approvalRow")
    /\ UNCHANGED <<deviceRows, hot, events, up, devices, refused, faults>>

LogApproval ==
    /\ call.at = "logApproval"
    /\ Log("approval.recorded", call.approval)
    /\ Goto("approvalRow")
    /\ UNCHANGED <<deviceRows, approvals, hot, up, devices, refused, faults>>

ApprovalRow ==
    /\ call.at = "approvalRow"
    /\ approvals' = approvals \cup {call.approval}
    /\ refused' = refused \ {call.approval}     \* the caller is told Ok
    /\ call' = Idle
    /\ UNCHANGED <<deviceRows, hot, events, up, devices, faults>>

-----------------------------------------------------------------------------
(* promote: the event, then the row. *)

\* approvals_for, by the subject of the stored value; a table that cannot be read is
\* taken for an empty one.
HasHuman(rows, subject) == \E a \in rows : a.subject = subject /\ a.kind = "human"

\* Variant of MayPromote: a kind of approval is as good as another.
MayPromoteAnyKind(m, verdicts, rows) ==
    /\ Validates(m)
    /\ Passed(verdicts, "annex_iii", m.subject)
    /\ NeedsHuman(m) => \E a \in rows : a.subject = m.subject

MayPromote(m, verdicts, rows) ==
    /\ Validates(m)
    /\ Passed(verdicts, "annex_iii", m.subject)
    /\ NeedsHuman(m) => HasHuman(rows, m.subject)

CallPromote ==
    /\ Ready
    /\ \E m \in Manifests, v \in Verdicts :
         /\ \/ MayPromote(m, v, approvals) /\ UNCHANGED faults
            \/ /\ faults < MaxFaults /\ faults' = faults + 1
               /\ MayPromote(m, v, {})
         /\ call' = [at |-> "logPromoted", manifest |-> m]
    /\ UNCHANGED <<disk, up, devices, refused>>

LogPromoted ==
    /\ call.at = "logPromoted"
    /\ Log("module.promoted", call.manifest.subject)
    /\ Goto("hotRow")
    /\ UNCHANGED <<deviceRows, approvals, hot, up, devices, refused, faults>>

HotRow ==
    /\ call.at = "hotRow"
    /\ hot' = Put(hot, call.manifest.subject, call.manifest)
    /\ call' = Idle
    /\ UNCHANGED <<deviceRows, approvals, events, up, devices, refused, faults>>

\* export writes the event and nothing else.
Export ==
    /\ Ready
    /\ \E s \in Subjects, scope \in ExportScopes, v \in Verdicts :
         /\ LeavesBusiness(scope) => Passed(v, "declassification", s)
         /\ Log("module.exported", <<s, scope>>)
    /\ UNCHANGED <<deviceRows, approvals, hot, up, devices, call, refused, faults>>

-----------------------------------------------------------------------------
(* Faults *)

\* A write of the call in progress fails: the caller has an error.
WriteFails ==
    /\ call # Idle /\ faults < MaxFaults
    /\ refused' = IF call.at \in {"logApproval", "approvalRow"} /\ ~call.known
                  THEN refused \cup {call.approval} ELSE refused
    /\ call' = Idle
    /\ faults' = faults + 1
    /\ UNCHANGED <<disk, up, devices>>

Crash ==
    /\ up /\ faults < MaxFaults
    /\ up' = FALSE
    /\ call' = Idle
    /\ devices' = <<>>
    /\ faults' = faults + 1
    /\ UNCHANGED <<disk, refused>>

Load ==
    /\ ~up
    /\ up' = TRUE
    /\ devices' = deviceRows
    /\ UNCHANGED <<disk, call, refused, faults>>

-----------------------------------------------------------------------------
Init ==
    /\ deviceRows = <<>>
    /\ approvals = {}
    /\ hot = <<>>
    /\ events = {}
    /\ up = TRUE
    /\ devices = <<>>
    /\ call = Idle
    /\ refused = {}
    /\ faults = 0

Next ==
    \/ CallEnroll \/ DeviceRow \/ LogDevice
    \/ CallApprove \/ LogApproval \/ ApprovalRow
    \/ CallPromote \/ LogPromoted \/ HotRow \/ Export
    \/ WriteFails \/ Crash \/ Load

Spec == Init /\ [][Next]_vars

-----------------------------------------------------------------------------
(* Properties *)

\* Every variable keeps its type; a running node enforces the devices on disk and
\* no others (enroll_device_persisted, load).
TypeOK ==
    /\ DOMAIN deviceRows \subseteq Devices /\ \A d \in DOMAIN deviceRows : deviceRows[d] \in Keys
    /\ approvals \subseteq Approvals /\ refused \subseteq Approvals
    /\ \A s \in DOMAIN hot : hot[s] \in Manifests /\ hot[s].subject = s
    /\ up \in BOOLEAN
    /\ devices = IF up THEN deviceRows ELSE <<>>
    /\ faults \in 0..MaxFaults

\* An approval that returned an error approves nothing, then or after a restart: a
\* later promotion must not find it (approve: "Ledger first").
RefusedApprovesNothing == refused \cap approvals = {}

\* A hot module that needs a human has on record the approval of a human, signed for
\* this very module by a key that was enrolled (promote, i1_approval).
HotIsApproved ==
    \A s \in DOMAIN hot : NeedsHuman(hot[s]) =>
        \E a \in approvals : /\ a.subject = s /\ a.action = s /\ a.kind = "human"
                             /\ a.approver \in DOMAIN deviceRows

\* No module that decides about persons runs without a human approval, whatever its
\* profile says (validate, GDPR Art. 22).
PersonDecisionsAreHuman ==
    \A s \in DOMAIN hot : hot[s].person => HasHuman(approvals, s)

\* Nothing takes effect unaudited: a hot module and a recorded approval have their
\* events (promote, approve).
EffectsAreAudited ==
    /\ \A s \in DOMAIN hot : <<"module.promoted", s>> \in events
    /\ \A a \in approvals : <<"approval.recorded", a>> \in events

\* What takes effect is backed by the record, and nothing else counts as approved.
EffectsAreBacked == TypeOK /\ EffectsAreAudited /\ RefusedApprovesNothing

\* A module runs only with the approval it needs, one about persons always with a
\* human's.
HotIsJustified == HotIsApproved /\ PersonDecisionsAreHuman

\* The node with its disk, failures and restarts keeps the promise of the in-memory
\* kernel: rows are what is promised, the registry is the table.
Authority == INSTANCE ModuleAuthority WITH
    devices <- deviceRows,
    exported <- {e[2] : e \in {x \in events : x[1] = "module.exported"}}
ImplementsAuthority == Authority!Spec
=============================================================================
