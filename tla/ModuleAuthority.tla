--------------------------- MODULE ModuleAuthority ---------------------------
(***************************************************************************)
(* What the kernel promises about modules: the in-memory kernel of vk-stub *)
(* with no disk, no failure and no process.  An approval is recorded if I1 *)
(* holds, a module becomes hot if its gate passed and a human approved it  *)
(* where one is needed, and it leaves its business declassified.           *)
(***************************************************************************)
EXTENDS ModuleGates

CONSTANTS Devices, Keys, Approvals, Manifests, Verdicts, Times, ExportScopes

VARIABLES
    devices,        \* DeviceRegistry: device -> verifying key
    approvals,
    hot,            \* the manifests promoted last, by subject
    exported        \* set of <<subject, scope>>

vars == <<devices, approvals, hot, exported>>

-----------------------------------------------------------------------------
Put(f, k, v) == [x \in DOMAIN f \cup {k} |-> IF x = k THEN v ELSE f[x]]

Init ==
    /\ devices = <<>>
    /\ approvals = {}
    /\ hot = <<>>
    /\ exported = {}

Enroll(d, k) ==
    /\ devices' = Put(devices, d, k)
    /\ UNCHANGED <<approvals, hot, exported>>

Approve(caller, a, now) ==
    /\ I1Approval(caller, a, devices, now)
    /\ approvals' = approvals \cup {a}
    /\ UNCHANGED <<devices, hot, exported>>

HasHuman(subject) == \E a \in approvals : a.subject = subject /\ a.kind = "human"

Promote(m, verdicts) ==
    /\ Validates(m)
    /\ Passed(verdicts, "annex_iii", m.subject)
    /\ NeedsHuman(m) => HasHuman(m.subject)
    /\ hot' = Put(hot, m.subject, m)
    /\ UNCHANGED <<devices, approvals, exported>>

Export(subject, scope, verdicts) ==
    /\ LeavesBusiness(scope) => Passed(verdicts, "declassification", subject)
    /\ exported' = exported \cup {<<subject, scope>>}
    /\ UNCHANGED <<devices, approvals, hot>>

Next ==
    \/ \E d \in Devices, k \in Keys : Enroll(d, k)
    \/ \E c \in Devices \cup {Machine}, a \in Approvals, now \in Times : Approve(c, a, now)
    \/ \E m \in Manifests, v \in Verdicts : Promote(m, v)
    \/ \E m \in Manifests, s \in ExportScopes, v \in Verdicts : Export(m.subject, s, v)

Spec == Init /\ [][Next]_vars
=============================================================================
