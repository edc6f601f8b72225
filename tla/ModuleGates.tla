----------------------------- MODULE ModuleGates -----------------------------
(***************************************************************************)
(* What has to be shown before a module runs or leaves: the validation of  *)
(* its manifest, the I1 check of an approval and the verdicts of gates.    *)
(* The real kernel and its in-memory reference share these functions.      *)
(*                                                                         *)
(* A manifest is a record [subject, auto, person, evolved, script]: its    *)
(* content hash; "none" without an autonomy profile, else whether the      *)
(* profile allows auto-approval; whether it is tagged                      *)
(* decision_about_person; whether a machine evolved it; whether it holds a *)
(* script or a validator.  An approval is a record                         *)
(* [subject, kind, approver, action, expires, key]: the last three are the *)
(* challenge, the subject it was issued for and the key that signed it.    *)
(***************************************************************************)
EXTENDS Naturals

Machine == "machine"

\* Variant of VerifyHuman: the signature is checked, not what it was given for.
VerifyHumanAnySubject(a, devices, now) ==
    /\ now < a.expires
    /\ a.approver \in DOMAIN devices
    /\ devices[a.approver] = a.key

\* Approval::verify_human: the challenge names the subject, has not expired, and is
\* signed by the key enrolled for the approver.
VerifyHuman(a, devices, now) ==
    /\ a.action = a.subject
    /\ now < a.expires
    /\ a.approver \in DOMAIN devices
    /\ devices[a.approver] = a.key

\* i1_approval: only a human, over a channel of their own, gives a human approval.
I1Approval(caller, a, devices, now) ==
    a.kind = "human" =>
        /\ caller # Machine /\ a.approver = caller
        /\ VerifyHuman(a, devices, now)

\* ModuleManifest::validate.
Validates(m) ==
    /\ m.evolved => ~m.script
    /\ m.person => m.auto # "yes"

NeedsHuman(m) == m.auto # "yes"

\* A verdict is a record [gate, subject, pass].
Passed(verdicts, gate, subject) ==
    [gate |-> gate, subject |-> subject, pass |-> TRUE] \in verdicts

\* to_scope <= Vertical: the module leaves the business it was made in.
LeavesBusiness(scope) == scope \in {"public", "vertical"}
=============================================================================
