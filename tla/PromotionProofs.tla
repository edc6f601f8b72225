--------------------------- MODULE PromotionProofs ---------------------------
(***************************************************************************)
(* Approval, promotion and export for any devices, manifests, approvals    *)
(* and number of faults: what takes effect is justified and recorded, and  *)
(* the kernel with its disk implements the one without.                    *)
(***************************************************************************)
EXTENDS Promotion, TLAPS

CallType ==
    call \in {Idle}
        \cup [at : {"deviceRow", "logDevice"}, device : Devices, key : Keys]
        \cup [at : {"logApproval", "approvalRow"}, approval : Approvals, known : BOOLEAN]
        \cup [at : {"logPromoted", "hotRow"}, manifest : Manifests]

\* Only a running node has a call in progress.
CallsRun == call # Idle => up

\* Every human approval on record was given for its subject by an enrolled device.
ApprovalsAreGiven ==
    \A a \in approvals : a.kind = "human" => a.action = a.subject /\ a.approver \in DOMAIN deviceRows

\* An approval in progress passed I1 and knows whether it was there before; its row
\* comes after its event.
ApprovalIsChecked ==
    call.at \in {"logApproval", "approvalRow"} =>
        /\ \E caller \in Callers, now \in Times : I1Approval(caller, call.approval, deviceRows, now)
        /\ call.known = (call.approval \in approvals)
        /\ call.at = "approvalRow" => <<"approval.recorded", call.approval>> \in events

\* A promotion in progress passed its gates; its row comes after its event.
PromotionIsChecked ==
    call.at \in {"logPromoted", "hotRow"} =>
        /\ \E v \in Verdicts : MayPromote(call.manifest, v, approvals)
        /\ call.at = "hotRow" => <<"module.promoted", call.manifest.subject>> \in events

\* The call in progress is well formed and was checked.
CallIsChecked == CallType /\ ApprovalIsChecked /\ PromotionIsChecked

\* The inductive invariant.
IInv ==
    /\ EffectsAreBacked
    /\ HotIsJustified
    /\ CallsRun
    /\ ApprovalsAreGiven
    /\ CallIsChecked

-----------------------------------------------------------------------------
LEMMA InvInit == Init => IInv
<1> SUFFICES ASSUME Init PROVE IInv
    OBVIOUS
<1>1. EffectsAreBacked
    BY BoundsAssumption DEF Init, EffectsAreBacked, TypeOK, EffectsAreAudited, RefusedApprovesNothing
<1>2. HotIsJustified
    BY DEF Init, HotIsJustified, HotIsApproved, PersonDecisionsAreHuman
<1>3. CallsRun /\ ApprovalsAreGiven /\ CallIsChecked
    BY DEF Init, Idle, CallIsChecked, CallType, CallsRun, ApprovalsAreGiven, ApprovalIsChecked, PromotionIsChecked
<1> QED BY <1>1, <1>2, <1>3 DEF IInv

-----------------------------------------------------------------------------
(* One lemma per action. *)

\* What only looks at the disk holds as long as the disk does not change.
LEMMA DurableKeeps == IInv /\ UNCHANGED disk => EffectsAreAudited' /\ HotIsJustified' /\ ApprovalsAreGiven'
BY DEF IInv, EffectsAreBacked, EffectsAreAudited, HotIsJustified, HotIsApproved, PersonDecisionsAreHuman,
       HasHuman, ApprovalsAreGiven, disk

\* A call that starts checks its gates and changes nothing.
LEMMA CallKeeps == IInv /\ (CallEnroll \/ CallApprove \/ CallPromote) => IInv'
<1> SUFFICES ASSUME IInv, CallEnroll \/ CallApprove \/ CallPromote PROVE IInv'
    OBVIOUS
<1>1. /\ UNCHANGED <<deviceRows, approvals, hot, events, up, devices, refused>>
      /\ up /\ devices = deviceRows
      /\ faults' \in 0..MaxFaults
    BY BoundsAssumption
       DEF CallEnroll, CallApprove, CallPromote, Ready, disk, IInv, EffectsAreBacked, TypeOK
<1>2. TypeOK' /\ RefusedApprovesNothing' /\ CallsRun'
    BY <1>1 DEF IInv, EffectsAreBacked, TypeOK, RefusedApprovesNothing, CallsRun
<1>3. EffectsAreAudited' /\ HotIsJustified' /\ ApprovalsAreGiven'
    BY <1>1, DurableKeeps DEF disk
<1>4. ASSUME CallEnroll PROVE CallIsChecked'
    <2>1. PICK d \in Devices, k \in Keys : call' = [at |-> "deviceRow", device |-> d, key |-> k]
        BY <1>4 DEF CallEnroll
    <2> QED BY <2>1 DEF CallIsChecked, CallType, ApprovalIsChecked, PromotionIsChecked
<1>5. ASSUME CallApprove PROVE CallIsChecked'
    <2>1. PICK caller \in Callers, a \in Approvals, now \in Times :
              /\ I1Approval(caller, a, devices, now)
              /\ call' = [at |-> "logApproval", approval |-> a, known |-> a \in approvals]
        BY <1>5 DEF CallApprove
    <2>2. CallType' /\ PromotionIsChecked'
        BY <2>1 DEF CallType, PromotionIsChecked
    <2>3. ApprovalIsChecked'
        BY <1>1, <2>1 DEF ApprovalIsChecked
    <2> QED BY <2>2, <2>3 DEF CallIsChecked
<1>6. ASSUME CallPromote PROVE CallIsChecked'
    <2>1. PICK m \in Manifests, v \in Verdicts :
              /\ MayPromote(m, v, approvals) \/ MayPromote(m, v, {})
              /\ call' = [at |-> "logPromoted", manifest |-> m]
        BY <1>6 DEF CallPromote
    <2>2. MayPromote(m, v, approvals)
        BY <2>1 DEF MayPromote, HasHuman
    <2>3. CallType' /\ ApprovalIsChecked'
        BY <2>1 DEF CallType, ApprovalIsChecked
    <2>4. PromotionIsChecked'
        BY <1>1, <2>1, <2>2 DEF PromotionIsChecked
    <2> QED BY <2>3, <2>4 DEF CallIsChecked
<1> QED BY <1>2, <1>3, <1>4, <1>5, <1>6 DEF IInv, EffectsAreBacked
\* The fields of the call in progress, by what it is at.
LEMMA CallFields ==
    ASSUME CallType
    PROVE  /\ call.at \in {"deviceRow", "logDevice"} =>
                  call \in [at : {"deviceRow", "logDevice"}, device : Devices, key : Keys]
           /\ call.at \in {"logApproval", "approvalRow"} =>
                  call \in [at : {"logApproval", "approvalRow"}, approval : Approvals, known : BOOLEAN]
           /\ call.at \in {"logPromoted", "hotRow"} =>
                  call \in [at : {"logPromoted", "hotRow"}, manifest : Manifests]
           /\ call.at = "idle" => call = Idle
           /\ call.at \in {"idle", "deviceRow", "logDevice", "logApproval", "approvalRow",
                           "logPromoted", "hotRow"}
BY DEF CallType, Idle

LEMMA DeviceRowKeeps == IInv /\ DeviceRow => IInv'
<1> SUFFICES ASSUME IInv, DeviceRow PROVE IInv'
    OBVIOUS
<1>1. /\ call.at = "deviceRow" /\ call.device \in Devices /\ call.key \in Keys /\ call # Idle
      /\ deviceRows' = Put(deviceRows, call.device, call.key)
      /\ devices' = Put(devices, call.device, call.key)
      /\ call' = [call EXCEPT !.at = "logDevice"]
      /\ UNCHANGED <<approvals, hot, events, up, refused, faults>>
    BY CallFields DEF DeviceRow, Goto, Idle, IInv, CallIsChecked
<1>2. up /\ devices = deviceRows
    BY <1>1 DEF IInv, CallsRun, EffectsAreBacked, TypeOK
<1>3. DOMAIN deviceRows' = DOMAIN deviceRows \cup {call.device}
      /\ deviceRows'[call.device] = call.key
      /\ \A d \in DOMAIN deviceRows \ {call.device} : deviceRows'[d] = deviceRows[d]
    BY <1>1 DEF Put
<1>4. TypeOK'
    BY <1>1, <1>2, <1>3 DEF IInv, EffectsAreBacked, TypeOK
<1>5. EffectsAreAudited' /\ RefusedApprovesNothing' /\ CallsRun'
    BY <1>1, <1>2 DEF IInv, EffectsAreBacked, EffectsAreAudited, RefusedApprovesNothing, CallsRun
<1>6. HotIsJustified' /\ ApprovalsAreGiven'
    BY <1>1, <1>3 DEF IInv, HotIsJustified, HotIsApproved, PersonDecisionsAreHuman, HasHuman, ApprovalsAreGiven
<1>7. CallIsChecked'
    <2>1. call' \in [at : {"deviceRow", "logDevice"}, device : Devices, key : Keys]
          /\ call'.at = "logDevice"
        BY <1>1, CallFields DEF IInv, CallIsChecked
    <2> QED BY <2>1 DEF CallIsChecked, CallType, ApprovalIsChecked, PromotionIsChecked
<1> QED BY <1>4, <1>5, <1>6, <1>7 DEF IInv, EffectsAreBacked

\* A call that ends leaves no call to check.
LEMMA Ended == call' = Idle => CallIsChecked' /\ CallsRun'
BY DEF CallIsChecked, CallType, ApprovalIsChecked, PromotionIsChecked, CallsRun, Idle

\* An event more backs all that was backed.
LEMMA Logged ==
    ASSUME IInv, NEW e, events' = events \cup {e},
           UNCHANGED <<deviceRows, approvals, hot, up, devices, refused, faults>>
    PROVE  EffectsAreBacked' /\ HotIsJustified' /\ ApprovalsAreGiven'
BY DEF IInv, EffectsAreBacked, TypeOK, EffectsAreAudited, RefusedApprovesNothing, HotIsJustified, HotIsApproved,
       PersonDecisionsAreHuman, HasHuman, ApprovalsAreGiven

LEMMA LogDeviceKeeps == IInv /\ LogDevice => IInv'
BY Logged, Ended DEF LogDevice, Log, IInv

LEMMA LogApprovalKeeps == IInv /\ LogApproval => IInv'
<1> SUFFICES ASSUME IInv, LogApproval PROVE IInv'
    OBVIOUS
<1>1. /\ call.at = "logApproval" /\ call # Idle
      /\ events' = events \cup {<<"approval.recorded", call.approval>>}
      /\ call' = [call EXCEPT !.at = "approvalRow"]
      /\ UNCHANGED <<deviceRows, approvals, hot, up, devices, refused, faults>>
    BY DEF LogApproval, Log, Goto, Idle
<1>2. EffectsAreBacked' /\ HotIsJustified' /\ ApprovalsAreGiven'
    BY <1>1, Logged
<1>3. call' \in [at : {"logApproval", "approvalRow"}, approval : Approvals, known : BOOLEAN]
      /\ call'.at = "approvalRow" /\ call'.approval = call.approval /\ call'.known = call.known
    BY <1>1, CallFields DEF IInv, CallIsChecked
<1>4. CallType' /\ PromotionIsChecked'
    BY <1>3 DEF CallType, PromotionIsChecked
<1>5. ApprovalIsChecked'
    BY <1>1, <1>3 DEF IInv, CallIsChecked, ApprovalIsChecked
<1>6. CallsRun'
    BY <1>1 DEF IInv, CallsRun
<1> QED BY <1>2, <1>4, <1>5, <1>6 DEF IInv, CallIsChecked

LEMMA ApprovalRowKeeps == IInv /\ ApprovalRow => IInv'
<1> SUFFICES ASSUME IInv, ApprovalRow PROVE IInv'
    OBVIOUS
<1>1. /\ call.at = "approvalRow" /\ call.approval \in Approvals /\ call' = Idle
      /\ approvals' = approvals \cup {call.approval}
      /\ refused' = refused \ {call.approval}
      /\ UNCHANGED <<deviceRows, hot, events, up, devices, faults>>
    BY CallFields DEF ApprovalRow, IInv, CallIsChecked
<1>2. /\ <<"approval.recorded", call.approval>> \in events
      /\ \E caller \in Callers, now \in Times : I1Approval(caller, call.approval, deviceRows, now)
    BY <1>1 DEF IInv, CallIsChecked, ApprovalIsChecked
<1>3. TypeOK' /\ EffectsAreAudited' /\ RefusedApprovesNothing'
    BY <1>1, <1>2 DEF IInv, EffectsAreBacked, TypeOK, EffectsAreAudited, RefusedApprovesNothing
<1>4. HotIsJustified'
    BY <1>1 DEF IInv, HotIsJustified, HotIsApproved, PersonDecisionsAreHuman, HasHuman
<1>5. ApprovalsAreGiven'
    BY <1>1, <1>2 DEF IInv, ApprovalsAreGiven, I1Approval, VerifyHuman
<1> QED BY <1>1, <1>3, <1>4, <1>5, Ended DEF IInv, EffectsAreBacked

LEMMA LogPromotedKeeps == IInv /\ LogPromoted => IInv'
<1> SUFFICES ASSUME IInv, LogPromoted PROVE IInv'
    OBVIOUS
<1>1. /\ call.at = "logPromoted" /\ call # Idle
      /\ events' = events \cup {<<"module.promoted", call.manifest.subject>>}
      /\ call' = [call EXCEPT !.at = "hotRow"]
      /\ UNCHANGED <<deviceRows, approvals, hot, up, devices, refused, faults>>
    BY DEF LogPromoted, Log, Goto, Idle
<1>2. EffectsAreBacked' /\ HotIsJustified' /\ ApprovalsAreGiven'
    BY <1>1, Logged
<1>3. call' \in [at : {"logPromoted", "hotRow"}, manifest : Manifests]
      /\ call'.at = "hotRow" /\ call'.manifest = call.manifest
    BY <1>1, CallFields DEF IInv, CallIsChecked
<1>4. CallType' /\ ApprovalIsChecked'
    BY <1>3 DEF CallType, ApprovalIsChecked
<1>5. PromotionIsChecked'
    BY <1>1, <1>3 DEF IInv, CallIsChecked, PromotionIsChecked
<1>6. CallsRun'
    BY <1>1 DEF IInv, CallsRun
<1> QED BY <1>2, <1>4, <1>5, <1>6 DEF IInv, CallIsChecked

LEMMA HotRowKeeps == IInv /\ HotRow => IInv'
<1> SUFFICES ASSUME IInv, HotRow PROVE IInv'
    OBVIOUS
<1> DEFINE m == call.manifest
<1>1. /\ call.at = "hotRow" /\ m \in Manifests /\ call' = Idle
      /\ hot' = Put(hot, m.subject, m)
      /\ UNCHANGED <<deviceRows, approvals, events, up, devices, refused, faults>>
    BY CallFields DEF HotRow, IInv, CallIsChecked
<1>2. <<"module.promoted", m.subject>> \in events /\ \E v \in Verdicts : MayPromote(m, v, approvals)
    BY <1>1 DEF IInv, CallIsChecked, PromotionIsChecked
<1>3. /\ DOMAIN hot' = DOMAIN hot \cup {m.subject} /\ hot'[m.subject] = m
      /\ \A s \in DOMAIN hot \ {m.subject} : hot'[s] = hot[s]
    BY <1>1 DEF Put
<1> HIDE DEF m
<1>4. TypeOK' /\ EffectsAreAudited' /\ RefusedApprovesNothing'
    BY <1>1, <1>2, <1>3 DEF IInv, EffectsAreBacked, TypeOK, EffectsAreAudited, RefusedApprovesNothing
<1>5. NeedsHuman(m) => \E a \in approvals : /\ a.subject = m.subject /\ a.kind = "human"
                                             /\ a.action = m.subject /\ a.approver \in DOMAIN deviceRows
    BY <1>2 DEF MayPromote, HasHuman, IInv, ApprovalsAreGiven
<1>6. m.person => NeedsHuman(m)
    BY <1>2 DEF MayPromote, Validates, NeedsHuman
<1>7. HotIsApproved'
    BY <1>1, <1>3, <1>5 DEF IInv, HotIsJustified, HotIsApproved
<1>8. PersonDecisionsAreHuman'
    BY <1>1, <1>3, <1>5, <1>6 DEF IInv, HotIsJustified, PersonDecisionsAreHuman, HasHuman
<1>9. ApprovalsAreGiven'
    BY <1>1 DEF IInv, ApprovalsAreGiven
<1> QED BY <1>1, <1>4, <1>7, <1>8, <1>9, Ended DEF IInv, EffectsAreBacked, HotIsJustified

LEMMA ExportKeeps == IInv /\ Export => IInv'
<1> SUFFICES ASSUME IInv, Export PROVE IInv'
    OBVIOUS
<1>1. PICK e : events' = events \cup {e}
    BY DEF Export, Log
<1>2. call = Idle /\ call' = Idle /\ UNCHANGED <<deviceRows, approvals, hot, up, devices, refused, faults>>
    BY DEF Export, Ready
<1> QED BY <1>1, <1>2, Logged, Ended DEF IInv

LEMMA WriteFailsKeeps == IInv /\ WriteFails => IInv'
<1> SUFFICES ASSUME IInv, WriteFails PROVE IInv'
    OBVIOUS
<1>1. /\ call' = Idle /\ faults' \in 0..MaxFaults
      /\ UNCHANGED <<deviceRows, approvals, hot, events, up, devices>>
    BY BoundsAssumption DEF WriteFails, disk, IInv, EffectsAreBacked, TypeOK
<1>2. /\ refused' \subseteq Approvals
      /\ refused' \cap approvals = {}
    <2>1. CASE call.at \in {"logApproval", "approvalRow"} /\ ~call.known
        <3>1. call.approval \in Approvals /\ call.approval \notin approvals
              /\ refused' = refused \cup {call.approval}
            BY <2>1, CallFields DEF WriteFails, IInv, CallIsChecked, ApprovalIsChecked
        <3> QED BY <3>1 DEF IInv, EffectsAreBacked, TypeOK, RefusedApprovesNothing
    <2>2. CASE ~(call.at \in {"logApproval", "approvalRow"} /\ ~call.known)
        BY <2>2 DEF WriteFails, IInv, EffectsAreBacked, TypeOK, RefusedApprovesNothing
    <2> QED BY <2>1, <2>2
<1>3. TypeOK' /\ RefusedApprovesNothing'
    BY <1>1, <1>2 DEF IInv, EffectsAreBacked, TypeOK, RefusedApprovesNothing
<1> QED BY <1>1, <1>3, DurableKeeps, Ended DEF IInv, EffectsAreBacked, disk

LEMMA CrashKeeps == IInv /\ Crash => IInv'
<1> SUFFICES ASSUME IInv, Crash PROVE IInv'
    OBVIOUS
<1>1. /\ call' = Idle /\ up' = FALSE /\ devices' = <<>> /\ faults' \in 0..MaxFaults
      /\ UNCHANGED <<deviceRows, approvals, hot, events, refused>>
    BY BoundsAssumption DEF Crash, disk, IInv, EffectsAreBacked, TypeOK
<1>2. TypeOK' /\ RefusedApprovesNothing'
    BY <1>1 DEF IInv, EffectsAreBacked, TypeOK, RefusedApprovesNothing
<1> QED BY <1>1, <1>2, DurableKeeps, Ended DEF IInv, EffectsAreBacked, disk

LEMMA LoadKeeps == IInv /\ Load => IInv'
<1> SUFFICES ASSUME IInv, Load PROVE IInv'
    OBVIOUS
<1>1. /\ call = Idle /\ call' = Idle /\ up' = TRUE /\ devices' = deviceRows
      /\ UNCHANGED <<deviceRows, approvals, hot, events, refused, faults>>
    BY DEF Load, disk, IInv, CallsRun
<1>2. TypeOK' /\ RefusedApprovesNothing'
    BY <1>1 DEF IInv, EffectsAreBacked, TypeOK, RefusedApprovesNothing
<1> QED BY <1>1, <1>2, DurableKeeps, Ended DEF IInv, EffectsAreBacked, disk

-----------------------------------------------------------------------------
LEMMA NextKeeps == IInv /\ [Next]_vars => IInv'
<1> SUFFICES ASSUME IInv, UNCHANGED vars PROVE IInv'
    BY CallKeeps, DeviceRowKeeps, LogDeviceKeeps, LogApprovalKeeps, ApprovalRowKeeps, LogPromotedKeeps,
       HotRowKeeps, ExportKeeps, WriteFailsKeeps, CrashKeeps, LoadKeeps DEF Next
<1>1. UNCHANGED <<deviceRows, approvals, hot, events, up, devices, call, refused, faults>>
    BY DEF vars, disk
<1>2. TypeOK' /\ RefusedApprovesNothing' /\ CallsRun'
    BY <1>1 DEF IInv, EffectsAreBacked, TypeOK, RefusedApprovesNothing, CallsRun
<1>3. CallType' /\ ApprovalIsChecked' /\ PromotionIsChecked'
    BY <1>1 DEF IInv, CallIsChecked, CallType, ApprovalIsChecked, PromotionIsChecked
<1> QED BY <1>1, <1>2, <1>3, DurableKeeps DEF IInv, EffectsAreBacked, CallIsChecked, disk

\* The invariant holds of every behaviour.
THEOREM Invariant == Spec => []IInv
BY InvInit, NextKeeps, PTL DEF Spec

\* What takes effect has its event, an approval that was only ever refused approves
\* nothing, and a running node enforces the devices on disk (approve, promote, load).
THEOREM Backed == Spec => []EffectsAreBacked
<1>1. IInv => EffectsAreBacked
    BY DEF IInv
<1> QED BY <1>1, Invariant, PTL

\* A hot module that needs a human has a human's approval, given for this module by an
\* enrolled device; one that decides about persons always (promote, i1_approval, validate).
THEOREM Justified == Spec => []HotIsJustified
<1>1. IInv => HotIsJustified
    BY DEF IInv
<1> QED BY <1>1, Invariant, PTL

-----------------------------------------------------------------------------
(* The refinement.  A row that is put is the abstract step, since the calls wait for *)
(* one another: what the call checked at its start still holds.  Every other step    *)
(* leaves what is promised as it is.                                                 *)

AuthorityVars == <<deviceRows, approvals, hot, {e[2] : e \in {x \in events : x[1] = "module.exported"}}>>

LEMMA StepImplements == IInv /\ [Next]_vars => [Authority!Next]_(Authority!vars)
<1> SUFFICES ASSUME IInv, [Next]_vars PROVE Authority!Next \/ UNCHANGED AuthorityVars
    BY DEF Authority!vars, AuthorityVars
<1> DEFINE Exported(log) == {e[2] : e \in {x \in log : x[1] = "module.exported"}}
<1>1. CASE UNCHANGED disk
    BY <1>1 DEF disk, AuthorityVars
<1>2. ASSUME NEW kind, NEW what, kind # "module.exported", events' = events \cup {<<kind, what>>},
             UNCHANGED <<deviceRows, approvals, hot>>
      PROVE  UNCHANGED AuthorityVars
    <2>1. \A x : x \in events' /\ x[1] = "module.exported" <=> x \in events /\ x[1] = "module.exported"
        BY <1>2
    <2>2. Exported(events') = Exported(events)
        BY <2>1
    <2> QED BY <1>2, <2>2 DEF AuthorityVars
<1>3. CASE DeviceRow
    <2>1. /\ call.device \in Devices /\ call.key \in Keys
          /\ deviceRows' = Put(deviceRows, call.device, call.key)
          /\ UNCHANGED <<approvals, hot, events>>
        BY <1>3, CallFields DEF DeviceRow, IInv, CallIsChecked
    <2>2. Authority!Enroll(call.device, call.key)
        BY <2>1 DEF Authority!Enroll, Put, Authority!Put
    <2> QED BY <2>1, <2>2 DEF Authority!Next
<1>4. CASE ApprovalRow
    <2>1. /\ call.at = "approvalRow" /\ call.approval \in Approvals
          /\ approvals' = approvals \cup {call.approval}
          /\ UNCHANGED <<deviceRows, hot, events>>
        BY <1>4, CallFields DEF ApprovalRow, IInv, CallIsChecked
    <2>2. PICK caller \in Callers, now \in Times : I1Approval(caller, call.approval, deviceRows, now)
        BY <2>1 DEF IInv, CallIsChecked, ApprovalIsChecked
    <2>3. Authority!Approve(caller, call.approval, now)
        BY <2>1, <2>2 DEF Authority!Approve, I1Approval, Authority!I1Approval, VerifyHuman, Authority!VerifyHuman,
                          Machine, Authority!Machine
    <2> QED BY <2>1, <2>2, <2>3 DEF Authority!Next, Callers, Machine, Authority!Machine
<1>5. CASE HotRow
    <2>1. /\ call.at = "hotRow" /\ call.manifest \in Manifests
          /\ hot' = Put(hot, call.manifest.subject, call.manifest)
          /\ UNCHANGED <<deviceRows, approvals, events>>
        BY <1>5, CallFields DEF HotRow, IInv, CallIsChecked
    <2>2. PICK v \in Verdicts : MayPromote(call.manifest, v, approvals)
        BY <2>1 DEF IInv, CallIsChecked, PromotionIsChecked
    <2>3. Authority!Promote(call.manifest, v)
        BY <2>1, <2>2 DEF Authority!Promote, MayPromote, Validates, Authority!Validates, Passed, Authority!Passed,
                          NeedsHuman, Authority!NeedsHuman, HasHuman, Authority!HasHuman, Put, Authority!Put
    <2> QED BY <2>1, <2>3 DEF Authority!Next
<1>6. CASE Export
    <2>1. PICK s \in Subjects, scope \in ExportScopes, v \in Verdicts :
              /\ LeavesBusiness(scope) => Passed(v, "declassification", s)
              /\ events' = events \cup {<<"module.exported", <<s, scope>>>>}
        BY <1>6 DEF Export, Log
    <2>2. UNCHANGED <<deviceRows, approvals, hot>>
        BY <1>6 DEF Export
    <2>3. PICK m \in Manifests : s = m.subject
        BY DEF Subjects
    <2>4. Exported(events') = Exported(events) \cup {<<s, scope>>}
        <3> DEFINE e == <<"module.exported", <<s, scope>>>>
                   E == {x \in events : x[1] = "module.exported"}
        <3>1. e[1] = "module.exported" /\ e[2] = <<s, scope>>
            OBVIOUS
        <3> HIDE DEF e
        <3>2. {x \in events' : x[1] = "module.exported"} = E \cup {e}
            BY <2>1, <3>1 DEF e
        <3>3. {x[2] : x \in E \cup {e}} = {x[2] : x \in E} \cup {<<s, scope>>}
            <4> HIDE DEF E
            <4> QED BY <3>1
        <3> QED BY <3>2, <3>3
    <2>5. Authority!Export(m.subject, scope, v)
        BY <2>1, <2>2, <2>3, <2>4 DEF Authority!Export, LeavesBusiness, Authority!LeavesBusiness,
                                      Passed, Authority!Passed
    <2> QED BY <2>5 DEF Authority!Next
<1>7. CASE LogDevice \/ LogApproval \/ LogPromoted
    BY <1>2, <1>7 DEF LogDevice, LogApproval, LogPromoted, Log
<1> QED BY <1>1, <1>3, <1>4, <1>5, <1>6, <1>7
        DEF Next, CallEnroll, CallApprove, CallPromote, WriteFails, Crash, Load, vars

\* The real kernel with its disk, failures and restarts implements the in-memory one of
\* vk-stub: every step is an enrolment, approval, promotion or export of it, or nothing.
THEOREM Refinement == Spec => ImplementsAuthority
<1>1. Init => Authority!Init
    BY DEF Init, Authority!Init
<1> QED BY <1>1, StepImplements, Invariant, PTL DEF Spec, ImplementsAuthority, Authority!Spec
==============================================================================
