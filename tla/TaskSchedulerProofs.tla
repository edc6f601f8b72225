------------------------- MODULE TaskSchedulerProofs -------------------------
(***************************************************************************)
(* One task, for any plans, contents and bounds: the record is whole,      *)
(* nothing is released that no human approved, a task that is held stays   *)
(* as it is, and one command is enough.                                    *)
(***************************************************************************)
EXTENDS TaskScheduler, WellFoundedInduction, TLAPS

Stages == {"work", "raise", "attach", "export", "log", "save"}
Stage == [at : Stages, i : Steps, wasWaiting : BOOLEAN,
          outcome : {"done", "waiting_human"}, files : Seq(Contents)]
InProgress == call.at \in Stages

CallType == call \in {Idle, Called} \cup Stage

\* A call works on the first open step of a task that nothing holds.
CallIsAtCurrent ==
    InProgress =>
        /\ call.i \in Open /\ call.i = Current
        /\ ~stopped /\ ~Terminal
        /\ steps[call.i] = IF call.wasWaiting THEN "waiting_human" ELSE "running"

\* Answers of an arch are raised once each, and attached once raised.
AnswersAreCounted ==
    /\ revision <= inferred
    /\ call.at = "raise" => plan[call.i] \in {"infer", "draft"} /\ revision < inferred
    /\ call.at = "attach" => plan[call.i] = "draft" /\ Len(artefacts) < revision

\* What a release is about to write is named by a recorded one.
FilesAreRecorded ==
    call.at = "export" =>
        /\ plan[call.i] = "release"
        /\ \E r \in released : \A k \in 1..Len(call.files) : \E m \in 1..Len(r) : r[m] = call.files[k]

\* A step ends as done if its work was, which for an approve step is the approval of
\* what is still the subject; only a harness or an approve step starts to wait.
OutcomeIsEarned ==
    call.at \in {"log", "save"} =>
        /\ call.outcome = "done" => /\ plan[call.i] # "harness"
                                    /\ plan[call.i] = "approve" => Subject \in approvals
        /\ call.outcome = "waiting_human" => plan[call.i] \in {"harness", "approve"} /\ ~call.wasWaiting
        /\ call.at = "save" => stepEvents[call.i] > 0

\* A step that waits is one of those, and its task says so, or that it was stopped.
WaitingIsTold ==
    \A i \in Steps : steps[i] = "waiting_human" =>
        plan[i] \in {"harness", "approve"} /\ status \in {"waiting_human", "stopped"}

\* Behind an approve step that is done, and until another draft begins, the last
\* artefact is one a human approved.
LastIsApproved ==
    \A a \in Steps :
        /\ plan[a] = "approve" /\ steps[a] = "done" /\ artefacts # <<>>
        /\ \A d \in (a + 1)..Len(plan) : plan[d] = "draft" => steps[d] = "pending"
        => artefacts[Len(artefacts)] \in approvals

\* Every call of a command has put a step behind it, as long as the task has not settled.
CommandProgresses ==
    /\ call = Idle /\ runs > 0 /\ ~Settled => Open # {} /\ runs < Current
    /\ call # Idle /\ Open # {} => runs <= Current

\* The inductive invariant.
IInv ==
    /\ RecordIsWhole
    /\ ReleaseIsApproved
    /\ CallType
    /\ CallIsAtCurrent
    /\ AnswersAreCounted
    /\ FilesAreRecorded
    /\ OutcomeIsEarned
    /\ WaitingIsTold
    /\ LastIsApproved
    /\ CommandProgresses

-----------------------------------------------------------------------------
(* The first open step. *)

First(S) == CHOOSE i \in S : \A j \in S : i <= j

\* A set of steps has a first one.
LEMMA HasFirst ==
    ASSUME NEW S, S \subseteq Nat, S # {}
    PROVE  First(S) \in S /\ \A j \in S : First(S) <= j
<1> DEFINE Less == {ss \in Nat \X Nat : ss[1] < ss[2]}
<1>1. IsWellFoundedOn(Less, Nat)
    <2>1. Less = OpToRel(<, Nat)
        BY DEF OpToRel
    <2> QED BY <2>1, NatLessThanWellFounded
<1>2. PICK m \in S : \A j \in S : ~(<<j, m>> \in Less)
    <2> HIDE DEF Less
    <2> QED BY <1>1, WFMin
<1>3. \A j \in S : m <= j
    <2> TAKE j \in S
    <2>1. <<j, m>> \notin Less /\ j \in Nat /\ m \in Nat
        BY <1>2
    <2> QED BY <2>1
<1> QED BY <1>3 DEF First

\* What the scheduler runs next: a step in the plan, and no open one precedes it.
LEMMA CurrentIsFirst ==
    ASSUME plan \in Plans, Open # {}
    PROVE  /\ Current \in Open /\ Current \in Steps /\ Current \in Nat
           /\ \A j \in Open : Current <= j
<1>1. Len(plan) \in Nat
    BY PlansAssumption
<1>2. Open \subseteq Nat
    BY <1>1 DEF Open, Steps
<1>3. Current = First(Open)
    BY DEF Current, First
<1> QED BY <1>1, <1>2, <1>3, HasFirst DEF Open, Steps

\* All before it is done, all behind it has not begun.
LEMMA AroundCurrent ==
    ASSUME TypeOK, StepsRunInOrder, Open # {}
    PROVE  \A j \in Steps : /\ j < Current => steps[j] = "done"
                            /\ j > Current => steps[j] = "pending"
<1>1. plan \in Plans /\ Len(plan) \in Nat
    BY PlansAssumption DEF TypeOK
<1>2. Current \in Open /\ Current \in Steps /\ \A j \in Open : Current <= j
    BY <1>1, CurrentIsFirst
<1>3. ASSUME NEW j \in Steps, j < Current PROVE steps[j] = "done"
    BY <1>1, <1>2, <1>3 DEF Open, Steps
<1>4. ASSUME NEW j \in Steps, j > Current PROVE steps[j] = "pending"
    <2>1. Current \in 1..(j - 1)
        BY <1>1, <1>2, <1>4 DEF Steps
    <2> QED BY <1>2, <2>1 DEF StepsRunInOrder, Open
<1> QED BY <1>3, <1>4

\* Steps that stay as they are leave it where it is.
LEMMA SameCurrent ==
    ASSUME UNCHANGED <<plan, steps>>
    PROVE  Steps' = Steps /\ Open' = Open /\ Current' = Current
<1>1. Steps' = Steps
    BY DEF Steps
<1>2. Open' = Open
    BY <1>1 DEF Open
<1> QED BY <1>1, <1>2 DEF Current

\* So does a step that changes but is not done.
LEMMA StillCurrent ==
    ASSUME TypeOK, UNCHANGED plan, NEW i \in Open, NEW s \in StepStatus, s # "done",
           steps' = [steps EXCEPT ![i] = s]
    PROVE  Steps' = Steps /\ Open' = Open /\ Current' = Current
<1>1. Steps' = Steps
    BY DEF Steps
<1>2. Open' = Open
    BY <1>1 DEF Open, TypeOK
<1> QED BY <1>1, <1>2 DEF Current

\* When it is done the next one is a later one.
LEMMA NextCurrent ==
    ASSUME TypeOK, UNCHANGED plan, Open # {}, steps' = [steps EXCEPT ![Current] = "done"]
    PROVE  /\ Steps' = Steps /\ Open' = Open \ {Current}
           /\ Open' # {} => Current' \in Open' /\ Current' > Current
<1>1. Steps' = Steps /\ plan \in Plans /\ Len(plan) \in Nat
    BY PlansAssumption DEF Steps, TypeOK
<1>2. Current \in Open /\ Current \in Nat /\ \A j \in Open : Current <= j
    BY <1>1, CurrentIsFirst
<1>3. Open' = Open \ {Current}
    BY <1>1, <1>2 DEF Open, TypeOK
<1>4. ASSUME Open' # {} PROVE Current' \in Open' /\ Current' > Current
    <2>1. Open' \subseteq Nat
        BY <1>1, <1>3 DEF Open, Steps
    <2>2. Current' = First(Open')
        BY DEF Current, First
    <2>3. Current' \in Open' /\ Current' \in Nat
        BY <1>4, <2>1, <2>2, HasFirst
    <2>4. Current' \in Open /\ Current' # Current
        BY <1>3, <2>3
    <2> QED BY <1>2, <2>3, <2>4
<1> QED BY <1>1, <1>3, <1>4

\* What task.subject names is a subject.
LEMMA SubjectType ==
    ASSUME TypeOK
    PROVE  Subject \in Subjects /\ (artefacts # <<>> => Subject = artefacts[Len(artefacts)])
BY DEF TypeOK, Subject, Subjects

\* The step a call works on.
LEMMA AtWork ==
    ASSUME IInv, InProgress
    PROVE  /\ call \in Stage /\ call.i \in Steps /\ call.i \in Nat
           /\ Open # {} /\ call.i = Current /\ call.i \in Open
           /\ plan \in Seq(Kinds) /\ Len(plan) \in Nat
<1>1. plan \in Plans /\ plan \in Seq(Kinds) /\ Len(plan) \in Nat
    BY PlansAssumption DEF IInv, RecordIsWhole, TypeOK
<1>2. call \in Stage
    BY DEF IInv, CallType, InProgress, Stages, Idle, Called
<1>3. Open # {} /\ call.i = Current /\ call.i \in Open
    BY DEF IInv, CallIsAtCurrent
<1> QED BY <1>1, <1>2, <1>3 DEF Stage, Steps

-----------------------------------------------------------------------------
(* Initially. *)

LEMMA InvInit == Init => IInv
<1> SUFFICES ASSUME Init PROVE IInv
    OBVIOUS
<1>1. plan \in Plans /\ plan \in Seq(Kinds) /\ Len(plan) \in Nat
    BY PlansAssumption DEF Init
<1>2. call = Idle /\ call.at = "idle" /\ ~InProgress
    BY DEF Init, Idle, InProgress, Stages
<1>3. TypeOK
    <2>1. status \in TaskStatus /\ steps \in [Steps -> StepStatus] /\ stepEvents \in [Steps -> Nat]
        BY DEF Init, TaskStatus, StepStatus
    <2>2. artefacts \in Seq(Contents) /\ Len(artefacts) <= revision /\ revision \in 0..MaxCalls
        BY BoundsAssumption DEF Init
    <2>3. inferred \in 0..MaxCalls /\ runs \in 0..MaxSteps /\ faults \in 0..MaxFaults /\ stops \in 0..MaxStops
        BY BoundsAssumption DEF Init
    <2> QED BY <1>1, <1>2, <2>1, <2>2, <2>3 DEF TypeOK, Init
<1>4. RecordIsWhole
    BY <1>1, <1>3 DEF Init, RecordIsWhole, StepsRunInOrder, DoneIsRecorded, ExportIsRecorded, Steps
<1>5. ReleaseIsApproved /\ WaitingIsTold /\ LastIsApproved
    BY DEF Init, ReleaseIsApproved, WaitingIsTold, LastIsApproved
<1>6. CallType /\ CallIsAtCurrent /\ FilesAreRecorded /\ OutcomeIsEarned
    BY <1>2 DEF CallType, CallIsAtCurrent, FilesAreRecorded, OutcomeIsEarned
<1>7. AnswersAreCounted /\ CommandProgresses
    BY <1>2 DEF Init, AnswersAreCounted, CommandProgresses
<1> QED BY <1>4, <1>5, <1>6, <1>7 DEF IInv

-----------------------------------------------------------------------------
(* Between two calls, and when a call ends without a step's work. *)

\* With no step at work only the command, and who waits, is left to look at.
LEMMA Between ==
    ASSUME IInv, UNCHANGED <<plan, steps, register, record, exported>>,
           approvals \subseteq approvals', call' \in {Idle, Called}
    PROVE  /\ Steps' = Steps /\ Open' = Open /\ Current' = Current
           /\ StepsRunInOrder' /\ DoneIsRecorded' /\ ExportIsRecorded'
           /\ ReleaseIsApproved' /\ LastIsApproved'
           /\ CallType' /\ CallIsAtCurrent' /\ AnswersAreCounted'
           /\ FilesAreRecorded' /\ OutcomeIsEarned'
<1>1. Steps' = Steps /\ Open' = Open /\ Current' = Current
    BY SameCurrent
<1>2. StepsRunInOrder' /\ DoneIsRecorded' /\ ExportIsRecorded'
    BY <1>1 DEF IInv, RecordIsWhole, StepsRunInOrder, DoneIsRecorded, ExportIsRecorded, record
<1>3. ReleaseIsApproved'
    BY <1>1 DEF IInv, ReleaseIsApproved, Guarded, record
<1>4. LastIsApproved'
    BY <1>1 DEF IInv, LastIsApproved, register
<1>5. call'.at \notin Stages
    BY DEF Idle, Called, Stages
<1>6. CallType' /\ CallIsAtCurrent' /\ FilesAreRecorded' /\ OutcomeIsEarned'
    BY <1>5 DEF CallType, CallIsAtCurrent, FilesAreRecorded, OutcomeIsEarned, InProgress, Stages
<1>7. AnswersAreCounted'
    BY <1>5 DEF IInv, AnswersAreCounted, register, record, Stages
<1> QED BY <1>1, <1>2, <1>3, <1>4, <1>6, <1>7

\* TypeOK, when the row, its steps and its record stay.
LEMMA BetweenTypeOK ==
    ASSUME IInv, UNCHANGED <<plan, steps, register, record, exported>>,
           call' \in {Idle, Called}, status' \in TaskStatus, approvals' \subseteq Subjects,
           stopped' \in BOOLEAN, runs' \in 0..MaxSteps, asked' \subseteq Subjects,
           faults' \in 0..MaxFaults, stops' \in 0..MaxStops
    PROVE  TypeOK'
<1>1. Steps' = Steps
    BY DEF Steps
<1> QED BY <1>1 DEF IInv, RecordIsWhole, TypeOK, register, record

LEMMA TaskStepInv == ASSUME IInv, TaskStep PROVE IInv'
<1> USE DEF TaskStep, row, register, record
<1>1. runs \in 0..MaxSteps /\ MaxSteps \in Nat \ {0} /\ plan \in Plans
    BY BoundsAssumption DEF IInv, RecordIsWhole, TypeOK
<1>2. TypeOK'
    <2>1. runs' \in 0..MaxSteps
        BY <1>1
    <2> QED BY <2>1, BetweenTypeOK DEF IInv, RecordIsWhole, TypeOK
<1>3. WaitingIsTold'
    BY Between DEF IInv, WaitingIsTold
<1>4. CommandProgresses'
    <2>1. Open # {} => Current \in Nat /\ Current >= 1
        BY <1>1, CurrentIsFirst DEF Steps
    <2> QED BY <1>1, <2>1, Between DEF IInv, CommandProgresses, Idle, Called
<1> QED BY <1>2, <1>3, <1>4, Between DEF IInv, RecordIsWhole

LEMMA EndCommandInv == ASSUME IInv, EndCommand PROVE IInv'
<1> USE DEF EndCommand, row, register, record
<1>1. TypeOK'
    <2>1. runs' \in 0..MaxSteps
        BY BoundsAssumption
    <2> QED BY <2>1, BetweenTypeOK DEF IInv, RecordIsWhole, TypeOK
<1>2. WaitingIsTold' /\ CommandProgresses'
    BY Between DEF IInv, WaitingIsTold, CommandProgresses
<1> QED BY <1>1, <1>2, Between DEF IInv, RecordIsWhole

\* A terminal task is settled: its command goes no further.
LEMMA ReturnTerminalInv == ASSUME IInv, ReturnTerminal PROVE IInv'
<1> USE DEF ReturnTerminal, Return, row, register, record, world
<1>1. TypeOK'
    BY BetweenTypeOK DEF IInv, RecordIsWhole, TypeOK
<1>2. WaitingIsTold' /\ CommandProgresses'
    BY Between DEF IInv, WaitingIsTold, CommandProgresses, Terminal, Settled
<1> QED BY <1>1, <1>2, Between DEF IInv, RecordIsWhole

LEMMA RefuseUnderStopInv == ASSUME IInv, RefuseUnderStop PROVE IInv'
<1> USE DEF RefuseUnderStop, Return, register, record
<1>1. TypeOK'
    <2>1. runs' \in 0..MaxSteps
        BY BoundsAssumption
    <2> QED BY <2>1, BetweenTypeOK DEF IInv, RecordIsWhole, TypeOK, TaskStatus
<1>2. WaitingIsTold' /\ CommandProgresses'
    BY Between DEF IInv, WaitingIsTold, CommandProgresses
<1> QED BY <1>1, <1>2, Between DEF IInv, RecordIsWhole

LEMMA FinishEmptyInv == ASSUME IInv, FinishEmpty PROVE IInv'
<1> USE DEF FinishEmpty, Return, register, record, world
<1>1. TypeOK'
    BY BetweenTypeOK DEF IInv, RecordIsWhole, TypeOK, TaskStatus
<1>2. WaitingIsTold'
    BY Between DEF WaitingIsTold, Open
<1>3. CommandProgresses'
    BY Between DEF IInv, CommandProgresses, Settled
<1> QED BY <1>1, <1>2, <1>3, Between DEF IInv, RecordIsWhole

\* A crash or an error forgets the call, and the command that made it.
LEMMA AbandonInv == ASSUME IInv, Abandon PROVE IInv'
<1> USE DEF Abandon, Return, row, register, record
<1>1. TypeOK'
    <2>1. runs' \in 0..MaxSteps
        BY BoundsAssumption
    <2>2. faults' \in 0..MaxFaults
        BY BoundsAssumption DEF IInv, RecordIsWhole, TypeOK
    <2> QED BY <2>1, <2>2, BetweenTypeOK DEF IInv, RecordIsWhole, TypeOK
<1>2. WaitingIsTold' /\ CommandProgresses'
    BY Between DEF IInv, WaitingIsTold, CommandProgresses
<1> QED BY <1>1, <1>2, Between DEF IInv, RecordIsWhole

LEMMA HumanInv ==
    ASSUME IInv, AskSubject \/ (\E subject \in Subjects : Approve(subject)) \/ StopNode \/ ResumeNode
    PROVE  IInv'
<1> USE DEF row, register, record, world
<1>1. CASE AskSubject
    <2>1. TypeOK'
        BY <1>1, SubjectType, BetweenTypeOK DEF AskSubject, IInv, RecordIsWhole, TypeOK
    <2>2. WaitingIsTold' /\ CommandProgresses'
        BY <1>1, Between DEF AskSubject, IInv, WaitingIsTold, CommandProgresses, Settled
    <2> QED BY <1>1, <2>1, <2>2, Between DEF AskSubject, IInv, RecordIsWhole
<1>2. CASE \E subject \in Subjects : Approve(subject)
    <2>1. PICK subject \in Subjects : Approve(subject)
        BY <1>2
    <2>2. TypeOK'
        BY <2>1, BetweenTypeOK DEF Approve, IInv, RecordIsWhole, TypeOK
    <2>3. WaitingIsTold' /\ CommandProgresses'
        BY <2>1, Between DEF Approve, IInv, WaitingIsTold, CommandProgresses, Settled
    <2> QED BY <2>1, <2>2, <2>3, Between DEF Approve, IInv, RecordIsWhole
<1>3. CASE StopNode
    <2>1. stops' \in 0..MaxStops
        BY <1>3, BoundsAssumption DEF StopNode, IInv, RecordIsWhole, TypeOK
    <2>2. TypeOK'
        BY <1>3, <2>1, BetweenTypeOK DEF StopNode, IInv, RecordIsWhole, TypeOK
    <2>3. WaitingIsTold' /\ CommandProgresses'
        BY <1>3, Between DEF StopNode, IInv, WaitingIsTold, CommandProgresses, Settled
    <2> QED BY <1>3, <2>2, <2>3, Between DEF StopNode, IInv, RecordIsWhole
<1>4. CASE ResumeNode
    <2>1. TypeOK'
        BY <1>4, BetweenTypeOK DEF ResumeNode, IInv, RecordIsWhole, TypeOK
    <2>2. WaitingIsTold' /\ CommandProgresses'
        BY <1>4, Between DEF ResumeNode, IInv, WaitingIsTold, CommandProgresses, Settled
    <2> QED BY <1>4, <2>1, <2>2, Between DEF ResumeNode, IInv, RecordIsWhole
<1> QED BY <1>1, <1>2, <1>3, <1>4

-----------------------------------------------------------------------------
(* A call begins its step. *)

\* The step that begins, or is polled, is the only one that has begun and is not done.
LEMMA StartStepInv == ASSUME IInv, StartStep PROVE IInv'
<1> USE DEF StartStep, Save, register, record, world
<1>1. TypeOK /\ StepsRunInOrder /\ plan \in Plans /\ Len(plan) \in Nat
    BY PlansAssumption DEF IInv, RecordIsWhole, TypeOK
<1>2. Current \in Open /\ Current \in Steps /\ Current \in Nat
    BY <1>1, CurrentIsFirst
<1>3. Steps' = Steps /\ Open' = Open /\ Current' = Current
    BY <1>1, <1>2, StillCurrent DEF StepStatus
<1>4. \A j \in Steps : j # Current => steps'[j] = steps[j]
    BY <1>1 DEF TypeOK
<1>5. steps'[Current] = "running" /\ status' = "running"
    BY <1>1, <1>2 DEF TypeOK
<1>6. call' \in Stage /\ call'.at = "work" /\ call'.i = Current /\ ~call'.wasWaiting
    <2>1. <<>> \in Seq(Contents)
        OBVIOUS
    <2> QED BY <1>2, <1>3, <2>1 DEF Stage, Stages
<1>7. TypeOK'
    <2>1. steps' \in [Steps' -> StepStatus] /\ status' \in TaskStatus
        BY <1>1, <1>3 DEF TypeOK, StepStatus, TaskStatus
    <2> QED BY <1>1, <1>2, <1>3, <1>6, <2>1 DEF TypeOK, Stage
<1>8. StepsRunInOrder'
    <2>1. SUFFICES ASSUME NEW i \in Steps, steps'[i] # "pending", NEW j \in 1..(i - 1)
                   PROVE  steps'[j] = "done"
        BY <1>3 DEF StepsRunInOrder
    <2>2. j \in Steps /\ i \in Nat /\ j \in Nat /\ j < i
        BY <1>1 DEF Steps
    <2>3. i <= Current
        BY <1>1, <1>2, <1>4, <2>1, <2>2, AroundCurrent
    <2>4. j < Current
        BY <1>2, <2>2, <2>3
    <2> QED BY <1>1, <1>2, <1>4, <2>2, <2>4, AroundCurrent
<1>9. DoneIsRecorded' /\ ExportIsRecorded'
    BY <1>3, <1>4, <1>5 DEF IInv, RecordIsWhole, DoneIsRecorded, ExportIsRecorded
<1>10. ReleaseIsApproved'
    BY <1>3 DEF IInv, ReleaseIsApproved, Guarded
<1>11. CallType' /\ AnswersAreCounted' /\ FilesAreRecorded' /\ OutcomeIsEarned'
    BY <1>3, <1>6 DEF IInv, CallType, AnswersAreCounted, FilesAreRecorded, OutcomeIsEarned, Stage
<1>12. CallIsAtCurrent'
    BY <1>2, <1>3, <1>5, <1>6 DEF CallIsAtCurrent, Runnable, Terminal
<1>13. WaitingIsTold'
    BY <1>1, <1>2, <1>3, <1>4, <1>5, AroundCurrent DEF WaitingIsTold, Steps
<1>14. LastIsApproved'
    <2>1. SUFFICES ASSUME NEW a \in Steps, plan[a] = "approve", steps'[a] = "done", artefacts # <<>>,
                          \A d \in (a + 1)..Len(plan) : plan[d] = "draft" => steps'[d] = "pending"
                   PROVE  artefacts[Len(artefacts)] \in approvals
        BY <1>3 DEF LastIsApproved
    <2>2. steps[a] = "done"
        BY <1>4, <1>5, <2>1
    <2>3. \A d \in (a + 1)..Len(plan) : plan[d] = "draft" => steps[d] = "pending"
        BY <1>1, <1>4, <1>5, <2>1 DEF Steps
    <2> QED BY <2>1, <2>2, <2>3 DEF IInv, LastIsApproved
<1>15. CommandProgresses'
    <2>1. call # Idle /\ call'.at # "idle"
        BY <1>6 DEF Runnable, Called, Idle
    <2> QED BY <1>3, <2>1 DEF IInv, CommandProgresses, Idle
<1> QED BY <1>7, <1>8, <1>9, <1>10, <1>11, <1>12, <1>13, <1>14, <1>15 DEF IInv, RecordIsWhole

\* A call that works on one step and leaves the row to the end.
LEMMA Within ==
    ASSUME IInv, Runnable \/ InProgress, UNCHANGED <<plan, status, steps, approvals, stopped>>,
           call' \in Stage, InProgress => call'.wasWaiting = call.wasWaiting /\ call'.i = call.i,
           runs' = runs
    PROVE  /\ Steps' = Steps /\ Open' = Open /\ Current' = Current
           /\ StepsRunInOrder' /\ CallType' /\ WaitingIsTold' /\ CommandProgresses'
           /\ InProgress => CallIsAtCurrent'
<1>1. Steps' = Steps /\ Open' = Open /\ Current' = Current
    BY SameCurrent
<1>2. StepsRunInOrder' /\ WaitingIsTold'
    BY <1>1 DEF IInv, RecordIsWhole, StepsRunInOrder, WaitingIsTold
<1>3. CallType'
    BY <1>1 DEF CallType, Stage
<1>4. CommandProgresses'
    <2>1. call # Idle /\ call' # Idle
        BY DEF Runnable, InProgress, Called, Idle, Stage, Stages
    <2> QED BY <1>1, <2>1 DEF IInv, CommandProgresses, Idle
<1>5. InProgress => CallIsAtCurrent'
    BY <1>1 DEF IInv, CallIsAtCurrent, InProgress, Stage, Terminal
<1> QED BY <1>1, <1>2, <1>3, <1>4, <1>5

LEMMA PollStepInv == ASSUME IInv, PollStep PROVE IInv'
<1> USE DEF PollStep, row, register, record, world
<1>1. TypeOK /\ plan \in Plans
    BY DEF IInv, RecordIsWhole, TypeOK
<1>2. Current \in Open /\ Current \in Steps
    BY <1>1, CurrentIsFirst
<1>3. Steps' = Steps /\ Open' = Open /\ Current' = Current
    BY SameCurrent
<1>4. call' \in Stage /\ call'.at = "work" /\ call'.i = Current /\ call'.wasWaiting
    <2>1. <<>> \in Seq(Contents)
        OBVIOUS
    <2> QED BY <1>2, <2>1 DEF Stage, Stages
<1>5. ~InProgress
    BY DEF Runnable, InProgress, Called, Stages
<1>6. TypeOK'
    BY <1>1, <1>2, <1>3, <1>4 DEF TypeOK, Stage
<1>7. DoneIsRecorded' /\ ExportIsRecorded' /\ ReleaseIsApproved' /\ LastIsApproved'
    BY <1>3 DEF IInv, RecordIsWhole, DoneIsRecorded, ExportIsRecorded, ReleaseIsApproved, Guarded, LastIsApproved
<1>8. AnswersAreCounted' /\ FilesAreRecorded' /\ OutcomeIsEarned'
    BY <1>4 DEF IInv, AnswersAreCounted, FilesAreRecorded, OutcomeIsEarned
<1>9. CallIsAtCurrent'
    BY <1>2, <1>3, <1>4 DEF CallIsAtCurrent, Runnable, Terminal
<1> QED BY <1>4, <1>5, <1>6, <1>7, <1>8, <1>9, Within DEF IInv, RecordIsWhole

-----------------------------------------------------------------------------
(* The work of a step. *)

\* The other parts of the type, while a call is at work.
LEMMA WithinTypeOK ==
    ASSUME IInv, UNCHANGED <<plan, status, steps, approvals, stopped, world>>,
           call' \in Stage, InProgress, call'.i = call.i,
           revision' \in 0..MaxCalls, artefacts' \in Seq(Contents), Len(artefacts') <= revision',
           inferred' \in 0..MaxCalls, stepEvents' \in [Steps -> Nat],
           \A r \in released' : r \in Seq(Contents), exported' \subseteq Contents
    PROVE  TypeOK'
<1>1. Steps' = Steps /\ Open' = Open /\ Current' = Current
    BY SameCurrent
<1>2. call'.i \in Steps' /\ call'.i = Current'
    BY <1>1, AtWork
<1> QED BY <1>1, <1>2 DEF IInv, RecordIsWhole, TypeOK, Stage, Stages, world

\* The answer of an arch is counted before it is raised.
LEMMA CallArchInv == ASSUME IInv, CallArch PROVE IInv'
<1> USE DEF CallArch, Working, Goto, row, register, record, world
<1>1. InProgress
    BY DEF InProgress, Stages
<1>2. TypeOK /\ call \in Stage
    BY <1>1, AtWork DEF IInv, RecordIsWhole
<1>3. /\ call' \in Stage /\ call'.at = "raise"
      /\ call'.i = call.i /\ call'.wasWaiting = call.wasWaiting
    BY <1>2 DEF Stage, Stages
<1>4. /\ Steps' = Steps
      /\ StepsRunInOrder' /\ CallType' /\ WaitingIsTold' /\ CommandProgresses' /\ CallIsAtCurrent'
    BY <1>1, <1>3, Within
<1>5. TypeOK'
    <2>1. inferred' \in 0..MaxCalls
        BY <1>2, BoundsAssumption DEF TypeOK
    <2> QED BY <1>1, <1>2, <1>3, <2>1, WithinTypeOK DEF TypeOK
<1>6. DoneIsRecorded' /\ ExportIsRecorded' /\ ReleaseIsApproved' /\ LastIsApproved'
    BY <1>4 DEF IInv, RecordIsWhole, DoneIsRecorded, ExportIsRecorded, ReleaseIsApproved, Guarded, LastIsApproved
<1>7. AnswersAreCounted'
    BY <1>2, <1>3 DEF IInv, AnswersAreCounted, TypeOK
<1>8. FilesAreRecorded' /\ OutcomeIsEarned'
    BY <1>3 DEF FilesAreRecorded, OutcomeIsEarned
<1> QED BY <1>4, <1>5, <1>6, <1>7, <1>8 DEF IInv, RecordIsWhole

LEMMA RaiseAnswerInv == ASSUME IInv, RaiseAnswer PROVE IInv'
<1> USE DEF RaiseAnswer, Goto, Conclude, row, register, record, world
<1>1. InProgress
    BY DEF InProgress, Stages
<1>2. TypeOK /\ call \in Stage
    BY <1>1, AtWork DEF IInv, RecordIsWhole
<1>3. /\ call' \in Stage
      /\ call'.i = call.i /\ call'.wasWaiting = call.wasWaiting
    BY <1>2 DEF Stage, Stages
<1>4. \/ call'.at = "attach" /\ plan[call.i] = "draft"
      \/ call'.at = "log" /\ call'.outcome = "done" /\ plan[call.i] = "infer"
    BY <1>2 DEF IInv, AnswersAreCounted, Stage
<1>5. /\ Steps' = Steps
      /\ StepsRunInOrder' /\ CallType' /\ WaitingIsTold' /\ CommandProgresses' /\ CallIsAtCurrent'
    BY <1>1, <1>3, Within
<1>6. revision' <= inferred' /\ revision' \in 0..MaxCalls /\ Len(artefacts') < revision'
    BY <1>2, BoundsAssumption DEF IInv, AnswersAreCounted, TypeOK
<1>7. TypeOK'
    BY <1>1, <1>2, <1>3, <1>6, WithinTypeOK DEF TypeOK
<1>8. DoneIsRecorded' /\ ExportIsRecorded' /\ ReleaseIsApproved' /\ LastIsApproved'
    BY <1>5 DEF IInv, RecordIsWhole, DoneIsRecorded, ExportIsRecorded, ReleaseIsApproved, Guarded, LastIsApproved
<1>9. AnswersAreCounted' /\ FilesAreRecorded' /\ OutcomeIsEarned'
    BY <1>3, <1>4, <1>6 DEF AnswersAreCounted, FilesAreRecorded, OutcomeIsEarned
<1> QED BY <1>5, <1>7, <1>8, <1>9 DEF IInv, RecordIsWhole

\* While a draft runs, and when it has failed, no approve step speaks for the register:
\* those that are done lie before the draft.
LEMMA DraftUnsettles ==
    ASSUME IInv, InProgress, plan[call.i] = "draft", UNCHANGED plan,
           \A d \in Steps : d # call.i => steps'[d] = steps[d],
           steps'[call.i] \notin {"pending", "done"}
    PROVE  LastIsApproved'
<1>1. TypeOK /\ StepsRunInOrder /\ call.i \in Steps /\ call.i = Current /\ Open # {} /\ Len(plan) \in Nat
    BY AtWork DEF IInv, RecordIsWhole
<1>2. Steps' = Steps
    BY DEF Steps
<1>3. SUFFICES ASSUME NEW a \in Steps, steps'[a] = "done",
                      \A d \in (a + 1)..Len(plan) : plan[d] = "draft" => steps'[d] = "pending"
               PROVE  FALSE
    BY <1>2 DEF LastIsApproved
<1>4. a # call.i /\ steps[a] = "done"
    BY <1>3
<1>5. ~(a > call.i)
    BY <1>1, <1>4, AroundCurrent
<1>6. call.i \in (a + 1)..Len(plan)
    BY <1>1, <1>4, <1>5 DEF Steps
<1> QED BY <1>3, <1>6

LEMMA AttachArtefactInv == ASSUME IInv, AttachArtefact PROVE IInv'
<1> USE DEF AttachArtefact, Conclude, row, register, record, world
<1>1. InProgress
    BY DEF InProgress, Stages
<1>2. TypeOK /\ call \in Stage /\ call.i \in Steps
    BY <1>1, AtWork DEF IInv, RecordIsWhole
<1>3. /\ call' \in Stage /\ call'.at = "log" /\ call'.outcome = "done"
      /\ call'.i = call.i /\ call'.wasWaiting = call.wasWaiting
    BY <1>2 DEF Stage, Stages
<1>4. plan[call.i] = "draft" /\ Len(artefacts) < revision
    BY DEF IInv, AnswersAreCounted
<1>5. /\ Steps' = Steps
      /\ StepsRunInOrder' /\ CallType' /\ WaitingIsTold' /\ CommandProgresses' /\ CallIsAtCurrent'
    BY <1>1, <1>3, Within
<1>6. TypeOK'
    <2>1. artefacts' \in Seq(Contents) /\ Len(artefacts') <= revision
        BY <1>2, <1>4 DEF TypeOK
    <2> QED BY <1>1, <1>2, <1>3, <2>1, WithinTypeOK DEF TypeOK
<1>7. DoneIsRecorded' /\ ExportIsRecorded' /\ ReleaseIsApproved'
    BY <1>5 DEF IInv, RecordIsWhole, DoneIsRecorded, ExportIsRecorded, ReleaseIsApproved, Guarded
<1>8. LastIsApproved'
    <2>1. steps[call.i] \notin {"pending", "done"}
        BY <1>1 DEF IInv, CallIsAtCurrent
    <2> QED BY <1>1, <1>4, <2>1, DraftUnsettles
<1>9. AnswersAreCounted' /\ FilesAreRecorded' /\ OutcomeIsEarned'
    BY <1>3, <1>4 DEF IInv, AnswersAreCounted, FilesAreRecorded, OutcomeIsEarned
<1> QED BY <1>5, <1>6, <1>7, <1>8, <1>9 DEF IInv, RecordIsWhole

\* A step that waits already returns: its task says that it waits, so the command ends.
LEMMA WaitInv == ASSUME IInv, Wait PROVE IInv'
<1> USE DEF Wait, Working, Conclude, Return, row, register, record, world
<1>1. InProgress /\ plan[call.i] \in {"harness", "approve"}
    BY DEF InProgress, Stages
<1>2. TypeOK /\ call \in Stage /\ call.i \in Steps
    BY <1>1, AtWork DEF IInv, RecordIsWhole
<1>3. CASE call.wasWaiting
    <2>1. call' = Idle /\ Settled
        BY <1>1, <1>2, <1>3 DEF IInv, CallIsAtCurrent, WaitingIsTold, Settled
    <2>2. TypeOK'
        BY <1>2, <2>1, BetweenTypeOK DEF TypeOK
    <2>3. WaitingIsTold' /\ CommandProgresses'
        BY <2>1, Between DEF IInv, WaitingIsTold, CommandProgresses, Settled
    <2> QED BY <2>1, <2>2, <2>3, Between DEF IInv, RecordIsWhole
<1>4. CASE ~call.wasWaiting
    <2>1. /\ call' \in Stage /\ call'.at = "log" /\ call'.outcome = "waiting_human"
          /\ call'.i = call.i /\ call'.wasWaiting = call.wasWaiting
        BY <1>2, <1>4 DEF Stage, Stages
    <2>2. /\ Steps' = Steps
          /\ StepsRunInOrder' /\ CallType' /\ WaitingIsTold' /\ CommandProgresses' /\ CallIsAtCurrent'
        BY <1>1, <2>1, Within
    <2>3. TypeOK'
        BY <1>1, <1>2, <2>1, WithinTypeOK DEF TypeOK
    <2>4. DoneIsRecorded' /\ ExportIsRecorded' /\ ReleaseIsApproved' /\ LastIsApproved'
        BY <2>2 DEF IInv, RecordIsWhole, DoneIsRecorded, ExportIsRecorded, ReleaseIsApproved, Guarded, LastIsApproved
    <2>5. AnswersAreCounted' /\ FilesAreRecorded' /\ OutcomeIsEarned'
        BY <1>1, <1>4, <2>1 DEF IInv, AnswersAreCounted, FilesAreRecorded, OutcomeIsEarned
    <2> QED BY <2>2, <2>3, <2>4, <2>5 DEF IInv, RecordIsWhole
<1> QED BY <1>3, <1>4

LEMMA FindApprovalInv == ASSUME IInv, FindApproval PROVE IInv'
<1> USE DEF FindApproval, Working, Conclude, row, register, record, world
<1>1. InProgress /\ plan[call.i] = "approve"
    BY DEF InProgress, Stages
<1>2. TypeOK /\ call \in Stage /\ call.i \in Steps
    BY <1>1, AtWork DEF IInv, RecordIsWhole
<1>3. /\ call' \in Stage /\ call'.at = "log" /\ call'.outcome = "done"
      /\ call'.i = call.i /\ call'.wasWaiting = call.wasWaiting
    BY <1>2 DEF Stage, Stages
<1>4. /\ Steps' = Steps
      /\ StepsRunInOrder' /\ CallType' /\ WaitingIsTold' /\ CommandProgresses' /\ CallIsAtCurrent'
    BY <1>1, <1>3, Within
<1>5. TypeOK'
    BY <1>1, <1>2, <1>3, WithinTypeOK DEF TypeOK
<1>6. DoneIsRecorded' /\ ExportIsRecorded' /\ ReleaseIsApproved' /\ LastIsApproved'
    BY <1>4 DEF IInv, RecordIsWhole, DoneIsRecorded, ExportIsRecorded, ReleaseIsApproved, Guarded, LastIsApproved
<1>7. Subject' \in approvals'
    BY DEF Subject
<1>8. AnswersAreCounted' /\ FilesAreRecorded' /\ OutcomeIsEarned'
    BY <1>1, <1>3, <1>7 DEF IInv, AnswersAreCounted, FilesAreRecorded, OutcomeIsEarned
<1> QED BY <1>4, <1>5, <1>6, <1>8 DEF IInv, RecordIsWhole

\* The approve step that guards a release is done, and no draft came after it.
LEMMA ReleaseIsOfApproved ==
    ASSUME IInv, InProgress, plan[call.i] = "release", Guarded, artefacts # <<>>
    PROVE  artefacts[Len(artefacts)] \in approvals
<1>1. /\ TypeOK /\ StepsRunInOrder /\ call.i \in Steps /\ call.i \in Nat /\ Len(plan) \in Nat
      /\ call.i = Current /\ Open # {}
    BY AtWork DEF IInv, RecordIsWhole
<1>2. PICK a \in 1..(call.i - 1) : plan[a] = "approve" /\ \A d \in a..call.i : plan[d] # "draft"
    BY <1>1 DEF Guarded
<1>3. a \in Steps /\ a \in Nat /\ a < call.i
    BY <1>1, <1>2 DEF Steps
<1>4. steps[a] = "done"
    BY <1>1, <1>3, AroundCurrent
<1>5. ASSUME NEW d \in (a + 1)..Len(plan), plan[d] = "draft" PROVE steps[d] = "pending"
    <2>1. d \in Steps /\ d \in Nat /\ d > a
        BY <1>1, <1>3 DEF Steps
    <2>2. d > call.i
        BY <1>1, <1>2, <1>3, <1>5, <2>1
    <2> QED BY <1>1, <2>1, <2>2, AroundCurrent
<1> QED BY <1>2, <1>3, <1>4, <1>5 DEF IInv, LastIsApproved

LEMMA RecordReleaseInv == ASSUME IInv, RecordRelease PROVE IInv'
<1> USE DEF RecordRelease, Working, row, register, world
<1>1. InProgress /\ plan[call.i] = "release"
    BY DEF InProgress, Stages
<1>2. TypeOK /\ call \in Stage /\ call.i \in Steps
    BY <1>1, AtWork DEF IInv, RecordIsWhole
<1>3. /\ call' \in Stage /\ call'.at = "export" /\ call'.files = artefacts
      /\ call'.i = call.i /\ call'.wasWaiting = call.wasWaiting
    BY <1>2 DEF Stage, Stages, TypeOK
<1>4. /\ Steps' = Steps
      /\ StepsRunInOrder' /\ CallType' /\ WaitingIsTold' /\ CommandProgresses' /\ CallIsAtCurrent'
    BY <1>1, <1>3, Within
<1>5. TypeOK'
    BY <1>1, <1>2, <1>3, WithinTypeOK DEF TypeOK
<1>6. DoneIsRecorded' /\ ExportIsRecorded' /\ LastIsApproved'
    BY <1>4 DEF IInv, RecordIsWhole, DoneIsRecorded, ExportIsRecorded, LastIsApproved
<1>7. ReleaseIsApproved'
    BY <1>1, <1>4, ReleaseIsOfApproved DEF IInv, ReleaseIsApproved, Guarded
<1>8. FilesAreRecorded'
    <2>1. artefacts \in released' /\ \A k \in 1..Len(artefacts) : artefacts[k] = call'.files[k]
        BY <1>3
    <2> QED BY <1>1, <1>3, <2>1 DEF FilesAreRecorded
<1>9. AnswersAreCounted' /\ OutcomeIsEarned'
    BY <1>3 DEF IInv, AnswersAreCounted, OutcomeIsEarned
<1> QED BY <1>4, <1>5, <1>6, <1>7, <1>8, <1>9 DEF IInv, RecordIsWhole

LEMMA ExportFileInv == ASSUME IInv, ExportFile PROVE IInv'
<1> USE DEF ExportFile, row, register, record, world
<1>1. InProgress
    BY DEF InProgress, Stages
<1>2. TypeOK /\ call \in Stage /\ call.i \in Steps
    BY <1>1, AtWork DEF IInv, RecordIsWhole
<1>3. call.files \in Seq(Contents) /\ Len(call.files) \in Nat /\ Len(call.files) > 0
    BY <1>2 DEF Stage
<1>4. /\ Head(call.files) = call.files[1] /\ Head(call.files) \in Contents
      /\ Tail(call.files) \in Seq(Contents)
      /\ Len(Tail(call.files)) = Len(call.files) - 1
      /\ \A k \in 1..Len(Tail(call.files)) :
            k + 1 \in 1..Len(call.files) /\ Tail(call.files)[k] = call.files[k + 1]
    BY <1>3
<1>5. /\ call' \in Stage /\ call'.at = "export" /\ call'.files = Tail(call.files)
      /\ call'.i = call.i /\ call'.wasWaiting = call.wasWaiting
    BY <1>2, <1>4 DEF Stage, Stages
<1>6. /\ Steps' = Steps
      /\ StepsRunInOrder' /\ CallType' /\ WaitingIsTold' /\ CommandProgresses' /\ CallIsAtCurrent'
    BY <1>1, <1>5, Within
<1>7. TypeOK'
    BY <1>1, <1>2, <1>4, <1>5, WithinTypeOK DEF TypeOK
<1>8. DoneIsRecorded' /\ ReleaseIsApproved' /\ LastIsApproved'
    BY <1>6 DEF IInv, RecordIsWhole, DoneIsRecorded, ReleaseIsApproved, Guarded, LastIsApproved
<1>9. PICK r \in released : \A k \in 1..Len(call.files) : \E m \in 1..Len(r) : r[m] = call.files[k]
    BY DEF IInv, FilesAreRecorded
<1>10. ExportIsRecorded'
    <2>1. \E m \in 1..Len(r) : r[m] = Head(call.files)
        BY <1>3, <1>4, <1>9
    <2> QED BY <1>9, <2>1 DEF IInv, RecordIsWhole, ExportIsRecorded
<1>11. FilesAreRecorded'
    <2>1. \A k \in 1..Len(call'.files) : \E m \in 1..Len(r) : r[m] = call'.files[k]
        BY <1>4, <1>5, <1>9
    <2> QED BY <1>5, <1>9, <2>1 DEF IInv, FilesAreRecorded
<1>12. AnswersAreCounted' /\ OutcomeIsEarned'
    BY <1>5 DEF IInv, AnswersAreCounted, OutcomeIsEarned
<1> QED BY <1>6, <1>7, <1>8, <1>10, <1>11, <1>12 DEF IInv, RecordIsWhole

LEMMA FinishReleaseInv == ASSUME IInv, FinishRelease PROVE IInv'
<1> USE DEF FinishRelease, Conclude, row, register, record, world
<1>1. InProgress /\ plan[call.i] = "release"
    BY DEF IInv, FilesAreRecorded, InProgress, Stages
<1>2. TypeOK /\ call \in Stage /\ call.i \in Steps
    BY <1>1, AtWork DEF IInv, RecordIsWhole
<1>3. /\ call' \in Stage /\ call'.at = "log" /\ call'.outcome = "done"
      /\ call'.i = call.i /\ call'.wasWaiting = call.wasWaiting
    BY <1>2 DEF Stage, Stages
<1>4. /\ Steps' = Steps
      /\ StepsRunInOrder' /\ CallType' /\ WaitingIsTold' /\ CommandProgresses' /\ CallIsAtCurrent'
    BY <1>1, <1>3, Within
<1>5. TypeOK'
    BY <1>1, <1>2, <1>3, WithinTypeOK DEF TypeOK
<1>6. DoneIsRecorded' /\ ExportIsRecorded' /\ ReleaseIsApproved' /\ LastIsApproved'
    BY <1>4 DEF IInv, RecordIsWhole, DoneIsRecorded, ExportIsRecorded, ReleaseIsApproved, Guarded, LastIsApproved
<1>7. AnswersAreCounted' /\ FilesAreRecorded' /\ OutcomeIsEarned'
    BY <1>1, <1>3 DEF IInv, AnswersAreCounted, FilesAreRecorded, OutcomeIsEarned
<1> QED BY <1>4, <1>5, <1>6, <1>7 DEF IInv, RecordIsWhole

-----------------------------------------------------------------------------
(* The end of a step: the ledger, then the row. *)

LEMMA LogStepInv == ASSUME IInv, LogStep PROVE IInv'
<1> USE DEF LogStep, Goto, row, register, world
<1>1. InProgress
    BY DEF InProgress, Stages
<1>2. TypeOK /\ call \in Stage /\ call.i \in Steps
    BY <1>1, AtWork DEF IInv, RecordIsWhole
<1>3. /\ call' \in Stage /\ call'.at = "save" /\ call'.outcome = call.outcome
      /\ call'.i = call.i /\ call'.wasWaiting = call.wasWaiting
    BY <1>2 DEF Stage, Stages
<1>4. /\ Steps' = Steps
      /\ StepsRunInOrder' /\ CallType' /\ WaitingIsTold' /\ CommandProgresses' /\ CallIsAtCurrent'
    BY <1>1, <1>3, Within
<1>5. /\ stepEvents' \in [Steps -> Nat] /\ stepEvents'[call.i] > 0
      /\ \A i \in Steps : stepEvents'[i] >= stepEvents[i]
    BY <1>2 DEF TypeOK
<1>6. TypeOK'
    BY <1>1, <1>2, <1>3, <1>5, WithinTypeOK DEF TypeOK
<1>7. DoneIsRecorded'
    BY <1>2, <1>4, <1>5 DEF IInv, RecordIsWhole, DoneIsRecorded, TypeOK
<1>8. ExportIsRecorded' /\ ReleaseIsApproved' /\ LastIsApproved'
    BY <1>4 DEF IInv, RecordIsWhole, ExportIsRecorded, ReleaseIsApproved, Guarded, LastIsApproved
<1>9. Subject' = Subject
    BY DEF Subject
<1>10. AnswersAreCounted' /\ FilesAreRecorded' /\ OutcomeIsEarned'
    BY <1>3, <1>5, <1>9 DEF IInv, AnswersAreCounted, FilesAreRecorded, OutcomeIsEarned
<1> QED BY <1>4, <1>6, <1>7, <1>8, <1>10 DEF IInv, RecordIsWhole

\* Whatever the current step ends as, the steps stay in order.
LEMMA EndKeepsOrder ==
    ASSUME IInv, InProgress, UNCHANGED plan, NEW s \in StepStatus,
           steps' = [steps EXCEPT ![call.i] = s]
    PROVE  /\ Steps' = Steps
           /\ steps' \in [Steps -> StepStatus]
           /\ steps'[call.i] = s
           /\ \A j \in Steps : j # call.i => steps'[j] = steps[j]
           /\ StepsRunInOrder'
<1>1. /\ TypeOK /\ StepsRunInOrder /\ call.i \in Steps /\ call.i \in Nat /\ Len(plan) \in Nat
      /\ call.i = Current /\ Open # {}
    BY AtWork DEF IInv, RecordIsWhole
<1>2. Steps' = Steps
    BY DEF Steps
<1>3. /\ steps' \in [Steps -> StepStatus] /\ steps'[call.i] = s
      /\ \A j \in Steps : j # call.i => steps'[j] = steps[j]
    BY <1>1 DEF TypeOK
<1>4. StepsRunInOrder'
    <2>1. SUFFICES ASSUME NEW i \in Steps, steps'[i] # "pending", NEW j \in 1..(i - 1)
                   PROVE  steps'[j] = "done"
        BY <1>2 DEF StepsRunInOrder
    <2>2. j \in Steps /\ i \in Nat /\ j \in Nat /\ j < i
        BY <1>1 DEF Steps
    <2>3. i <= call.i
        BY <1>1, <1>3, <2>1, <2>2, AroundCurrent
    <2> QED BY <1>1, <1>3, <2>2, <2>3, AroundCurrent
<1> QED BY <1>2, <1>3, <1>4

\* A step that was done or waits is approved when it was to be, and the next call
\* is for a later step.
LEMMA SaveStepInv == ASSUME IInv, SaveStep PROVE IInv'
<1> USE DEF SaveStep, Save, Return, register, record, world
<1>1. InProgress /\ plan \in Plans
    BY DEF InProgress, Stages, IInv, RecordIsWhole, TypeOK
<1>2. /\ TypeOK /\ StepsRunInOrder /\ call \in Stage /\ call.i \in Steps
      /\ call.i = Current /\ Open # {}
    BY <1>1, AtWork DEF IInv, RecordIsWhole
<1>3. call.outcome \in {"done", "waiting_human"} /\ call.outcome \in StepStatus
    BY <1>2 DEF Stage, StepStatus
<1>4. /\ Steps' = Steps /\ steps' \in [Steps -> StepStatus] /\ steps'[call.i] = call.outcome
      /\ \A j \in Steps : j # call.i => steps'[j] = steps[j]
      /\ StepsRunInOrder'
    BY <1>1, <1>3, EndKeepsOrder
<1>5. call' = Idle /\ call'.at = "idle" /\ ~InProgress'
    BY DEF Idle, InProgress, Stages
<1>6. status' \in TaskStatus
    BY DEF TaskStatus
<1>7. TypeOK'
    BY <1>2, <1>4, <1>5, <1>6 DEF TypeOK
<1>8. DoneIsRecorded' /\ ExportIsRecorded'
    BY <1>4 DEF IInv, RecordIsWhole, DoneIsRecorded, ExportIsRecorded, OutcomeIsEarned
<1>9. ReleaseIsApproved'
    BY <1>4 DEF IInv, ReleaseIsApproved, Guarded
<1>10. CallType' /\ CallIsAtCurrent' /\ AnswersAreCounted' /\ FilesAreRecorded' /\ OutcomeIsEarned'
    BY <1>5 DEF IInv, CallType, CallIsAtCurrent, AnswersAreCounted, FilesAreRecorded, OutcomeIsEarned
<1>11. WaitingIsTold'
    <2>1. SUFFICES ASSUME NEW i \in Steps, steps'[i] = "waiting_human"
                   PROVE  plan[i] \in {"harness", "approve"} /\ status' \in {"waiting_human", "stopped"}
        BY <1>4 DEF WaitingIsTold
    <2>2. i = call.i
        BY <1>2, <1>4, <2>1, AroundCurrent DEF Steps
    <2> QED BY <1>4, <2>1, <2>2 DEF IInv, OutcomeIsEarned
<1>12. LastIsApproved'
    <2>1. SUFFICES ASSUME NEW a \in Steps, plan[a] = "approve", steps'[a] = "done", artefacts # <<>>,
                          \A d \in (a + 1)..Len(plan) : plan[d] = "draft" => steps'[d] = "pending"
                   PROVE  artefacts[Len(artefacts)] \in approvals
        BY <1>4 DEF LastIsApproved
    <2>2. CASE a = call.i
        BY <1>2, <1>4, <2>1, <2>2, SubjectType DEF IInv, OutcomeIsEarned
    <2>3. CASE a # call.i
        <3>1. Len(plan) \in Nat
            BY <1>1, PlansAssumption
        <3>2. \A d \in (a + 1)..Len(plan) : plan[d] = "draft" => steps[d] = "pending"
            BY <1>3, <1>4, <2>1, <3>1 DEF Steps
        <3> QED BY <1>4, <2>1, <2>3, <3>2 DEF IInv, LastIsApproved
    <2> QED BY <2>2, <2>3
<1>13. CommandProgresses'
    <2>1. CASE call.outcome = "waiting_human"
        BY <1>5, <2>1 DEF CommandProgresses, Settled
    <2>2. CASE call.outcome = "done"
        <3>1. Open' = Open \ {Current} /\ (Open' # {} => Current' \in Open' /\ Current' > Current)
            BY <1>2, <2>2, NextCurrent
        <3>2. runs <= Current /\ runs \in Nat /\ Current \in Nat
            BY <1>1, <1>2, <1>5, AtWork, BoundsAssumption DEF IInv, CommandProgresses, TypeOK, InProgress, Idle, Stages
        <3>3. ~Settled' => Open' # {}
            BY <1>2, <2>2, <3>1 DEF Settled
        <3>4. Open' # {} => runs < Current'
            <4>1. Open' # {} => Current' \in Nat
                BY <1>2, <3>1, AtWork, <1>1 DEF Open, Steps
            <4> QED BY <3>1, <3>2, <4>1
        <3> QED BY <1>5, <3>3, <3>4 DEF CommandProgresses
    <2> QED BY <1>3, <2>1, <2>2
<1> QED BY <1>4, <1>7, <1>8, <1>9, <1>10, <1>11, <1>12, <1>13 DEF IInv, RecordIsWhole

\* A failed step takes back nothing: its task has ended, with the register as far as it came.
LEMMA FailStepInv == ASSUME IInv, FailStep PROVE IInv'
<1> USE DEF FailStep, RegisterWritten, Save, Return, register, record
<1>1. InProgress /\ plan \in Plans
    BY DEF InProgress, Stages, IInv, RecordIsWhole, TypeOK
<1>2. /\ TypeOK /\ StepsRunInOrder /\ call \in Stage /\ call.i \in Steps
      /\ call.i = Current /\ Open # {} /\ Len(plan) \in Nat
    BY <1>1, AtWork DEF IInv, RecordIsWhole
<1>3. /\ Steps' = Steps /\ steps' \in [Steps -> StepStatus] /\ steps'[call.i] = "failed"
      /\ \A j \in Steps : j # call.i => steps'[j] = steps[j]
      /\ StepsRunInOrder'
    <2>1. "failed" \in StepStatus
        BY DEF StepStatus
    <2> QED BY <1>1, <2>1, EndKeepsOrder
<1>4. call' = Idle /\ call'.at = "idle" /\ ~InProgress' /\ Settled'
    BY DEF Idle, InProgress, Stages, Settled
<1>5. /\ artefacts' \in Seq(Contents) /\ Len(artefacts') <= revision'
      /\ revision' \in 0..MaxCalls /\ revision' <= inferred'
    <2>1. /\ revision \in 0..MaxCalls /\ inferred \in 0..MaxCalls /\ revision <= inferred
          /\ artefacts \in Seq(Contents) /\ Len(artefacts) <= revision
          /\ call.at = "raise" => revision < inferred
          /\ call.at = "attach" => Len(artefacts) < revision
        BY <1>2 DEF IInv, AnswersAreCounted, TypeOK
    <2>2. CASE UNCHANGED register
        BY <2>1, <2>2
    <2>3. CASE call.at = "raise" /\ revision' = revision + 1 /\ UNCHANGED artefacts
        BY <2>1, <2>3, BoundsAssumption
    <2>4. CASE /\ call.at = "attach"
               /\ \E c \in Contents : artefacts' = Append(artefacts, c)
               /\ UNCHANGED revision
        BY <2>1, <2>4
    <2> QED BY <2>2, <2>3, <2>4
<1>6. TypeOK'
    <2>1. status' \in TaskStatus /\ faults' \in 0..MaxFaults
        BY <1>2, BoundsAssumption DEF TaskStatus, TypeOK
    <2> QED BY <1>2, <1>3, <1>4, <1>5, <2>1 DEF TypeOK
<1>7. DoneIsRecorded' /\ ExportIsRecorded'
    BY <1>3 DEF IInv, RecordIsWhole, DoneIsRecorded, ExportIsRecorded
<1>8. ReleaseIsApproved'
    BY <1>3 DEF IInv, ReleaseIsApproved, Guarded
<1>9. CallType' /\ CallIsAtCurrent' /\ FilesAreRecorded' /\ OutcomeIsEarned'
    BY <1>4 DEF CallType, CallIsAtCurrent, FilesAreRecorded, OutcomeIsEarned
<1>10. AnswersAreCounted' /\ CommandProgresses'
    BY <1>4, <1>5 DEF AnswersAreCounted, CommandProgresses
<1>11. WaitingIsTold'
    BY <1>2, <1>3, AroundCurrent DEF WaitingIsTold, Steps
<1>12. LastIsApproved'
    <2>1. CASE plan[call.i] = "draft"
        BY <1>1, <1>3, <2>1, DraftUnsettles
    <2>2. CASE plan[call.i] # "draft"
        <3>1. artefacts' = artefacts
            BY <2>2 DEF IInv, AnswersAreCounted
        <3>2. SUFFICES ASSUME NEW a \in Steps, plan[a] = "approve", steps'[a] = "done", artefacts # <<>>,
                              \A d \in (a + 1)..Len(plan) : plan[d] = "draft" => steps'[d] = "pending"
                       PROVE  artefacts[Len(artefacts)] \in approvals
            BY <1>3, <3>1 DEF LastIsApproved
        <3>3. steps[a] = "done"
            BY <1>3, <3>2
        <3>4. \A d \in (a + 1)..Len(plan) : plan[d] = "draft" => steps[d] = "pending"
            BY <1>2, <1>3, <2>2, <3>2 DEF Steps
        <3> QED BY <3>2, <3>3, <3>4 DEF IInv, LastIsApproved
    <2> QED BY <2>1, <2>2
<1> QED BY <1>3, <1>6, <1>7, <1>8, <1>9, <1>10, <1>11, <1>12 DEF IInv, RecordIsWhole

-----------------------------------------------------------------------------
LEMMA InvStep == IInv /\ [Next]_vars => IInv'
<1> SUFFICES ASSUME IInv, [Next]_vars PROVE IInv'
    OBVIOUS
<1>1. CASE TaskStep
    BY <1>1, TaskStepInv
<1>2. CASE EndCommand
    BY <1>2, EndCommandInv
<1>3. CASE RunTaskStep
    BY <1>3, ReturnTerminalInv, RefuseUnderStopInv, FinishEmptyInv, StartStepInv, PollStepInv,
       CallArchInv, RaiseAnswerInv, AttachArtefactInv, WaitInv, FindApprovalInv, RecordReleaseInv,
       ExportFileInv, FinishReleaseInv, LogStepInv, SaveStepInv
    DEF RunTaskStep
<1>4. CASE FailStep
    BY <1>4, FailStepInv
<1>5. CASE Abandon
    BY <1>5, AbandonInv
<1>6. CASE AskSubject \/ (\E subject \in Subjects : Approve(subject)) \/ StopNode \/ ResumeNode
    BY <1>6, HumanInv
<1>7. CASE UNCHANGED vars
    <2>1. Steps' = Steps /\ Open' = Open /\ Current' = Current
        BY <1>7, SameCurrent DEF vars, row
    <2>2. Subject' = Subject
        BY <1>7 DEF vars, register, Subject
    <2>3. RecordIsWhole'
        BY <1>7, <2>1 DEF vars, row, register, record, world, IInv, RecordIsWhole, TypeOK,
                          StepsRunInOrder, DoneIsRecorded, ExportIsRecorded
    <2>4. ReleaseIsApproved' /\ CallType' /\ AnswersAreCounted'
        BY <1>7, <2>1 DEF vars, row, register, record, world, IInv, ReleaseIsApproved, Guarded,
                          CallType, Stage, AnswersAreCounted
    <2>5. CallIsAtCurrent' /\ FilesAreRecorded' /\ OutcomeIsEarned'
        BY <1>7, <2>1, <2>2 DEF vars, row, register, record, world, IInv, InProgress, Terminal,
                                CallIsAtCurrent, FilesAreRecorded, OutcomeIsEarned
    <2>6. WaitingIsTold' /\ LastIsApproved' /\ CommandProgresses'
        BY <1>7, <2>1 DEF vars, row, register, world, IInv, Settled,
                          WaitingIsTold, LastIsApproved, CommandProgresses
    <2> QED BY <2>3, <2>4, <2>5, <2>6 DEF IInv
<1> QED BY <1>1, <1>2, <1>3, <1>4, <1>5, <1>6, <1>7 DEF Next

\* The inductive invariant holds: from create_task on, through every call, crash,
\* failed write, STOP and approval.
THEOREM Invariant == Spec => []IInv
BY InvInit, InvStep, PTL DEF Spec

\* The record of a task is whole, for any plan: its steps run in order, none is
\* recorded as done and no plaintext is exported without its trace in the ledger.
THEOREM Whole == Spec => []RecordIsWhole
<1>1. IInv => RecordIsWhole
    BY DEF IInv
<1> QED BY <1>1, Invariant, PTL

\* What the release step names was approved by a human, whatever was drafted, crashed
\* or ran again before, in every plan whose release an approve step guards.
THEOREM Approved == Spec => []ReleaseIsApproved
<1>1. IInv => ReleaseIsApproved
    BY DEF IInv
<1> QED BY <1>1, Invariant, PTL

\* The part of HeldTaskIsStill that says what one step may do.
LEMMA HeldStep ==
    ASSUME IInv, [Next]_vars
    PROVE  /\ Terminal => row' = row
           /\ stopped => UNCHANGED <<steps, record, register, exported>>
           /\ \A i \in Steps : steps[i] = "waiting_human" /\ stepEvents'[i] # stepEvents[i]
                => Subject \in approvals
<1>1. InProgress => ~stopped /\ ~Terminal
    BY DEF IInv, CallIsAtCurrent
<1>2. CASE TaskStep \/ EndCommand
    BY <1>2 DEF TaskStep, EndCommand, row, record, register
<1>3. CASE ReturnTerminal \/ RefuseUnderStop \/ FinishEmpty
    BY <1>3 DEF ReturnTerminal, RefuseUnderStop, FinishEmpty, Runnable, row, record, register
<1>4. CASE StartStep \/ PollStep
    BY <1>4 DEF StartStep, PollStep, Runnable, row, record, register
<1>5. CASE CallArch \/ RaiseAnswer \/ AttachArtefact
    BY <1>1, <1>5 DEF CallArch, RaiseAnswer, AttachArtefact, Working, InProgress, Stages, row, record, register
<1>6. CASE Wait \/ FindApproval
    BY <1>1, <1>6 DEF Wait, FindApproval, row, record, register
<1>7. CASE RecordRelease \/ ExportFile \/ FinishRelease
    BY <1>1, <1>7 DEF RecordRelease, ExportFile, FinishRelease, Working, InProgress, Stages, row, record, register
<1>8. CASE LogStep
    <2>1. InProgress /\ call.at = "log"
        BY <1>8 DEF LogStep, InProgress, Stages
    <2>2. call \in Stage /\ call.i \in Steps
        BY <2>1, AtWork
    <2>3. ASSUME NEW i \in Steps, steps[i] = "waiting_human", stepEvents'[i] # stepEvents[i]
          PROVE  Subject \in approvals
        <3>1. i = call.i
            BY <1>8, <2>2, <2>3 DEF LogStep, IInv, RecordIsWhole, TypeOK
        <3>2. call.wasWaiting /\ call.outcome = "done"
            BY <2>1, <2>2, <2>3, <3>1 DEF IInv, CallIsAtCurrent, OutcomeIsEarned, Stage
        <3>3. plan[i] = "approve"
            BY <2>1, <2>3, <3>1, <3>2 DEF IInv, OutcomeIsEarned, WaitingIsTold
        <3> QED BY <2>1, <3>1, <3>2, <3>3 DEF IInv, OutcomeIsEarned
    <2> QED BY <1>1, <1>8, <2>1, <2>3 DEF LogStep, row
<1>9. CASE SaveStep \/ FailStep
    BY <1>1, <1>9 DEF SaveStep, FailStep, InProgress, Stages, row, record, register
<1>10. CASE Abandon \/ AskSubject \/ (\E subject \in Subjects : Approve(subject)) \/ StopNode \/ ResumeNode
    BY <1>10 DEF Abandon, AskSubject, Approve, StopNode, ResumeNode, row, record, register
<1>11. CASE UNCHANGED vars
    BY <1>11 DEF vars, row, record, register
<1> QED BY <1>2, <1>3, <1>4, <1>5, <1>6, <1>7, <1>8, <1>9, <1>10, <1>11 DEF Next, RunTaskStep

\* A task that ended, is stopped or waits for a human stays as it is: no call of
\* run_task_step restates, starts, releases or logs anything of it.
THEOREM Held == Spec => HeldTaskIsStill
BY Invariant, HeldStep, PTL DEF Spec, HeldTaskIsStill

\* One `vk task step --all` settles a task, if no plan has more steps than it makes
\* calls: `vk task submit` makes plans of at most four, MAX_STEPS is 256.
THEOREM Settles ==
    ASSUME \A p \in Plans : Len(p) <= MaxSteps
    PROVE  Spec => []CommandSettles
<1>1. IInv => CommandSettles
    <2> SUFFICES ASSUME IInv, call = Idle, runs >= MaxSteps PROVE Settled
        BY DEF CommandSettles
    <2>1. plan \in Plans /\ Len(plan) \in Nat /\ runs \in Nat /\ MaxSteps \in Nat \ {0}
        BY PlansAssumption, BoundsAssumption DEF IInv, RecordIsWhole, TypeOK
    <2>2. ~Settled => Open # {} /\ runs < Current
        BY <2>1 DEF IInv, CommandProgresses
    <2>3. Open # {} => Current \in Nat /\ Current <= Len(plan)
        BY <2>1, CurrentIsFirst DEF Steps
    <2> QED BY <2>1, <2>2, <2>3
<1> QED BY <1>1, Invariant, PTL
==============================================================================
