--------------------------- MODULE StopKernelProofs ---------------------------
(***************************************************************************)
(* Proofs about StopKernel, for every set of businesses and every bound.   *)
(***************************************************************************)
EXTENDS StopKernel, TLAPS

-----------------------------------------------------------------------------
(* Type correctness. *)

\* A call in progress is a STOP or a RESUME of the right shape: the facts the
\* action lemmas need about `call`, stated once.
LEMMA CallShape ==
    ASSUME TypeOK
    PROVE  /\ call.op = "idle" <=> call = Idle
           /\ call.op = "stop" => call \in StopCalls
           /\ call.op = "resume" => call \in ResumeCalls
           /\ call.op \in {"idle", "stop", "resume"}
BY DEF TypeOK, Idle, StopCalls, ResumeCalls

\* Every step of the kernel preserves the types of its variables.
LEMMA TypeStep == TypeOK /\ [Next]_vars => TypeOK'
<1> SUFFICES ASSUME TypeOK, [Next]_vars PROVE TypeOK'
    OBVIOUS
<1> USE BoundsAssumption DEF BoundsAssumption
<1>1. ASSUME NEW scope \in Scopes, CallStop(scope) PROVE TypeOK'
    BY <1>1 DEF TypeOK, CallStop, Ready, NextId, Ids, StopEvents, StopCalls, disk, told
<1>2. ASSUME NEW cited \in Ids, CallResume(cited) PROVE TypeOK'
    BY <1>2 DEF TypeOK, CallResume, Ready, NextId, Ids, ResumeEvents, ResumeCalls, disk, told
<1>3. CASE WriteCounter
    <2>1. call.op \in {"stop", "resume"}
        BY <1>3, CallShape DEF WriteCounter
    <2>2. call' \in StopCalls \cup ResumeCalls
        <3>1. CASE call.op = "stop"
            BY <1>3, <3>1, CallShape DEF WriteCounter, Proceed, StopCalls
        <3>2. CASE call.op = "resume"
            BY <1>3, <3>2, CallShape DEF WriteCounter, Proceed, ResumeCalls
        <3> QED BY <2>1, <3>1, <3>2
    <2> QED BY <1>3, <2>2 DEF TypeOK, WriteCounter, told
<1>4. CASE WriteStopRow
    <2>1. call \in StopCalls
        BY <1>4, CallShape DEF WriteStopRow, At
    <2>2. call' \in StopCalls
        BY <1>4, <2>1 DEF WriteStopRow, Proceed, StopCalls
    <2>3. Put(stopRows, call.event) \subseteq StopEvents /\ Put(stops, call.event) \subseteq StopEvents
        BY <2>1 DEF TypeOK, Put, StopCalls
    <2> QED BY <1>4, <2>2, <2>3 DEF TypeOK, WriteStopRow, told
<1>5. CASE LogStop
    <2>1. call \in StopCalls
        BY <1>5, CallShape DEF LogStop, At
    <2>2. call.event \in StopEvents /\ call.event.id \in Ids
        BY <2>1 DEF StopCalls, StopEvents
    <2> QED BY <1>5, <2>2 DEF TypeOK, LogStop, Return, Events
<1>6. CASE LogResume
    <2>1. call \in ResumeCalls
        BY <1>6, CallShape DEF LogResume, At
    <2>2. call' \in ResumeCalls /\ call.event.cites \in Ids
        BY <1>6, <2>1 DEF LogResume, Proceed, ResumeCalls, ResumeEvents
    <2> QED BY <1>6, <2>2 DEF TypeOK, LogResume, Events, told
<1>7. CASE WriteResumeRow
    <2>1. call \in ResumeCalls
        BY <1>7, CallShape DEF WriteResumeRow, At
    <2>2. call.event \in ResumeEvents /\ call.event.cites \in Ids
        BY <2>1 DEF ResumeCalls, ResumeEvents
    <2>3. Put(resumeRows, call.event) \subseteq ResumeEvents /\ Put(resumes, call.event) \subseteq ResumeEvents
        BY <2>2 DEF TypeOK, Put
    <2> QED BY <1>7, <2>2, <2>3 DEF TypeOK, WriteResumeRow, Return
<1>8. CASE WriteFails
    <2>1. refused' \subseteq ResumeEvents
        BY <1>8, CallShape DEF TypeOK, WriteFails, Refuse, ResumeCalls
    <2> QED BY <1>8, <2>1 DEF TypeOK, WriteFails, Return, disk
<1>9. CASE HeadWriteFails
    <2>1. refused' \subseteq ResumeEvents
        BY <1>9, CallShape DEF TypeOK, HeadWriteFails, Refuse, ResumeCalls
    <2>2. recorded' \subseteq Events
        BY <1>9, CallShape DEF TypeOK, HeadWriteFails, Events, StopCalls, ResumeCalls, StopEvents, ResumeEvents
    <2> QED BY <1>9, <2>1, <2>2 DEF TypeOK, HeadWriteFails, Return
<1>10. ASSUME NEW b \in Businesses, RunAutomation(b) PROVE TypeOK'
    BY <1>10 DEF TypeOK, RunAutomation, memory, told
<1>11. ASSUME NEW b \in Businesses, RenewLiveness(b) \/ LivenessLapses(b) PROVE TypeOK'
    BY <1>11 DEF TypeOK, RenewLiveness, LivenessLapses, disk, memory, told
<1>12. CASE Crash
    <2>1. UNCHANGED <<disk, alive, told>> /\ up' = FALSE /\ call' = Idle
        BY <1>12 DEF Crash
    <2>2. stops' = {} /\ resumes' = {} /\ counter' = 0
        BY <1>12 DEF Crash
    <2>3. counter' \in 0..MaxId
        BY <2>2
    <2> QED BY <2>1, <2>2, <2>3 DEF TypeOK, disk, told
<1>13. CASE Load
    BY <1>13 DEF TypeOK, Load, disk, told
<1>14. CASE UNCHANGED vars
    BY <1>14 DEF TypeOK, vars, disk, memory, told
<1> QED
    BY <1>1, <1>2, <1>3, <1>4, <1>5, <1>6, <1>7, <1>8, <1>9, <1>10, <1>11, <1>12, <1>13, <1>14 DEF Next

\* Type correctness of the STOP/RESUME/automation kernel: in particular no
\* syscall ever works with an id that next_id did not mint.
THEOREM TypeCorrect == Spec => []TypeOK
<1>1. Init => TypeOK
    <2> SUFFICES ASSUME Init PROVE TypeOK
        OBVIOUS
    <2>1. counter \in 0..MaxId /\ counterRow \in 0..MaxId
        BY BoundsAssumption DEF BoundsAssumption, Init
    <2>2. up \in BOOLEAN /\ call = Idle /\ ran \in [Businesses -> Nat]
        BY DEF Init
    <2> QED BY <2>1, <2>2 DEF Init, TypeOK
<1> QED BY <1>1, TypeStep, PTL DEF Spec

-----------------------------------------------------------------------------
(* The inductive invariant. *)

\* Ids are numbers, so that they can be compared.
LEMMA IdsAreNumbers ==
    ASSUME TypeOK
    PROVE  /\ \A s \in stopRows : s.id \in Nat
           /\ \A r \in resumeRows \cup refused : r.id \in Nat
           /\ call.op # "idle" => call.event.id \in Nat
           /\ counter \in Nat /\ counterRow \in Nat
<1> USE BoundsAssumption DEF BoundsAssumption
<1>1. Ids \subseteq Nat
    BY DEF Ids
<1>2. call \in StopCalls \cup ResumeCalls => call.event.id \in Ids
    BY DEF StopCalls, ResumeCalls, StopEvents, ResumeEvents
<1>3. call.op # "idle" => call \in StopCalls \cup ResumeCalls
    BY CallShape
<1>4. counter \in Nat /\ counterRow \in Nat
    BY DEF TypeOK
<1>5. /\ \A s \in stopRows : s.id \in Ids
      /\ \A r \in resumeRows \cup refused : r.id \in Ids
    BY DEF TypeOK, StopEvents, ResumeEvents
<1> QED BY <1>1, <1>2, <1>3, <1>4, <1>5

\* Writing the row of a fresh id adds it and replaces nothing.
LEMMA FreshPut ==
    ASSUME NEW rows, NEW row, row.id \in Nat,
           \A r \in rows : r.id \in Nat /\ r.id < row.id
    PROVE  Put(rows, row) = rows \cup {row}
BY DEF Put

LEMMA InvInit == Init => IInv
<1> SUFFICES ASSUME Init PROVE IInv
    OBVIOUS
<1>1. TypeOK
    <2>1. counter \in 0..MaxId /\ counterRow \in 0..MaxId
        BY BoundsAssumption DEF BoundsAssumption, Init
    <2>2. up \in BOOLEAN /\ call = Idle /\ ran \in [Businesses -> Nat]
        BY DEF Init
    <2> QED BY <2>1, <2>2 DEF Init, TypeOK
<1>2. call.op = "idle"
    BY DEF Init, Idle
<1>3. stopRows = {} /\ resumeRows = {} /\ resumes = {} /\ stops = {} /\ refused = {}
    BY DEF Init
<1>4. ackedStops = {} /\ ackedResumes = {} /\ ~up
    BY DEF Init
<1> QED BY <1>1, <1>2, <1>3, <1>4 DEF IInv, MemoryIsDisk, CallOwnsNewestId, IdsAreCovered,
        CallIdIsFresh, At, ResumeIsGrounded, AckedIsDurable, NoGhostResume, ResumeIsRecorded

\* Every step of the kernel preserves it.
LEMMA InvStep == IInv /\ [Next]_vars => IInv'
<1> SUFFICES ASSUME IInv, [Next]_vars PROVE IInv'
    OBVIOUS
<1>t. TypeOK /\ TypeOK'
    BY TypeStep DEF IInv
<1>n. /\ \A s \in stopRows : s.id \in Nat
      /\ \A r \in resumeRows \cup refused : r.id \in Nat
      /\ call.op # "idle" => call.event.id \in Nat
      /\ counter \in Nat /\ counterRow \in Nat
    BY <1>t, IdsAreNumbers
<1> USE <1>t, <1>n
<1>1. ASSUME NEW scope \in Scopes, CallStop(scope) PROVE IInv'
    <2>1. /\ up /\ up' = up /\ call.op = "idle"
          /\ counter' = counter + 1
          /\ call' = [op |-> "stop", at |-> "counter",
                      event |-> [id |-> counter + 1, scope |-> scope]]
          /\ UNCHANGED <<stopRows, resumeRows, counterRow, recorded, stops, resumes,
                         ackedStops, ackedResumes, refused>>
        BY <1>1 DEF CallStop, Ready, NextId, Idle, disk, told
    <2> QED BY <2>1 DEF IInv, MemoryIsDisk, CallOwnsNewestId, IdsAreCovered, CallIdIsFresh,
                At, ResumeIsGrounded, AckedIsDurable, NoGhostResume, ResumeIsRecorded
<1>2. ASSUME NEW cited \in Ids, CallResume(cited) PROVE IInv'
    <2>1. /\ up /\ up' = up /\ call.op = "idle" /\ cited \in IdsOf(stops)
          /\ counter' = counter + 1
          /\ call' = [op |-> "resume", at |-> "counter",
                      event |-> [id |-> counter + 1, cites |-> cited]]
          /\ UNCHANGED <<stopRows, resumeRows, counterRow, recorded, stops, resumes,
                         ackedStops, ackedResumes, refused>>
        BY <1>2 DEF CallResume, Ready, NextId, HasStop, Idle, disk, told
    <2>2. ResumeIsGrounded'
        BY <2>1 DEF IInv, MemoryIsDisk, ResumeIsGrounded, At, IdsOf
    <2> QED BY <2>1, <2>2 DEF IInv, MemoryIsDisk, CallOwnsNewestId, IdsAreCovered, CallIdIsFresh,
                At, AckedIsDurable, NoGhostResume, ResumeIsRecorded
<1>3. CASE WriteCounter
    <2>1. /\ call.op # "idle" /\ call.at = "counter" /\ counterRow' = counter
          /\ UNCHANGED <<stopRows, resumeRows, recorded, up, stops, resumes, counter,
                         ackedStops, ackedResumes, refused>>
        BY <1>3 DEF WriteCounter, told
    <2>2. /\ call'.op = call.op /\ call'.event = call.event
          /\ call.op = "stop" => call'.at = "row"
          /\ call.op = "resume" => call'.at = "log"
        BY <1>3, <2>1, CallShape DEF WriteCounter, Proceed, StopCalls, ResumeCalls
    <2>3. IdsAreCovered' /\ CallIdIsFresh' /\ CallOwnsNewestId'
        BY <2>1, <2>2, CallShape DEF IInv, CallOwnsNewestId, IdsAreCovered, CallIdIsFresh, At
    <2> QED BY <2>1, <2>2, <2>3, CallShape DEF IInv, MemoryIsDisk, ResumeIsGrounded, At, IdsOf,
                AckedIsDurable, CitedBy, NoGhostResume, ResumeIsRecorded
<1>4. CASE WriteStopRow
    <2>1. /\ call.op = "stop" /\ call.at = "row" /\ up
          /\ \A s \in stopRows : s.id < call.event.id
        BY <1>4 DEF WriteStopRow, At, IInv, CallIdIsFresh, CallOwnsNewestId
    <2>2. /\ stopRows' = stopRows \cup {call.event}
          /\ stops' = stopRows \cup {call.event}
        BY <1>4, <2>1, FreshPut DEF WriteStopRow, IInv, MemoryIsDisk
    <2>3. call' = [call EXCEPT !.at = "log"] /\ call \in StopCalls
        BY <1>4, <2>1, CallShape DEF WriteStopRow, Proceed
    <2>4. call'.op = "stop" /\ call'.at = "log" /\ call'.event = call.event
        BY <2>1, <2>3 DEF StopCalls
    <2>5. UNCHANGED <<resumeRows, counterRow, recorded, up, resumes, counter,
                      ackedStops, ackedResumes, refused>>
        BY <1>4 DEF WriteStopRow, told
    <2>6. NoGhostResume' /\ ResumeIsRecorded' /\ AckedIsDurable'
        BY <2>2, <2>5 DEF IInv, NoGhostResume, ResumeIsRecorded, AckedIsDurable, CitedBy
    <2>7. CallOwnsNewestId' /\ IdsAreCovered'
        BY <2>1, <2>2, <2>4, <2>5 DEF IInv, CallOwnsNewestId, IdsAreCovered
    <2>8. CallIdIsFresh' /\ ResumeIsGrounded' /\ MemoryIsDisk'
        BY <2>1, <2>2, <2>4, <2>5 DEF IInv, CallIdIsFresh, ResumeIsGrounded, MemoryIsDisk, At
    <2> QED BY <2>5, <2>6, <2>7, <2>8 DEF IInv
<1>5. CASE LogStop
    <2>1. /\ At("stop", "log") /\ call' = Idle /\ call.event \in stopRows /\ up
          /\ counterRow = counter
          /\ recorded \subseteq recorded' /\ ackedStops' = ackedStops \cup {call.event}
          /\ UNCHANGED <<stopRows, resumeRows, counterRow, up, stops, resumes, counter,
                         ackedResumes, refused>>
        BY <1>5 DEF LogStop, Return, IInv, CallIdIsFresh, CallOwnsNewestId, At
    <2>2. call'.op = "idle"
        BY <2>1 DEF Idle
    <2> QED BY <2>1, <2>2 DEF IInv, MemoryIsDisk, CallOwnsNewestId, IdsAreCovered, CallIdIsFresh,
                At, ResumeIsGrounded, AckedIsDurable, CitedBy, NoGhostResume, ResumeIsRecorded
<1>6. CASE LogResume
    <2>1. /\ call.op = "resume" /\ call.at = "log" /\ call \in ResumeCalls
          /\ call' = [call EXCEPT !.at = "row"]
          /\ recorded' = recorded \cup {[kind |-> "resume", id |-> call.event.cites]}
          /\ UNCHANGED <<stopRows, resumeRows, counterRow, up, stops, resumes, counter,
                         ackedStops, ackedResumes, refused>>
        BY <1>6, CallShape DEF LogResume, At, Proceed, told
    <2>2. call'.op = "resume" /\ call'.at = "row" /\ call'.event = call.event
        BY <2>1 DEF ResumeCalls
    <2>3. CallOwnsNewestId' /\ IdsAreCovered' /\ CallIdIsFresh' /\ MemoryIsDisk'
        BY <2>1, <2>2 DEF IInv, CallOwnsNewestId, IdsAreCovered, CallIdIsFresh, MemoryIsDisk, At
    <2> QED BY <2>1, <2>2, <2>3 DEF IInv, ResumeIsGrounded, At, IdsOf, AckedIsDurable, CitedBy,
                NoGhostResume, ResumeIsRecorded
<1>7. CASE WriteResumeRow
    <2>1. /\ call.op = "resume" /\ call.at = "row" /\ up /\ counterRow = counter
          /\ call.event.id = counter /\ call' = Idle
          /\ \A e \in resumeRows \cup refused : e.id < call.event.id
          /\ \A s \in stopRows : s.id < call.event.id
        BY <1>7 DEF WriteResumeRow, Return, At, IInv, CallIdIsFresh, CallOwnsNewestId
    <2>2. /\ resumeRows' = resumeRows \cup {call.event}
          /\ resumes' = resumeRows \cup {call.event}
        BY <1>7, <2>1, FreshPut DEF WriteResumeRow, IInv, MemoryIsDisk
    <2>3. /\ ackedResumes' = ackedResumes \cup {call.event.cites}
          /\ UNCHANGED <<stopRows, counterRow, recorded, up, stops, counter,
                         ackedStops, refused>>
        BY <1>7 DEF WriteResumeRow
    <2>4. /\ call.event.cites \in IdsOf(stopRows)
          /\ [kind |-> "resume", id |-> call.event.cites] \in recorded
        BY <2>1 DEF IInv, ResumeIsGrounded, At
    <2>5. call'.op = "idle"
        BY <2>1 DEF Idle
    <2>6. NoGhostResume' /\ ResumeIsRecorded'
        BY <2>1, <2>2, <2>3, <2>4 DEF IInv, NoGhostResume, ResumeIsRecorded, IdsOf
    <2>7. AckedIsDurable' /\ (refused \cap resumeRows = {})'
        BY <2>1, <2>2, <2>3 DEF IInv, AckedIsDurable, CitedBy
    <2> QED BY <2>1, <2>2, <2>3, <2>5, <2>6, <2>7 DEF IInv, MemoryIsDisk, CallOwnsNewestId,
                IdsAreCovered, CallIdIsFresh, At, ResumeIsGrounded
<1>8. ASSUME WriteFails \/ HeadWriteFails PROVE IInv'
    <2>1. /\ call.op # "idle" /\ call' = Idle /\ Refuse /\ recorded \subseteq recorded'
          /\ UNCHANGED <<stopRows, resumeRows, counterRow, up, stops, resumes, counter,
                         ackedStops, ackedResumes>>
        BY <1>8 DEF WriteFails, HeadWriteFails, Return, disk
    <2>2. call'.op = "idle"
        BY <2>1 DEF Idle
    <2>3. \A e \in refused' : e \in refused \/ (e = call.event /\ call.at # "counter")
        BY <2>1 DEF Refuse
    <2>4. IdsAreCovered' /\ (refused \cap resumeRows = {})'
        BY <2>1, <2>3 DEF IInv, IdsAreCovered, CallOwnsNewestId, CallIdIsFresh
    <2> QED BY <2>1, <2>2, <2>4 DEF IInv, MemoryIsDisk, CallOwnsNewestId, CallIdIsFresh,
                At, ResumeIsGrounded, AckedIsDurable, CitedBy, NoGhostResume, ResumeIsRecorded
<1>9. CASE UNCHANGED <<stopRows, resumeRows, counterRow, recorded, memory, told>>
    BY <1>9 DEF memory, told, IInv, MemoryIsDisk, CallOwnsNewestId, IdsAreCovered, CallIdIsFresh,
        At, ResumeIsGrounded, IdsOf, AckedIsDurable, CitedBy, NoGhostResume, ResumeIsRecorded
<1>10. CASE Crash
    <2>1. /\ up' = FALSE /\ stops' = {} /\ resumes' = {} /\ call' = Idle
          /\ UNCHANGED <<stopRows, resumeRows, counterRow, recorded,
                         ackedStops, ackedResumes, refused>>
        BY <1>10 DEF Crash, disk, told
    <2>2. call'.op = "idle"
        BY <2>1 DEF Idle
    <2> QED BY <2>1, <2>2 DEF IInv, MemoryIsDisk, CallOwnsNewestId, IdsAreCovered, CallIdIsFresh,
                At, ResumeIsGrounded, AckedIsDurable, CitedBy, NoGhostResume, ResumeIsRecorded
<1>11. CASE Load
    <2>1. /\ ~up /\ up' = TRUE /\ stops' = stopRows /\ counter' = counterRow
          /\ resumes' = {r \in resumeRows : r.cites \in IdsOf(stopRows)}
          /\ UNCHANGED <<stopRows, resumeRows, counterRow, recorded, call,
                         ackedStops, ackedResumes, refused>>
        BY <1>11 DEF Load, disk, told
    <2>2. call.op = "idle"
        BY <2>1 DEF IInv, CallOwnsNewestId
    <2>3. resumes' = resumeRows
        BY <2>1 DEF IInv, NoGhostResume, IdsOf
    <2> QED BY <2>1, <2>2, <2>3 DEF IInv, MemoryIsDisk, CallOwnsNewestId, IdsAreCovered, CallIdIsFresh,
                At, ResumeIsGrounded, AckedIsDurable, CitedBy, NoGhostResume, ResumeIsRecorded
<1>12. ASSUME NEW b \in Businesses, RunAutomation(b) \/ RenewLiveness(b) \/ LivenessLapses(b)
       PROVE IInv'
    BY <1>9, <1>12 DEF RunAutomation, RenewLiveness, LivenessLapses, disk
<1> QED
    BY <1>1, <1>2, <1>3, <1>4, <1>5, <1>6, <1>7, <1>8, <1>9, <1>10, <1>11, <1>12
    DEF Next, vars, disk

\* The inductive invariant holds in every reachable state.
THEOREM Invariant == Spec => []IInv
BY InvInit, InvStep, PTL DEF Spec

-----------------------------------------------------------------------------
(* Safety. *)

\* A running kernel enforces exactly what a restart would enforce.
THEOREM MemoryAgreesWithDisk == Spec => []MemoryIsDisk
<1>1. IInv => MemoryIsDisk
    BY DEF IInv
<1> QED BY <1>1, Invariant, PTL

\* A STOP whose id was returned is on disk and in force on every running node
\* until a resume row cites it, whatever crashes and write failures come.
THEOREM StopSurvives == Spec => []AckedStopHolds
<1>1. IInv => AckedStopHolds
    BY DEF IInv, MemoryIsDisk, AckedIsDurable, AckedStopHolds, Stopped
<1> QED BY <1>1, Invariant, PTL

\* A RESUME that returned Ok is in effect on every running node.
THEOREM ResumeSurvives == Spec => []AckedResumeLifts
<1>1. IInv => AckedResumeLifts
    BY DEF IInv, MemoryIsDisk, AckedIsDurable, AckedResumeLifts
<1> QED BY <1>1, Invariant, PTL

\* A RESUME that reported failure lifted nothing, in memory or on disk.
THEOREM RefusalLiftsNothing == Spec => []RefusedResumeLiftsNothing
<1>1. IInv => RefusedResumeLiftsNothing
    BY DEF IInv, MemoryIsDisk, RefusedResumeLiftsNothing
<1> QED BY <1>1, Invariant, PTL

\* Authority is never granted back without an event in the ledger.
THEOREM ResumeRecorded == Spec => []ResumeIsRecorded
<1>1. IInv => ResumeIsRecorded
    BY DEF IInv
<1> QED BY <1>1, Invariant, PTL

\* No resume row waits for a STOP that has yet to take the id it cites.
THEOREM NoGhost == Spec => []NoGhostResume
<1>1. IInv => NoGhostResume
    BY DEF IInv
<1> QED BY <1>1, Invariant, PTL

\* Authority comes back only by a RESUME that was accepted, is recorded and cites a
\* STOP there was.
THEOREM ResumesGenuine == Spec => []ResumesAreGenuine
<1>1. RefusedResumeLiftsNothing /\ ResumeIsRecorded /\ NoGhostResume => ResumesAreGenuine
    BY DEF ResumesAreGenuine
<1> QED BY <1>1, RefusalLiftsNothing, ResumeRecorded, NoGhost, PTL

-----------------------------------------------------------------------------
(* The kernel implements StopAuthority. *)

\* Under the invariant the refinement mapping is simply the rows.
LEMMA Mapping ==
    ASSUME IInv
    PROVE  /\ (IF up THEN stops ELSE stopRows) = stopRows
           /\ CitedBy(IF up THEN resumes ELSE resumeRows) = CitedBy(resumeRows)
BY DEF IInv, MemoryIsDisk

\* Every step of the kernel is a step of StopAuthority or leaves it unchanged:
\* a STOP is issued by its row, a RESUME lifts by its row, crashes, restarts
\* and failed writes are invisible.
LEMMA StepImplements ==
    IInv /\ IInv' /\ [Next]_vars => [Authority!Next]_(Authority!vars)
<1> SUFFICES ASSUME IInv, IInv', [Next]_vars
             PROVE  [Authority!Next]_(Authority!vars)
    OBVIOUS
<1> DEFINE issued == IF up THEN stops ELSE stopRows
           lifted == CitedBy(IF up THEN resumes ELSE resumeRows)
<1>m. issued = stopRows /\ lifted = CitedBy(resumeRows)
    BY Mapping
<1>p. issued' = stopRows' /\ lifted' = CitedBy(resumeRows)'
    BY DEF IInv, MemoryIsDisk
<1>s. UNCHANGED <<stopRows, resumeRows, ran>> => UNCHANGED Authority!vars
    BY <1>m, <1>p DEF Authority!vars, CitedBy
<1>1. CASE WriteStopRow
    <2>1. call \in StopCalls
        BY <1>1, CallShape DEF WriteStopRow, At, IInv
    <2>2. /\ call.event.id \in Ids /\ call.event.scope \in Scopes
          /\ call.event = [id |-> call.event.id, scope |-> call.event.scope]
        BY <2>1 DEF StopCalls, StopEvents
    <2>3. \A s \in stopRows : s.id \in Nat /\ s.id < call.event.id
        BY <1>1, IdsAreNumbers DEF WriteStopRow, At, IInv, CallIdIsFresh
    <2>4. stopRows' = stopRows \cup {call.event} /\ UNCHANGED <<resumeRows, ran>>
        BY <1>1, <2>2, <2>3, FreshPut, IdsAreNumbers DEF WriteStopRow, IInv, At
    <2>5. call.event.id \notin {e.id : e \in stopRows}
        BY <2>3
    <2>6. Authority!Issue(call.event.id, call.event.scope)
        BY <1>m, <1>p, <2>2, <2>4, <2>5 DEF Authority!Issue, Authority!IssuedIds, CitedBy
    <2> QED BY <2>2, <2>6 DEF Authority!Next, Scopes, Authority!Scopes
<1>2. CASE WriteResumeRow
    <2>1. call \in ResumeCalls
        BY <1>2, CallShape DEF WriteResumeRow, At, IInv
    <2>2. call.event.id \in Ids /\ call.event.cites \in Ids
        BY <2>1 DEF ResumeCalls, ResumeEvents
    <2>3. \A r \in resumeRows : r.id \in Nat /\ r.id < call.event.id
        BY <1>2, IdsAreNumbers DEF WriteResumeRow, At, IInv, CallIdIsFresh
    <2>4. resumeRows' = resumeRows \cup {call.event} /\ UNCHANGED <<stopRows, ran>>
        BY <1>2, <2>2, <2>3, FreshPut, IdsAreNumbers DEF WriteResumeRow, IInv, At
    <2>5. call.event.cites \in {e.id : e \in stopRows}
        BY <1>2 DEF WriteResumeRow, At, IInv, ResumeIsGrounded, IdsOf
    <2>6. CitedBy(resumeRows)' = CitedBy(resumeRows) \cup {call.event.cites}
        BY <2>4 DEF CitedBy
    <2>7. Authority!Lift(call.event.cites)
        BY <1>m, <1>p, <2>4, <2>5, <2>6 DEF Authority!Lift, Authority!IssuedIds
    <2> QED BY <2>2, <2>7 DEF Authority!Next
<1>3. ASSUME NEW b \in Businesses, RunAutomation(b) PROVE Authority!Run(b)
    <2>1. /\ ~Stopped(b) /\ up
          /\ ran' = [ran EXCEPT ![b] = @ + 1]
          /\ UNCHANGED <<stopRows, resumeRows>>
        BY <1>3 DEF RunAutomation, Ready
    <2>2. ~Authority!InForce(b)
        BY <2>1 DEF Stopped, Authority!InForce
    <2> QED BY <1>m, <1>p, <2>1, <2>2 DEF Authority!Run, CitedBy
<1>4. ASSUME NEW scope \in Scopes, CallStop(scope) PROVE UNCHANGED Authority!vars
    BY <1>s, <1>4 DEF CallStop, disk
<1>5. ASSUME NEW cited \in Ids, CallResume(cited) PROVE UNCHANGED Authority!vars
    BY <1>s, <1>5 DEF CallResume, disk
<1>6. CASE WriteCounter \/ LogStop \/ LogResume \/ WriteFails \/ HeadWriteFails
    BY <1>s, <1>6 DEF WriteCounter, LogStop, LogResume, WriteFails, HeadWriteFails, disk
<1>7. ASSUME NEW b \in Businesses, RenewLiveness(b) \/ LivenessLapses(b)
      PROVE  UNCHANGED Authority!vars
    BY <1>s, <1>7 DEF RenewLiveness, LivenessLapses, disk
<1>8. CASE Crash \/ Load \/ UNCHANGED vars
    BY <1>s, <1>8 DEF Crash, Load, vars, disk
<1> QED
    BY <1>1, <1>2, <1>3, <1>4, <1>5, <1>6, <1>7, <1>8 DEF Next, Authority!Next

\* The node as a client sees it, restarts included, is a StopAuthority.
THEOREM Refinement == Spec => ImplementsAuthority
<1>1. Init => Authority!Init
    BY DEF Init, Authority!Init, CitedBy
<1> QED BY <1>1, StepImplements, Invariant, PTL DEF Spec, ImplementsAuthority, Authority!Spec
=============================================================================
