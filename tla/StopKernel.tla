------------------------------ MODULE StopKernel ------------------------------
(***************************************************************************)
(* STOP, RESUME and run_automation as the real kernel executes them: a     *)
(* syscall under the kernel mutex is a sequence of durable writes, each of *)
(* which may fail (the call returns an error where it stands) and between  *)
(* any two of which the process may die; a later start rebuilds the        *)
(* kernel's memory from the rows (RealKernel::load).                       *)
(*                                                                         *)
(* One action is one durable write together with the assignments to memory *)
(* up to the next write.  The call in progress is in `call`.  The mutex    *)
(* admits one call at a time, so there is one `call` for the node.         *)
(*                                                                         *)
(* A machine principal is refused STOP and RESUME by i1_presence before    *)
(* anything is touched, and a human's run_automation returns Ok at once:   *)
(* both leave every variable unchanged and have no action here.            *)
(*                                                                         *)
(* The ledger is abstracted to which events it durably holds; its file,    *)
(* its chain and its recorded head are LedgerStore.tla.                    *)
(***************************************************************************)
EXTENDS Naturals

CONSTANTS
    Businesses,     \* the businesses automations run in
    NodeScope,      \* the scope of a STOP of the whole node
    MaxId,          \* bound: highest value of the node's id counter
    MaxRuns         \* bound: automations run per business

ASSUME BoundsAssumption == MaxId \in Nat /\ MaxRuns \in Nat
ASSUME ScopesAssumption == NodeScope \notin Businesses

VARIABLES
    \* The disk: rows of vk.sqlite and the events of the ledger.
    stopRows,       \* table `stops`
    resumeRows,     \* table `resumes`
    counterRow,     \* kv `counter`
    recorded,       \* the "stop" and "resume" events in the ledger
    ran,            \* the number of "automation.ran" events, per business
    \* The clock's view of table `liveness`.
    alive,          \* businesses whose autonomy lease has not lapsed
    \* The memory of the running process.
    up,
    stops,          \* StopSet.stops
    resumes,        \* StopSet.resumes
    counter,        \* RealKernel.counter
    call,           \* the syscall in progress
    \* What callers were told.
    ackedStops,     \* STOPs whose id was returned
    ackedResumes,   \* STOP ids whose RESUME returned Ok
    refused         \* RESUMEs that returned an error once their id was durable

disk == <<stopRows, resumeRows, counterRow, recorded, ran>>
memory == <<up, stops, resumes, counter, call>>
told == <<ackedStops, ackedResumes, refused>>
vars == <<disk, alive, memory, told>>

-----------------------------------------------------------------------------
Scopes == Businesses \cup {NodeScope}
Ids == 1..MaxId
StopEvents == [id : Ids, scope : Scopes]
ResumeEvents == [id : Ids, cites : Ids]
Events == [kind : {"stop", "resume"}, id : Ids]

Idle == [op |-> "idle"]
StopCalls == [op : {"stop"}, at : {"counter", "row", "log"}, event : StopEvents]
ResumeCalls == [op : {"resume"}, at : {"counter", "log", "row"}, event : ResumeEvents]

IdsOf(events) == {e.id : e \in events}
CitedBy(events) == {e.cites : e \in events}

\* Db::put_json and BTreeMap::insert: a row replaces the row of the same key.
Put(rows, row) == {r \in rows : r.id # row.id} \cup {row}

\* StopSet::stopped.
Stopped(scope) == \E s \in stops : s.scope = scope /\ s.id \notin CitedBy(resumes)

\* Variant of HasStop: a RESUME cites any id at all.
HasStopUnchecked(id) == TRUE

\* StopSet::has_stop.
HasStop(id) == id \in IdsOf(stops)

\* Variant of NextId: the id is taken before the increment.
NextIdPostIncrement == counter

\* next_id, up to its write: memory moves first.
NextId == counter + 1

Return == call' = Idle
Proceed(step) == call' = [call EXCEPT !.at = step]
At(op, step) == call.op = op /\ call.at = step
Ready == up /\ call = Idle

-----------------------------------------------------------------------------
Init ==
    /\ stopRows = {}
    /\ resumeRows = {}
    /\ counterRow = 0
    /\ recorded = {}
    /\ ran = [b \in Businesses |-> 0]
    /\ alive = {}
    /\ up = FALSE
    /\ stops = {}
    /\ resumes = {}
    /\ counter = 0
    /\ call = Idle
    /\ ackedStops = {}
    /\ ackedResumes = {}
    /\ refused = {}

-----------------------------------------------------------------------------
(* stop(scope): counter, row (then memory), ledger. *)

CallStop(scope) ==
    /\ Ready
    /\ counter < MaxId
    /\ counter' = NextId
    /\ call' = [op |-> "stop", at |-> "counter",
                event |-> [id |-> NextId, scope |-> scope]]
    /\ UNCHANGED <<disk, alive, up, stops, resumes, told>>

\* Variant of WriteCounter: stop() adds to the StopSet before it writes the row.
WriteCounterMemoryFirst ==
    /\ call.op # "idle"
    /\ call.at = "counter"
    /\ counterRow' = counter
    /\ Proceed(IF call.op = "stop" THEN "row" ELSE "log")
    /\ stops' = IF call.op = "stop" THEN Put(stops, call.event) ELSE stops
    /\ UNCHANGED <<stopRows, resumeRows, recorded, ran, alive,
                   up, resumes, counter, told>>

\* kv_set("counter", ..) in next_id, for a STOP and for a RESUME.
WriteCounter ==
    /\ call.op # "idle"
    /\ call.at = "counter"
    /\ counterRow' = counter
    /\ Proceed(IF call.op = "stop" THEN "row" ELSE "log")
    /\ UNCHANGED <<stopRows, resumeRows, recorded, ran, alive,
                   up, stops, resumes, counter, told>>

\* Variant of WriteStopRow: an error of put_json is ignored.
WriteStopRowUnchecked ==
    /\ At("stop", "row")
    /\ stopRows' \in {stopRows, Put(stopRows, call.event)}
    /\ stops' = Put(stops, call.event)
    /\ Proceed("log")
    /\ UNCHANGED <<resumeRows, counterRow, recorded, ran, alive,
                   up, resumes, counter, told>>

WriteStopRow ==
    /\ At("stop", "row")
    /\ stopRows' = Put(stopRows, call.event)
    /\ stops' = Put(stops, call.event)
    /\ Proceed("log")
    /\ UNCHANGED <<resumeRows, counterRow, recorded, ran, alive,
                   up, resumes, counter, told>>

LogStop ==
    /\ At("stop", "log")
    /\ recorded' = recorded \cup {[kind |-> "stop", id |-> call.event.id]}
    /\ ackedStops' = ackedStops \cup {call.event}
    /\ Return
    /\ UNCHANGED <<stopRows, resumeRows, counterRow, ran, alive,
                   up, stops, resumes, counter, ackedResumes, refused>>

-----------------------------------------------------------------------------
(* resume(stop_id): known?, counter, ledger, row, memory. *)

CallResume(cited) ==
    /\ Ready
    /\ HasStop(cited)
    /\ counter < MaxId
    /\ counter' = NextId
    /\ call' = [op |-> "resume", at |-> "counter",
                event |-> [id |-> NextId, cites |-> cited]]
    /\ UNCHANGED <<disk, alive, up, stops, resumes, told>>

LogResume ==
    /\ At("resume", "log")
    /\ recorded' = recorded \cup {[kind |-> "resume", id |-> call.event.cites]}
    /\ Proceed("row")
    /\ UNCHANGED <<stopRows, resumeRows, counterRow, ran, alive,
                   up, stops, resumes, counter, told>>

WriteResumeRow ==
    /\ At("resume", "row")
    /\ resumeRows' = Put(resumeRows, call.event)
    /\ resumes' = Put(resumes, call.event)
    /\ ackedResumes' = ackedResumes \cup {call.event.cites}
    /\ Return
    /\ UNCHANGED <<stopRows, counterRow, recorded, ran, alive,
                   up, stops, counter, ackedStops, refused>>

-----------------------------------------------------------------------------
(* A durable write that fails: `?` returns the error where the call stands. *)

\* (Until the counter is written the id is not durable: another call may take
\* it after a restart.)
Refuse == refused' = IF call.op = "resume" /\ call.at # "counter"
                        THEN refused \cup {call.event} ELSE refused

WriteFails ==
    /\ call.op # "idle"
    /\ Refuse
    /\ Return
    /\ UNCHANGED <<disk, alive, up, stops, resumes, counter, ackedStops, ackedResumes>>

\* Store::append_event fails after the event reached the segment: the head
\* could not be recorded.  The caller sees the same error.
HeadWriteFails ==
    /\ call.op # "idle"
    /\ call.at = "log"
    /\ recorded' = recorded \cup
          {[kind |-> call.op,
            id |-> IF call.op = "stop" THEN call.event.id ELSE call.event.cites]}
    /\ Refuse
    /\ Return
    /\ UNCHANGED <<stopRows, resumeRows, counterRow, ran, alive,
                   up, stops, resumes, counter, ackedStops, ackedResumes>>

-----------------------------------------------------------------------------
(* run_automation by a machine, and the lease it needs (I4). *)

RunAutomation(b) ==
    /\ Ready
    /\ ran[b] < MaxRuns
    /\ ~Stopped(b)
    /\ b \in alive
    /\ ran' = [ran EXCEPT ![b] = @ + 1]
    /\ UNCHANGED <<stopRows, resumeRows, counterRow, recorded, alive, memory, told>>

RenewLiveness(b) ==
    /\ Ready
    /\ alive' = alive \cup {b}
    /\ UNCHANGED <<disk, memory, told>>

\* Time passes expires_at_ms: LivenessLease::alive turns false.
LivenessLapses(b) ==
    /\ b \in alive
    /\ alive' = alive \ {b}
    /\ UNCHANGED <<disk, memory, told>>

-----------------------------------------------------------------------------
(* The process dies; a later one loads what the rows say. *)

Crash ==
    /\ up
    /\ up' = FALSE
    /\ stops' = {}
    /\ resumes' = {}
    /\ counter' = 0
    /\ call' = Idle
    /\ UNCHANGED <<disk, alive, told>>

\* Variant of Load: the resumes are replayed before the stops they cite.
LoadResumesFirst ==
    /\ ~up
    /\ up' = TRUE
    /\ stops' = stopRows
    /\ resumes' = {r \in resumeRows : r.cites \in IdsOf(stops)}
    /\ counter' = counterRow
    /\ UNCHANGED <<disk, alive, call, told>>

\* Variant of Load: the id counter starts over.
LoadForgetsCounter ==
    /\ ~up
    /\ up' = TRUE
    /\ stops' = stopRows
    /\ resumes' = {r \in resumeRows : r.cites \in IdsOf(stopRows)}
    /\ counter' = 0
    /\ UNCHANGED <<disk, alive, call, told>>

\* RealKernel::load: stops, then the resumes StopSet::add_resume accepts.
Load ==
    /\ ~up
    /\ up' = TRUE
    /\ stops' = stopRows
    /\ resumes' = {r \in resumeRows : r.cites \in IdsOf(stopRows)}
    /\ counter' = counterRow
    /\ UNCHANGED <<disk, alive, call, told>>

-----------------------------------------------------------------------------
Next ==
    \/ \E scope \in Scopes : CallStop(scope)
    \/ \E cited \in Ids : CallResume(cited)
    \/ WriteCounter
    \/ WriteStopRow
    \/ LogStop
    \/ LogResume
    \/ WriteResumeRow
    \/ WriteFails
    \/ HeadWriteFails
    \/ \E b \in Businesses : RunAutomation(b) \/ RenewLiveness(b) \/ LivenessLapses(b)
    \/ Crash
    \/ Load

Spec == Init /\ [][Next]_vars

-----------------------------------------------------------------------------
(* Properties. *)

\* Every variable has its type; in particular a syscall in progress holds an
\* id that next_id has minted, and memory is empty while the node is down.
TypeOK ==
    /\ stopRows \subseteq StopEvents
    /\ resumeRows \subseteq ResumeEvents
    /\ counterRow \in 0..MaxId
    /\ recorded \subseteq Events
    /\ ran \in [Businesses -> Nat]
    /\ alive \subseteq Businesses
    /\ up \in BOOLEAN
    /\ stops \subseteq StopEvents
    /\ resumes \subseteq ResumeEvents
    /\ counter \in 0..MaxId
    /\ call \in {Idle} \cup StopCalls \cup ResumeCalls
    /\ ackedStops \subseteq StopEvents
    /\ ackedResumes \subseteq Ids
    /\ refused \subseteq ResumeEvents

\* What a running kernel enforces is exactly what a restart would enforce: the
\* order "row, then memory" of stop() and resume() and the filter of load()
\* never leave the two apart, wherever a write fails or the process dies.
MemoryIsDisk ==
    /\ up => stops = stopRows /\ resumes = resumeRows
    /\ ~up => stops = {} /\ resumes = {}

\* A STOP whose id was returned is on disk, and as long as no resume row cites
\* it its scope is stopped on every running node ("a STOP that this process
\* believes in but that no restart would find", vk-kernel/src/lib.rs:729).
AckedStopHolds ==
    \A s \in ackedStops :
        /\ s \in stopRows
        /\ up => Stopped(s.scope) \/ s.id \in CitedBy(resumeRows)

\* A RESUME that returned Ok stays in effect across every crash and restart.
AckedResumeLifts ==
    \A n \in ackedResumes : up => n \in CitedBy(resumes)

\* A RESUME that returned an error lifted nothing, then or after a restart
\* ("a call that reports failure must not have lifted anything",
\* vk-kernel/src/lib.rs:757).
RefusedResumeLiftsNothing ==
    /\ refused \cap resumeRows = {}
    /\ refused \cap resumes = {}

\* Authority is never granted back unrecorded: every resume on disk or in
\* memory has its event in the ledger.
ResumeIsRecorded ==
    \A r \in resumeRows \cup resumes : [kind |-> "resume", id |-> r.cites] \in recorded

\* No resume waits on disk for a STOP that has yet to take the id it cites:
\* resume() asks has_stop before it writes anything (vk-kernel/src/lib.rs:742).
NoGhostResume ==
    \A r \in resumeRows : \E s \in stopRows : s.id = r.cites /\ s.id < r.id

\* Authority comes back only by a RESUME that is genuine: accepted, recorded, and
\* citing a STOP there was.
ResumesAreGenuine == RefusedResumeLiftsNothing /\ ResumeIsRecorded /\ NoGhostResume

\* The node as a client sees it, restarts included, is a StopAuthority: ids are
\* never reused, no STOP or RESUME is ever lost or undone by a crash or a
\* failed write, and no automation runs in a business a live STOP holds.
Authority == INSTANCE StopAuthority WITH
    issued <- IF up THEN stops ELSE stopRows,
    lifted <- CitedBy(IF up THEN resumes ELSE resumeRows)

ImplementsAuthority == Authority!Spec

-----------------------------------------------------------------------------
(* The inductive invariant behind the safety properties. *)

\* A call in progress belongs to a running process, and owns the newest id.
CallOwnsNewestId ==
    call.op # "idle" =>
        /\ up
        /\ call.event.id = counter
        /\ (call.at = "counter") => counterRow < counter
        /\ (call.at # "counter") => counterRow = counter

\* No durable id is ahead of the counter's row, which is never ahead of memory.
IdsAreCovered ==
    /\ up => counterRow <= counter
    /\ \A e \in stopRows \cup resumeRows \cup refused : e.id <= counterRow

\* The id of a call is fresh until its own row is written.
CallIdIsFresh ==
    /\ call.op # "idle" =>
          \A e \in resumeRows \cup refused : e.id < call.event.id
    /\ call.op # "idle" =>
          \A s \in stopRows : s.id < call.event.id \/ (At("stop", "log") /\ s = call.event)
    /\ At("stop", "log") => call.event \in stopRows

\* A RESUME in progress cites a STOP on disk, and is recorded before its row.
ResumeIsGrounded ==
    /\ call.op = "resume" => call.event.cites \in IdsOf(stopRows)
    /\ At("resume", "row") => [kind |-> "resume", id |-> call.event.cites] \in recorded

\* What was acknowledged is on disk.
AckedIsDurable ==
    /\ ackedStops \subseteq stopRows
    /\ ackedResumes \subseteq CitedBy(resumeRows)

IInv ==
    /\ TypeOK
    /\ MemoryIsDisk
    /\ CallOwnsNewestId
    /\ IdsAreCovered
    /\ CallIdIsFresh
    /\ ResumeIsGrounded
    /\ AckedIsDurable
    /\ NoGhostResume
    /\ ResumeIsRecorded
    /\ refused \cap resumeRows = {}
=============================================================================
