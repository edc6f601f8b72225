----------------------------- MODULE LedgerStore -----------------------------
(***************************************************************************)
(* The ledger tier: LedgerFs (JSONL segments of hash-chained events),      *)
(* Store::append_event, and the head recorded in SQLite that Store::open   *)
(* compares with the chain it reads.                                       *)
(*                                                                         *)
(* An event is [seq, prev, hash].  The hash is a number no other event     *)
(* has, so that "the hash recomputes" holds of every event as written and  *)
(* what is left to check is the links.  A line of a segment is an event,   *)
(* or bytes that parse as none, with or without the final newline.         *)
(*                                                                         *)
(* Faults names what can go wrong beyond a crash between two steps:        *)
(*   "error"    a write returns an error, and set_len takes back its bytes *)
(*   "setlen"   ... and set_len fails too                                  *)
(*   "syncdir"  the fsync of the directory of a fresh segment fails        *)
(*   "newline"  a crash leaves a whole line but for its newline            *)
(*   "power"    a crash loses the segments whose directory entry was never *)
(*              synced                                                     *)
(*   "cut"      somebody removes whole lines from the end of the record    *)
(***************************************************************************)
EXTENDS Integers, FiniteSetsExt, SequencesExt

CONSTANTS
    SegmentEvents,  \* events per segment file (SEGMENT_EVENTS)
    MaxAppends,     \* bound: appends attempted in a behaviour
    Faults,         \* the faults admitted, see above
    Junk,           \* what bytes that parse as no event stand for
    NoHead          \* no head on record

ASSUME BoundsAssumption ==
    /\ SegmentEvents \in Nat \ {0}
    /\ MaxAppends \in Nat
    /\ Faults \subseteq {"error", "setlen", "syncdir", "newline", "power", "cut"}

VARIABLES
    \* The disk.
    files,          \* the segments that exist
    synced,         \* those whose directory entry is durable
    lines,          \* the lines of each segment
    head,           \* kv `ledger.head`
    \* The process.
    up,
    chain,          \* LedgerFs.chain
    verdict,        \* Store.ledger_head
    step,           \* where append_event stands
    \* History.
    attempts,       \* appends begun; the hash of the newest event
    acked,          \* the events whose append returned Ok
    suffered        \* the faults that have struck so far, but for "error"

disk == <<files, synced, lines, head>>
process == <<up, chain, verdict, step>>
vars == <<disk, process, attempts, acked, suffered>>

-----------------------------------------------------------------------------
(* Events, lines, segments. *)

Genesis == 0
Hashes == 1..MaxAppends
Event == [seq : 0..MaxAppends, prev : {Genesis} \cup Hashes, hash : Hashes]
Segments == 0..(MaxAppends \div SegmentEvents)
LedgerHead == [seq : 0..MaxAppends, hash : Hashes]
ASSUME ValuesAssumption == Junk \notin Event /\ NoHead \notin LedgerHead
Line == [text : Event \cup {Junk}, nl : BOOLEAN]

Terminated(ls) == ls = <<>> \/ Last(ls).nl

\* Bytes written at the end of a file whose last line has no newline run on
\* from that line, and the two together parse as nothing.
Write(ls, line) ==
    IF Terminated(ls) THEN Append(ls, line)
    ELSE Append(Front(ls), [text |-> Junk, nl |-> line.nl])

\* segment_path
SegmentOf(seq) == seq \div SegmentEvents

\* Ledger::append: the event that extends the chain.
NextEvent == [seq |-> Len(chain),
              prev |-> IF chain = <<>> THEN Genesis ELSE Last(chain).hash,
              hash |-> attempts + 1]

\* Ledger::verify_chain.
Verifies(c) ==
    \A i \in 1..Len(c) : c[i].prev = IF i = 1 THEN Genesis ELSE c[i - 1].hash

\* Variant of RolledBack: the chain keeps what the disk refused.
NotRolledBack == chain

\* LedgerFs::roll_back of the newest event.
RolledBack == Front(chain)

-----------------------------------------------------------------------------
(* LedgerFs::open: parse every segment in order. *)

\* The one tolerated damage: an unparseable, unterminated last line of the
\* newest segment.
TornTail(s) ==
    /\ s = Max(files)
    /\ ~Terminated(lines[s])
    /\ Last(lines[s]).text = Junk

\* The lines `open` keeps; it truncates the newest segment to them.
Kept(s) == IF TornTail(s) THEN Front(lines[s]) ELSE lines[s]

Openable == \A s \in files : \A i \in 1..Len(Kept(s)) : Kept(s)[i].text # Junk

\* The chain `open` rebuilds, segment by segment.
Replayed ==
    FlattenSeq([k \in 1..Cardinality(Segments) |->
        IF k - 1 \in files
        THEN [i \in 1..Len(Kept(k - 1)) |-> Kept(k - 1)[i].text]
        ELSE <<>>])

\* head_verdict: the event the recorded head names, looked up by position.
HeadVerdict(c) ==
    IF head = NoHead THEN "unrecorded"
    ELSE IF head.seq < Len(c) /\ c[head.seq + 1].seq = head.seq
                              /\ c[head.seq + 1].hash = head.hash
         THEN "intact"
         ELSE "diverged"

\* RealKernel::ledger_holds: what `boot` reports as ledger_ok.
LedgerHolds == Verifies(chain) /\ verdict # "diverged"

-----------------------------------------------------------------------------
Init ==
    /\ files = {}
    /\ synced = {}
    /\ lines = [s \in Segments |-> <<>>]
    /\ head = NoHead
    /\ up = FALSE
    /\ chain = <<>>
    /\ verdict = "unrecorded"
    /\ step = "idle"
    /\ attempts = 0
    /\ acked = {}
    /\ suffered = {}

\* Store::open.  It refuses a record that is not Openable, and then nothing
\* has changed.
Open ==
    /\ ~up
    /\ Openable
    /\ lines' = [s \in Segments |-> IF s \in files THEN Kept(s) ELSE <<>>]
    /\ up' = TRUE
    /\ chain' = Replayed
    /\ verdict' = HeadVerdict(Replayed)
    /\ UNCHANGED <<files, synced, head, step, attempts, acked, suffered>>

-----------------------------------------------------------------------------
(* Store::append_event: chain, segment, directory, head. *)

\* The event is built in the in-memory chain.
BeginAppend ==
    /\ up /\ step = "idle"
    /\ attempts < MaxAppends
    /\ chain' = Append(chain, NextEvent)
    /\ attempts' = attempts + 1
    /\ step' = "write"
    /\ UNCHANGED <<disk, up, verdict, acked, suffered>>

Newest == Last(chain)
Target == SegmentOf(Newest.seq)
Fresh == Target \notin files
FullLine == [text |-> Newest, nl |-> TRUE]

\* write_line: the whole line, synced.
WriteLine ==
    /\ step = "write"
    /\ files' = files \cup {Target}
    /\ lines' = [lines EXCEPT ![Target] = Write(@, FullLine)]
    /\ step' = IF Fresh THEN "syncdir" ELSE "head"
    /\ UNCHANGED <<synced, head, up, chain, verdict, attempts, acked, suffered>>

SyncDir ==
    /\ step = "syncdir"
    /\ synced' = files
    /\ step' = "head"
    /\ UNCHANGED <<files, lines, head, up, chain, verdict, attempts, acked, suffered>>

\* Variant of RecordHead: the head follows every append.
RecordHeadAlways ==
    /\ step = "head"
    /\ head' = [seq |-> Newest.seq, hash |-> Newest.hash]
    /\ acked' = acked \cup {Newest}
    /\ step' = "idle"
    /\ UNCHANGED <<files, synced, lines, up, chain, verdict, attempts, suffered>>

\* On a diverged store the head stays where it was.
RecordHead ==
    /\ step = "head"
    /\ head' = IF verdict = "diverged" THEN head
               ELSE [seq |-> Newest.seq, hash |-> Newest.hash]
    /\ acked' = acked \cup {Newest}
    /\ step' = "idle"
    /\ UNCHANGED <<files, synced, lines, up, chain, verdict, attempts, suffered>>

-----------------------------------------------------------------------------
(* The same steps when they fail. *)

\* The fault strikes, and the properties may make an exception of it.
Suffer(fault) == fault \in Faults /\ suffered' = suffered \cup {fault}

\* What part of a line a failed or interrupted write can leave in the file.
Landed == {[text |-> Junk, nl |-> FALSE], FullLine}

\* All of it but the newline, which open takes for an event.
Unended == [FullLine EXCEPT !.nl = FALSE]

\* Variant of RollBack: append goes on as if the line had been written.
RollBackIgnored ==
    /\ UNCHANGED chain
    /\ step' = "head"

RollBack ==
    /\ chain' = RolledBack
    /\ step' = "idle"

\* The segment cannot be opened, or write_all or sync_data fails and set_len
\* restores the length; a segment created for this line stays behind, empty.
WriteFails ==
    /\ "error" \in Faults
    /\ step = "write"
    /\ files' \in {files, files \cup {Target}}
    /\ RollBack
    /\ UNCHANGED <<synced, lines, head, up, verdict, attempts, acked, suffered>>

WriteAndSetLenFail ==
    /\ step = "write"
    /\ Suffer("setlen")
    /\ files' = files \cup {Target}
    /\ \E line \in Landed \cup {Unended} :
          lines' = [lines EXCEPT ![Target] = Write(@, line)]
    /\ RollBack
    /\ UNCHANGED <<synced, head, up, verdict, attempts, acked>>

\* `sync_dir(&self.dir)?`: the line is in the file and stays there.
SyncDirFails ==
    /\ step = "syncdir"
    /\ Suffer("syncdir")
    /\ RollBack
    /\ UNCHANGED <<disk, up, verdict, attempts, acked>>

\* kv_set(LEDGER_HEAD, ..) fails: an error to the caller, the event stays.
RecordHeadFails ==
    /\ "error" \in Faults
    /\ step = "head"
    /\ verdict # "diverged"
    /\ step' = "idle"
    /\ UNCHANGED <<disk, up, chain, verdict, attempts, acked, suffered>>

-----------------------------------------------------------------------------
(* The end of a process, and what it leaves on disk. *)

\* The line being written may have reached the file whole, in part or not.
Interrupted ==
    \/ UNCHANGED <<files, lines, suffered>>
    \/ /\ step = "write"
       /\ files' = files \cup {Target}
       /\ UNCHANGED <<lines, suffered>>
    \/ /\ step = "write"
       /\ files' = files \cup {Target}
       /\ \E line \in Landed : lines' = [lines EXCEPT ![Target] = Write(@, line)]
       /\ UNCHANGED suffered
    \/ /\ step = "write"
       /\ files' = files \cup {Target}
       /\ lines' = [lines EXCEPT ![Target] = Write(@, Unended)]
       /\ Suffer("newline")

Down ==
    /\ up' = FALSE
    /\ chain' = <<>>
    /\ verdict' = "unrecorded"
    /\ step' = "idle"

Crash ==
    /\ up
    /\ Interrupted
    /\ Down
    /\ UNCHANGED <<synced, head, attempts, acked>>

\* Segments whose directory entry was never synced are gone; what is still
\* there after the cut is there for good.
PowerCut ==
    /\ up
    /\ Suffer("power")
    /\ \E kept \in SUBSET files :
          /\ synced \subseteq kept
          /\ files' = kept
          /\ synced' = kept
          /\ lines' = [s \in Segments |-> IF s \in kept THEN lines[s] ELSE <<>>]
    /\ Down
    /\ UNCHANGED <<head, attempts, acked>>

\* Somebody removes the last line of the record, or its empty last file.
CutTail ==
    /\ ~up
    /\ files # {}
    /\ LET s == Max(files)
       IN  IF lines[s] = <<>>
           THEN files' = files \ {s} /\ UNCHANGED lines
           ELSE lines' = [lines EXCEPT ![s] = Front(@)] /\ UNCHANGED files
    /\ synced' = synced \cap files'
    /\ Suffer("cut")
    /\ UNCHANGED <<head, process, attempts, acked>>

-----------------------------------------------------------------------------
Next ==
    \/ Open
    \/ BeginAppend
    \/ WriteLine
    \/ SyncDir
    \/ RecordHead
    \/ WriteFails
    \/ WriteAndSetLenFail
    \/ SyncDirFails
    \/ RecordHeadFails
    \/ Crash
    \/ PowerCut
    \/ CutTail

Spec == Init /\ [][Next]_vars

-----------------------------------------------------------------------------
(* Properties. *)

\* Types; a segment that does not exist has no lines.
TypeOK ==
    /\ files \subseteq Segments
    /\ synced \subseteq files
    /\ lines \in [Segments -> Seq(Line)]
    /\ \A s \in Segments \ files : lines[s] = <<>>
    /\ head \in {NoHead} \cup LedgerHead
    /\ up \in BOOLEAN
    /\ chain \in Seq(Event)
    /\ verdict \in {"unrecorded", "intact", "diverged"}
    /\ step \in {"idle", "write", "syncdir", "head"}
    /\ attempts \in 0..MaxAppends
    /\ acked \subseteq Event
    /\ suffered \subseteq Faults

Spared(faults) == suffered \cap faults = {}

\* No crash and no failed append leaves a ledger that `open` refuses as
\* corrupt: the torn tail is the only damage, and open repairs it.  The
\* exceptions: a last line whose newline was lost, or whose bytes set_len could
\* not take back, which the next append runs on from; and an older segment lost
\* in a power cut, which the next append writes anew and a crash may tear.
AlwaysOpenable == ~up /\ Spared({"newline", "setlen", "power"}) => Openable

\* Between appends the in-memory chain is what the files replay to: "the next
\* append computes its seq and prev_hash from the last event the file really
\* has" (vk-store/src/ledger_fs.rs:96-101).
ChainIsFile ==
    up /\ step = "idle" /\ Spared({"newline", "setlen", "syncdir", "power"})
        => Openable /\ chain = Replayed

\* The same with no exception, as the comment states it.
ChainIsFileWhateverFails == up /\ step = "idle" => Openable /\ chain = Replayed

\* An append starts on a complete line: "a later append never lands mid-line"
\* (vk-store/src/ledger_fs.rs:17-24).
AppendsOnCompleteLine ==
    up /\ step = "idle" /\ Spared({"newline", "setlen"})
        => \A s \in files : Terminated(lines[s])

\* boot raises no false alarm: a record nobody shortened, on a disk that keeps
\* what was synced, verifies and reaches its recorded head, wherever the
\* process died between segment and head.
NoFalseAlarm ==
    up /\ step = "idle" /\ Spared({"cut", "power", "syncdir", "setlen"})
        => LedgerHolds

\* An event whose append returned Ok is in the record of every later process.
AckedIsRecorded == up /\ Spared({"cut", "power"}) => acked \subseteq ToSet(chain)

\* A record that lost an event some caller was acknowledged is reported by every
\* later boot, however it was lost: neither events appended since (under
\* --force) nor further restarts make it pass as intact
\* (vk-store/src/lib.rs:100-102).
LossIsReported == up /\ ~(acked \subseteq ToSet(chain)) => ~LedgerHolds

\* What head_verdict relies on to look the head up by position: "A chain that
\* verifies has seq == index" (vk-store/src/lib.rs:139).
VerifiedChainIsPositional ==
    up /\ Verifies(chain) => \A i \in 1..Len(chain) : chain[i].seq = i - 1

\* The record and the memory of it stay sound through every crash and failed
\* write: it opens, memory is what it replays to, the next append lands on a line
\* of its own and at the place its number says.
RecordIsSound ==
    /\ TypeOK
    /\ AlwaysOpenable
    /\ ChainIsFile
    /\ AppendsOnCompleteLine
    /\ VerifiedChainIsPositional

\* The verdict of open is true both ways: it accuses nobody of a crash, and it
\* never calls a record intact that lost an acknowledged event.
VerdictIsTrue == NoFalseAlarm /\ LossIsReported
=============================================================================
