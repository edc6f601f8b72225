----------------------------- MODULE ReadSurfaces -----------------------------
(***************************************************************************)
(* Who may see what (invariant I2): registers, tasks and artefacts with    *)
(* their labels, callers with their clearances, and every way the kernel   *)
(* answers: read_register, read_artefact, task, tasks, top,                *)
(* approval_subject, the namespace, and a release to the file system.      *)
(*                                                                         *)
(* A text is the set of the objects it was made from, and an object has    *)
(* the label it was brought in with.  Between read_register and            *)
(* write_register a caller holds a copy, and other calls come in between;  *)
(* one call holds the kernel mutex to its end.  Only rows and files        *)
(* outlive a call, so a crash is the end of the call in progress.  The     *)
(* steps of a task are TaskScheduler's, the files of a put BlobTier's: a   *)
(* task row keeps whether it is at an approve step, a put is one write.    *)
(***************************************************************************)
EXTENDS Labels, ReleasePaths

CONSTANTS
    Objects,        \* function: object -> the label it is brought in with
    Callers,        \* function: caller -> its clearance
    Dests,          \* to_dir of a release
    MaxRegisters,   \* bound: registers submitted
    MaxArtefacts,   \* bound: artefacts of a register
    MaxSyscalls,    \* bound: calls that work on a register
    MaxCutShort     \* bound: failed writes and crashes

ASSUME SurfacesAssumption ==
    MaxRegisters \in Nat /\ MaxArtefacts \in Nat /\ MaxSyscalls \in Nat /\ MaxCutShort \in Nat
ASSUME InputsAssumption ==
    /\ \A o \in DOMAIN Objects : Objects[o] \in Label
    /\ \A c \in DOMAIN Callers : Callers[c] \in Clearance
    /\ Dests \subseteq Seq(Components)

VARIABLES
    \* The disk.
    registers,      \* table `registers`: id -> [label, sources, artefacts]
    tasks,          \* table `tasks`: id -> is the task at its approve step
    labels,         \* the envelopes: address -> label
    releases,       \* the destinations of "artefact.released" events
    directories,    \* made under the export root
    files,          \* paths written by releases
    \* The process and its callers.
    submitted,      \* next_id
    syscall,        \* the call in progress
    copies,         \* the register each caller is working on
    \* What happened.
    shown,          \* set of <<object, caller>>: what left the kernel, to whom
    syscalls,
    cutShort

world == [registers |-> registers, tasks |-> tasks, labels |-> labels]
exports == <<releases, directories, files>>
surfaceVars == <<registers, tasks, labels, exports, submitted, syscall, copies, shown, syscalls, cutShort>>

-----------------------------------------------------------------------------
Ids == 1..MaxRegisters      \* a task has the id of its register
NoCall == [at |-> "idle"]
NoCopy == [id |-> 0]
With(f, k, v) == [x \in DOMAIN f \cup {k} |-> IF x = k THEN v ELSE f[x]]
Unoccupied == syscall = NoCall
Count == syscalls < MaxSyscalls /\ syscalls' = syscalls + 1
Show(sources, c) == shown' = shown \cup (sources \X {c})

-----------------------------------------------------------------------------
(* What a world answers to a caller; {} is NotFound. *)

\* visible_to: a task whose register is not there is hidden too.
VisibleTo(w, c, t) == t \in DOMAIN w.registers /\ FlowsTo(w.registers[t].label, Callers[c])

\* read_register.
Readable(w, c, id) == id \in DOMAIN w.registers /\ FlowsTo(w.registers[id].label, Callers[c])

\* The row, with no question asked about who is looking.
TaskRow(w, t) == IF t \in DOMAIN w.tasks THEN {w.tasks[t]} ELSE {}

Task(w, c, t) == IF VisibleTo(w, c, t) THEN TaskRow(w, t) ELSE {}

\* tasks, of which top and the namespace show parts.
Tasks(w, c) == {t \in DOMAIN w.tasks : VisibleTo(w, c, t)}
Top(w, c) == {<<t, w.tasks[t]>> : t \in Tasks(w, c)}

\* ns::resolve of /tasks, /tasks/<id> and /artefacts/<hash>: an envelope is shown to
\* whoever can name its address.
ResolveTasks(w, c) == Tasks(w, c)
ResolveTask(w, c, t) == Task(w, c, t)
ResolveArtefact(w, c, a) == IF a \in DOMAIN w.labels THEN {w.labels[a]} ELSE {}

\* The latest artefact, or with none the register's own hash.
SubjectOf(register) ==
    IF register.artefacts = <<>> THEN {<<"register", register>>}
    ELSE {<<"artefact", register.artefacts[Len(register.artefacts)].address>>}

\* Variant of ApprovalSubject: where the task stands is said before who asks.
ApprovalSubjectOfRow(w, c, t) ==
    IF t \notin DOMAIN w.tasks THEN {}
    ELSE IF ~w.tasks[t] THEN {"gate"}
    ELSE IF ~VisibleTo(w, c, t) THEN {}
    ELSE SubjectOf(w.registers[t])

\* approval_subject: answered while the task is at its approve step.
ApprovalSubject(w, c, t) ==
    IF Task(w, c, t) = {} THEN {}
    ELSE IF ~w.tasks[t] THEN {"gate"}
    ELSE SubjectOf(w.registers[t])

\* dispatch: what the transport answers about tasks.
Answers(w, c) ==
    [ls      |-> Tasks(w, c),
     top     |-> Top(w, c),
     ns      |-> ResolveTasks(w, c),
     show    |-> [t \in Ids |-> Task(w, c, t)],
     node    |-> [t \in Ids |-> ResolveTask(w, c, t)],
     subject |-> [t \in Ids |-> ApprovalSubject(w, c, t)]]

-----------------------------------------------------------------------------
(* create_task: submit_task writes the register, read_register may refuse its own *)
(* author, and the task's row comes last. *)

SubmitTask ==
    /\ Unoccupied /\ submitted < MaxRegisters
    /\ \E o \in DOMAIN Objects, c \in DOMAIN Callers, approve \in BOOLEAN :
         /\ registers' = With(registers, submitted + 1,
                              [label |-> Objects[o], sources |-> {o}, artefacts |-> <<>>])
         /\ syscall' = [at |-> "task", id |-> submitted + 1, caller |-> c, approve |-> approve]
    /\ submitted' = submitted + 1
    /\ UNCHANGED <<tasks, labels, exports, copies, shown, syscalls, cutShort>>

CreateTask ==
    /\ syscall.at = "task"
    /\ tasks' = IF Readable(world, syscall.caller, syscall.id)
                THEN With(tasks, syscall.id, syscall.approve) ELSE tasks
    /\ syscall' = NoCall
    /\ UNCHANGED <<registers, labels, exports, submitted, copies, shown, syscalls, cutShort>>

-----------------------------------------------------------------------------
(* A caller works on a register: read_register, with_read, write_register. *)

ReadRegister(c) ==
    /\ Unoccupied /\ Count
    /\ \E id \in Ids :
         /\ Readable(world, c, id)
         /\ copies' = [copies EXCEPT ![c] = [id |-> id, register |-> registers[id]]]
         /\ Show(registers[id].sources, c)
    /\ UNCHANGED <<registers, tasks, labels, exports, submitted, syscall, cutShort>>

\* Variant of WithRead: the label stays.
WithReadUntainted(register, other) == [register EXCEPT !.sources = @ \cup other.sources]

\* Register::with_read, with what is taken over from the other register.
WithRead(register, other) ==
    [register EXCEPT !.sources = @ \cup other.sources,
                     !.label = Join(@, other.label)]

ReadOther(c) ==
    /\ Unoccupied /\ Count /\ copies[c] # NoCopy
    /\ \E id \in Ids :
         /\ Readable(world, c, id)
         /\ copies' = [copies EXCEPT ![c].register = WithRead(@, registers[id])]
         /\ Show(registers[id].sources, c)
    /\ UNCHANGED <<registers, tasks, labels, exports, submitted, syscall, cutShort>>

\* A caller may write any kind into its copy.
EditKind(c) ==
    /\ Unoccupied /\ Count /\ copies[c] # NoCopy
    /\ \E i \in DOMAIN copies[c].register.artefacts, kind \in ArtefactKinds :
         copies' = [copies EXCEPT ![c].register.artefacts[i].kind = kind]
    /\ UNCHANGED <<registers, tasks, labels, exports, submitted, syscall, shown, cutShort>>

\* write_register replaces the row, whatever happened to it since it was read.
WriteRegister(c) ==
    /\ Unoccupied /\ Count /\ copies[c] # NoCopy
    /\ registers' = [registers EXCEPT ![copies[c].id] = copies[c].register]
    /\ copies' = [copies EXCEPT ![c] = NoCopy]
    /\ UNCHANGED <<tasks, labels, exports, submitted, syscall, shown, cutShort>>

-----------------------------------------------------------------------------
(* attach_artefact and read_artefact *)

\* A plain kind; the text is drafted from what the register holds.
CallAttach ==
    /\ Unoccupied /\ Count
    /\ \E c \in DOMAIN Callers, id \in Ids :
         /\ Readable(world, c, id)
         /\ Len(registers[id].artefacts) < MaxArtefacts
         /\ \E text \in SUBSET registers[id].sources \ {{}} :
              syscall' = [at |-> "put", id |-> id, address |-> <<id, text>>]
    /\ UNCHANGED <<registers, tasks, labels, exports, submitted, copies, shown, cutShort>>

\* The same bytes of the same task have one address: a second put relabels it.
PutArtefact ==
    /\ syscall.at = "put"
    /\ labels' = With(labels, syscall.address, registers[syscall.id].label)
    /\ syscall' = [syscall EXCEPT !.at = "row"]
    /\ UNCHANGED <<registers, tasks, exports, submitted, copies, shown, syscalls, cutShort>>

AttachRow ==
    /\ syscall.at = "row"
    /\ registers' = [registers EXCEPT ![syscall.id].artefacts =
                        Append(@, [address |-> syscall.address, kind |-> "plain"])]
    /\ syscall' = NoCall
    /\ UNCHANGED <<tasks, labels, exports, submitted, copies, shown, syscalls, cutShort>>

\* read_artefact: the envelope's label, not the register's.
MayRead(c, a) == a \in DOMAIN labels /\ FlowsTo(labels[a], Callers[c])

ReadArtefact(c) ==
    /\ Unoccupied
    /\ \E a \in DOMAIN labels : MayRead(c, a) /\ Show(a[2], c)
    /\ UNCHANGED <<registers, tasks, labels, exports, submitted, syscall, copies, syscalls, cutShort>>

-----------------------------------------------------------------------------
(* run_step of a release *)

\* Destination and names are judged first; the event comes before the bytes.
CallRelease ==
    /\ Unoccupied /\ Count
    /\ \E c \in DOMAIN Callers, t \in Ids, dir \in Dests :
         /\ Task(world, c, t) # {} /\ Readable(world, c, t)
         /\ ReleaseDest(dir)
         /\ \A i \in DOMAIN registers[t].artefacts : FileName(registers[t].artefacts[i].kind)
         /\ syscall' = [at |-> "directory", caller |-> c, dir |-> dir,
                        artefacts |-> registers[t].artefacts]
         /\ releases' = releases \cup {[dir |-> dir, artefacts |-> registers[t].artefacts]}
    /\ UNCHANGED <<registers, tasks, labels, directories, files, submitted, copies, shown, cutShort>>

MakeDirectory ==
    /\ syscall.at = "directory"
    /\ directories' = directories \cup {syscall.dir}
    /\ syscall' = IF syscall.artefacts = <<>> THEN NoCall ELSE [syscall EXCEPT !.at = "file"]
    /\ UNCHANGED <<registers, tasks, labels, releases, files, submitted, copies, shown, syscalls, cutShort>>

\* The next file, or the error that ends the release.
WriteFile ==
    /\ syscall.at = "file"
    /\ LET a == Head(syscall.artefacts)
       IN  IF MayRead(syscall.caller, a.address) /\ CanBeCreated(a.kind)
           THEN /\ files' = files \cup {syscall.dir \o NameParts(a.kind)}
                /\ Show(a.address[2], syscall.caller)
                /\ syscall' = IF Len(syscall.artefacts) = 1 THEN NoCall
                              ELSE [syscall EXCEPT !.artefacts = Tail(@)]
           ELSE syscall' = NoCall /\ UNCHANGED <<files, shown>>
    /\ UNCHANGED <<registers, tasks, labels, releases, directories, submitted, copies, syscalls, cutShort>>

-----------------------------------------------------------------------------
\* A write fails, or the daemon dies: the call is over and what it did stays.
CutShort ==
    /\ ~Unoccupied /\ cutShort < MaxCutShort
    /\ syscall' = NoCall
    /\ cutShort' = cutShort + 1
    /\ UNCHANGED <<registers, tasks, labels, exports, submitted, copies, shown, syscalls>>

SurfacesInit ==
    /\ registers = <<>> /\ tasks = <<>> /\ labels = <<>>
    /\ releases = {} /\ directories = {} /\ files = {}
    /\ submitted = 0
    /\ syscall = NoCall
    /\ copies = [c \in DOMAIN Callers |-> NoCopy]
    /\ shown = {}
    /\ syscalls = 0
    /\ cutShort = 0

SurfacesNext ==
    \/ SubmitTask \/ CreateTask
    \/ \E c \in DOMAIN Callers :
         ReadRegister(c) \/ ReadOther(c) \/ EditKind(c) \/ WriteRegister(c) \/ ReadArtefact(c)
    \/ CallAttach \/ PutArtefact \/ AttachRow
    \/ CallRelease \/ MakeDirectory \/ WriteFile
    \/ CutShort

SurfacesSpec == SurfacesInit /\ [][SurfacesNext]_surfaceVars

-----------------------------------------------------------------------------
(* Properties *)

\* Rows and envelopes keep their types; what a row names is there: a task's register
\* was written before the task (create_task), an artefact before the register that
\* lists it (attach_artefact).
SurfacesTypeOK ==
    /\ DOMAIN registers = 1..submitted /\ submitted \in 0..MaxRegisters
    /\ \A id \in DOMAIN registers :
         /\ registers[id].label \in Label /\ registers[id].sources \subseteq DOMAIN Objects
         /\ \A i \in DOMAIN registers[id].artefacts :
              registers[id].artefacts[i].address \in DOMAIN labels
    /\ DOMAIN tasks \subseteq DOMAIN registers
    /\ \A a \in DOMAIN labels : labels[a] \in Label
    /\ syscalls \in 0..MaxSyscalls /\ cutShort \in 0..MaxCutShort

\* A task above the caller's clearance answers like one that was never created, on
\* every method of the transport: "indistinguishably" (tasks.rs:166-170, :268-279).
Without(w, c) ==
    LET Left == {t \in DOMAIN w.registers : Readable(w, c, t)}
    IN  [w EXCEPT !.registers = [t \in Left |-> w.registers[t]],
                  !.tasks = [t \in DOMAIN w.tasks \cap Left |-> w.tasks[t]]]

HiddenIsAbsent == \A c \in DOMAIN Callers : Answers(world, c) = Answers(Without(world, c), c)

\* "Every object written by a task carries the join of what the task read"
\* (labels.rs:1-2): the label on a row and on an envelope covers all that is in it,
\* also where a stale copy overwrote the row or the same bytes were attached twice.
Covers(label, sources) == \A o \in sources : Leq(Objects[o], label)
LabelsCover ==
    /\ \A id \in DOMAIN registers : Covers(registers[id].label, registers[id].sources)
    /\ \A a \in DOMAIN labels : Covers(labels[a], a[2])

\* I2, end to end: nothing that was made from an object reaches a caller who may not
\* see the object, by whatever registers, artefacts and releases it went.
OnlyClearedLeaves ==
    \A s \in shown : FlowsTo(Objects[s[1]], Callers[s[2]])

\* Every release lands under the export root, also one whose register holds a kind
\* that never came through attach_artefact (release_dest, release_file_name).
FilesStayInside == \A path \in directories \cup files : StaysInside(path)

\* A release the kernel refuses leaves "no directory, no half-written export and no
\* ledger event claiming one" (tasks.rs:436-439).
RefusedReleaseLeavesNothing ==
    /\ \A r \in releases : /\ ReleaseDest(r.dir)
                           /\ \A i \in DOMAIN r.artefacts : FileName(r.artefacts[i].kind)
    /\ directories \subseteq {r.dir : r \in releases}

\* Every row and envelope is there, typed, and labelled for what is in it.
RowsAreLabelled == SurfacesTypeOK /\ LabelsCover

\* No answer tells a caller what it is not cleared for: neither content nor that a
\* task exists.
CallersSeeTheirOwn == OnlyClearedLeaves /\ HiddenIsAbsent

\* A release writes under the export root, and only if the kernel accepted all of it.
ReleasesAreContained == FilesStayInside /\ RefusedReleaseLeavesNothing
=============================================================================
