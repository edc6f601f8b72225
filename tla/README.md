# VerticalAI kernel in TLA+

Models, model-checking runs and machine-checked proofs of the VerticalAI
node: one daemon (`vkd`) that holds one kernel (`RealKernel`) over one state
directory, and the clients (`vk`) that call it. Paths are relative to the
repository; line references are to the commit this directory sits beside.

## 1. The system

| Component | State it keeps | Operations | Correct when |
|---|---|---|---|
| STOP and unattended automation (`vk-kernel/src/lib.rs`, `vk-contracts/src/{stop,interceptors}.rs`) | rows `stops`, `resumes`, `liveness`, kv `counter`; in memory a `StopSet` and the counter | `stop`, `resume`, `run_automation`, `renew_liveness_persisted`, `load` | an acknowledged STOP or RESUME survives every crash, a refused RESUME lifts nothing, no automation runs under a STOP |
| Ledger tier (`vk-store/src/{ledger_fs,lib}.rs`, `vk-contracts/src/ledger.rs`) | JSONL segments, kv `ledger.head`; in memory the chain and the verdict of `open` | `open`, `append`, `write_line`, `roll_back`, `append_event` | memory is the file, it always opens, an intact record raises no alarm, a shortened one always does |
| Task scheduler (`vk-kernel/src/tasks.rs`) | row `tasks`, the task's register, `approvals`, the export directory | `create_task`, `run_task_step`, `approval_subject`, `approve` | nothing unapproved is released, nothing leaves unrecorded, a STOP halts it, it ends |
| Leases and fences (`vk-contracts/src/locks.rs`, `RealKernel::lease`) | rows `leases`, kv `fence:*`; in memory `LockTable`, `LockHome` | `lease`, `load` | one holder per resource and partition, fences grow, both across restarts |
| Transport and presence (`vk-ipc/src/{server,client}.rs`) | open challenges, a mutex of their own beside the kernel's | `presence.challenge`, `dispatch`, `ctx_for` | a nonce makes at most one request human, and only within its time |
| Node start (`vkd`, `vk-store/src/{lock,paths}.rs`, `vk-ipc/src/transport.rs`, `vk-kernel/src/presence.rs`, `vk boot`) | store lock, endpoint, key file or keyring entry, row `devices`, `device.enrolled` and `boot` events | lock, bind, key, enrol, boot, `--force`, poll | one writer per state directory, a daemon that is turned away leaves no record, an enrolled device stays who it is, every call returns |
| Blob tier (`vk-store/src/{blobs,keys}.rs`) | master key; `.bin` and envelope per blob, wrapped DEK and tombstone per subject | `put`, `get`, `shred`, `open` | a shredded subject is never readable again, a stored blob stays readable |
| Mounts, inference, projection (`RealKernel::{mount,infer}`, `arch.rs`) | rows `arches`, `registers`, statistics; adapters in memory; `infer` events | `mount`, `unmount`, `submit_task`, `infer`, `project` | what is sent fits, says what it left out, is cleared and recorded; an id has one manifest |
| Labels and read surfaces (`labels.rs`, `interceptors.rs`, `ns.rs`, `tasks.rs`) | labels of registers, tasks and envelopes | `join`, `flows_to`, every read, `release` | a label only rises, nobody sees or releases what it was not cleared for |
| Replicated data (`storage.rs`, `StopSet::merge`, `HlcClock`, `federation.rs`) | documents with conflicts, grow-only sets, a clock, a signed root | `set`, `merge`, `now`, `observe`, `verify` | nothing heard is lost, causes come first, a quorum is one of distinct keys over this very root |
| Promotion and export (`RealKernel::{approve,promote,export}`, `module.rs`) | rows `approvals`, `hot`, `devices`; the device registry | `enroll`, `approve`, `promote`, `export` | no hot module without its gates and its human approval, no effect unrecorded |

How they interact. A client's request takes the challenge mutex for its nonce,
then the kernel mutex for the whole syscall, so syscalls do not interleave with
one another; they interleave with crashes, with failed writes, with time and
with the steps a client takes between two requests. Every syscall is a sequence
of durable writes: rows of one SQLite database, events of the ledger (each of
which is a segment line and then a row for the head), and files. No two of them
are atomic together. A later start rebuilds memory from the rows
(`RealKernel::load`) and the chain from the segments (`Store::open`).

What is hard: the order of the writes of one call and what a crash or an error
between any two leaves behind; ids and positions that are counted; subjects and
verdicts that are computed at one time and used at another; the human who
answers late. `PROJECT.json` lists the places that matter most with their lines under
`hazards`, and the properties that watch it.

## 2. Modules

| Module | What it is | Composed in |
|---|---|---|
| `StopAuthority` | what a node promises about STOP, with no disk and no failure: the stub kernel's `stop`, `resume`, `run_automation` | |
| `StopKernel` | the same syscalls in the real kernel, one action per durable write; implements `StopAuthority` | `MCStopKernel` |
| `LedgerStore` | segments, chain, recorded head, verdict | `MCLedgerStore` |
| `TaskScheduler` | one task, from `create_task` to its end, with the command that steps it | `MCTaskScheduler` |
| `Leases` | the lease syscall on one resource | `MCLeases` |
| `Presence` | challenges and requests under two mutexes | `MCSyscalls` |
| `NodeStart` | `vk boot` and the daemons it spawns | `MCNodeStart` |
| `BlobContract`, `BlobTier` | a subject's blobs as promised, and file by file; the second implements the first | `MCPayloads` |
| `Labels`, `ReleasePaths`, `ReadSurfaces` | labels and clearances; where a release may write; every call that shows something to a caller | `MCPayloads` |
| `Projection`, `Inference` | a register lowered, projected into a budget and raised; the calls that mount arches and infer, over `Projection` and `Labels` | `MCSyscalls` |
| `ModuleGates`, `ModuleAuthority`, `Promotion` | manifests, verdicts and approvals; promotion with no failure (the stub kernel); promotion write by write, which implements it | `MCPromotionReplicas` |
| `StopMerge`, `MetadataMerge`, `HybridClock`, `Federation` | replicas that exchange what they know; a root that is signed and shown | `MCPromotionReplicas` |
| `LedgerProofs`, `StopKernelProofs`, `TaskSchedulerProofs`, `LeasesProofs`, `SyscallProofs`, `PayloadProofs`, `PromotionProofs`, `NodeProofs` | theorems (section 5) | |

Definitions whose comment begins "Variant of" state how a plausible slip in the
code would look. No specification uses them; each one breaks the property
`PROJECT.json` names beside it under `mutants`.

### StopKernel

A syscall in progress is `call`; `call.at` is the write it has yet to do. `stop`
is `CallStop` (the id is minted in memory), `WriteCounter`, `WriteStopRow` (row,
then `StopSet`), `LogStop`. `resume` is `CallResume` (`has_stop` is asked first),
`WriteCounter`, `LogResume`, `WriteResumeRow` (row, then `StopSet`). `WriteFails`
ends a call at the write it stands at. `HeadWriteFails` ends it after its event
is in the segment but before the head is recorded, which the caller sees as the
same error. `Crash` and `Load` are allowed everywhere. `ackedStops`,
`ackedResumes` and `refused` are history: what callers were told.

A set of rows replaces the table; a row replaces the one of its id (`Put`).
The counter also serves registers and tasks: those calls only skip ids, which
leaves fewer coincidences of ids and not more, and they have no action. A call
by a machine principal is refused by `i1_presence` before anything is touched.

### LedgerStore

A line is an event, or bytes that parse as none, with or without its newline.
Writing at the end of a file whose last line has no newline runs on from that
line (`Write`). The hash is a number no other event has, so what is left of
`verify_chain` is the links. `Faults` says what can go wrong beyond a crash. The
passing run admits all of it; `suffered` remembers which faults there were, and
a property that some fault breaks says so in its own `Spared(...)`, so that each
of them is checked under the largest set of faults it survives. The exceptions
are divergences of the code from its comments (section 7).

### TaskScheduler

One action is one durable effect of `run_task_step`. `infer` stands for Plan and
Judge, which have the same effects; the other kinds have their own names.
`Submitted` is what `vk task submit` makes of its flags. `TaskStep` and
`EndCommand` are the loop of `vk task step --all`, which counts its calls against
`MAX_STEPS`; an error ends the command. The kernel mutex is held for the whole
call, so approvals, STOP and RESUME come between calls, a crash (`Abandon`) at
any point of one. `FailStep` is the error return of `run_step`, with or without
the register already changed. An artefact is its content: two drafts may
coincide. The register's own subject, before there is an artefact, is named by
how often an answer was raised into it. An approval may be given late, for any
subject that was once asked for.

### Leases

One resource, several partitions. `Acquire` is `LockTable::acquire` in memory
together with the rows read before it; `PutRow`, `DeleteSuperseded` (one row at a
time), `WriteFence` and `LogGrant` are the rest of the syscall. `Load` restores
the newest good row of each partition and sweeps the rest; `LoadDies` is a crash
among the deletes of the sweep. Every request has its own TTL. `acquire` replaces
the lease in memory before its row is written, so a shorter renewal that fails
has cut the first lease short; `sure` is the time a holder may count on: until
it is answered, a holder that asked again can only rely on the earlier end.

### Presence

`task[s]` is the request on thread `s`: taken with the clock it reads (`Take`),
before the map (`Issue`, `Spend`) and before the kernel (`Refuse`, `DoAct`), each
under its own mutex, with other threads in between. A proof may be sent again,
with this method or another, because a client that lost its connection does not
know better. `signed`, `issued`, `spent` and `acted` are history.

### NodeStart

`cli[b]` is where a `vk boot` is, `daemon[b]` the `vkd` it spawned. Calls may share
a store, an endpoint, a key file and the keyring, or not. A call goes `check`
(`serving()`), `asking`, `made` (the directory), `poll`, `polling`, `missed`, and
ends as one of `Returned`; it may fail before the directory (`CannotMake`), between
that and the daemon (`CannotSpawn`), or after it, when `try_wait` fails and the
daemon is left to itself (`lost`, `Started::Lost`). Which path is inside a synced
folder is a constant of the behaviour (`synced`).

A daemon goes `new` (lock), `open` (probe), `stale` / `clear` (remove, bind),
`bound` (key), `keying` or `minting` (making one), `keyed` (device), `enrolling`
(its event), `enrolled` (boot), `serving`; `Course` holds the order of `main`.
`TurnedAway` is the end of one that found its store or endpoint taken or no key it
may use. A Unix socket outlives its daemon, a Windows pipe name does not. A key
file is created in one step and filled in the next; the keyring is asked
(`NoEntry`) and then written over (`WriteKey`). A key is named by the daemon that
made it; `seed` is the one a daemon has in memory. `serving()` waits without a
timeout, so a daemon that was bound and never serves holds a call until it ends.
`late` is history: who has bound an endpoint while others meant to remove the
socket they had found stale there.

### Payloads: BlobTier and ReadSurfaces

`BlobTier` has one action per file: the master key, a wrapped DEK, a ciphertext,
an envelope, a tombstone; each can be left `Torn`. `dek_for` and `shred` hold the
mutex, a put's two files are written without it. `BlobContract` has only what is
readable and what is erased. In `ReadSurfaces` a register carries, besides its
label, the objects it was made from (`sources`), which the program does not know;
`shown` says whom any of them was shown to, by a read, a namespace entry, a task
list or a release. Copies that callers hold are written back at any later time.
`ReleasePaths` is what `release_dest` and `release_file_name` accept, by
components.

### Inference and Projection

A text is a sequence of lines with a prefix and a length; `field` is where a line
came from, which the program does not know and the properties ask for.
`Projection` is `lower`, `project` and `raise`; where the source sorts or renders, a
sequence has at each place the member with that many before it (`SortedBy`).
`Inference` runs them against mounted arches, with one action for each durable effect
of a call.

### Promotion

`approve`, `promote`, `export` and the enrolment of a device are each an event
and a row, in the order of the code. `ModuleGates` holds what a manifest, a
verdict and a human signature are checked for. A signature is good or not.

### Replicas

Replicas hear of events, merge each other's state in any order and as often as
they like. `known` and `heard` are what each has heard of; the properties compare
it with what its state says. A root of `Federation` is signed by holders,
amended, and entered under any id by whoever writes the document.

## 3. Runs

| Run | Bounds | Shows |
|---|---|---|
| `StopKernel` | one business and the node: two scopes; 4 ids; 1 automation | acknowledged STOPs and RESUMEs survive, refused ones lift nothing, memory is the disk, no ghost resume, refinement of `StopAuthority` |
| `LedgerStore` | 5 appends, 2 events per segment: three segments; every fault | always opens, memory is the file, no false alarm, acknowledged events stay, a lost one is reported by every later boot, `seq` is the index |
| `TaskScheduler` | 6 plans, 2 contents, 5 calls to an arch, 2 faults, 1 STOP, 5 calls per command | releases are approved and recorded, steps run in order, terminal is final, polling is silent, a STOP halts the task; a command settles; every task ends, or waits for a harness |
| `Leases` | 2 holders, 2 partitions, 3 grants, 4 instants, TTL 0 or 1 | exclusion, a restart remembers the holder, fences grow, no row is overwritten, whatever renewals fail |
| `Payloads` | 2 threads, 1 subject, 2 plaintexts, 3 DEKs; 2 objects, 2 callers, 2 registers, 1 artefact, 6 calls, 1 cut | acknowledged blobs stay readable, erased ones never are, refinement of `BlobContract`; labels cover their sources, nobody sees or releases beyond its clearance, files stay inside |
| `NodeStart` | 2 calls, 2 stores, 2 endpoints, 2 key files or the keyring, both systems | one writer; no socket is taken from a daemon that was there at the probe; a daemon that was turned away has enrolled and logged nothing, a call that declined has made no directory, one that failed leaves no daemon it knows of; devices keep their key; every call returns |
| `Syscalls` | `Presence`: 2 threads, 3 challenges, a map of 2, TTL 2 and 3 instants, one enrolled and one strange device. `Inference`: 4 calls, 1 fault, budgets 18 and 24 beside ceilings 34 to 48; goals, constraints and evidence of one line and of two | one act per nonce, in time, spent when shown; the map is bounded and drops no challenge it need not; what is sent fits, declares what it dropped, keeps role and goal, goes to cleared arches only, is on record first |
| `PromotionReplicas` | `Promotion`: 2 modules, 3 approvals, 1 device with 2 keys, 2 faults. Replicas: 3 nodes and 2 STOPs; 3 nodes, 1 key, 3 writes; 2 clocks, 3 stamps, a skew of 1; 2 holders, 4 roots | refused approvals count for nothing, hot modules are approved, effects are audited, refinement of `ModuleAuthority`; the merges lose nothing, stamps grow, causes come first, drift is bounded, an accepted root has its quorum |

`Payloads`, `Syscalls` and `PromotionReplicas` each check several modules that share no
state: a behaviour exercises one of them (`part`).

Why the bounds are enough. `StopKernel`: four ids let two STOPs and two RESUMEs
meet in every order, or one id be lost to a failed write and another take its
place; the theorems have no bound. `LedgerStore`: five appends cross two segment
boundaries and leave room for a loss, a restart and an append after it.
`TaskScheduler`: five calls let both drafts of a plan be interrupted and run
again, which takes two faults; one plan is empty; `MAX_STEPS` is 256 in the code
and here the length of the longest plan, which is what makes `CommandSettles`
worth checking. `Leases`: three grants are a lease, a renewal that is shorter and
fails, and another holder's, with a restart anywhere; an id is minted again after
a restart. `Presence`: three challenges fill a map of two, and a request can be
two instants old. `Payloads`: three DEKs are one, one after a shred, and one that
was torn; six calls let a register be made, tainted, drawn, read and released by
two callers. `NodeStart`: two calls race for every resource; one is given the
first store, endpoint and file, which are interchangeable. Over two stores they have
one place for their keys, for otherwise they share nothing but an endpoint; `--force`
and a ledger that does not verify are tried where they share everything. The theorems
know no such restriction. `Inference`: the budgets lie
below and above what each register needs. Replicas: three nodes pass on what
they heard from another; three stamps are one, one that heard of it, and an answer.

A property of a run is often a conjunction of named parts that say one thing
together: `RecordIsSound` is types, `AlwaysOpenable`, `ChainIsFile`,
`AppendsOnCompleteLine` and `VerifiedChainIsPositional`, `VerdictIsTrue` is
`NoFalseAlarm` and `LossIsReported`. Each part is stated and explained where it is
defined.

Runs that are expected to fail state what a comment of the repository says, and
what TLC finds instead:

| Run | Statement | What happens |
|---|---|---|
| `LedgerStoreSyncDir` | "On any failure the chain is exactly as it was ... the last event the file really has" | the directory fsync fails after the line is in the file |
| `TaskSchedulerExport` | "approval names it, release writes it" | an interrupted draft's artefact is exported beside the approved one |
| `NodeStartSocket` | "A live daemon answers on its socket; only a stale one is removed." | two daemons over two stores find one stale socket; one replaces it and listens, the other removes the new one by its path |
| `NodeStartKeyring` | the node's key is "made durable", in the keyring or in a file | two daemons over two stores find the keyring entry empty and both set it; the first one's key, already enrolled, is in neither, and its store refuses every later start |

`OneDaemon` and `EnrolmentStands` say what is left of these two: a socket is taken
only from a daemon that bound it while the other was between probe and removal,
and a key is replaced only in the keyring, by a daemon over another store.

Deadlock is checked in `StopKernel` and `Leases`. It is off where the system
stops: a task ends, calls of `vk boot` return, a corrupt record or a torn master
key refuses every later start, and the other models run out of requests.

## 4. Fairness

`TaskScheduler` states fairness (`FairSpec`) for `TaskSettles`. A client that runs
`vk task step --all` again and again is `WF(TaskStep \/ EndCommand)`, the kernel
that answers it `WF(RunTaskStep)`. The RESUME and the human's two requests, asking
for the subject and approving it, are strongly fair: each is possible only
between two calls of the client, so it is enabled again and again but never for
good. `std::sync::Mutex` promises no order; the assumption is that a request that
waits is not passed over for ever, which is what the design's I1 ("the human path
is always reachable") needs of it. Crashes, failed writes and STOPs are not fair
and are bounded. A harness step waits for a human nobody has implemented yet
(`tasks.rs:411`), so a task waiting there counts as settled.

`NodeStart` states fairness for `BootReturns`: each process runs (`WF` of
`CliStep` and `StartStep`), a Windows listener that lost its instance accepts
again or gives up, and the time of a call that keeps missing runs out
(`SF(GiveUp)`: the loop has a deadline, `main.rs:624-648`). The keyring and the
disk answer. A daemon is never required to die.

## 5. Proofs

`StopKernelProofs` proves, from `BoundsAssumption` alone (the bounds are numbers), for any set of
businesses:

- `TypeCorrect`, `Invariant`, and from the invariant `MemoryAgreesWithDisk`,
  `StopSurvives`, `ResumeSurvives`, `RefusalLiftsNothing`, `ResumeRecorded`,
  `NoGhost`, and with the last three `ResumesGenuine`;
- `Refinement`: every step of `StopKernel` is a step of `StopAuthority` or leaves
  it unchanged, under the mapping "what the node enforces, or while it is down
  what it would enforce".

The safety properties are not inductive. That a RESUME which returned an error
lifts nothing says nothing of the call still in progress, whose row must not be
one already refused. `IInv` adds what carries it: the call in progress owns the
newest id (`CallOwnsNewestId`), no durable id is ahead of the counter's row
(`IdsAreCovered`), so the id of a call is fresh until its own row is written
(`CallIdIsFresh`); the RESUME in progress cites a STOP on disk and is recorded
before its row (`ResumeIsGrounded`); what was acknowledged is on disk
(`AckedIsDurable`). The proof goes action by action; `FreshPut` says that a `Put`
of a fresh id only adds, and `StepImplements` gives each action its abstract step.

`TaskSchedulerProofs` proves every safety property of `MCTaskScheduler`, for any
plans, contents, faults and STOPs: `Whole` (`RecordIsWhole`), `Approved`
(`ReleaseIsApproved`) and `Held` (`HeldTaskIsStill`). `Settles` (`CommandSettles`)
has the hypothesis that no plan is longer than `MaxSteps`: `vk task submit` makes
plans of at most four steps, and `MAX_STEPS` is 256. What is approved is a subject,
what is released is a register, and between the two any call may be cut short; so
`IInv` says of every approve step that is done, with no draft behind it yet begun,
that the last artefact is approved (`LastIsApproved`), that a call works on the
first open step only (`CallIsAtCurrent`), that a step ends as done only if its work
was (`OutcomeIsEarned`), and that the files about to be written are named by an
event (`FilesAreRecorded`). `CommandProgresses` counts the calls of a command
against the steps behind it.

`LeasesProofs` proves all that `MCLeases` checks: `OneHolder` (`Exclusion`),
`TableKnowsHolders` (`TableIsTrue`) and `FencesMoveOn` (`NumbersMoveOn`), for any
holders, partitions, times and TTLs (`BoundsAssumption`, `NoLeaseAssumption`).
Exclusion is not inductive: it follows from what the table and the rows remember of
a lease that is still good (`MemoryRemembers`, `DiskRemembers`), which in turn need
that a higher fence is never an earlier grant (`RowsAreOrdered`), and that both
counters are ahead of every row and every holder (`CountersLead`, `ToldIsFenced`),
across a restart that dies among its deletes.

`PromotionProofs` proves `Backed` (`EffectsAreBacked`), `Justified`
(`HotIsJustified`) and `Refinement`, that the kernel with its rows and events
implements `ModuleAuthority`, for any modules, approvals, devices and keys. The
invariant adds what the call in progress has been checked for (`CallIsChecked`) and
that every human approval on record was given for its own subject by an enrolled
device (`ApprovalsAreGiven`).

`PayloadProofs` proves all that `MCPayloads` checks.

- The laws of `Label::join` and `flows_to` for every label and clearance:
  `JoinIsLeast`, `JoinLaws`, `JoinFlows`, `FlowsDown`. They are why a check of one
  joined label stands for a check of everything that went into it.
- For the encrypted tier, with any subjects, texts and threads, `PromisesKept`
  (`PromisesAreKept`) and `TierImplements`, the refinement of `BlobContract`. In
  `BlobInv` a put under way holds its subject's key until somebody begins to shred
  that (`PutsHoldTheKey`), a shred has removed the key before its tombstone
  (`ShredsAreBegun`), and no key comes twice (`KeysAreCounted`).
- For the read surfaces, with any objects, callers and destinations
  (`InputsAssumption`: they have labels, clearances and paths), `RowsLabelled`
  (`RowsAreLabelled`), `CallersSeeOnlyTheirs` (`CallersSeeTheirOwn`) and
  `ReleasesContained` (`ReleasesAreContained`). `SurfacesInv` says of the copies
  that callers hold what holds of the rows, so that a stale one is as sound as the
  row it overwrites (`CopiesAreSound`), and of the call in progress that its text
  was drawn from the register it is attached to, and its destination and names were
  accepted (`CallsAreChecked`). The laws of labels carry the rest.

`SyscallProofs` proves all that `Syscalls` checks of `Presence`, `ActOnce`, `ChallengesKept`
and `ActsInTime`, from `PresenceAssumption` (positive `CHALLENGE_TTL_MS` and
`MAX_CHALLENGES`, enrolled keys are keys) and for any threads, challenges and
devices. That a nonce acts once is not inductive: a thread that was granted its
proof and waits for the kernel's mutex has not acted yet. `PresenceInv` adds that such a
thread's nonce is spent, unexpired when the thread read the clock and not acted on
(`RequestsAreSound`), and that no other thread was granted it (`GrantsAreSole`).
What `issue` pushes out of a full map is counted in `OthersEnough`.

`NodeProofs` proves what is about a node as a whole. For the start of nodes, with any
calls, stores, endpoints and key files on either system, from `NodeStartAssumption` (a
daemon's pid is none of the markers of a free lock or an absent or torn key, and the
keyring is not a file):

- `OneDaemonEach` (`OneDaemon`): of the daemons over one store one is past its lock,
  and no start removes the socket of a daemon that was there when it probed;
- `RefusalsLeaveNothing` (`RefusalLeavesNothing`): a daemon that was turned away has
  enrolled and logged nothing, there is a directory only where a call went on past the
  endpoint's answer, and a call that failed leaves no daemon unless it lost track of it;
- `EnrolmentsStand` (`EnrolmentStands`): a device row never changes its key, is on the
  record unless its daemon died between row and event, and its key stays where its maker
  put it, but for the keyring's race.

None of the three is inductive: `StartInv` says that a lock is held by the one daemon
that got past it (`LocksAreHeld`), that only a daemon that is bound, or was, has the
endpoint, and who took it from somebody about to remove it is known as late
(`NamesAreBound`), that a call spawns one daemon, once (`CallsSpawnOnce`), that what is
in a key's place was made by a daemon that was given this place (`KeysAreMade`), that
every key in memory or in a row has been made (`SeedsAreMade`) and is still in its file,
or in the keyring unless another store's daemon has put its own there (`MadeAreKept`),
and that the ledger is written only past the endpoint (`TracesAreLate`).

For the replicated types it proves, for any nodes, STOPs, keys and values, `StopsMerge` and
`MergesAreHonest` from no assumption, and `ClocksOrder` from `ClockBounds` (the
bounds are numbers). In the first two the invariant speaks of every state under
way as well as of the nodes': each tells all that was known where it was sent
(`StopsInv`, `DocInv`), and merging two such states gives a third. For the
federation root it proves `QuorumSigned` (`AcceptedIsSigned`), for any
finite sets of key ids and holders and any roots (`KeysAssumption`,
`RootsAssumption`). The invariant `RootInv` says that each entry of the document
is a signature its holder made; `ValidIsSigned` then counts: with distinct keys
the good entries map one to one into the holders that signed this root.

Where a proof needs a least or a greatest number of a set (the first open step, the
newest row), it is had from the library's `WFMin`, that `<` is well-founded on the
naturals.

`SyscallProofs` proves also all that `Syscalls` checks of `Inference`, for any registers,
manifests, budgets, edits and answers: `InOrder` (`EffectsInOrder`), `MountsSurvive`
(`MountsAreKept`), `SendsCleared` (`SendsAreCleared`) and `KeepsItsWord`
(`ProjectionKeepsItsWord`), the last from `TextsAssumption` (goals, edits and answers
are texts, that is, sequences of lines of known kinds) and `BudgetsAssumption` (budgets
and ceilings are numbers). `InferenceInv` adds what the inference in progress has left
more of in the earlier effects than in the later ones (`EffectsAreOwed`: a sent prompt
whose event is due, an event whose count is due), that the row its label was checked
against stays until the prompt leaves, and that an unmount takes the adapter out of
memory, then its row, then writes its event (`CallsKeepTheTable`).

That a projection keeps its word is a theorem about `project` first.
`ProjectionIsHonest`: of a prompt and a budget it makes nothing, or a prompt that is
`Honest`. `IsPrompt` says what that needs of a prompt: its lines are numbered, and a
line of the constraints has their heading above it with constraints only between.

- The bytes of a set of lines are a fold over the set. `FoldExists`, by the size of the
  set, says that the fold is a function; `SumsAgree` and `SumsTakeOut`, that the order it
  goes in makes no difference; so a line more costs its bytes and one more
  (`BytesOfMore`).
- Lines put in an order are each once there, each after those before it
  (`PlacesAreOrdered`, for any strict order). Units are tried in such an order, and
  what is kept only grows (`AdmittedIs`), so what is refused does not fit beside what
  is kept before it, and nothing less important took its place (`AdmittedRightly`).
- Units and their lines go together (`LinesOfUnits`, `HeadingsGoAlong`): a line is kept
  with the heading that owns it.
- The marker that is sent declares no more lines than the one reserved, and a smaller
  number has no more digits (`DigitsGrow`): admitting a unit is never undone by its marker.

`PromptsInv` carries it through the calls. A register is made of texts whoever writes
it (`TextsAreWhole`): what is raised into it is an answer, which may echo a prompt cut
short (`EchoIs`), marker and all. Then what `lower` makes of a register is a prompt
(`LowerIs`), and the call keeps an honest one from its projection until it is sent
(`CallsArePrompts`).

`LedgerProofs` proves all that `MCLedgerStore` checks: `RecordSound`
(`RecordIsSound`), `VerdictTrue` (`VerdictIsTrue`) and `AckedStays`
(`AckedIsRecorded`), for any segment size, any number of appends and any set of
faults, in any order and as often as they strike (`BoundsAssumption`,
`ValuesAssumption`). None of the three is inductive, and `VerdictIsTrue` least of
all: that a later boot sees a loss depends on everything that may be lost, appended
under `--force` and lost again before it.

- A loss leaves of a log `G` of lines the first `m[s]` of each segment `s`, for some
  vector `m`; `Verified(G, m)` is `verify_chain` of that. `HardInv` says what is true
  after any fault. Whatever verifies, now or after any further loss, has no gap and
  is numbered by position (`Ordered`); if it holds the recorded head, it holds all
  that was acknowledged (`Covers`); it ends in the segment the next append goes to or
  before (`Reaches`). The chain in memory is the log event by event (`Tight`), or ends
  where nothing that verifies does (`Loose`), so that what is appended to it can never
  verify: this is why going on over a cut record is not mistaken for the record. A node
  that is running diverged cites a head nothing verifies to (`Diverges`).
- Each exception in the properties has a part of the invariant of its own, which
  holds as long as the faults it names have not struck: acknowledged events are on
  lines of their own (`AckInv`), at most one line is incomplete (`TermInv`), no segment
  is begun before the ones below it are full (`WeighInv`), memory is the file
  (`FileInv`), and the file verifies up to its torn line (`FalseInv`).
- The lemmas go from lines to sequences: what the flattened segments are
  (`FlatIs`), which places of a log verify (`WholeVerifies`), what losing or spoiling
  lines and adding the next event do to what verifies (`PrunedOrdered`,
  `PrunedHolds`, `WithTight`), and what `write_line` and `open` leave of the lines
  (`PutIs`, `KeptIs`). The number of segments is a constant of the instance, so
  `LeastOf` (a set of numbers that is not empty has a least one, from `WFMin`) takes
  the place of induction.

The recursions are written as folds of the community modules and as one recursive
function (`Digits`). What they compute is proved from their definitions: that the
function exists is shown for every bound, by the principle that a set of naturals with
nought and every successor is all of them (`Onwards`, from `LeastOf`), and `CHOOSE`
then picks one of which the equation holds.

Only model-checked: liveness (`TaskSettles`, `BootReturns`), which is out of the
prover's reach (fairness, `ENABLED`). Every other property of a passing run is a
theorem.

## 6. Plan

Modelled, in the order of the list above. What is left is compositions: `Presence`
with `TaskScheduler` (the approval ceremony end to end), `NodeStart` with
`LedgerStore` (a boot over a cut record).

## 7. Where code and documents disagree

The four runs above that fail, and these, which no run shows by itself; each is
either an exception named in a part of a property, or left as the code has it:

- `LedgerFs::open` keeps an unterminated last line that parses, and the next
  append lands on it, against "a later `append` never lands mid-line"
  (`ledger_fs.rs:20-21`): the fault `newline` in `AppendsOnCompleteLine`.
- When `set_len` fails too, the same process appends first and its line is then
  terminated junk, against "if this too fails, `open` drops an unterminated last
  line anyway" (`ledger_fs.rs:158-159`): `setlen` in `AlwaysOpenable`.
- A segment left by an interrupted first write is not fresh any more, so its
  directory entry is never fsynced (`ledger_fs.rs:140-146`): `power` in
  `AckedIsRecorded`.
- `renew_liveness_persisted` appends no event, against "Grants and expiries are
  ledger events" (design, I4).
- A task refused under a STOP while it waited for a human goes on saying
  `stopped` when it is polled after the RESUME (`tasks.rs:307`, `:333-336`).
- The poll of `vk boot` reports whatever daemon answers, although a call that
  finds one before it spawns insists on its own store (`main.rs:577-580`, `:632`).
- A Windows daemon that serves and cannot create its next pipe instance has none
  for a while (`transport.rs:126-134`): a daemon over another store takes the name,
  and the first one serves beside it or ends. "Only a stale one is removed" is said
  of Unix sockets.
- A silent daemon is killed because "otherwise it would sit on the endpoint and every
  later `vk boot` would refuse" (`main.rs:665-668`), one of which `try_wait` says
  nothing is left running (`:640`, `:663`): `lost` in `FailureLeavesNoDaemon`.
- "A daemon that will never serve must not have enrolled a device or appended its
  boot event first" (`vkd/src/main.rs:66-68`) holds of daemons that are turned away.
  One whose ledger does not verify has done both before it refuses (`:82-118`), and
  one that its call gives up on and kills may have. `RefusedLeavesNoTrace` is about
  the first.
- A call that cannot open the log or spawn the daemon leaves the directory it has just
  made (`main.rs:600-626`). That is a failure and not a refusal, which is what
  `paths.rs:73-76` is about; `NoStrayDirectory` counts it among the calls that went on.
- `project` ranks line by line: the later lines of a goal of several lines are
  body text and may be dropped, and a bullet of several lines is kept or dropped
  in parts (`arch.rs:62-74`).

## 8. Not modelled

Some properties allow what the code lets happen. A request is judged by the clock it
read first, however long it waited for a mutex (`ActsAreTimely`). A holder counts on the
shorter end of its lease while a renewal is open (`sure`, in `Exclusion`). A shred that a
crash cut short before its tombstone is forgotten, and a put that is repeated and cut
short may spoil its own blob (`BlobContract`). A root may give two ids one key
(`AcceptedIsSigned`). The clock's counter is a number and not a `u32`, and the stamps a
node hears are another node's: a peer that sends `u32::MAX` is out of view. `Promotion`
has one manifest about persons, which no run can promote, and `export` writes an event
and no row.

Every `vk boot` gives the same `--node-id`, so the keyring has one entry; a keyring that
fails is a daemon that dies. `vk boot --foreground` runs the daemon until it ends and
polls nothing. `vk` signs with the key of the daemon whose `boot.info` it has asked
first (`main.rs:384-391`); a client that names another place than that daemon was given
mints a key of its own there, in an empty keyring by the same two steps, and is not
modelled.

Rendering (`render.rs`), manual pages (`man.rs`) and the hardware probe are
formatting and pure reads: they change nothing and no property is about them.
JSON framing, schemas and canonical hashing have no state. File modes and ACLs
(`paths.rs`) are pure I/O. Encryption, signatures and SQLite are external: a seal
opens or it does not, a signature verifies or it does not, a row write is atomic
and durable. Of the stub kernel, which is the specification the real one is
tested against, STOP and promotion are modelled as the abstract specifications;
its registers, inference and leases do in memory what `Inference`, `ReadSurfaces`
and `Leases` model with failures. `LockTable::release`, `holder_of` and
`LockHome::is_stale` have no caller in the kernel.
