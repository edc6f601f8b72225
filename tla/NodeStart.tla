----------------------------- MODULE NodeStart ------------------------------
(***************************************************************************)
(* How a node comes up.  `vk boot` (vk-cli) asks the endpoint who serves   *)
(* it, makes the state directory and spawns a `vkd` when nobody answers,   *)
(* and then polls the endpoint until somebody does, its daemon is gone, or *)
(* its patience is.  A `vkd` takes the lock of its store, binds the        *)
(* endpoint, loads the node's device key, enrols it, logs its boot and     *)
(* serves (vkd/src/main.rs).  Several of both run at once, over stores,    *)
(* endpoints and keys they may share, and a daemon can be killed at any    *)
(* moment.                                                                 *)
(*                                                                         *)
(* On Unix the endpoint is a socket file: binding probes what is there,    *)
(* removes it when it is stale, and binds, in three steps; the file        *)
(* outlives its daemon.  On Windows it is a pipe name: the first instance  *)
(* is taken in one step, and the name is gone with its last instance,      *)
(* which a daemon that cannot create the next one lets happen.             *)
(*                                                                         *)
(* The device key is in a file, which is created in one step, or in the    *)
(* keyring, which is asked and then written.  Every call gives the same    *)
(* --node-id, so the keyring has one entry.                                *)
(*                                                                         *)
(* Time is not modelled: any poll may be the last one.                     *)
(***************************************************************************)
EXTENDS Integers, FiniteSets

CONSTANTS
    Boots,      \* calls of `vk boot`, and the daemon each may spawn
    Stores,     \* state directories
    Endpoints,  \* sockets, or pipe names
    Files,      \* node key files
    Keyring,    \* the node's entry in the OS keyring
    Nobody

Absent == "absent"
Torn == "torn"

Places == Files \cup {Keyring}

ASSUME NodeStartAssumption ==
    /\ {Nobody, Absent, Torn} \cap Boots = {}
    /\ Keyring \notin Files

VARIABLES
    \* The machine, and what each call was given.
    os,
    store,      \* --state-dir
    endpoint,   \* --endpoint
    place,      \* --node-key-file, or the keyring without it
    forced,     \* those with --force
    intact,     \* the stores whose ledger verifies
    synced,     \* the state directories that are inside a synced folder
    \* The disk.
    key,        \* Places -> who made the key in it
    device,     \* Stores -> the key its node device is enrolled with
    logged,     \* the stores with a device.enrolled event
    made,       \* the stores whose directory exists
    \* The operating system.
    lock,       \* Stores -> who holds <state_dir>/lock
    name,       \* Endpoints -> whose listener it leads to; on Unix maybe a dead one's
    \* The processes.
    daemon,     \* Boots -> where each vkd is
    seed,       \* Boots -> who made the key each vkd signs with
    strikes,    \* Boots -> Listener.arm_failures
    cli,        \* Boots -> where each vk boot is
    asked,      \* Boots -> the daemon it is connected to
    \* History.
    evicted,    \* who removed the live socket of whom
    late,       \* who had found a socket stale when whom took its place
    refused,    \* the daemons that found store or endpoint taken, or no key they may use
    wrote,      \* the daemons that enrolled a device or appended to a ledger
    dropped     \* the stores a daemon left between a device's row and its event

given == <<os, store, endpoint, place, forced, intact, synced>>
files == <<key, device, logged>>
disk == <<files, made>>
memory == <<seed, strikes>>
sockets == <<evicted, late>>
history == <<sockets, refused, wrote, dropped>>
vars == <<given, disk, lock, name, daemon, memory, cli, asked, history>>

Starting == {"new", "open", "stale", "clear"}
Bound == {"bound", "keying", "minting", "keyed", "enrolling", "enrolled", "serving"}

Alive(d) == daemon[d] \in Starting \cup Bound

\* A listener takes connections from the moment it is bound.
Listening(b) == {d \in name[endpoint[b]] : d \in Boots /\ Alive(d)}

\* Before the first call: a daemon of an earlier day may have left its socket.
Init ==
    /\ os \in {"unix", "windows"}
    /\ store \in [Boots -> Stores]
    /\ endpoint \in [Boots -> Endpoints]
    /\ place \in [Boots -> Places]
    /\ forced \in {{}, Boots}
    /\ intact \in {{}, Stores}
    /\ synced \in SUBSET Stores
    /\ key = [p \in Places |-> Absent]
    /\ device = [s \in Stores |-> Absent]
    /\ logged = {}
    /\ made = {}
    /\ lock = [s \in Stores |-> Nobody]
    /\ name \in [Endpoints -> IF os = "unix" THEN {{}, {Nobody}} ELSE {{}}]
    /\ daemon = [b \in Boots |-> "none"]
    /\ seed = [b \in Boots |-> Absent]
    /\ strikes = [b \in Boots |-> 0]
    /\ cli = [b \in Boots |-> "check"]
    /\ asked = [b \in Boots |-> Nobody]
    /\ evicted = {} /\ late = {} /\ refused = {} /\ wrote = {} /\ dropped = {}

-----------------------------------------------------------------------------
(* vk boot *)

CliGoes(b, stage) == cli' = [cli EXCEPT ![b] = stage]

\* resolve_override, refuse_sync_folder: where the path leads, not what is there.
Refused(b) == store[b] \in synced

\* resolve_state_dir creates nothing.
Resolve(b) == ~Refused(b) /\ UNCHANGED made

RefuseSynced(b) ==
    /\ cli[b] = "check"
    /\ Refused(b)
    /\ CliGoes(b, "synced")
    /\ UNCHANGED <<given, disk, lock, name, daemon, memory, asked, history>>

\* serving() finds a listener and waits for its answer, without a timeout.
Ask(b, from, to) ==
    /\ cli[b] = from
    /\ \E d \in Listening(b) : asked' = [asked EXCEPT ![b] = d]
    /\ CliGoes(b, to)
    /\ UNCHANGED <<given, files, lock, name, daemon, memory, history>>

AskFirst(b) == Resolve(b) /\ Ask(b, "check", "asking")

\* connect: no listener, or a pipe whose every instance stays busy for fifty tries.
NoAnswer(b) == Listening(b) = {} \/ os = "windows"

NobodyThere(b) == cli[b] = "check" /\ ~Refused(b) /\ NoAnswer(b)

AskedDied(b) == cli[b] = "asking" /\ ~Alive(asked[b])

SameDir(b, d) == store[d] = store[b]

\* boot.info carries the state directory of the daemon that answers.
AlreadyServing(b) ==
    /\ cli[b] = "asking"
    /\ daemon[asked[b]] = "serving"
    /\ CliGoes(b, IF SameDir(b, asked[b]) THEN "running" ELSE "mismatch")
    /\ UNCHANGED <<given, disk, lock, name, daemon, memory, asked, history>>

\* state_dir: the directory is there from now on.
MakeDir(b) ==
    /\ NobodyThere(b) \/ AskedDied(b)
    /\ made' = made \cup {store[b]}
    /\ CliGoes(b, "made")
    /\ UNCHANGED <<given, files, lock, name, daemon, memory, asked, history>>

\* No vkd beside vk, a path that leads nowhere, a directory that cannot be made.
CannotMake(b) ==
    /\ cli[b] = "check" \/ AskedDied(b)
    /\ CliGoes(b, "unable")
    /\ UNCHANGED <<given, disk, lock, name, daemon, memory, asked, history>>

Spawn(b) ==
    /\ cli[b] = "made"
    /\ CliGoes(b, "poll")
    /\ daemon' = [daemon EXCEPT ![b] = "new"]
    /\ UNCHANGED <<given, disk, lock, name, memory, asked, history>>

\* detach cannot open the log, or the system starts no process: the directory stays.
CannotSpawn(b) ==
    /\ cli[b] = "made"
    /\ CliGoes(b, "failed")
    /\ UNCHANGED <<given, disk, lock, name, daemon, memory, asked, history>>

Poll(b) == UNCHANGED made /\ Ask(b, "poll", "polling")

PollMisses(b) ==
    /\ \/ cli[b] = "poll" /\ NoAnswer(b)
       \/ cli[b] = "polling" /\ ~Alive(asked[b])
    /\ CliGoes(b, "missed")
    /\ UNCHANGED <<given, disk, lock, name, daemon, memory, asked, history>>

\* Whoever it is that answers.
PollAnswered(b) ==
    /\ cli[b] = "polling"
    /\ daemon[asked[b]] = "serving"
    /\ CliGoes(b, "started")
    /\ UNCHANGED <<given, disk, lock, name, daemon, memory, asked, history>>

\* Variant of TryWait: a daemon that ended is polled for all the same.
TryWaitBlind(b) ==
    /\ cli[b] = "missed"
    /\ CliGoes(b, "poll")
    /\ UNCHANGED <<given, disk, lock, name, daemon, memory, asked, history>>

\* try_wait says the daemon is gone, or that it is not and there is time left, or
\* nothing (Started::Lost): then the call ends and the daemon is left to itself.
TryWait(b) ==
    /\ cli[b] = "missed"
    /\ \/ CliGoes(b, IF Alive(b) THEN "poll" ELSE "exited")
       \/ CliGoes(b, "lost")
    /\ UNCHANGED <<given, disk, lock, name, daemon, memory, asked, history>>

-----------------------------------------------------------------------------
(* A daemon that ends: the lock goes with it, and so does a pipe. *)

Without(d) == [name EXCEPT ![endpoint[d]] = @ \ {d}]
Named(d) == [name EXCEPT ![endpoint[d]] = @ \cup {d}]

Unnamed(d) == IF os = "windows" THEN Without(d) ELSE name

Leave(d) ==
    /\ daemon' = [daemon EXCEPT ![d] = "dead"]
    /\ lock' = [s \in Stores |-> IF lock[s] = d THEN Nobody ELSE lock[s]]
    /\ name' = Unnamed(d)
    /\ dropped' = IF daemon[d] = "enrolling" THEN dropped \cup {store[d]} ELSE dropped

\* It stops by itself: an error, or a kill from outside.
Die(d) ==
    /\ Alive(d)
    /\ Leave(d)
    /\ UNCHANGED <<given, disk, memory, cli, asked, sockets, refused, wrote>>

Kill(b) == Leave(b)

\* BOOT_TIMEOUT: the daemon "does not outlive the call that started it".
GiveUp(b) ==
    /\ cli[b] = "missed"
    /\ Alive(b)
    /\ Kill(b)
    /\ CliGoes(b, "silent")
    /\ UNCHANGED <<given, disk, memory, asked, sockets, refused, wrote>>

-----------------------------------------------------------------------------
(* vkd: the order of main, and StoreLock::acquire *)

\* Variant of Course: the record before the endpoint.
CourseRecordFirst == [opened |-> "bound", enrolled |-> "open", bound |-> "enrolled"]

\* The stage each part of main leaves a daemon in.
Course == [opened |-> "open", bound |-> "bound", enrolled |-> "enrolled"]

DaemonGoes(d, stage) == daemon' = [daemon EXCEPT ![d] = stage]

\* Variant of LockFree: the lock is not exclusive.
LockFreeToAll(s) == TRUE

LockFree(s) == lock[s] = Nobody

OpenStore(d) ==
    /\ daemon[d] = "new"
    /\ LockFree(store[d])
    /\ lock' = [lock EXCEPT ![store[d]] = d]
    /\ DaemonGoes(d, Course.opened)
    /\ UNCHANGED <<given, disk, name, memory, cli, asked, history>>

\* Told no before it has written anything.
TurnedAway(d) ==
    /\ Leave(d)
    /\ refused' = refused \cup {d}
    /\ UNCHANGED <<given, disk, memory, cli, asked, sockets, wrote>>

LockHeld(d) ==
    /\ daemon[d] = "new"
    /\ ~LockFree(store[d])
    /\ TurnedAway(d)

-----------------------------------------------------------------------------
(* vkd: bind *)

\* A live listener answers the probe; anything else there is stale.
Probe(d) ==
    /\ os = "unix"
    /\ daemon[d] = "open"
    /\ Listening(d) = {}
    /\ DaemonGoes(d, IF name[endpoint[d]] = {} THEN "clear" ELSE "stale")
    /\ UNCHANGED <<given, disk, lock, name, memory, cli, asked, history>>

\* remove_file, of whatever is there by now; nothing there is an error.
RemoveSocket(d) ==
    /\ daemon[d] = "stale"
    /\ name[endpoint[d]] # {}
    /\ evicted' = evicted \cup ({d} \X Listening(d))
    /\ name' = [name EXCEPT ![endpoint[d]] = {}]
    /\ DaemonGoes(d, "clear")
    /\ UNCHANGED <<given, disk, lock, memory, cli, asked, late, refused, wrote, dropped>>

\* Those who still mean to remove the socket they found stale.
Removers(d) == {r \in Boots : daemon[r] = "stale" /\ endpoint[r] = endpoint[d]}

BindSocket(d) ==
    /\ daemon[d] = "clear"
    /\ name[endpoint[d]] = {}
    /\ name' = Named(d)
    /\ late' = late \cup (Removers(d) \X {d})
    /\ DaemonGoes(d, Course.bound)
    /\ UNCHANGED <<given, disk, lock, memory, cli, asked, evicted, refused, wrote, dropped>>

BindPipe(d) ==
    /\ os = "windows"
    /\ daemon[d] = "open"
    /\ name[endpoint[d]] = {}
    /\ name' = Named(d)
    /\ DaemonGoes(d, Course.bound)
    /\ UNCHANGED <<given, disk, lock, memory, cli, asked, history>>

\* Somebody answers, the file is gone, the address is in use, the pipe exists.
EndpointTaken(d) ==
    /\ \/ daemon[d] = "open" /\ Listening(d) # {}
       \/ daemon[d] = "stale" /\ name[endpoint[d]] = {}
       \/ daemon[d] = "clear" /\ name[endpoint[d]] # {}
    /\ TurnedAway(d)

-----------------------------------------------------------------------------
(* vkd: NodeDevice::load_or_create and enroll_node_device *)

KeyAt(p, k) == key' = [key EXCEPT ![p] = k]
Remembers(d, k) == seed' = [seed EXCEPT ![d] = k]

\* Variant of Creates: create instead of create_new.
CreatesOver(d) == key[place[d]] \in {Absent, Torn}

Creates(d) == key[place[d]] = Absent

CreateKey(d) ==
    /\ daemon[d] = "bound" /\ place[d] \in Files
    /\ Creates(d)
    /\ KeyAt(place[d], Torn)
    /\ DaemonGoes(d, "keying")
    /\ UNCHANGED <<given, device, logged, made, lock, name, memory, cli, asked, history>>

\* What the file or get_password has.
LoadKey(d) ==
    /\ daemon[d] = "bound"
    /\ key[place[d]] \in Boots
    /\ Remembers(d, key[place[d]])
    /\ DaemonGoes(d, "keyed")
    /\ UNCHANGED <<given, disk, lock, name, strikes, cli, asked, history>>

\* A file another daemon has created and not yet filled, or never will.
KeyUnreadable(d) ==
    /\ daemon[d] = "bound"
    /\ key[place[d]] = Torn /\ ~Creates(d)
    /\ TurnedAway(d)

\* get_password answers NoEntry.
NoEntry(d) ==
    /\ daemon[d] = "bound" /\ place[d] = Keyring
    /\ key[Keyring] = Absent
    /\ DaemonGoes(d, "minting")
    /\ UNCHANGED <<given, disk, lock, name, memory, cli, asked, history>>

\* The new key is written to the file, or by set_password over whatever the entry holds
\* by now.
WriteKey(d) ==
    /\ daemon[d] \in {"keying", "minting"}
    /\ KeyAt(place[d], d)
    /\ Remembers(d, d)
    /\ DaemonGoes(d, "keyed")
    /\ UNCHANGED <<given, device, logged, made, lock, name, strikes, cli, asked, history>>

\* No device yet; the same key again is a no-op, another one is refused (I1).
Enrols(d) == device[store[d]] = Absent

EnrolDevice(d) ==
    /\ daemon[d] = "keyed"
    /\ Enrols(d)
    /\ device' = [device EXCEPT ![store[d]] = seed[d]]
    /\ wrote' = wrote \cup {d}
    /\ DaemonGoes(d, "enrolling")
    /\ UNCHANGED <<given, key, logged, made, lock, name, memory, cli, asked, sockets, refused, dropped>>

LogEnrolled(d) ==
    /\ daemon[d] = "enrolling"
    /\ logged' = logged \cup {store[d]}
    /\ wrote' = wrote \cup {d}
    /\ DaemonGoes(d, Course.enrolled)
    /\ UNCHANGED <<given, key, device, made, lock, name, memory, cli, asked, sockets, refused, dropped>>

AlreadyEnrolled(d) ==
    /\ daemon[d] = "keyed"
    /\ device[store[d]] = seed[d]
    /\ DaemonGoes(d, Course.enrolled)
    /\ UNCHANGED <<given, disk, lock, name, memory, cli, asked, history>>

OtherKey(d) ==
    /\ daemon[d] = "keyed"
    /\ ~Enrols(d) /\ device[store[d]] # seed[d]
    /\ TurnedAway(d)

-----------------------------------------------------------------------------
(* vkd: boot and serve_on *)

MayServe(d) == store[d] \in intact \/ d \in forced

\* The event is appended whatever the verdict.
BootAndServe(d) ==
    /\ daemon[d] = "enrolled"
    /\ MayServe(d)
    /\ wrote' = wrote \cup {d}
    /\ DaemonGoes(d, "serving")
    /\ UNCHANGED <<given, disk, lock, name, memory, cli, asked, sockets, refused, dropped>>

BootAndRefuse(d) ==
    /\ daemon[d] = "enrolled"
    /\ ~MayServe(d)
    /\ wrote' = wrote \cup {d}
    /\ Leave(d)
    /\ UNCHANGED <<given, disk, memory, cli, asked, sockets, refused>>

\* The Windows listener takes a connection and cannot create the next instance.
ArmFails(d) ==
    /\ os = "windows" /\ daemon[d] = "serving" /\ d \in name[endpoint[d]]
    /\ name' = Without(d)
    /\ strikes' = [strikes EXCEPT ![d] = 1]
    /\ UNCHANGED <<given, disk, lock, daemon, seed, cli, asked, history>>

\* The next accept tries again; the name may be another daemon's by then.
Rearm(d) ==
    /\ os = "windows" /\ daemon[d] = "serving" /\ d \notin name[endpoint[d]]
    /\ name' = Named(d)
    /\ strikes' = [strikes EXCEPT ![d] = 0]
    /\ UNCHANGED <<given, disk, lock, daemon, seed, cli, asked, history>>

\* Two failures in a row: a Listener error, and serve_on returns.
ListenerGone(d) ==
    /\ os = "windows" /\ daemon[d] = "serving" /\ d \notin name[endpoint[d]]
    /\ strikes' = [strikes EXCEPT ![d] = 2]
    /\ Leave(d)
    /\ UNCHANGED <<given, disk, seed, cli, asked, sockets, refused, wrote>>

-----------------------------------------------------------------------------
CliStep(b) ==
    \/ RefuseSynced(b) \/ AskFirst(b) \/ AlreadyServing(b)
    \/ MakeDir(b) \/ CannotMake(b) \/ Spawn(b) \/ CannotSpawn(b)
    \/ Poll(b) \/ PollMisses(b) \/ PollAnswered(b) \/ TryWait(b)

StartStep(d) ==
    \/ OpenStore(d) \/ LockHeld(d)
    \/ Probe(d) \/ RemoveSocket(d) \/ BindSocket(d) \/ BindPipe(d) \/ EndpointTaken(d)
    \/ CreateKey(d) \/ LoadKey(d) \/ KeyUnreadable(d) \/ NoEntry(d) \/ WriteKey(d)
    \/ EnrolDevice(d) \/ LogEnrolled(d) \/ AlreadyEnrolled(d) \/ OtherKey(d)
    \/ BootAndServe(d) \/ BootAndRefuse(d)

Next ==
    \E b \in Boots :
        \/ CliStep(b)
        \/ GiveUp(b)
        \/ StartStep(b)
        \/ ArmFails(b) \/ Rearm(b) \/ ListenerGone(b)
        \/ Die(b)

\* Both processes keep running, and patience runs out.
Fairness ==
    \A b \in Boots :
        /\ WF_vars(CliStep(b))
        /\ WF_vars(StartStep(b))
        /\ WF_vars(Rearm(b) \/ ListenerGone(b))
        /\ SF_vars(GiveUp(b))

Spec == Init /\ [][Next]_vars /\ Fairness

-----------------------------------------------------------------------------
(* Properties. *)

Returned ==
    {"synced", "unable", "running", "mismatch", "failed", "started", "exited", "silent", "lost"}

TypeOK ==
    /\ key \in [Places -> Boots \cup {Absent, Torn}]
    /\ key[Keyring] # Torn
    /\ device \in [Stores -> Boots \cup {Absent}]
    /\ logged \subseteq {s \in Stores : device[s] # Absent}
    /\ made \subseteq Stores
    /\ lock \in [Stores -> Boots \cup {Nobody}]
    /\ name \in [Endpoints -> SUBSET (Boots \cup {Nobody})]
    /\ os = "unix" => \A p \in Endpoints : Cardinality(name[p]) <= 1
    /\ os = "windows" => \A p \in Endpoints : \A d \in name[p] : d \in Boots /\ daemon[d] \in Bound
    /\ daemon \in [Boots -> Starting \cup Bound \cup {"none", "dead"}]
    /\ seed \in [Boots -> Boots \cup {Absent}]
    /\ strikes \in [Boots -> 0..2]
    /\ cli \in [Boots -> Returned \cup {"check", "asking", "made", "poll", "polling", "missed"}]
    /\ asked \in [Boots -> Boots \cup {Nobody}]

\* Two daemons over one store never get past its lock together, whatever endpoints
\* they were given (vk-store/src/lock.rs:3-9).
OneWriter ==
    \A d, e \in Boots : d # e /\ store[d] = store[e] =>
        ~(Alive(d) /\ Alive(e) /\ daemon[d] # "new" /\ daemon[e] # "new")

\* What is left of "a live daemon answers on its socket; only a stale one is removed"
\* (vk-ipc/src/transport.rs:187) when others start between the probe and the removal:
\* no start removes the socket of a daemon that was there when it probed.
ProbedSocketIsKept == evicted \subseteq late

\* "A live daemon answers on its socket; only a stale one is removed"
\* (vk-ipc/src/transport.rs:187).  MCNodeStartSocket: not so, the one that is removed
\* need not be the one that was probed.
OnlyStaleIsRemoved == evicted = {}

\* "A daemon that will never serve must not have enrolled a device or appended its
\* boot event first" (vkd/src/main.rs:65-68): one that found its store or its endpoint
\* taken, or no key it may use, has done neither.
RefusedLeavesNoTrace == refused \cap wrote = {}

\* A call that did not come to want its directory.
Declined(b) == cli[b] \in {"check", "asking", "synced", "unable", "running", "mismatch"}

\* A call that "may still decline to use" its directory "must not leave an empty
\* directory behind when it refuses" (vk-store/src/paths.rs:73-77): there is one only
\* where some call had asked the endpoint and went on, and none in a synced folder.
NoStrayDirectory ==
    \A s \in made : s \notin synced /\ \E b \in Boots : store[b] = s /\ ~Declined(b)

\* A daemon that the call that started it gave up on "does not outlive the call":
\* "otherwise it would sit on the endpoint and every later `vk boot` would refuse"
\* (vk-cli/src/main.rs:665-668).  But for "lost", no call that failed leaves one.
FailureLeavesNoDaemon ==
    \A b \in Boots : cli[b] \in Returned \ {"started", "lost"} => ~Alive(b)

\* Somebody can still sign with an enrolled device: its key is where its maker put it.
\* A key file is never replaced; the keyring's entry is, by a daemon over another store
\* that asked for it before the maker wrote it (vk-kernel/src/presence.rs:52-63).
EnrolledKeyIsKept ==
    \A s \in Stores : device[s] # Absent =>
        LET maker == device[s]
            now == key[place[maker]]
        IN  \/ now = maker
            \/ place[maker] = Keyring /\ now \in Boots /\ store[now] # store[maker]

\* The node's own device key is "made durable": it "lives in the OS keyring" or "in a
\* file that nobody else can read" (vk-kernel/src/presence.rs:1-6).  MCNodeStartKeyring:
\* the one that was enrolled may be in neither.
EnrolledKeyIsSomewhere ==
    \A s \in Stores : device[s] # Absent => \E p \in Places : key[p] = device[s]

\* A device that makes requests human is on the record, unless its daemon died
\* between the row and the event, which no later start makes up for
\* (vk-kernel/src/lib.rs:361-380, :396).
EnrolmentIsRecorded ==
    \A s \in Stores \ (logged \cup dropped) : device[s] # Absent =>
        \E d \in Boots : daemon[d] = "enrolling" /\ lock[s] = d

\* Who the human of a node is stands: on the record, never replaced by another key
\* (vk-kernel/src/lib.rs:382-387), and kept where it was made but for the keyring's race.
EnrolmentStands ==
    /\ [](EnrolledKeyIsKept /\ EnrolmentIsRecorded)
    /\ [][\A s \in Stores : device[s] # Absent => device'[s] = device[s]]_vars

\* One daemon to a store, and no socket taken from a daemon that answered.
OneDaemon == TypeOK /\ OneWriter /\ ProbedSocketIsKept

\* What a start that comes to nothing leaves behind: a daemon that was turned away, no
\* enrolment and no event; a call that declined, no directory; one that failed, no daemon
\* it still knows of.
RefusalLeavesNothing == RefusedLeavesNoTrace /\ NoStrayDirectory /\ FailureLeavesNoDaemon

\* `vk boot` returns although serving() waits without a timeout: whoever took
\* its connection serves or ends.
BootReturns == \A b \in Boots : <>(cli[b] \in Returned)
=============================================================================
