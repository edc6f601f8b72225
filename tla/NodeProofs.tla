----------------------------- MODULE NodeProofs -----------------------------
(***************************************************************************)
(* A node among others, for any number of them.  On one machine: one       *)
(* daemon to a store, no trace of a start that was turned away, and the    *)
(* key of an enrolled device.  Between replicas: STOPs converge, no write  *)
(* is lost silently, the clock orders what it stamps, and a root that      *)
(* verifies has its quorum.                                                *)
(***************************************************************************)
EXTENDS NodeStart, StopMerge, MetadataMerge, HybridClock, Federation, FiniteSetTheorems, TLAPS

(* Node start *)

\* What a call and its daemon were given stays given.
GivenOK ==
    /\ os \in {"unix", "windows"}
    /\ store \in [Boots -> Stores]
    /\ endpoint \in [Boots -> Endpoints]
    /\ place \in [Boots -> Places]

\* Where a call is that has not spawned its daemon.
NotSpawned == {"check", "asking", "synced", "unable", "running", "mismatch", "made", "failed"}

\* A call spawns one daemon, once, and not for a synced folder; one that failed after
\* it did has seen its daemon end, or lost track of it.
CallsSpawnOnce ==
    \A b \in Boots :
        /\ daemon[b] = "none" <=> cli[b] \in NotSpawned
        /\ cli[b] = "asking" => ~Refused(b)
        /\ cli[b] \in {"exited", "silent"} => daemon[b] = "dead"

\* The lock of a store is with the one daemon that got past it.
LocksAreHeld ==
    /\ \A d \in Boots : Alive(d) /\ daemon[d] # "new" <=> lock[store[d]] = d
    /\ \A s \in Stores : lock[s] \in Boots => store[lock[s]] = s

\* Only a daemon that is bound, or was, has its endpoint; who found a socket stale has
\* found nobody, and whoever took the socket since came late.
NamesAreBound ==
    /\ \A p \in Endpoints : \A d \in name[p] :
           d \in Boots => daemon[d] \in Bound \cup {"dead"} /\ endpoint[d] = p
    /\ \A d \in Boots : daemon[d] \in {"stale", "clear"} => os = "unix"
    /\ \A r, d \in Boots :
           daemon[r] = "stale" /\ d \in name[endpoint[r]] /\ daemon[d] \in Bound => <<r, d>> \in late

\* Stages without a key in memory.
Keyless == Starting \cup {"none", "bound", "keying", "minting"}

\* A key file is filled by the daemon that created it, and what is in a place was made by
\* a daemon that was given this place.
KeysAreMade ==
    /\ \A d \in Boots : daemon[d] = "keying" => place[d] \in Files /\ key[place[d]] = Torn
    /\ \A d, e \in Boots : daemon[d] = "keying" /\ daemon[e] = "keying" /\ place[d] = place[e] => d = e
    /\ \A d \in Boots : daemon[d] = "minting" => place[d] = Keyring
    /\ \A p \in Places : key[p] \in Boots => seed[key[p]] = key[p] /\ place[key[p]] = p

\* Who has made a key signs with it; every key in memory or in a row has been made.
SeedsAreMade ==
    /\ \A d \in Boots : daemon[d] \in Keyless => seed[d] = Absent
    /\ \A d \in Boots : daemon[d] \in Bound \ Keyless => seed[d] \in Boots
    /\ \A d \in Boots : seed[d] \in Boots => seed[seed[d]] = seed[d]
    /\ \A s \in Stores : device[s] \in Boots => seed[device[s]] = device[s]
    /\ \A d \in Boots : daemon[d] = "enrolling" => device[store[d]] \in Boots

\* A key that was made stays in its file.  In the keyring it stays, or another store's
\* daemon has put its own there; those that are about to are over other stores.
MadeAreKept ==
    \A k \in Boots : seed[k] = k =>
        /\ place[k] \in Files => key[place[k]] = k
        /\ place[k] = Keyring =>
               /\ key[Keyring] \in Boots
               /\ key[Keyring] = k \/ store[key[Keyring]] # store[k]
               /\ \A d \in Boots : daemon[d] = "minting" => store[d] # store[k]

\* The ledger is written after the endpoint is bound, and nothing by who is turned away.
TracesAreLate ==
    /\ \A d \in refused : d \in Boots /\ daemon[d] = "dead"
    /\ \A d \in wrote : d \in Boots /\ daemon[d] \in {"enrolling", "enrolled", "serving", "dead"}

\* The inductive invariant of NodeStart.
StartInv ==
    /\ GivenOK
    /\ TypeOK
    /\ CallsSpawnOnce
    /\ LocksAreHeld
    /\ NamesAreBound
    /\ KeysAreMade
    /\ SeedsAreMade
    /\ MadeAreKept
    /\ TracesAreLate
    /\ RefusedLeavesNoTrace
    /\ ProbedSocketIsKept
    /\ NoStrayDirectory
    /\ EnrolmentIsRecorded

\* Where a call may be.
CliStages == Returned \cup {"check", "asking", "made", "poll", "polling", "missed"}

LEMMA StartInit == Init => StartInv
<1> SUFFICES ASSUME Init PROVE StartInv
    OBVIOUS
<1> USE DEF Init
<1>1. GivenOK /\ CallsSpawnOnce
    BY DEF GivenOK, CallsSpawnOnce, NotSpawned
<1>2. \A p \in Endpoints : name[p] \in {{}, {Nobody}} /\ (os = "windows" => name[p] = {})
    OBVIOUS
<1>3. TypeOK
    <2>1. os = "unix" => \A p \in Endpoints : Cardinality(name[p]) <= 1
        <3>1. Cardinality({}) = 0 /\ Cardinality({Nobody}) = 1
            BY FS_EmptySet, FS_Singleton
        <3>2. \A p \in Endpoints : Cardinality(name[p]) \in {0, 1}
            BY <1>2, <3>1
        <3> QED BY <3>2
    <2>2. name \in [Endpoints -> SUBSET (Boots \cup {Nobody})]
        OBVIOUS
    <2>3. Keyring \in Places /\ Torn # Absent
        BY DEF Places, Torn, Absent
    <2> QED BY <1>2, <2>1, <2>2, <2>3 DEF TypeOK, Returned
<1>4. LocksAreHeld /\ KeysAreMade
    BY NodeStartAssumption DEF GivenOK, LocksAreHeld, KeysAreMade, Alive, Starting, Bound
<1>5. SeedsAreMade /\ MadeAreKept
    BY NodeStartAssumption DEF SeedsAreMade, MadeAreKept, Keyless, Bound
<1>6. NamesAreBound
    BY <1>2, NodeStartAssumption DEF NamesAreBound
<1>7. TracesAreLate /\ RefusedLeavesNoTrace /\ ProbedSocketIsKept
    BY DEF TracesAreLate, RefusedLeavesNoTrace, ProbedSocketIsKept
<1>8. NoStrayDirectory /\ EnrolmentIsRecorded
    BY DEF NoStrayDirectory, EnrolmentIsRecorded
<1> QED BY <1>1, <1>3, <1>4, <1>5, <1>6, <1>7, <1>8 DEF StartInv

\* A step of `vk boot` that starts and ends nothing.
LEMMA CliMoves ==
    ASSUME StartInv, NEW b \in Boots, NEW to \in CliStages, CliGoes(b, to),
           to \in NotSpawned <=> cli[b] \in NotSpawned,
           to = "asking" => ~Refused(b),
           to \in {"exited", "silent"} => daemon[b] = "dead",
           asked' \in [Boots -> Boots \cup {Nobody}],
           ~Declined(b) => to \notin {"check", "asking", "synced", "unable", "running", "mismatch"},
           \/ made' = made
           \/ /\ made' = made \cup {store[b]} /\ ~Refused(b)
              /\ to \notin {"check", "asking", "synced", "unable", "running", "mismatch"},
           UNCHANGED <<given, files, lock, name, daemon, memory, history>>
    PROVE  StartInv'
<1> USE DEF given, files, memory, sockets, history
<1>1. cli' \in [Boots -> CliStages] /\ cli'[b] = to /\ \A c \in Boots : c # b => cli'[c] = cli[c]
    BY DEF StartInv, TypeOK, CliGoes, CliStages
<1>2. GivenOK' /\ TypeOK'
    <2>1. store[b] \in Stores
        BY DEF StartInv, GivenOK
    <2> QED BY <1>1, <2>1 DEF StartInv, GivenOK, TypeOK, CliStages
<1>3. CallsSpawnOnce'
    BY <1>1 DEF StartInv, CallsSpawnOnce, Refused
<1>4. LocksAreHeld' /\ NamesAreBound' /\ TracesAreLate' /\ RefusedLeavesNoTrace' /\ ProbedSocketIsKept'
    BY DEF StartInv, LocksAreHeld, NamesAreBound, TracesAreLate, RefusedLeavesNoTrace, ProbedSocketIsKept, Alive
<1>5. KeysAreMade' /\ SeedsAreMade' /\ MadeAreKept'
    BY DEF StartInv, KeysAreMade, SeedsAreMade, MadeAreKept
<1>6. NoStrayDirectory'
    <2>1. \A c \in Boots : ~Declined(c) => ~Declined(c)'
        BY <1>1 DEF Declined
    <2>2. made' # made => ~Declined(b)' /\ store[b] \notin synced
        BY <1>1 DEF Declined, Refused
    <2> QED BY <2>1, <2>2 DEF StartInv, NoStrayDirectory
<1>7. EnrolmentIsRecorded'
    BY DEF StartInv, EnrolmentIsRecorded
<1> QED BY <1>2, <1>3, <1>4, <1>5, <1>6, <1>7 DEF StartInv

\* Whoever is asked is a daemon.
LEMMA AskedIsDaemon ==
    ASSUME StartInv, NEW b \in Boots, NEW from, NEW to, Ask(b, from, to)
    PROVE  asked' \in [Boots -> Boots \cup {Nobody}]
BY DEF Ask, StartInv, TypeOK, Listening

LEMMA CliStepInv ==
    ASSUME StartInv, NEW b \in Boots,
           \/ RefuseSynced(b) \/ AskFirst(b) \/ AlreadyServing(b)
           \/ MakeDir(b) \/ CannotMake(b) \/ CannotSpawn(b)
           \/ Poll(b) \/ PollMisses(b) \/ PollAnswered(b) \/ TryWait(b)
    PROVE  StartInv'
<1> USE DEF CliStages, Returned, NotSpawned, Declined, disk
<1>0. asked \in [Boots -> Boots \cup {Nobody}]
    BY DEF StartInv, TypeOK
<1>1. CASE RefuseSynced(b)
    BY <1>0, <1>1, CliMoves DEF RefuseSynced
<1>2. CASE AskFirst(b)
    <2>1. Ask(b, "check", "asking") /\ ~Refused(b) /\ UNCHANGED made
        BY <1>2 DEF AskFirst, Resolve
    <2> QED BY <2>1, AskedIsDaemon, CliMoves DEF Ask
<1>3. CASE AlreadyServing(b)
    BY <1>0, <1>3, CliMoves DEF AlreadyServing
<1>4. CASE MakeDir(b)
    <2>1. cli[b] \in {"check", "asking"} /\ ~Refused(b)
        BY <1>4 DEF MakeDir, NobodyThere, AskedDied, StartInv, CallsSpawnOnce
    <2>2. CliGoes(b, "made") /\ made' = made \cup {store[b]}
          /\ UNCHANGED <<given, files, lock, name, daemon, memory, asked, history>>
        BY <1>4 DEF MakeDir
    <2> QED BY <1>0, <2>1, <2>2, CliMoves
<1>5. CASE CannotMake(b)
    BY <1>0, <1>5, CliMoves DEF CannotMake, AskedDied
<1>6. CASE CannotSpawn(b)
    BY <1>0, <1>6, CliMoves DEF CannotSpawn
<1>7. CASE Poll(b)
    <2>1. Ask(b, "poll", "polling") /\ UNCHANGED made
        BY <1>7 DEF Poll
    <2> QED BY <2>1, AskedIsDaemon, CliMoves DEF Ask
<1>8. CASE PollMisses(b)
    BY <1>0, <1>8, CliMoves DEF PollMisses
<1>9. CASE PollAnswered(b)
    BY <1>0, <1>9, CliMoves DEF PollAnswered
<1>10. CASE TryWait(b)
    <2>1. /\ cli[b] = "missed"
          /\ CliGoes(b, IF Alive(b) THEN "poll" ELSE "exited") \/ CliGoes(b, "lost")
          /\ UNCHANGED <<given, disk, lock, name, daemon, memory, asked, history>>
        BY <1>10 DEF TryWait
    <2>2. ~Alive(b) => daemon[b] = "dead"
        BY <2>1 DEF StartInv, TypeOK, CallsSpawnOnce, Alive
    <2>3. CASE CliGoes(b, "lost")
        BY <1>0, <2>1, <2>3, CliMoves
    <2>4. CASE Alive(b) /\ CliGoes(b, "poll")
        BY <1>0, <2>1, <2>4, CliMoves
    <2>5. CASE ~Alive(b) /\ CliGoes(b, "exited")
        BY <1>0, <2>1, <2>2, <2>5, CliMoves
    <2> QED BY <2>1, <2>3, <2>4, <2>5
<1> QED BY <1>1, <1>2, <1>3, <1>4, <1>5, <1>6, <1>7, <1>8, <1>9, <1>10

\* Steps after which every daemon is where it was, or dead, or at a stage that asks no
\* more of its key.
LEMMA KeysStay ==
    ASSUME StartInv, UNCHANGED <<given, key, device, seed>>,
           \A e \in Boots :
               \/ daemon'[e] \in {daemon[e], "dead"}
               \/ daemon[e] \in Keyless /\ daemon'[e] \in Keyless \ {"keying", "minting"}
               \/ daemon[e] \in Bound \ Keyless /\ daemon'[e] \in Bound \ (Keyless \cup {"enrolling"})
    PROVE  KeysAreMade' /\ SeedsAreMade' /\ MadeAreKept'
<1> USE DEF given
<1>1. \A e \in Boots : daemon'[e] \in {"keying", "minting", "enrolling"} => daemon'[e] = daemon[e]
    BY DEF Keyless, Starting, Bound
<1>2. KeysAreMade'
    BY <1>1 DEF StartInv, KeysAreMade
<1>3. SeedsAreMade'
    <2>1. \A e \in Boots : daemon'[e] \in Keyless => daemon[e] \in Keyless
        BY DEF Keyless, Starting, Bound
    <2>2. \A e \in Boots : daemon'[e] \in Bound \ Keyless => daemon[e] \in Bound \ Keyless
        BY DEF Keyless, Starting, Bound
    <2> QED BY <1>1, <2>1, <2>2 DEF StartInv, SeedsAreMade
<1>4. MadeAreKept'
    BY <1>1 DEF StartInv, MadeAreKept
<1> QED BY <1>2, <1>3, <1>4

LEMMA SpawnInv ==
    ASSUME StartInv, NEW b \in Boots, Spawn(b)
    PROVE  StartInv'
<1> USE DEF given, disk, files, memory, sockets, history
<1>1. /\ cli[b] = "made" /\ CliGoes(b, "poll") /\ daemon' = [daemon EXCEPT ![b] = "new"]
      /\ UNCHANGED <<given, disk, lock, name, memory, asked, history>>
    BY DEF Spawn
<1>2. /\ cli' \in [Boots -> CliStages] /\ cli'[b] = "poll" /\ \A c \in Boots : c # b => cli'[c] = cli[c]
      /\ daemon[b] = "none" /\ daemon'[b] = "new" /\ \A d \in Boots : d # b => daemon'[d] = daemon[d]
      /\ daemon' \in [Boots -> Starting \cup Bound \cup {"none", "dead"}]
    BY <1>1 DEF StartInv, TypeOK, CallsSpawnOnce, NotSpawned, CliGoes, CliStages, Starting
<1>3. KeysAreMade' /\ SeedsAreMade' /\ MadeAreKept'
    BY <1>1, <1>2, KeysStay DEF Keyless, Starting
<1> USE DEF Alive, Starting, Bound
<1>4. GivenOK' /\ TypeOK'
    BY <1>1, <1>2 DEF StartInv, GivenOK, TypeOK, CliStages
<1>5. CallsSpawnOnce'
    BY <1>1, <1>2 DEF StartInv, CallsSpawnOnce, NotSpawned, Refused
<1>6. LocksAreHeld' /\ NamesAreBound'
    BY <1>1, <1>2 DEF StartInv, LocksAreHeld, NamesAreBound
<1>7. TracesAreLate' /\ RefusedLeavesNoTrace' /\ ProbedSocketIsKept'
    BY <1>1, <1>2 DEF StartInv, TracesAreLate, RefusedLeavesNoTrace, ProbedSocketIsKept
<1>8. NoStrayDirectory'
    BY <1>1, <1>2 DEF StartInv, NoStrayDirectory, Declined
<1>9. EnrolmentIsRecorded'
    BY <1>1, <1>2 DEF StartInv, EnrolmentIsRecorded
<1> QED BY <1>3, <1>4, <1>5, <1>6, <1>7, <1>8, <1>9 DEF StartInv

\* A daemon that ends lets go of its lock; what it leaves on disk is in order.
LEMMA LeaveInv ==
    ASSUME StartInv, NEW d \in Boots, Alive(d), Leave(d),
           UNCHANGED <<given, disk, seed, asked, sockets>>,
           strikes' \in [Boots -> 0..2],
           cli' = cli \/ CliGoes(d, "silent"),
           \/ refused' = refused /\ wrote' \in {wrote, wrote \cup {d}}
           \/ refused' = refused \cup {d} /\ wrote' = wrote
              /\ daemon[d] \notin {"enrolling", "enrolled", "serving"}
    PROVE  StartInv'
<1> USE DEF given, disk, files, sockets
<1>1. /\ daemon'[d] = "dead" /\ \A e \in Boots : e # d => daemon'[e] = daemon[e]
      /\ daemon' \in [Boots -> Starting \cup Bound \cup {"none", "dead"}]
      /\ lock' = [s \in Stores |-> IF lock[s] = d THEN Nobody ELSE lock[s]]
      /\ daemon[d] \in Starting \cup Bound
    BY DEF StartInv, GivenOK, TypeOK, Leave, Alive
<1>2. lock' \in [Stores -> Boots \cup {Nobody}] /\ Nobody # d
    BY <1>1, NodeStartAssumption DEF StartInv, TypeOK
<1>3. cli[d] \notin NotSpawned /\ cli[d] \notin {"exited", "silent"}
    BY <1>1 DEF StartInv, CallsSpawnOnce, Starting, Bound
<1>4. cli' \in [Boots -> CliStages] /\ \A b \in Boots : cli'[b] = cli[b] \/ (b = d /\ cli'[b] = "silent")
    BY DEF StartInv, TypeOK, CliGoes, CliStages, Returned
<1>5. /\ name' \in [Endpoints -> SUBSET (Boots \cup {Nobody})]
      /\ \A p \in Endpoints : name'[p] \subseteq name[p]
      /\ os = "unix" => name' = name
      /\ os = "windows" => \A p \in Endpoints : d \notin name'[p]
    <2>1. endpoint[d] \in Endpoints /\ name \in [Endpoints -> SUBSET (Boots \cup {Nobody})]
          /\ os \in {"unix", "windows"} /\ \A p \in Endpoints : d \in name[p] => endpoint[d] = p
        BY DEF StartInv, GivenOK, TypeOK, NamesAreBound
    <2>2. CASE os = "windows"
        <3>1. name' = [name EXCEPT ![endpoint[d]] = @ \ {d}]
            BY <2>2 DEF Leave, Unnamed, Without
        <3> QED BY <2>1, <2>2, <3>1
    <2>3. CASE os = "unix"
        BY <2>1, <2>3 DEF Leave, Unnamed
    <2> QED BY <2>1, <2>2, <2>3
<1>6. KeysAreMade' /\ SeedsAreMade' /\ MadeAreKept'
    BY <1>1, KeysStay
<1> USE DEF Alive, Starting, Bound
<1>7. GivenOK' /\ TypeOK'
    <2>1. os = "windows" => \A p \in Endpoints : \A e \in name'[p] : e \in Boots /\ daemon'[e] \in Bound
        BY <1>1, <1>5 DEF StartInv, TypeOK
    <2>2. os = "unix" => \A p \in Endpoints : Cardinality(name'[p]) <= 1
        BY <1>5 DEF StartInv, TypeOK
    <2>3. GivenOK'
        BY DEF StartInv, GivenOK
    <2>4. made' \subseteq Stores /\ seed' \in [Boots -> Boots \cup {Absent}]
          /\ key' \in [Places -> Boots \cup {Absent, Torn}] /\ key'[Keyring] # Torn
          /\ device' \in [Stores -> Boots \cup {Absent}]
          /\ logged' \subseteq {s \in Stores : device'[s] # Absent}
          /\ asked' \in [Boots -> Boots \cup {Nobody}]
        BY DEF StartInv, TypeOK
    <2> QED BY <1>1, <1>2, <1>4, <1>5, <2>1, <2>2, <2>3, <2>4 DEF TypeOK, CliStages
<1>8. CallsSpawnOnce'
    BY <1>1, <1>3, <1>4 DEF StartInv, CallsSpawnOnce, NotSpawned, Refused
<1>9. LocksAreHeld'
    <2>1. \A e \in Boots : store[e] \in Stores
        BY DEF StartInv, GivenOK
    <2> QED BY <1>1, <1>2, <2>1, NodeStartAssumption DEF StartInv, LocksAreHeld
<1>10. NamesAreBound'
    <2>1. \A r \in Boots : endpoint[r] \in Endpoints
        BY DEF StartInv, GivenOK
    <2> QED BY <1>1, <1>5, <2>1 DEF StartInv, NamesAreBound
<1>11. TracesAreLate' /\ RefusedLeavesNoTrace'
    <2>1. d \notin refused
        BY <1>1 DEF StartInv, TracesAreLate
    <2>2. daemon[d] \notin {"enrolling", "enrolled", "serving"} => d \notin wrote
        BY <1>1 DEF StartInv, TracesAreLate
    <2> QED BY <1>1, <2>1, <2>2 DEF StartInv, TracesAreLate, RefusedLeavesNoTrace
<1>12. ProbedSocketIsKept'
    BY DEF StartInv, ProbedSocketIsKept
<1>13. NoStrayDirectory'
    BY <1>3, <1>4 DEF StartInv, NoStrayDirectory, Declined
<1>14. EnrolmentIsRecorded'
    <2> SUFFICES ASSUME NEW s \in Stores, s \notin logged, s \notin dropped', device[s] # Absent
                 PROVE  \E e \in Boots : daemon'[e] = "enrolling" /\ lock'[s] = e
        BY DEF EnrolmentIsRecorded
    <2>1. dropped' = IF daemon[d] = "enrolling" THEN dropped \cup {store[d]} ELSE dropped
        BY DEF Leave
    <2>2. PICK e \in Boots : daemon[e] = "enrolling" /\ lock[s] = e
        BY <2>1 DEF StartInv, EnrolmentIsRecorded
    <2>3. store[e] = s
        BY <2>2 DEF StartInv, LocksAreHeld
    <2>4. e # d
        BY <2>1, <2>2, <2>3
    <2> QED BY <1>1, <2>2, <2>4
<1> QED BY <1>6, <1>7, <1>8, <1>9, <1>10, <1>11, <1>12, <1>13, <1>14 DEF StartInv

\* A daemon that goes on to its next stage: what that leaves as it was.
LEMMA Advances ==
    ASSUME StartInv, NEW d \in Boots, Alive(d), NEW stage \in (Starting \cup Bound) \ {"new"},
           DaemonGoes(d, stage),
           daemon[d] \in Bound => stage \in Bound,
           daemon[d] \in {"enrolling", "enrolled", "serving"} => stage \in {"enrolling", "enrolled", "serving"},
           UNCHANGED <<given, made, strikes, cli, asked, refused, dropped>>
    PROVE  /\ daemon'[d] = stage /\ \A e \in Boots : e # d => daemon'[e] = daemon[e]
           /\ daemon' \in [Boots -> Starting \cup Bound \cup {"none", "dead"}]
           /\ GivenOK' /\ CallsSpawnOnce' /\ NoStrayDirectory'
           /\ daemon[d] # "new" /\ lock' = lock => LocksAreHeld'
           /\ (name' = name /\ late' = late /\ stage \notin {"stale", "clear"}) => NamesAreBound'
           /\ os = "windows" => \A p \in Endpoints : \A e \in name[p] : e \in Boots /\ daemon'[e] \in Bound
           /\ wrote' = wrote => TracesAreLate' /\ RefusedLeavesNoTrace'
           /\ (wrote' = wrote \cup {d} /\ stage \in {"enrolling", "enrolled", "serving"})
                  => TracesAreLate' /\ RefusedLeavesNoTrace'
           /\ sockets' = sockets => ProbedSocketIsKept'
<1> USE DEF given
<1>1. /\ daemon'[d] = stage /\ \A e \in Boots : e # d => daemon'[e] = daemon[e]
      /\ daemon' \in [Boots -> Starting \cup Bound \cup {"none", "dead"}]
      /\ daemon[d] \in Starting \cup Bound
    BY DEF StartInv, TypeOK, DaemonGoes, Alive
<1> USE DEF Alive, Starting, Bound
<1>2. GivenOK' /\ NoStrayDirectory'
    BY <1>1 DEF StartInv, GivenOK, NoStrayDirectory, Declined
<1>3. CallsSpawnOnce'
    BY <1>1 DEF StartInv, CallsSpawnOnce, NotSpawned, Refused
<1>4. daemon[d] # "new" /\ lock' = lock => LocksAreHeld'
    BY <1>1 DEF StartInv, LocksAreHeld
<1>5. os = "windows" => \A p \in Endpoints : \A e \in name[p] : e \in Boots /\ daemon'[e] \in Bound
    BY <1>1 DEF StartInv, TypeOK
<1>6. (name' = name /\ late' = late /\ stage \notin {"stale", "clear"}) => NamesAreBound'
    <2>1. \A r \in Boots : endpoint[r] \in Endpoints
        BY DEF StartInv, GivenOK
    <2>2. \A p \in Endpoints : d \in name[p] => daemon[d] \in Bound
        BY <1>1 DEF StartInv, NamesAreBound
    <2> QED BY <1>1, <2>1, <2>2 DEF StartInv, NamesAreBound
<1>7. d \notin refused
    BY <1>1 DEF StartInv, TracesAreLate
<1>8. wrote' = wrote => TracesAreLate' /\ RefusedLeavesNoTrace'
    BY <1>1, <1>7 DEF StartInv, TracesAreLate, RefusedLeavesNoTrace
<1>9. (wrote' = wrote \cup {d} /\ stage \in {"enrolling", "enrolled", "serving"})
          => TracesAreLate' /\ RefusedLeavesNoTrace'
    BY <1>1, <1>7 DEF StartInv, TracesAreLate, RefusedLeavesNoTrace
<1>10. sockets' = sockets => ProbedSocketIsKept'
    BY DEF StartInv, ProbedSocketIsKept, sockets
<1> QED BY <1>1, <1>2, <1>3, <1>4, <1>5, <1>6, <1>8, <1>9, <1>10

LEMMA OpenStoreInv == ASSUME StartInv, NEW d \in Boots, OpenStore(d) PROVE StartInv'
<1> USE DEF given, disk, files, memory, sockets, history
<1>1. /\ daemon[d] = "new" /\ lock[store[d]] = Nobody /\ lock' = [lock EXCEPT ![store[d]] = d]
      /\ DaemonGoes(d, "open")
      /\ UNCHANGED <<given, disk, name, memory, cli, asked, history>>
    BY DEF OpenStore, LockFree, Course
<1>2. /\ daemon'[d] = "open" /\ \A e \in Boots : e # d => daemon'[e] = daemon[e]
      /\ daemon' \in [Boots -> Starting \cup Bound \cup {"none", "dead"}]
      /\ GivenOK' /\ CallsSpawnOnce' /\ NoStrayDirectory' /\ NamesAreBound'
      /\ TracesAreLate' /\ RefusedLeavesNoTrace' /\ ProbedSocketIsKept'
      /\ os = "windows" => \A p \in Endpoints : \A e \in name[p] : e \in Boots /\ daemon'[e] \in Bound
    BY <1>1, Advances DEF Alive, Starting, Bound
<1>3. KeysAreMade' /\ SeedsAreMade' /\ MadeAreKept'
    BY <1>1, <1>2, KeysStay DEF Keyless, Starting
<1> USE DEF Alive, Starting, Bound
<1>4. store[d] \in Stores /\ \A e \in Boots : store[e] \in Stores
    BY DEF StartInv, GivenOK
<1>5. /\ lock' \in [Stores -> Boots \cup {Nobody}]
      /\ \A s \in Stores : s # store[d] => lock'[s] = lock[s]
      /\ lock'[store[d]] = d
    BY <1>1, <1>4 DEF StartInv, TypeOK
<1>6. TypeOK'
    BY <1>1, <1>2, <1>5 DEF StartInv, TypeOK
<1>7. LocksAreHeld'
    BY <1>1, <1>2, <1>4, <1>5, NodeStartAssumption DEF StartInv, LocksAreHeld
<1>8. EnrolmentIsRecorded'
    <2>1. \A s \in Stores : lock[s] \in Boots => lock'[s] = lock[s]
        BY <1>1, <1>5, NodeStartAssumption
    <2> QED BY <1>1, <1>2, <2>1 DEF StartInv, EnrolmentIsRecorded
<1> QED BY <1>2, <1>3, <1>6, <1>7, <1>8 DEF StartInv

\* What a step on the endpoint has to see to, besides the names.
LEMMA EndpointMoves ==
    ASSUME StartInv, NEW d \in Boots, daemon[d] \in {"open", "stale", "clear"},
           NEW to \in {"stale", "clear", "bound"}, DaemonGoes(d, to),
           UNCHANGED <<given, disk, lock, memory, cli, asked, refused, wrote, dropped>>,
           name' \in [Endpoints -> SUBSET (Boots \cup {Nobody})],
           os = "unix" => \A p \in Endpoints : Cardinality(name'[p]) <= 1,
           os = "windows" => to = "bound" /\ \A p \in Endpoints : name'[p] \subseteq name[p] \cup {d},
           NamesAreBound', ProbedSocketIsKept'
    PROVE  StartInv'
<1> USE DEF given, disk, files, memory
<1>1. /\ daemon'[d] = to /\ \A e \in Boots : e # d => daemon'[e] = daemon[e]
      /\ daemon' \in [Boots -> Starting \cup Bound \cup {"none", "dead"}]
      /\ GivenOK' /\ CallsSpawnOnce' /\ NoStrayDirectory' /\ LocksAreHeld'
      /\ TracesAreLate' /\ RefusedLeavesNoTrace'
      /\ os = "windows" => \A p \in Endpoints : \A e \in name[p] : e \in Boots /\ daemon'[e] \in Bound
    BY Advances DEF Alive, Starting, Bound
<1>2. KeysAreMade' /\ SeedsAreMade' /\ MadeAreKept'
    BY <1>1, KeysStay DEF Keyless, Starting
<1>3. os = "windows" => \A p \in Endpoints : \A e \in name'[p] : e \in Boots /\ daemon'[e] \in Bound
    BY <1>1 DEF Bound
<1>4. TypeOK'
    BY <1>1, <1>3 DEF StartInv, TypeOK
<1>5. EnrolmentIsRecorded'
    BY <1>1 DEF StartInv, EnrolmentIsRecorded
<1> QED BY <1>1, <1>2, <1>4, <1>5 DEF StartInv

LEMMA EndpointInv ==
    ASSUME StartInv, NEW d \in Boots,
           Probe(d) \/ RemoveSocket(d) \/ BindSocket(d) \/ BindPipe(d)
    PROVE  StartInv'
<1> USE DEF given, history, sockets
<1>1. /\ endpoint[d] \in Endpoints /\ \A r \in Boots : endpoint[r] \in Endpoints
      /\ name \in [Endpoints -> SUBSET (Boots \cup {Nobody})]
      /\ os = "unix" => \A p \in Endpoints : Cardinality(name[p]) <= 1
      /\ evicted \subseteq late
    BY DEF StartInv, GivenOK, TypeOK, ProbedSocketIsKept
<1>2. ASSUME NEW p \in Endpoints, NEW e \in name[p], e \in Boots
      PROVE  daemon[e] \in Bound \cup {"dead"} /\ endpoint[e] = p
    BY <1>2 DEF StartInv, NamesAreBound
<1>3. \A r, e \in Boots :
          daemon[r] = "stale" /\ e \in name[endpoint[r]] /\ daemon[e] \in Bound => <<r, e>> \in late
    BY DEF StartInv, NamesAreBound
<1>4. \A e \in Boots : daemon[e] \in {"stale", "clear"} => os = "unix"
    BY DEF StartInv, NamesAreBound
<1>5. daemon \in [Boots -> Starting \cup Bound \cup {"none", "dead"}]
    BY DEF StartInv, TypeOK
<1>6. CASE Probe(d)
    <2> DEFINE to == IF name[endpoint[d]] = {} THEN "clear" ELSE "stale"
    <2>1. /\ os = "unix" /\ daemon[d] = "open" /\ DaemonGoes(d, to) /\ to \in {"stale", "clear"}
          /\ Listening(d) = {}
          /\ UNCHANGED <<given, disk, lock, name, memory, cli, asked, history>>
        BY <1>6 DEF Probe
    <2> HIDE DEF to
    <2>2. daemon'[d] = to /\ \A e \in Boots : e # d => daemon'[e] = daemon[e]
        BY <1>5, <2>1 DEF DaemonGoes
    <2>3. NamesAreBound'
        <3>1. \A p \in Endpoints : \A e \in name[p] : e \in Boots => e # d
            BY <1>2, <2>1 DEF Bound
        <3>2. \A e \in Boots : e \in name[endpoint[d]] => daemon[e] \notin Bound
            BY <2>1 DEF Listening, Alive
        <3>3. \A r, e \in Boots :
                  daemon'[r] = "stale" /\ e \in name[endpoint[r]] /\ daemon'[e] \in Bound => <<r, e>> \in late
            BY <1>1, <1>3, <2>2, <3>1, <3>2
        <3> QED BY <1>2, <1>4, <2>1, <2>2, <3>1, <3>3 DEF NamesAreBound
    <2>4. ProbedSocketIsKept'
        BY <1>1, <2>1 DEF ProbedSocketIsKept
    <2> QED BY <1>1, <2>1, <2>3, <2>4, EndpointMoves
<1>7. CASE RemoveSocket(d)
    <2>1. /\ daemon[d] = "stale" /\ evicted' = evicted \cup ({d} \X Listening(d))
          /\ name' = [name EXCEPT ![endpoint[d]] = {}] /\ DaemonGoes(d, "clear")
          /\ UNCHANGED <<given, disk, lock, memory, cli, asked, late, refused, wrote, dropped>>
        BY <1>7 DEF RemoveSocket
    <2>2. daemon'[d] = "clear" /\ \A e \in Boots : e # d => daemon'[e] = daemon[e]
        BY <1>5, <2>1 DEF DaemonGoes
    <2>3. os = "unix"
        BY <1>4, <2>1
    <2>4. /\ name' \in [Endpoints -> SUBSET (Boots \cup {Nobody})]
          /\ \A p \in Endpoints : name'[p] = IF p = endpoint[d] THEN {} ELSE name[p]
        BY <1>1, <2>1
    <2>5. \A p \in Endpoints : Cardinality(name'[p]) <= 1
        <3>1. Cardinality({}) = 0
            BY FS_EmptySet
        <3>2. \A p \in Endpoints : name'[p] = {} \/ name'[p] = name[p]
            BY <2>4
        <3>3. \A p \in Endpoints : Cardinality(name[p]) <= 1
            BY <1>1, <2>3
        <3> QED BY <3>1, <3>2, <3>3
    <2>6. NamesAreBound'
        <3>1. \A p \in Endpoints : \A e \in name[p] : e \in Boots => e # d
            BY <1>2, <2>1 DEF Bound
        <3>2. \A p \in Endpoints : name'[p] \subseteq name[p]
            BY <2>4
        <3>3. \A r, e \in Boots :
                  daemon'[r] = "stale" /\ e \in name'[endpoint[r]] /\ daemon'[e] \in Bound => <<r, e>> \in late
            BY <1>1, <1>3, <2>2, <3>1, <3>2
        <3> QED BY <1>2, <2>1, <2>2, <2>3, <3>1, <3>2, <3>3 DEF NamesAreBound
    <2>7. ProbedSocketIsKept'
        <3>1. \A e \in Listening(d) : e \in Boots /\ e \in name[endpoint[d]] /\ daemon[e] \in Bound
            BY <1>1, <1>2 DEF Listening, Alive, Starting, Bound
        <3>2. \A e \in Listening(d) : <<d, e>> \in late
            BY <1>3, <2>1, <3>1
        <3> QED BY <1>1, <2>1, <3>2 DEF ProbedSocketIsKept
    <2> QED BY <2>1, <2>3, <2>4, <2>5, <2>6, <2>7, EndpointMoves
<1>8. CASE BindSocket(d) \/ BindPipe(d)
    <2>1. /\ daemon[d] \in {"open", "clear"} /\ (os = "unix" => BindSocket(d))
          /\ name[endpoint[d]] = {} /\ name' = [name EXCEPT ![endpoint[d]] = @ \cup {d}]
          /\ DaemonGoes(d, "bound")
          /\ UNCHANGED <<given, disk, lock, memory, cli, asked, evicted, refused, wrote, dropped>>
          /\ late \subseteq late'
        BY <1>8 DEF BindSocket, BindPipe, Named, Course
    <2>2. daemon'[d] = "bound" /\ \A e \in Boots : e # d => daemon'[e] = daemon[e]
        BY <1>5, <2>1 DEF DaemonGoes
    <2>3. /\ name' \in [Endpoints -> SUBSET (Boots \cup {Nobody})]
          /\ \A p \in Endpoints : name'[p] = IF p = endpoint[d] THEN {d} ELSE name[p]
        BY <1>1, <2>1
    <2>4. os = "unix" => \A p \in Endpoints : Cardinality(name'[p]) <= 1
        <3>1. Cardinality({d}) = 1
            BY FS_Singleton
        <3>2. \A p \in Endpoints : name'[p] = {d} \/ name'[p] = name[p]
            BY <2>3
        <3>3. SUFFICES ASSUME \A p \in Endpoints : Cardinality(name[p]) <= 1
                       PROVE  \A p \in Endpoints : Cardinality(name'[p]) <= 1
            BY <1>1, <2>1
        <3> QED BY <3>1, <3>2, <3>3
    <2>5. NamesAreBound'
        <3>1. \A r \in Boots : daemon[r] = "stale" /\ endpoint[r] = endpoint[d] => <<r, d>> \in late'
            <4>1. \A r \in Boots : daemon[r] = "stale" => BindSocket(d)
                BY <1>4, <2>1
            <4> QED BY <4>1 DEF BindSocket, Removers
        <3>2. \A r, e \in Boots :
                  daemon'[r] = "stale" /\ e \in name'[endpoint[r]] /\ daemon'[e] \in Bound => <<r, e>> \in late'
            BY <1>1, <1>2, <1>3, <2>1, <2>2, <2>3, <3>1
        <3>3. \A p \in Endpoints : \A e \in name'[p] : e \in Boots => daemon'[e] \in Bound \cup {"dead"} /\ endpoint[e] = p
            BY <1>2, <2>2, <2>3 DEF Bound
        <3> QED BY <1>4, <2>1, <2>2, <3>2, <3>3 DEF NamesAreBound
    <2>6. ProbedSocketIsKept'
        BY <1>1, <2>1 DEF ProbedSocketIsKept
    <2>7. \A p \in Endpoints : name'[p] \subseteq name[p] \cup {d}
        BY <2>3
    <2> QED BY <2>1, <2>3, <2>4, <2>5, <2>6, <2>7, EndpointMoves
<1> QED BY <1>6, <1>7, <1>8

\* What a step that finds or makes a key has to see to, besides the keys.
LEMMA KeyMoves ==
    ASSUME StartInv, NEW d \in Boots, daemon[d] \in {"bound", "keying", "minting"},
           NEW to \in {"keying", "minting", "keyed"}, DaemonGoes(d, to),
           UNCHANGED <<given, device, logged, made, lock, name, strikes, cli, asked, history>>,
           key' \in [Places -> Boots \cup {Absent, Torn}], key'[Keyring] # Torn,
           seed' \in [Boots -> Boots \cup {Absent}],
           KeysAreMade', SeedsAreMade', MadeAreKept'
    PROVE  StartInv'
<1> USE DEF given, sockets, history
<1>1. /\ daemon'[d] = to /\ \A e \in Boots : e # d => daemon'[e] = daemon[e]
      /\ daemon' \in [Boots -> Starting \cup Bound \cup {"none", "dead"}]
      /\ GivenOK' /\ CallsSpawnOnce' /\ NoStrayDirectory' /\ LocksAreHeld' /\ NamesAreBound'
      /\ TracesAreLate' /\ RefusedLeavesNoTrace' /\ ProbedSocketIsKept'
      /\ os = "windows" => \A p \in Endpoints : \A e \in name[p] : e \in Boots /\ daemon'[e] \in Bound
    BY Advances DEF Alive, Starting, Bound
<1>2. TypeOK'
    BY <1>1 DEF StartInv, TypeOK
<1>3. EnrolmentIsRecorded'
    BY <1>1 DEF StartInv, EnrolmentIsRecorded
<1> QED BY <1>1, <1>2, <1>3 DEF StartInv

\* What the steps of load_or_create start from.
LEMMA KeyFacts ==
    ASSUME StartInv
    PROVE  /\ place \in [Boots -> Places] /\ Keyring \in Places /\ Files \subseteq Places
           /\ key \in [Places -> Boots \cup {Absent, Torn}] /\ key[Keyring] # Torn
           /\ seed \in [Boots -> Boots \cup {Absent}]
           /\ daemon \in [Boots -> Starting \cup Bound \cup {"none", "dead"}]
           /\ Absent \notin Boots /\ Torn \notin Boots /\ Torn # Absent
BY NodeStartAssumption DEF StartInv, GivenOK, TypeOK, Places, Absent, Torn

LEMMA CreateKeyInv == ASSUME StartInv, NEW d \in Boots, CreateKey(d) PROVE StartInv'
<1> USE DEF given
<1>1. /\ daemon[d] = "bound" /\ place[d] \in Files /\ key[place[d]] = Absent
      /\ key' = [key EXCEPT ![place[d]] = Torn] /\ DaemonGoes(d, "keying")
      /\ UNCHANGED <<given, device, logged, made, lock, name, memory, cli, asked, history>>
    BY DEF CreateKey, Creates, KeyAt
<1>2. daemon'[d] = "keying" /\ \A e \in Boots : e # d => daemon'[e] = daemon[e]
    BY <1>1, KeyFacts DEF DaemonGoes
<1>3. /\ key' \in [Places -> Boots \cup {Absent, Torn}] /\ key'[place[d]] = Torn
      /\ \A p \in Places : p # place[d] => key'[p] = key[p]
      /\ place[d] # Keyring /\ key'[Keyring] # Torn /\ key'[Keyring] = key[Keyring]
    BY <1>1, KeyFacts, NodeStartAssumption
<1>4. UNCHANGED <<seed, device, strikes>>
    BY <1>1 DEF memory
<1>5. KeysAreMade'
    <2>1. \A e \in Boots : daemon[e] = "keying" => place[e] # place[d]
        BY <1>1, KeyFacts DEF StartInv, KeysAreMade
    <2>2. \A p \in Places : key'[p] \in Boots => key'[p] = key[p]
        BY <1>3, KeyFacts
    <2>3. \A e \in Boots : place[e] \in Places
        BY KeyFacts
    <2> QED BY <1>1, <1>2, <1>3, <1>4, <2>1, <2>2, <2>3, KeyFacts DEF StartInv, KeysAreMade
<1>6. SeedsAreMade'
    BY <1>1, <1>2, <1>4 DEF StartInv, SeedsAreMade, Keyless, Bound
<1>7. MadeAreKept'
    <2>1. \A k \in Boots : seed[k] = k /\ place[k] \in Files => place[k] # place[d]
        BY <1>1, KeyFacts DEF StartInv, MadeAreKept
    <2> QED BY <1>1, <1>2, <1>3, <1>4, <2>1, KeyFacts DEF StartInv, MadeAreKept
<1> QED BY <1>1, <1>3, <1>4, <1>5, <1>6, <1>7, KeyFacts, KeyMoves

LEMMA LoadKeyInv == ASSUME StartInv, NEW d \in Boots, LoadKey(d) PROVE StartInv'
<1> USE DEF given, disk, files
<1> DEFINE k == key[place[d]]
<1>1. /\ daemon[d] = "bound" /\ k \in Boots /\ seed' = [seed EXCEPT ![d] = k] /\ DaemonGoes(d, "keyed")
      /\ UNCHANGED <<given, disk, lock, name, strikes, cli, asked, history>>
    BY DEF LoadKey, Remembers
<1>2. seed[k] = k /\ seed[d] = Absent /\ k # d
    BY <1>1, KeyFacts DEF StartInv, KeysAreMade, SeedsAreMade, Keyless
<1> HIDE DEF k
<1>3. daemon'[d] = "keyed" /\ \A e \in Boots : e # d => daemon'[e] = daemon[e]
    BY <1>1, KeyFacts DEF DaemonGoes
<1>4. /\ seed' \in [Boots -> Boots \cup {Absent}] /\ seed'[d] = k
      /\ \A e \in Boots : e # d => seed'[e] = seed[e]
    BY <1>1, KeyFacts
<1>5. \A e \in Boots : seed'[e] = e <=> seed[e] = e
    BY <1>2, <1>4, KeyFacts
<1>6. KeysAreMade'
    BY <1>1, <1>3, <1>5 DEF StartInv, KeysAreMade
<1>7. SeedsAreMade'
    <2>1. \A e \in Boots : seed'[e] \in Boots => seed'[seed'[e]] = seed'[e]
        BY <1>1, <1>2, <1>4, <1>5 DEF StartInv, SeedsAreMade
    <2>2. \A s \in Stores : device[s] \in Boots => seed'[device[s]] = device[s]
        BY <1>5 DEF StartInv, SeedsAreMade
    <2> QED BY <1>1, <1>3, <1>4, <2>1, <2>2 DEF StartInv, SeedsAreMade, Keyless, Starting, Bound
<1>8. MadeAreKept'
    BY <1>1, <1>3, <1>5 DEF StartInv, MadeAreKept
<1> QED BY <1>1, <1>4, <1>6, <1>7, <1>8, KeyFacts, KeyMoves

LEMMA NoEntryInv == ASSUME StartInv, NEW d \in Boots, NoEntry(d) PROVE StartInv'
<1> USE DEF given, disk, files, memory
<1>1. /\ daemon[d] = "bound" /\ place[d] = Keyring /\ key[Keyring] = Absent /\ DaemonGoes(d, "minting")
      /\ UNCHANGED <<given, disk, lock, name, memory, cli, asked, history>>
    BY DEF NoEntry
<1>2. daemon'[d] = "minting" /\ \A e \in Boots : e # d => daemon'[e] = daemon[e]
    BY <1>1, KeyFacts DEF DaemonGoes
<1>3. KeysAreMade'
    BY <1>1, <1>2 DEF StartInv, KeysAreMade
<1>4. SeedsAreMade'
    BY <1>1, <1>2 DEF StartInv, SeedsAreMade, Keyless, Bound
<1>5. MadeAreKept'
    <2>1. \A k \in Boots : seed[k] = k => place[k] # Keyring
        BY <1>1, KeyFacts DEF StartInv, MadeAreKept
    <2> QED BY <1>1, <2>1 DEF StartInv, MadeAreKept
<1> QED BY <1>1, <1>3, <1>4, <1>5, KeyFacts, KeyMoves

\* A file is filled by who created it.  The keyring may be written over, but then the two
\* daemons hold the locks of two stores.
LEMMA WriteKeyInv == ASSUME StartInv, NEW d \in Boots, WriteKey(d) PROVE StartInv'
<1> USE DEF given
<1>1. /\ daemon[d] \in {"keying", "minting"} /\ key' = [key EXCEPT ![place[d]] = d]
      /\ seed' = [seed EXCEPT ![d] = d] /\ DaemonGoes(d, "keyed")
      /\ UNCHANGED <<given, device, logged, made, lock, name, strikes, cli, asked, history>>
    BY DEF WriteKey, KeyAt, Remembers
<1>2. daemon'[d] = "keyed" /\ \A e \in Boots : e # d => daemon'[e] = daemon[e]
    BY <1>1, KeyFacts DEF DaemonGoes
<1>3. /\ key' \in [Places -> Boots \cup {Absent, Torn}] /\ key'[place[d]] = d
      /\ \A p \in Places : p # place[d] => key'[p] = key[p]
      /\ place[d] \in Places
    BY <1>1, KeyFacts
<1>4. /\ seed' \in [Boots -> Boots \cup {Absent}] /\ seed'[d] = d
      /\ \A e \in Boots : e # d => seed'[e] = seed[e]
    BY <1>1, KeyFacts
<1>5. seed[d] = Absent
    BY <1>1 DEF StartInv, SeedsAreMade, Keyless
<1>6. /\ daemon[d] = "keying" => place[d] \in Files /\ key[place[d]] = Torn
      /\ daemon[d] = "minting" => place[d] = Keyring
      /\ \A e \in Boots : e # d /\ daemon[e] = "keying" => place[e] # place[d] /\ place[e] \in Files
    BY <1>1, NodeStartAssumption DEF StartInv, KeysAreMade
<1>7. key'[Keyring] # Torn
    BY <1>3, KeyFacts
<1>8. KeysAreMade'
    <2>1. \A e \in Boots : daemon'[e] = "keying" => place[e] \in Files /\ key'[place[e]] = Torn
        BY <1>2, <1>3, <1>6, KeyFacts DEF StartInv, KeysAreMade
    <2>2. \A p \in Places : key'[p] \in Boots => seed'[key'[p]] = key'[p] /\ place[key'[p]] = p
        <3> SUFFICES ASSUME NEW p \in Places, key'[p] \in Boots
                     PROVE  seed'[key'[p]] = key'[p] /\ place[key'[p]] = p
            OBVIOUS
        <3>1. CASE p = place[d]
            BY <1>3, <1>4, <3>1
        <3>2. CASE p # place[d]
            BY <1>3, <1>4, <3>2 DEF StartInv, KeysAreMade
        <3> QED BY <3>1, <3>2
    <2> QED BY <1>1, <1>2, <2>1, <2>2 DEF StartInv, KeysAreMade
<1>9. SeedsAreMade'
    <2>1. \A e \in Boots : seed'[e] \in Boots => seed'[seed'[e]] = seed'[e]
        BY <1>4 DEF StartInv, SeedsAreMade
    <2>2. \A s \in Stores : device[s] \in Boots => seed'[device[s]] = device[s]
        BY <1>4 DEF StartInv, SeedsAreMade
    <2> QED BY <1>1, <1>2, <1>4, <2>1, <2>2 DEF StartInv, SeedsAreMade, Keyless, Starting, Bound
<1>10. MadeAreKept'
    <2>1. \A e \in Boots : e # d /\ daemon[e] = "minting" => store[e] # store[d]
        BY <1>1 DEF StartInv, LocksAreHeld, Alive, Starting, Bound
    <2> SUFFICES ASSUME NEW k \in Boots, seed'[k] = k
                 PROVE  /\ place[k] \in Files => key'[place[k]] = k
                        /\ place[k] = Keyring =>
                               /\ key'[Keyring] \in Boots
                               /\ key'[Keyring] = k \/ store[key'[Keyring]] # store[k]
                               /\ \A e \in Boots : daemon'[e] = "minting" => store[e] # store[k]
        BY <1>1 DEF MadeAreKept
    <2>2. CASE k = d
        BY <1>2, <1>3, <2>1, <2>2
    <2>3. CASE k # d
        <3>1. seed[k] = k
            BY <1>4, <2>3
        <3>2. /\ place[k] \in Files => key[place[k]] = k
              /\ place[k] = Keyring =>
                     /\ key[Keyring] \in Boots
                     /\ key[Keyring] = k \/ store[key[Keyring]] # store[k]
                     /\ \A e \in Boots : daemon[e] = "minting" => store[e] # store[k]
            BY <3>1 DEF StartInv, MadeAreKept
        <3>3. place[k] \in Files => key'[place[k]] = k
            BY <1>1, <1>3, <1>6, <3>2, KeyFacts, NodeStartAssumption
        <3>4. CASE daemon[d] = "keying"
            <4>1. key'[Keyring] = key[Keyring]
                BY <1>3, <1>6, <3>4, KeyFacts, NodeStartAssumption
            <4> QED BY <1>2, <3>2, <3>3, <4>1
        <3>5. CASE daemon[d] = "minting"
            BY <1>2, <1>3, <1>6, <3>2, <3>3, <3>5
        <3> QED BY <1>1, <3>4, <3>5
    <2> QED BY <2>2, <2>3
<1> QED BY <1>1, <1>3, <1>4, <1>7, <1>8, <1>9, <1>10, KeyMoves

LEMMA KeyInv ==
    ASSUME StartInv, NEW d \in Boots, CreateKey(d) \/ LoadKey(d) \/ NoEntry(d) \/ WriteKey(d)
    PROVE  StartInv'
BY CreateKeyInv, LoadKeyInv, NoEntryInv, WriteKeyInv

LEMMA EnrolDeviceInv == ASSUME StartInv, NEW d \in Boots, EnrolDevice(d) PROVE StartInv'
<1> USE DEF given, sockets
<1>1. /\ daemon[d] = "keyed" /\ DaemonGoes(d, "enrolling") /\ wrote' = wrote \cup {d}
      /\ device[store[d]] = Absent /\ device' = [device EXCEPT ![store[d]] = seed[d]]
      /\ UNCHANGED <<given, key, logged, made, lock, name, memory, cli, asked, sockets, refused, dropped>>
    BY DEF EnrolDevice, Enrols
<1>2. UNCHANGED <<seed, strikes>>
    BY <1>1 DEF memory
<1>3. /\ daemon'[d] = "enrolling" /\ \A e \in Boots : e # d => daemon'[e] = daemon[e]
      /\ daemon' \in [Boots -> Starting \cup Bound \cup {"none", "dead"}]
      /\ GivenOK' /\ CallsSpawnOnce' /\ NoStrayDirectory' /\ LocksAreHeld' /\ NamesAreBound'
      /\ TracesAreLate' /\ RefusedLeavesNoTrace' /\ ProbedSocketIsKept'
      /\ os = "windows" => \A p \in Endpoints : \A e \in name[p] : e \in Boots /\ daemon'[e] \in Bound
    BY <1>1, <1>2, Advances DEF Alive, Starting, Bound
<1>4. store[d] \in Stores /\ seed[d] \in Boots /\ seed[seed[d]] = seed[d]
    BY <1>1 DEF StartInv, GivenOK, SeedsAreMade, Keyless, Starting, Bound
<1>5. /\ device' \in [Stores -> Boots \cup {Absent}]
      /\ device'[store[d]] = seed[d]
      /\ \A s \in Stores : s # store[d] => device'[s] = device[s]
    BY <1>1, <1>4 DEF StartInv, TypeOK
<1>6. TypeOK'
    <2>1. logged \subseteq {s \in Stores : device'[s] # Absent}
        BY <1>4, <1>5, NodeStartAssumption DEF StartInv, TypeOK
    <2> QED BY <1>1, <1>2, <1>3, <1>5, <2>1 DEF StartInv, TypeOK
<1>7. KeysAreMade' /\ MadeAreKept'
    BY <1>1, <1>2, <1>3 DEF StartInv, KeysAreMade, MadeAreKept
<1>8. SeedsAreMade'
    <2>1. \A e \in Boots : store[e] \in Stores
        BY DEF StartInv, GivenOK
    <2>2. \A s \in Stores : device'[s] \in Boots => seed[device'[s]] = device'[s]
        BY <1>4, <1>5 DEF StartInv, SeedsAreMade
    <2>3. \A e \in Boots : daemon'[e] = "enrolling" => device'[store[e]] \in Boots
        BY <1>3, <1>4, <1>5, <2>1 DEF StartInv, SeedsAreMade
    <2> QED BY <1>1, <1>2, <1>3, <1>4, <2>2, <2>3 DEF StartInv, SeedsAreMade, Keyless, Starting
<1>9. EnrolmentIsRecorded'
    <2>1. lock[store[d]] = d
        BY <1>1 DEF StartInv, LocksAreHeld, Alive, Bound
    <2> QED BY <1>1, <1>3, <1>5, <2>1 DEF StartInv, EnrolmentIsRecorded
<1> QED BY <1>3, <1>6, <1>7, <1>8, <1>9 DEF StartInv

\* Enrolled before, or logged now; and the boot event of a node that serves.
LEMMA RecordInv ==
    ASSUME StartInv, NEW d \in Boots, AlreadyEnrolled(d) \/ LogEnrolled(d) \/ BootAndServe(d)
    PROVE  StartInv'
<1> USE DEF given, disk, files, memory, sockets, history
<1> DEFINE to == IF BootAndServe(d) THEN "serving" ELSE "enrolled"
<1>1. /\ daemon[d] \in {"keyed", "enrolling", "enrolled"} /\ DaemonGoes(d, to) /\ to \in {"enrolled", "serving"}
      /\ daemon[d] = "enrolled" => to = "serving"
      /\ UNCHANGED <<given, key, device, made, lock, name, memory, cli, asked, sockets, refused, dropped>>
      /\ wrote' \in {wrote, wrote \cup {d}}
    BY DEF AlreadyEnrolled, LogEnrolled, BootAndServe, Course
<1>2. \/ logged' = logged /\ daemon[d] # "enrolling"
      \/ logged' = logged \cup {store[d]} /\ daemon[d] = "enrolling"
    BY DEF AlreadyEnrolled, LogEnrolled, BootAndServe
<1> HIDE DEF to
<1>3. /\ daemon'[d] = to /\ \A e \in Boots : e # d => daemon'[e] = daemon[e]
      /\ daemon' \in [Boots -> Starting \cup Bound \cup {"none", "dead"}]
      /\ GivenOK' /\ CallsSpawnOnce' /\ NoStrayDirectory' /\ LocksAreHeld' /\ NamesAreBound'
      /\ TracesAreLate' /\ RefusedLeavesNoTrace' /\ ProbedSocketIsKept'
      /\ os = "windows" => \A p \in Endpoints : \A e \in name[p] : e \in Boots /\ daemon'[e] \in Bound
    BY <1>1, Advances DEF Alive, Starting, Bound
<1>4. TypeOK'
    <2>1. logged' \subseteq {s \in Stores : device[s] # Absent}
        <3>1. daemon[d] = "enrolling" => device[store[d]] # Absent /\ store[d] \in Stores
            BY NodeStartAssumption DEF StartInv, SeedsAreMade, GivenOK
        <3> QED BY <1>2, <3>1 DEF StartInv, TypeOK
    <2> QED BY <1>1, <1>3, <2>1 DEF StartInv, TypeOK
<1>5. KeysAreMade' /\ SeedsAreMade' /\ MadeAreKept'
    BY <1>1, <1>3, KeysStay DEF Keyless, Starting, Bound
<1>6. EnrolmentIsRecorded'
    <2> SUFFICES ASSUME NEW s \in Stores, s \notin logged', s \notin dropped, device[s] # Absent
                 PROVE  \E e \in Boots : daemon'[e] = "enrolling" /\ lock[s] = e
        BY <1>1 DEF EnrolmentIsRecorded
    <2>1. PICK e \in Boots : daemon[e] = "enrolling" /\ lock[s] = e
        BY <1>2 DEF StartInv, EnrolmentIsRecorded
    <2>2. store[e] = s
        BY <2>1 DEF StartInv, LocksAreHeld
    <2> QED BY <1>2, <1>3, <2>1, <2>2
<1> QED BY <1>3, <1>4, <1>5, <1>6 DEF StartInv

\* The listener of a daemon that serves comes and goes.
LEMMA ListenerInv ==
    ASSUME StartInv, NEW d \in Boots, ArmFails(d) \/ Rearm(d)
    PROVE  StartInv'
<1> USE DEF given, disk, files, sockets, history
<1>1. /\ os = "windows" /\ daemon[d] = "serving" /\ name' \in {Without(d), Named(d)}
      /\ \E n \in {0, 1} : strikes' = [strikes EXCEPT ![d] = n]
      /\ UNCHANGED <<given, disk, lock, daemon, seed, cli, asked, history>>
    BY DEF ArmFails, Rearm
<1>2. strikes' \in [Boots -> 0..2]
    BY <1>1 DEF StartInv, TypeOK
<1>3. endpoint[d] \in Endpoints /\ name \in [Endpoints -> SUBSET (Boots \cup {Nobody})]
    BY DEF StartInv, GivenOK, TypeOK
<1>4. /\ name' \in [Endpoints -> SUBSET (Boots \cup {Nobody})]
      /\ \A p \in Endpoints : name'[p] \subseteq name[p] \cup (IF p = endpoint[d] THEN {d} ELSE {})
    BY <1>1, <1>3 DEF Without, Named
<1>5. TypeOK'
    <2>1. \A p \in Endpoints : \A e \in name'[p] : e \in Boots /\ daemon[e] \in Bound
        BY <1>1, <1>4 DEF StartInv, TypeOK, Bound
    <2> QED BY <1>1, <1>2, <1>4, <2>1 DEF StartInv, TypeOK
<1>6. NamesAreBound'
    <2>1. \A r \in Boots : daemon[r] \notin {"stale", "clear"}
        BY <1>1 DEF StartInv, NamesAreBound
    <2> QED BY <1>1, <1>4, <2>1 DEF StartInv, NamesAreBound, Bound
<1>7. GivenOK' /\ CallsSpawnOnce' /\ LocksAreHeld'
    BY <1>1 DEF StartInv, GivenOK, CallsSpawnOnce, Refused, LocksAreHeld, Alive
<1>8. KeysAreMade' /\ SeedsAreMade' /\ MadeAreKept'
    BY <1>1 DEF StartInv, KeysAreMade, SeedsAreMade, MadeAreKept
<1>9. TracesAreLate' /\ RefusedLeavesNoTrace' /\ ProbedSocketIsKept'
    BY <1>1 DEF StartInv, TracesAreLate, RefusedLeavesNoTrace, ProbedSocketIsKept
<1>10. NoStrayDirectory' /\ EnrolmentIsRecorded'
    BY <1>1 DEF StartInv, NoStrayDirectory, Declined, EnrolmentIsRecorded
<1> QED BY <1>5, <1>6, <1>7, <1>8, <1>9, <1>10 DEF StartInv

\* A daemon that is told no, gives up, is killed or loses its listener.
LEMMA EndInv ==
    ASSUME StartInv, NEW d \in Boots,
           \/ Die(d) \/ GiveUp(d) \/ LockHeld(d) \/ EndpointTaken(d) \/ KeyUnreadable(d)
           \/ OtherKey(d) \/ BootAndRefuse(d) \/ ListenerGone(d)
    PROVE  StartInv'
<1> USE DEF Alive, Starting, Bound
<1>0. strikes \in [Boots -> 0..2]
    BY DEF StartInv, TypeOK
<1>1. /\ Alive(d) /\ Leave(d)
      /\ UNCHANGED <<given, disk, seed, asked, sockets>>
      /\ strikes' = strikes \/ strikes' = [strikes EXCEPT ![d] = 2]
      /\ cli' = cli \/ CliGoes(d, "silent")
    BY DEF Die, GiveUp, Kill, TurnedAway, LockHeld, EndpointTaken, KeyUnreadable, OtherKey, BootAndRefuse,
           ListenerGone, memory
<1>2. \/ refused' = refused /\ wrote' \in {wrote, wrote \cup {d}}
      \/ refused' = refused \cup {d} /\ wrote' = wrote /\ daemon[d] \notin {"enrolling", "enrolled", "serving"}
    BY DEF Die, GiveUp, TurnedAway, LockHeld, EndpointTaken, KeyUnreadable, OtherKey, BootAndRefuse, ListenerGone
<1>3. strikes' \in [Boots -> 0..2]
    BY <1>0, <1>1
<1> QED BY <1>1, <1>2, <1>3, LeaveInv

LEMMA StartStepInv == StartInv /\ [Next]_vars => StartInv'
<1> SUFFICES ASSUME StartInv, [Next]_vars PROVE StartInv'
    OBVIOUS
<1>1. ASSUME NEW b \in Boots, CliStep(b) PROVE StartInv'
    BY <1>1, CliStepInv, SpawnInv DEF CliStep
<1>2. ASSUME NEW d \in Boots, StartStep(d) PROVE StartInv'
    BY <1>2, OpenStoreInv, EndpointInv, KeyInv, EnrolDeviceInv, RecordInv, EndInv DEF StartStep
<1>3. ASSUME NEW d \in Boots, GiveUp(d) \/ ArmFails(d) \/ Rearm(d) \/ ListenerGone(d) \/ Die(d) PROVE StartInv'
    BY <1>3, ListenerInv, EndInv
<1>4. CASE UNCHANGED vars
    <2> USE <1>4 DEF vars, given, disk, files, memory, sockets, history
    <2>1. GivenOK' /\ TypeOK' /\ CallsSpawnOnce' /\ LocksAreHeld' /\ NamesAreBound'
        BY DEF StartInv, GivenOK, TypeOK, CallsSpawnOnce, Refused, LocksAreHeld, NamesAreBound, Alive
    <2>2. KeysAreMade' /\ SeedsAreMade' /\ MadeAreKept'
        BY DEF StartInv, KeysAreMade, SeedsAreMade, MadeAreKept
    <2>3. TracesAreLate' /\ RefusedLeavesNoTrace' /\ ProbedSocketIsKept'
        BY DEF StartInv, TracesAreLate, RefusedLeavesNoTrace, ProbedSocketIsKept
    <2>4. NoStrayDirectory' /\ EnrolmentIsRecorded'
        BY DEF StartInv, NoStrayDirectory, Declined, EnrolmentIsRecorded
    <2> QED BY <2>1, <2>2, <2>3, <2>4 DEF StartInv
<1> QED BY <1>1, <1>2, <1>3, <1>4 DEF Next

LEMMA StartInvariant == Spec => []StartInv
BY StartInit, StartStepInv, PTL DEF Spec

\* Two daemons over one store never get past its lock together, and no start removes the
\* socket of a daemon that had it when the start probed: whatever calls, kills and systems
\* meet.  That the socket of a live daemon is never removed is not so.
THEOREM OneDaemonEach == Spec => []OneDaemon
<1>1. StartInv => OneDaemon
    BY DEF StartInv, LocksAreHeld, OneWriter, OneDaemon
<1> QED BY <1>1, StartInvariant, PTL

\* A daemon that found its store or endpoint taken, or no key it may use, enrolled and
\* logged nothing; a directory is there only for a call that went on after it had asked the
\* endpoint, and never in a synced folder; a call that failed left no daemon, unless it
\* lost track of it.
THEOREM RefusalsLeaveNothing == Spec => []RefusalLeavesNothing
<1>1. StartInv => FailureLeavesNoDaemon
    BY DEF StartInv, CallsSpawnOnce, NotSpawned, FailureLeavesNoDaemon, Returned, Alive, Starting, Bound
<1>2. StartInv => RefusalLeavesNothing
    BY <1>1 DEF StartInv, RefusalLeavesNothing
<1> QED BY <1>2, StartInvariant, PTL

\* The device that makes requests human keeps its key.  The key is in the file it was made
\* in, or in the keyring unless a daemon over another store wrote over it; and its enrolment
\* is on the record unless its daemon died before it could write it.
THEOREM EnrolmentsStand == Spec => EnrolmentStands
<1>1. StartInv => EnrolledKeyIsKept /\ EnrolmentIsRecorded
    <2> SUFFICES ASSUME StartInv, NEW s \in Stores, device[s] # Absent
                 PROVE  \/ key[place[device[s]]] = device[s]
                        \/ /\ place[device[s]] = Keyring /\ key[place[device[s]]] \in Boots
                           /\ store[key[place[device[s]]]] # store[device[s]]
        BY DEF StartInv, EnrolledKeyIsKept
    <2>1. device[s] \in Boots /\ seed[device[s]] = device[s] /\ place[device[s]] \in Places
        BY DEF StartInv, TypeOK, SeedsAreMade, GivenOK
    <2> QED BY <2>1 DEF StartInv, MadeAreKept, Places
<1>2. StartInv /\ [Next]_vars =>
        [\A s \in Stores : device[s] # Absent => device'[s] = device[s]]_vars
    <2> SUFFICES ASSUME StartInv, Next, NEW s \in Stores, device[s] # Absent
                 PROVE  device'[s] = device[s]
        OBVIOUS
    <2>1. UNCHANGED device \/ \E d \in Boots : EnrolDevice(d)
        <3> USE DEF disk, files
        <3>1. ASSUME NEW b \in Boots, CliStep(b) PROVE UNCHANGED device
            BY <3>1 DEF CliStep, RefuseSynced, AskFirst, Ask, AlreadyServing, MakeDir, CannotMake, Spawn,
               CannotSpawn, Poll, PollMisses, PollAnswered, TryWait
        <3>2. ASSUME NEW d \in Boots, StartStep(d) PROVE UNCHANGED device \/ EnrolDevice(d)
            BY <3>2 DEF StartStep, TurnedAway, OpenStore, LockHeld, Probe, RemoveSocket, BindSocket, BindPipe,
               EndpointTaken, CreateKey, LoadKey, KeyUnreadable, NoEntry, WriteKey, LogEnrolled,
               AlreadyEnrolled, OtherKey, BootAndServe, BootAndRefuse
        <3> QED BY <3>1, <3>2 DEF Next, GiveUp, ArmFails, Rearm, ListenerGone, Die
    <2>2. ASSUME NEW d \in Boots, EnrolDevice(d) PROVE device'[s] = device[s]
        BY <2>2 DEF EnrolDevice, Enrols, StartInv, TypeOK
    <2> QED BY <2>1, <2>2
<1> QED BY <1>1, <1>2, StartInvariant, PTL DEF Spec, EnrolmentStands

-----------------------------------------------------------------------------
(* StopSet *)

\* What a state says when it hides nothing: the acts of its STOPs and RESUMEs.
Acts(s) == {<<"stop", id>> : id \in s.stops} \cup {<<"resume", id>> : id \in s.resumes}

\* A state that tells all its node has heard, and cites no STOP it does not have.
Faithful(s) == s.resumes \subseteq s.stops /\ s.heard = Acts(s)

StateOf(n) == [stops |-> stops[n], resumes |-> resumes[n], heard |-> heard[n]]

\* The inductive invariant: every node's state is faithful, and so is every state
\* under way.
StopsInv ==
    /\ stops = [n \in Nodes |-> stops[n]]
    /\ resumes = [n \in Nodes |-> resumes[n]]
    /\ heard = [n \in Nodes |-> heard[n]]
    /\ \A n \in Nodes : Faithful(StateOf(n))
    /\ \A s \in past : Faithful(s)

LEMMA StopsInit == StopInit => StopsInv
BY DEF StopInit, StopsInv, Faithful, StateOf, Acts

\* A step that makes node n's state a faithful one, and publishes it, keeps the
\* invariant.
LEMMA Publishing ==
    ASSUME StopsInv, NEW n \in Nodes, NEW S, NEW R, NEW H,
           Faithful([stops |-> S, resumes |-> R, heard |-> H]),
           stops' = [stops EXCEPT ![n] = S],
           resumes' = [resumes EXCEPT ![n] = R],
           heard' = [heard EXCEPT ![n] = H],
           Publish(n)
    PROVE  StopsInv'
<1>1. stops'[n] = S /\ resumes'[n] = R /\ heard'[n] = H
    BY DEF StopsInv
<1>2. ASSUME NEW m \in Nodes PROVE Faithful(StateOf(m))'
    <2>1. CASE m = n
        BY <2>1, <1>1 DEF Faithful, StateOf, Acts
    <2>2. CASE m # n
        BY <2>2 DEF StopsInv, Faithful, StateOf, Acts
    <2> QED BY <2>1, <2>2
<1>3. ASSUME NEW s \in past' PROVE Faithful(s)'
    BY <1>1 DEF Publish, StopsInv, Faithful, Acts
<1> QED BY <1>2, <1>3 DEF StopsInv

LEMMA StopsStep == StopsInv /\ [StopNext]_stopVars => StopsInv'
<1> SUFFICES ASSUME StopsInv, [StopNext]_stopVars PROVE StopsInv'
    OBVIOUS
<1>1. CASE UNCHANGED stopVars
    BY <1>1 DEF stopVars, StopsInv, Faithful, StateOf, Acts
<1>2. ASSUME NEW n \in Nodes, AddStop(n) PROVE StopsInv'
    <2> PICK id \in StopIds :
            /\ stops' = [stops EXCEPT ![n] = @ \cup {id}]
            /\ Hears(n, {<<"stop", id>>})
            /\ UNCHANGED resumes /\ Publish(n)
        BY <1>2 DEF AddStop
    <2> DEFINE S == stops[n] \cup {id}
               R == resumes[n]
               H == heard[n] \cup {<<"stop", id>>}
    <2>1. Faithful([stops |-> S, resumes |-> R, heard |-> H])
        BY DEF StopsInv, Faithful, StateOf, Acts
    <2>2. /\ stops' = [stops EXCEPT ![n] = S] /\ heard' = [heard EXCEPT ![n] = H]
          /\ resumes' = [resumes EXCEPT ![n] = R]
        BY DEF Hears, StopsInv
    <2>3. Publish(n)
        OBVIOUS
    <2> HIDE DEF S, R, H
    <2> QED BY <2>1, <2>2, <2>3, Publishing
<1>3. ASSUME NEW n \in Nodes, AddResume(n) PROVE StopsInv'
    <2> PICK id \in stops[n] \ resumes[n] :
            /\ resumes' = [resumes EXCEPT ![n] = @ \cup {id}]
            /\ Hears(n, {<<"resume", id>>})
            /\ UNCHANGED stops /\ Publish(n)
        BY <1>3 DEF AddResume
    <2> DEFINE S == stops[n]
               R == resumes[n] \cup {id}
               H == heard[n] \cup {<<"resume", id>>}
    <2>1. Faithful([stops |-> S, resumes |-> R, heard |-> H])
        BY DEF StopsInv, Faithful, StateOf, Acts
    <2>2. /\ resumes' = [resumes EXCEPT ![n] = R] /\ heard' = [heard EXCEPT ![n] = H]
          /\ stops' = [stops EXCEPT ![n] = S]
        BY DEF Hears, StopsInv
    <2>3. Publish(n)
        OBVIOUS
    <2> HIDE DEF S, R, H
    <2> QED BY <2>1, <2>2, <2>3, Publishing
<1>4. ASSUME NEW n \in Nodes, ReceiveStops(n) PROVE StopsInv'
    <2> PICK other \in past :
            /\ MergeStops(n, other) /\ Hears(n, other.heard) /\ Publish(n)
        BY <1>4 DEF ReceiveStops
    <2> DEFINE S == stops[n] \cup other.stops
               R == resumes[n] \cup (other.resumes \cap S)
               H == heard[n] \cup other.heard
    <2>1. Faithful([stops |-> S, resumes |-> R, heard |-> H])
        <3>1. Faithful(other) /\ Faithful(StateOf(n))
            BY DEF StopsInv
        <3>2. other.resumes \cap S = other.resumes
            BY <3>1 DEF Faithful
        <3> QED BY <3>1, <3>2 DEF Faithful, StateOf, Acts
    <2>2. /\ stops' = [stops EXCEPT ![n] = S] /\ heard' = [heard EXCEPT ![n] = H]
          /\ resumes' = [resumes EXCEPT ![n] = R]
        BY DEF Hears, MergeStops
    <2>3. Publish(n)
        OBVIOUS
    <2> HIDE DEF S, R, H
    <2> QED BY <2>1, <2>2, <2>3, Publishing
<1> QED BY <1>1, <1>2, <1>3, <1>4 DEF StopNext

\* Nodes converge on the STOPs in force, however late, often or out of order their
\* states reach one another (StopSet::merge).
THEOREM StopsMerge == StopSpec => []StopsConverge
<1>1. StopsInv => NothingHeardIsLost
    BY DEF StopsInv, Faithful, StateOf, Acts, NothingHeardIsLost
<1>2. NothingHeardIsLost => SameNewsSameStops
    <2> SUFFICES ASSUME NothingHeardIsLost, NEW n \in Nodes, NEW m \in Nodes, heard[n] = heard[m]
                 PROVE  InForceAt(n) = InForceAt(m)
        BY DEF SameNewsSameStops
    <2>1. ASSUME NEW k \in Nodes, NEW id
          PROVE  /\ id \in stops[k] <=> <<"stop", id>> \in heard[k]
                 /\ id \in resumes[k] <=> <<"resume", id>> \in heard[k]
        <3>1. heard[k] = {<<"stop", i>> : i \in stops[k]} \cup {<<"resume", i>> : i \in resumes[k]}
            BY DEF NothingHeardIsLost
        <3>2. "stop" # "resume"
            OBVIOUS
        <3> QED BY <3>1, <3>2
    <2> QED BY <2>1 DEF InForceAt
<1> QED BY <1>1, <1>2, StopsInit, StopsStep, PTL DEF StopSpec, StopsConverge

-----------------------------------------------------------------------------
(* MetadataDoc *)

\* The value of e is the document's, or stands in one of its conflicts.
Shows(doc, e) ==
    \/ e.key \in DOMAIN doc.writes /\ doc.writes[e.key] = e.value
    \/ \E c \in doc.conflicts : c.key = e.key /\ e.value \in {c.mine, c.theirs}
Honest(doc) == \A e \in doc.known : Shows(doc, e)

DocOf(n) == [writes |-> writes[n], conflicts |-> conflicts[n], known |-> known[n]]

\* The inductive invariant: every document shows what is known of it, also one on its
\* way.
DocInv ==
    /\ writes = [n \in Authors |-> writes[n]]
    /\ conflicts = [n \in Authors |-> conflicts[n]]
    /\ known = [n \in Authors |-> known[n]]
    /\ \A n \in Authors : Honest(DocOf(n))
    /\ \A doc \in versions : Honest(doc)

\* A step that makes node n's document an honest one, and releases it, keeps the
\* invariant.
LEMMA Releasing ==
    ASSUME DocInv, NEW n \in Authors, NEW W, NEW C, NEW K,
           Honest([writes |-> W, conflicts |-> C, known |-> K]),
           writes' = [writes EXCEPT ![n] = W],
           conflicts' = [conflicts EXCEPT ![n] = C],
           known' = [known EXCEPT ![n] = K],
           Release(n)
    PROVE  DocInv'
<1>1. writes'[n] = W /\ conflicts'[n] = C /\ known'[n] = K
    BY DEF DocInv
<1>2. ASSUME NEW m \in Authors PROVE Honest(DocOf(m))'
    <2>1. CASE m = n
        BY <2>1, <1>1 DEF Honest, Shows, DocOf
    <2>2. CASE m # n
        <3>1. writes'[m] = writes[m] /\ conflicts'[m] = conflicts[m] /\ known'[m] = known[m]
            BY <2>2 DEF DocInv
        <3>2. DocOf(m)' = DocOf(m) /\ Honest(DocOf(m))
            BY <3>1 DEF DocInv, DocOf
        <3> QED BY <3>2 DEF Honest, Shows
    <2> QED BY <2>1, <2>2
<1>3. ASSUME NEW doc \in versions' PROVE Honest(doc)'
    BY <1>1 DEF Release, DocInv, Honest, Shows
<1>4. /\ writes' = [m \in Authors |-> writes'[m]]
      /\ conflicts' = [m \in Authors |-> conflicts'[m]]
      /\ known' = [m \in Authors |-> known'[m]]
    BY DEF DocInv
<1> QED BY <1>2, <1>3, <1>4 DEF DocInv

\* Two honest documents merge into an honest one: what theirs shows is adopted, equal
\* to mine, or surfaced.
LEMMA MergedIsHonest ==
    ASSUME NEW mine, NEW theirs, Honest(mine), Honest(theirs)
    PROVE  Honest([writes |-> Adopted(mine.writes, theirs.writes),
                   conflicts |-> mine.conflicts \cup Surfaced(mine.writes, theirs.writes)
                                                \cup theirs.conflicts,
                   known |-> mine.known \cup theirs.known])
<1> DEFINE W == Adopted(mine.writes, theirs.writes)
           C == mine.conflicts \cup Surfaced(mine.writes, theirs.writes) \cup theirs.conflicts
           D == [writes |-> W, conflicts |-> C, known |-> mine.known \cup theirs.known]
<1>1. ASSUME NEW e \in mine.known PROVE Shows(D, e)
    BY DEF Honest, Shows, Adopted
<1>2. ASSUME NEW e \in theirs.known PROVE Shows(D, e)
    <2>1. CASE \E c \in theirs.conflicts : c.key = e.key /\ e.value \in {c.mine, c.theirs}
        BY <2>1 DEF Shows
    <2>2. CASE e.key \in DOMAIN theirs.writes \ DOMAIN mine.writes /\ theirs.writes[e.key] = e.value
        BY <2>2 DEF Shows, Adopted
    <2>3. CASE /\ e.key \in DOMAIN theirs.writes \cap DOMAIN mine.writes
               /\ theirs.writes[e.key] = e.value
        <3>1. CASE mine.writes[e.key] = e.value
            BY <2>3, <3>1 DEF Shows, Adopted
        <3>2. CASE mine.writes[e.key] # e.value
            <4>1. [key |-> e.key, mine |-> mine.writes[e.key], theirs |-> e.value] \in C
                BY <2>3, <3>2 DEF Surfaced
            <4> QED BY <4>1 DEF Shows
        <3> QED BY <3>1, <3>2
    <2> QED BY <2>1, <2>2, <2>3 DEF Honest, Shows
<1> QED BY <1>1, <1>2 DEF Honest

LEMMA DocStep == DocInv /\ [DocNext]_docVars => DocInv'
<1> SUFFICES ASSUME DocInv, [DocNext]_docVars PROVE DocInv'
    OBVIOUS
<1>1. CASE UNCHANGED docVars
    BY <1>1 DEF docVars, DocInv, Honest, Shows, DocOf
<1>2. ASSUME NEW n \in Authors, WriteDoc(n) PROVE DocInv'
    <2> PICK k \in DocKeys, v \in Values :
            /\ writes' = [writes EXCEPT ![n] = Assigned(@, k, v)]
            /\ known' = [known EXCEPT ![n] = {e \in @ : e.key # k} \cup {Entry(k, v)}]
            /\ UNCHANGED conflicts /\ Release(n)
        BY <1>2 DEF WriteDoc
    <2> DEFINE W == Assigned(writes[n], k, v)
               C == conflicts[n]
               K == {e \in known[n] : e.key # k} \cup {Entry(k, v)}
    <2>1. Honest([writes |-> W, conflicts |-> C, known |-> K])
        BY DEF DocInv, Honest, Shows, DocOf, Assigned, Entry
    <2>2. /\ writes' = [writes EXCEPT ![n] = W] /\ known' = [known EXCEPT ![n] = K]
          /\ conflicts' = [conflicts EXCEPT ![n] = C]
        BY DEF DocInv
    <2>3. Release(n)
        OBVIOUS
    <2> HIDE DEF W, C, K
    <2> QED BY <2>1, <2>2, <2>3, Releasing
<1>3. ASSUME NEW n \in Authors, ReceiveDoc(n) PROVE DocInv'
    <2> PICK other \in versions :
            /\ MergeDoc(n, other)
            /\ known' = [known EXCEPT ![n] = @ \cup other.known]
            /\ Release(n)
        BY <1>3 DEF ReceiveDoc
    <2> DEFINE W == Adopted(writes[n], other.writes)
               C == conflicts[n] \cup Surfaced(writes[n], other.writes) \cup other.conflicts
               K == known[n] \cup other.known
    <2>1. Honest([writes |-> W, conflicts |-> C, known |-> K])
        <3>1. Honest(DocOf(n)) /\ Honest(other)
            BY DEF DocInv
        <3> QED BY <3>1, MergedIsHonest DEF DocOf
    <2>2. /\ writes' = [writes EXCEPT ![n] = W] /\ known' = [known EXCEPT ![n] = K]
          /\ conflicts' = [conflicts EXCEPT ![n] = C]
        BY DEF MergeDoc
    <2>3. Release(n)
        OBVIOUS
    <2> HIDE DEF W, C, K
    <2> QED BY <2>1, <2>2, <2>3, Releasing
<1> QED BY <1>1, <1>2, <1>3 DEF DocNext

\* No chain of merges loses a write without a trace: a value a node has seen is its
\* value of the key or is listed in a conflict (MetadataDoc::merge, I3).
THEOREM MergesAreHonest == DocSpec => []NoSilentLoss
<1>1. DocInit => DocInv
    BY DEF DocInit, DocInv, Honest, DocOf
<1>2. DocInv => NoSilentLoss
    BY DEF DocInv, Honest, Shows, DocOf, NoSilentLoss
<1> QED BY <1>1, <1>2, DocStep, PTL DEF DocSpec

-----------------------------------------------------------------------------
(* HlcClock *)

Stamp == Nat \X Nat

ClockType ==
    /\ wall \in [Clocks -> Nat] /\ furthest \in [Clocks -> Nat]
    /\ last \in [Clocks -> Stamp] /\ seen \in [Clocks -> SUBSET Stamp]
    /\ stamps \subseteq Clocks \X Stamp

\* The inductive invariant: with types, and the furthest reading no earlier than the
\* clock's.
ClockInv ==
    /\ ClockType
    /\ \A n \in Clocks : wall[n] <= furthest[n]
    /\ CausesComeFirst
    /\ DriftIsBounded

\* What is not after t is not after anything later than t.
LEMMA StampOrder ==
    ASSUME NEW s \in Stamp, NEW t \in Stamp, NEW u \in Stamp, Less(t, s), ~Less(t, u)
    PROVE  ~Less(s, u) /\ ~Less(s, s)
BY DEF Stamp, Less

\* A stamp later than the clock and than its cause, and not too far ahead, can be given.
LEMMA Giving ==
    ASSUME ClockInv, NEW n \in Clocks, NEW s \in Stamp, NEW causes \in SUBSET Stamp,
           Less(last[n], s), \A r \in causes : Less(r, s),
           s[1] <= furthest[n] + MaxSkew,
           Give(n, s, causes)
    PROVE  ClockInv' /\ Less(last[n], last'[n])
<1>1. ClockType'
    BY DEF ClockInv, ClockType, Give, Stamp
<1>2. last'[n] = s /\ seen'[n] = seen[n] \cup causes \cup {s}
    BY DEF ClockInv, ClockType, Give
<1>3. \A m \in Clocks : wall'[m] <= furthest'[m]
    BY DEF ClockInv, Give
<1>4. ASSUME NEW m \in Clocks, NEW u \in seen'[m] PROVE ~Less(last'[m], u)
    <2>1. CASE m # n
        BY <2>1 DEF ClockInv, ClockType, Give, CausesComeFirst
    <2>2. CASE m = n /\ u \in seen[n]
        <3>1. last[n] \in Stamp /\ u \in Stamp /\ ~Less(last[n], u)
            BY <2>2 DEF ClockInv, ClockType, CausesComeFirst
        <3> QED BY <2>2, <3>1, <1>2, StampOrder
    <2>3. CASE m = n /\ u \in causes
        <3>1. u \in Stamp /\ Less(u, s)
            BY <2>3
        <3> QED BY <2>3, <3>1, <1>2 DEF Less, Stamp
    <2>4. CASE m = n /\ u = s
        BY <2>4, <1>2 DEF Less, Stamp
    <2> QED BY <1>2, <1>4, <2>1, <2>2, <2>3, <2>4
<1>5. ASSUME NEW m \in Clocks PROVE last'[m][1] <= furthest'[m] + MaxSkew
    BY <1>2 DEF ClockInv, ClockType, Give, DriftIsBounded
<1> QED BY <1>1, <1>2, <1>3, <1>4, <1>5 DEF ClockInv, CausesComeFirst, DriftIsBounded

\* The counter puts the new stamp after both it was counted from.
LEMMA Counted ==
    ASSUME NEW mine \in Stamp, NEW r \in Stamp, NEW top \in Nat, top >= mine[1], top >= r[1]
    PROVE  LET s == <<top, Counter(mine, r, top)>>
           IN  s \in Stamp /\ Less(mine, s) /\ Less(r, s)
<1> DEFINE c == Counter(mine, r, top)
<1>1. mine[1] \in Nat /\ mine[2] \in Nat /\ r[1] \in Nat /\ r[2] \in Nat
    BY DEF Stamp
<1>2. c \in Nat
    BY <1>1 DEF Counter, Max2
<1>3. /\ top = mine[1] => c > mine[2]
      /\ top = r[1] => c > r[2]
    BY <1>1 DEF Counter, Max2
<1> HIDE DEF c
<1>4. <<top, c>>[1] = top /\ <<top, c>>[2] = c /\ <<top, c>> \in Stamp
    BY <1>2 DEF Stamp
<1>5. Less(mine, <<top, c>>) /\ Less(r, <<top, c>>)
    BY <1>1, <1>2, <1>3 DEF Less
<1> QED BY <1>4, <1>5 DEF c

LEMMA ClockStep ==
    ASSUME ClockInv, [ClockNext]_clockVars
    PROVE  /\ ClockInv'
           /\ [\A n \in Clocks : last'[n] \in {last[n], Zero} \/ Less(last[n], last'[n])]_clockVars
<1> DEFINE Onward == \A n \in Clocks : last'[n] \in {last[n], Zero} \/ Less(last[n], last'[n])
<1> USE ClockBounds
<1>1. CASE UNCHANGED clockVars
    BY <1>1 DEF clockVars, ClockInv, ClockType, CausesComeFirst, DriftIsBounded
<1>2. ASSUME NEW n \in Clocks, Local(n) PROVE ClockInv' /\ Onward
    <2> DEFINE s == IF wall[n] > last[n][1] THEN <<wall[n], 0>>
                    ELSE <<last[n][1], last[n][2] + 1>>
    <2>1. wall[n] \in Nat /\ furthest[n] \in Nat /\ last[n] \in Stamp
        BY DEF ClockInv, ClockType
    <2>2. s \in Stamp /\ Less(last[n], s)
        BY <2>1 DEF Stamp, Less
    <2>3. s[1] <= furthest[n] + MaxSkew
        BY <2>1 DEF ClockInv, DriftIsBounded, Stamp
    <2>4. Give(n, s, {})
        BY <1>2 DEF Local
    <2> HIDE DEF s
    <2>5. ClockInv' /\ Less(last[n], last'[n])
        BY <2>2, <2>3, <2>4, Giving
    <2> QED BY <2>4, <2>5 DEF Give, ClockInv, ClockType
<1>3. ASSUME NEW n \in Clocks, Remote(n) PROVE ClockInv' /\ Onward
    <2> PICK e \in stamps :
            /\ ~Anomalous(n, e[2])
            /\ Give(n, <<Max2(wall[n], Max2(last[n][1], e[2][1])),
                         Counter(last[n], e[2], Max2(wall[n], Max2(last[n][1], e[2][1])))>>,
                    {e[2]})
        BY <1>3 DEF Remote
    <2> DEFINE r == e[2]
               top == Max2(wall[n], Max2(last[n][1], r[1]))
               s == <<top, Counter(last[n], r, top)>>
    <2>1. wall[n] \in Nat /\ furthest[n] \in Nat /\ last[n] \in Stamp /\ r \in Stamp
        BY DEF ClockInv, ClockType
    <2>2. /\ top \in Nat /\ top >= wall[n] /\ top >= last[n][1] /\ top >= r[1]
          /\ top = wall[n] \/ top = last[n][1] \/ top = r[1]
        BY <2>1 DEF Max2, Stamp
    <2>4. s \in Stamp /\ Less(last[n], s) /\ Less(r, s)
        <3> HIDE DEF top, r
        <3> QED BY <2>1, <2>2, Counted
    <2>5. s[1] <= furthest[n] + MaxSkew
        <3>1. r[1] <= wall[n] + MaxSkew
            BY <2>1 DEF Anomalous, Stamp
        <3>2. wall[n] <= furthest[n] /\ last[n][1] <= furthest[n] + MaxSkew
            BY DEF ClockInv, DriftIsBounded
        <3>3. last[n][1] \in Nat /\ r[1] \in Nat
            BY <2>1 DEF Stamp
        <3> HIDE DEF top, r
        <3> QED BY <2>1, <2>2, <3>1, <3>2, <3>3
    <2>6. Give(n, s, {r})
        OBVIOUS
    <2> HIDE DEF s, r
    <2>7. ClockInv' /\ Less(last[n], last'[n])
        BY <2>1, <2>4, <2>5, <2>6, Giving
    <2> QED BY <2>6, <2>7 DEF Give, ClockInv, ClockType
<1>4. ASSUME NEW n \in Clocks, Ticks(n) PROVE ClockInv' /\ Onward
    BY <1>4 DEF Ticks, Max2, ClockInv, ClockType, CausesComeFirst, DriftIsBounded, Stamp
<1>5. ASSUME NEW n \in Clocks, Renew(n) PROVE ClockInv' /\ Onward
    BY <1>5 DEF Renew, Zero, ClockInv, ClockType, CausesComeFirst, DriftIsBounded, Stamp
<1> QED BY <1>1, <1>2, <1>3, <1>4, <1>5 DEF ClockNext

\* On every node, within a run, stamps grow and follow their causes, and no remote
\* stamp drags the clock beyond the skew (HlcClock::now, HlcClock::receive).
THEOREM ClocksOrder == ClockSpec => ClockOrders
<1>1. ClockInit => ClockInv
    BY ClockBounds DEF ClockInit, ClockInv, ClockType, CausesComeFirst, DriftIsBounded, Stamp, Zero
<1>2. ClockInv => CausesComeFirst /\ DriftIsBounded
    BY DEF ClockInv
<1> QED BY <1>1, <1>2, ClockStep, PTL DEF ClockSpec, ClockOrders

-----------------------------------------------------------------------------
(* Federation root *)

\* No entry of the document is made up: each is a signature its holder has made.
RootInv ==
    /\ root \in Roots
    /\ signed \subseteq Holders \X Roots
    /\ \A id \in DOMAIN signatures : signatures[id] \in signed

LEMMA RootInvariant == RootSpec => []RootInv
<1>1. RootInit => RootInv
  BY DEF RootInit, RootInv
<1>2. RootInv /\ [RootNext]_rootVars => RootInv'
  <2> SUFFICES ASSUME RootInv, [RootNext]_rootVars
               PROVE  RootInv'
    OBVIOUS
  <2>1. ASSUME NEW h \in Holders, Sign(h)
        PROVE  RootInv'
    BY <2>1 DEF RootInv, Sign
  <2>2. ASSUME NEW id \in KeyIds, NEW s \in signed, Enter(id, s)
        PROVE  RootInv'
    BY <2>2 DEF RootInv, Enter
  <2>3. ASSUME NEW r \in Roots, Amend(r)
        PROVE  RootInv'
    BY <2>3 DEF RootInv, Amend
  <2>4. CASE UNCHANGED rootVars
    BY <2>4 DEF RootInv, rootVars
  <2>5. QED
    BY <2>1, <2>2, <2>3, <2>4 DEF RootNext
<1>3. QED
  BY <1>1, <1>2, PTL DEF RootSpec

\* The good entries are at most as many as the holders that signed: with no key
\* under two ids, two entries are two signatures.
LEMMA ValidIsSigned ==
    ASSUME RootInv, IsInjective(root.keys)
    PROVE  Cardinality(Valid) <= Cardinality(Signers) /\ Cardinality(Valid) \in Nat
<1>1. RootRole(root)
  BY RootsAssumption DEF RootInv
<1>2. IsFiniteSet(Valid)
  <2>1. Valid \subseteq KeyIds
    BY <1>1 DEF Valid, RootRole
  <2>2. QED
    BY <2>1, KeysAssumption, FS_Subset
<1>3. IsFiniteSet(Signers)
  BY KeysAssumption, FS_Subset DEF Signers
<1>4. DEFINE signer == [id \in Valid |-> root.keys[id]]
<1>5. signer \in [Valid -> Signers]
  <2>1. ASSUME NEW id \in Valid
        PROVE  root.keys[id] \in Signers
    <3>1. signatures[id] = <<root.keys[id], root>> /\ signatures[id] \in signed
      BY DEF Valid, RootInv
    <3>2. <<root.keys[id], root>> \in Holders \X Roots
      BY <3>1 DEF RootInv
    <3>3. QED
      BY <3>1, <3>2 DEF Signers
  <2>2. QED
    BY <2>1
<1> HIDE DEF signer
<1>6. Cardinality(Valid) \in Nat /\ Cardinality(Signers) \in Nat
  BY <1>2, <1>3, FS_CardinalityType
<1>7. ~(Cardinality(Signers) < Cardinality(Valid))
  <2>1. SUFFICES ASSUME Cardinality(Signers) < Cardinality(Valid)
                 PROVE  FALSE
    OBVIOUS
  <2>2. PICK a, b \in Valid : a # b /\ signer[a] = signer[b]
    BY <2>1, <1>2, <1>3, <1>5, FS_PigeonHole
  <2>3. a \in DOMAIN root.keys /\ b \in DOMAIN root.keys
    BY DEF Valid
  <2>4. root.keys[a] = root.keys[b]
    BY <2>2 DEF signer
  <2>5. QED
    BY <2>2, <2>3, <2>4 DEF IsInjective
<1>8. QED
  BY <1>6, <1>7

\* A node that accepts a root with distinct keys knows that as many holders as its
\* threshold says signed this very root (SignedRoot::verify).
THEOREM QuorumSigned == RootSpec => []AcceptedIsSigned
<1>1. RootInv => AcceptedIsSigned
  <2>1. SUFFICES ASSUME RootInv, IsInjective(root.keys),
                        NEW now \in 0..root.expires, Verifies(now)
                 PROVE  Cardinality(Signers) >= root.threshold
    BY DEF AcceptedIsSigned
  <2>2. Cardinality(Valid) <= Cardinality(Signers) /\ Cardinality(Valid) \in Nat
    BY <2>1, ValidIsSigned
  <2>3. root.threshold \in Nat
    BY <2>1, RootsAssumption DEF RootInv, RootRole
  <2>4. Cardinality(Signers) \in Nat
    BY KeysAssumption, FS_Subset, FS_CardinalityType DEF Signers
  <2>5. QED
    BY <2>1, <2>2, <2>3, <2>4 DEF Verifies
<1>2. QED
  BY <1>1, RootInvariant, PTL
=============================================================================
