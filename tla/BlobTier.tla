------------------------------ MODULE BlobTier ------------------------------
(***************************************************************************)
(* The encrypted payload tier (vk_store::blobs, vk_store::keys): one data  *)
(* key (DEK) per subject, wrapped in a file of its own under the master    *)
(* key; a blob is a ciphertext file and an envelope file, both named by an *)
(* address only this subject and this plaintext have; a shred removes the  *)
(* DEK and leaves a tombstone.                                             *)
(*                                                                         *)
(* Several threads share a store.  One mutex covers the whole of dek_for   *)
(* and the whole of shred; the two files of a put are written without it.  *)
(* Every file is written in place (std::fs::write), so a write that fails, *)
(* or that a crash cuts short, leaves the file Torn.  A seal opens under   *)
(* the DEK and the address it was made for and under no other.             *)
(***************************************************************************)
EXTENDS Integers, FiniteSets

CONSTANTS
    Keys,       \* subjects
    Texts,      \* plaintexts
    Threads,
    MaxDeks,    \* bound: DEKs made in a behaviour
    Nobody      \* the mutex is free

ASSUME BlobAssumption == MaxDeks \in Nat /\ Nobody \notin Threads

Addresses == Keys \X Texts
KeyOf(a) == a[1]

\* What a file holds: nothing, rubbish, or something made with a DEK.
Absent == 0
Torn == -1
Deks == 1..MaxDeks
File == Deks \cup {Absent, Torn}

VARIABLES
    \* The disk.
    master,     \* the master key file
    dek,        \* keys/<subject>.dek
    bin,        \* <address>.bin, by the DEK it is sealed with
    env,        \* the addresses with a whole envelope
    tomb,       \* the subjects with a file in shredded/
    \* The process.
    up,
    shredded,   \* BlobStore.shredded
    mutex,      \* who holds it
    op,         \* what each thread is at
    \* History.
    made,       \* how many DEKs were made
    promised,   \* put and acknowledged, and neither spoiled nor erased since
    spoiled,    \* a write was cut short during the puts now under way
    erased,     \* the subjects whose shred returned Ok
    begun       \* the subjects some shred was begun for

disk == <<master, dek, bin, env, tomb>>
process == <<up, shredded, mutex, op>>
history == <<made, promised, spoiled, erased, begun>>
vars == <<disk, process, history>>

Idle == [at |-> "idle"]
Op == [at : {"bin", "env"}, address : Addresses, key : Deks] \cup [at : {"tomb"}, subject : Keys]

Init ==
    /\ master = Absent
    /\ dek = [k \in Keys |-> Absent]
    /\ bin = [a \in Addresses |-> Absent]
    /\ env = {}
    /\ tomb = {}
    /\ up = FALSE
    /\ shredded = {}
    /\ mutex = Nobody
    /\ op = [t \in Threads |-> Idle]
    /\ made = 0
    /\ promised = {}
    /\ spoiled = {}
    /\ erased = {}
    /\ begun = {}

Ready(t) == up /\ op[t] = Idle
At(t, stage) == up /\ op[t].at = stage
Goes(t, what) == op' = [op EXCEPT ![t] = what]

-----------------------------------------------------------------------------
(* MasterKey::load_or_create and BlobStore::open. *)

\* Variant of Remembered: the tombstones are not read back.
RememberedNothing == {}

\* The names in shredded/; what the files hold does not matter.
Remembered == tomb

\* A master key file that does not decode, say one a crash left empty, stops
\* every start.
LoadOrCreate == master # Torn /\ master' = 1

Open ==
    /\ ~up
    /\ LoadOrCreate
    /\ up' = TRUE
    /\ shredded' = Remembered
    /\ UNCHANGED <<dek, bin, env, tomb, mutex, op, history>>

\* A start that dies or fails between creating that file and filling it.
OpenDies ==
    /\ ~up
    /\ master = Absent
    /\ master' = Torn
    /\ UNCHANGED <<dek, bin, env, tomb, process, history>>

-----------------------------------------------------------------------------
(* put *)

Free == mutex = Nobody

\* dek_for has the mutex to itself, and refuses a subject that was shredded.
DekFree(k) == Free /\ k \notin shredded

\* The DEK on file, or a new one; a torn file serves neither (NotFound).
DekOf(k) == IF dek[k] = Absent THEN made + 1 ELSE dek[k]

\* dek_for(create): from here on the put has the key in memory.
BeginPut(t, a) ==
    /\ Ready(t)
    /\ DekFree(KeyOf(a))
    /\ DekOf(KeyOf(a)) \in Deks
    /\ LET d == DekOf(KeyOf(a))
       IN  /\ dek' = [dek EXCEPT ![KeyOf(a)] = d]
           /\ made' = IF d > made THEN d ELSE made
           /\ Goes(t, [at |-> "bin", address |-> a, key |-> d])
    /\ spoiled' = IF \E u \in Threads : op[u] # Idle /\ op[u].at # "tomb" /\ op[u].address = a
                  THEN spoiled ELSE spoiled \ {a}
    /\ UNCHANGED <<master, bin, env, tomb, up, shredded, mutex, promised, erased, begun>>

\* The wrapped DEK's own write fails.
DekWriteFails(t, a) ==
    /\ Ready(t)
    /\ DekFree(KeyOf(a))
    /\ dek[KeyOf(a)] = Absent
    /\ dek' = [dek EXCEPT ![KeyOf(a)] = Torn]
    /\ UNCHANGED <<master, bin, env, tomb, process, history>>

WriteBin(t) ==
    /\ At(t, "bin")
    /\ bin' = [bin EXCEPT ![op[t].address] = op[t].key]
    /\ Goes(t, [op[t] EXCEPT !.at = "env"])
    /\ UNCHANGED <<master, dek, env, tomb, up, shredded, mutex, history>>

\* The put returns Ok.  One that a shred overtook, or another put of the same
\* payload spoiled, promises nothing.
WriteEnvelope(t) ==
    /\ At(t, "env")
    /\ env' = env \cup {op[t].address}
    /\ promised' = IF KeyOf(op[t].address) \in begun \/ op[t].address \in spoiled THEN promised
                   ELSE promised \cup {op[t].address}
    /\ Goes(t, Idle)
    /\ UNCHANGED <<master, dek, bin, tomb, up, shredded, mutex, made, spoiled, erased, begun>>

\* One of the two writes is cut short, and what it was rewriting is no more.
Spoil(t) ==
    /\ \/ op[t].at = "bin" /\ bin' = [bin EXCEPT ![op[t].address] = Torn] /\ UNCHANGED env
       \/ op[t].at = "env" /\ env' = env \ {op[t].address} /\ UNCHANGED bin
    /\ promised' = promised \ {op[t].address}
    /\ spoiled' = spoiled \cup {op[t].address}

PutFails(t) ==
    /\ up
    /\ Spoil(t)
    /\ Goes(t, Idle)
    /\ UNCHANGED <<master, dek, tomb, up, shredded, mutex, made, erased, begun>>

-----------------------------------------------------------------------------
(* get *)

\* Variant of Opens: the ciphertext's own key is not asked for.
OpensAny(a) == bin[a] \in Deks

Opens(a) == bin[a] \in Deks /\ bin[a] = dek[KeyOf(a)]

\* What a get answers in a store that knows the subjects `gone`.
Got(a, gone) ==
    IF a \notin env THEN "not found"
    ELSE IF KeyOf(a) \in gone THEN "shredded"
    ELSE IF dek[KeyOf(a)] \notin Deks \/ bin[a] = Absent THEN "not found"
    ELSE IF Opens(a) THEN "plaintext" ELSE "integrity"

-----------------------------------------------------------------------------
(* shred *)

\* The DEK goes first; a shred of a subject without one is one all the same.
BeginShred(t, k) ==
    /\ Ready(t)
    /\ Free
    /\ mutex' = t
    /\ dek' = [dek EXCEPT ![k] = Absent]
    /\ begun' = begun \cup {k}
    /\ promised' = {a \in promised : KeyOf(a) # k}
    /\ Goes(t, [at |-> "tomb", subject |-> k])
    /\ UNCHANGED <<master, bin, env, tomb, up, shredded, made, spoiled, erased>>

Tombstone(t) ==
    /\ At(t, "tomb")
    /\ tomb' = tomb \cup {op[t].subject}
    /\ shredded' = shredded \cup {op[t].subject}
    /\ erased' = erased \cup {op[t].subject}
    /\ mutex' = Nobody
    /\ Goes(t, Idle)
    /\ UNCHANGED <<master, dek, bin, env, up, made, promised, spoiled, begun>>

\* The tombstone cannot be written: perhaps it is there all the same, by name.
TombstoneFails(t) ==
    /\ At(t, "tomb")
    /\ tomb' \in {tomb, tomb \cup {op[t].subject}}
    /\ mutex' = Nobody
    /\ Goes(t, Idle)
    /\ UNCHANGED <<master, dek, bin, env, up, shredded, history>>

-----------------------------------------------------------------------------
\* A crash loses what memory held, and may cut short one write in progress.
Crash ==
    /\ up
    /\ \/ UNCHANGED <<dek, bin, env, tomb, promised, spoiled>>
       \/ \E t \in Threads :
             \/ Spoil(t) /\ UNCHANGED <<dek, tomb>>
             \/ /\ op[t].at = "tomb" /\ tomb' = tomb \cup {op[t].subject}
                /\ UNCHANGED <<dek, bin, env, promised, spoiled>>
       \/ \E k \in Keys :
             /\ DekFree(k) /\ dek[k] = Absent
             /\ dek' = [dek EXCEPT ![k] = Torn]
             /\ UNCHANGED <<bin, env, tomb, promised, spoiled>>
    /\ up' = FALSE
    /\ shredded' = {}
    /\ mutex' = Nobody
    /\ op' = [t \in Threads |-> Idle]
    /\ UNCHANGED <<master, made, erased, begun>>

Next ==
    \/ Open
    \/ OpenDies
    \/ Crash
    \/ \E t \in Threads :
          \/ \E a \in Addresses : BeginPut(t, a) \/ DekWriteFails(t, a)
          \/ WriteBin(t)
          \/ WriteEnvelope(t)
          \/ PutFails(t)
          \/ \E k \in Keys : BeginShred(t, k)
          \/ Tombstone(t)
          \/ TombstoneFails(t)

Spec == Init /\ [][Next]_vars

-----------------------------------------------------------------------------
(* Properties. *)

TypeOK ==
    /\ master \in {Absent, Torn, 1}
    /\ dek \in [Keys -> File]
    /\ bin \in [Addresses -> File]
    /\ env \subseteq Addresses
    /\ tomb \subseteq Keys
    /\ up \in BOOLEAN
    /\ shredded \subseteq Keys
    /\ mutex \in Threads \cup {Nobody}
    /\ op \in [Threads -> Op \cup {Idle}]
    /\ \A t \in Threads : mutex = t <=> op[t].at = "tomb"
    /\ made \in 0..MaxDeks
    /\ promised \subseteq Addresses /\ spoiled \subseteq Addresses
    /\ erased \subseteq begun /\ begun \subseteq Keys

\* A blob whose put returned Ok can be read, by this process and by every later
\* one, until somebody shreds its subject or a put of the same payload is cut
\* short: no torn key, lost envelope or renewed DEK takes it away.
PromisedIsReadable ==
    \A a \in promised :
        /\ master = 1
        /\ Got(a, tomb) = "plaintext"
        /\ up => Got(a, shredded) = "plaintext"

\* A shred that returned Ok has left no key, and no put that was under way, no
\* crash and no restart makes another: "the two can never interleave"
\* (vk-store/src/blobs.rs:18-22).
ErasedStaysErased ==
    \A k \in erased : dek[k] = Absent /\ k \in tomb /\ (up => k \in shredded)

\* Both promises of the tier hold together, through every torn file and restart.
PromisesAreKept == TypeOK /\ PromisedIsReadable /\ ErasedStaysErased

\* Ciphertext never opens under a key made after the shred: a get answers
\* plaintext only for what was put since.
Contract == INSTANCE BlobContract WITH
    readable <- {a \in Addresses : Got(a, tomb) = "plaintext"},
    shredded <- tomb

ImplementsContract == Contract!Spec
=============================================================================
