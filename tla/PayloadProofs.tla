---------------------------- MODULE PayloadProofs ----------------------------
(***************************************************************************)
(* The payloads of the kernel, for any subjects, texts, threads, objects,  *)
(* callers and bounds: the laws of labels, what the encrypted tier         *)
(* promises of a put and a shred, and who is ever shown what.              *)
(***************************************************************************)
EXTENDS BlobTier, ReadSurfaces, FiniteSetTheorems, TLAPS

(* Labels. *)

\* Label::join gives a label.
LEMMA JoinType ==
    ASSUME NEW a \in Label, NEW b \in Label
    PROVE  Join(a, b) \in Label
BY DEF Join, Label, Higher, Scopes, Classes

\* Label::join is the least upper bound: it hides nothing of what was read, and taints
\* no more than that.
THEOREM JoinIsLeast ==
    ASSUME NEW a \in Label, NEW b \in Label
    PROVE  /\ Leq(a, Join(a, b)) /\ Leq(b, Join(a, b))
           /\ \A c \in Label : Leq(a, c) /\ Leq(b, c) => Leq(Join(a, b), c)
<1>1. Leq(a, Join(a, b)) /\ Leq(b, Join(a, b))
  BY DEF Leq, Join, Higher, Label, Scopes, Classes
<1>2. ASSUME NEW c \in Label, Leq(a, c), Leq(b, c)
      PROVE  Leq(Join(a, b), c)
  BY <1>2 DEF Leq, Join, Higher, Label, Scopes, Classes
<1>3. QED
  BY <1>1, <1>2

\* The order in which a task reads, and how often, makes no difference to its label
\* (Register::with_read).
THEOREM JoinLaws ==
    ASSUME NEW a \in Label, NEW b \in Label, NEW c \in Label
    PROVE  /\ Join(a, a) = a
           /\ Join(a, b) = Join(b, a)
           /\ Join(a, Join(b, c)) = Join(Join(a, b), c)
<1>1. Join(a, a) = a
  BY DEF Join, Higher, Label
<1>2. Join(a, b) = Join(b, a)
  BY DEF Join, Higher, Label, Scopes, Classes
<1>3. Join(a, Join(b, c)) = Join(Join(a, b), c)
  <2>1. Join(a, Join(b, c)).scope = Join(Join(a, b), c).scope
    BY DEF Join, Higher, Label, Scopes
  <2>2. Join(a, Join(b, c)).class = Join(Join(a, b), c).class
    BY DEF Join, Higher, Label, Classes
  <2>3. Join(a, Join(b, c)).origins = Join(Join(a, b), c).origins
    BY DEF Join
  <2>4. QED
    BY <2>1, <2>2, <2>3 DEF Join
<1>4. QED
  BY <1>1, <1>2, <1>3

\* Who may read an object may read every part of it, and who may read both parts may
\* read the whole: a check of the joined label stands for a check of each source.
THEOREM JoinFlows ==
    ASSUME NEW a \in Label, NEW b \in Label, NEW k \in Clearance
    PROVE  FlowsTo(Join(a, b), k) <=> FlowsTo(a, k) /\ FlowsTo(b, k)
BY DEF FlowsTo, Join, Higher, Label, Clearance, Scopes, Classes, Holdout, Own

\* A clearance is a cut through the order: what lies below a readable label is readable.
THEOREM FlowsDown ==
    ASSUME NEW a \in Label, NEW b \in Label, NEW k \in Clearance,
           Leq(a, b), FlowsTo(b, k)
    PROVE  FlowsTo(a, k)
BY DEF FlowsTo, Leq, Label, Clearance, Scopes, Classes, Holdout, Own

-----------------------------------------------------------------------------
(* The encrypted tier. *)

Putting(t) == op[t].at \in {"bin", "env"}

\* No key, on file or in the hands of a put, is ahead of the count of those made, and
\* so none is ever made twice.
KeysAreCounted ==
    /\ \A k \in Keys : dek[k] <= made
    /\ \A a \in Addresses : bin[a] <= made
    /\ \A t \in Threads : Putting(t) => op[t].key <= made

\* A put under way holds its subject's key, until somebody begins to shred that; and
\* the ciphertext it wrote is there, unless another put of it was cut short.
PutsHoldTheKey ==
    \A t \in Threads : Putting(t) /\ KeyOf(op[t].address) \notin begun =>
        /\ dek[KeyOf(op[t].address)] = op[t].key
        /\ op[t].at = "env" /\ op[t].address \notin spoiled => bin[op[t].address] = op[t].key

\* A shred has removed the key before it writes the tombstone, and nobody else can
\* make another meanwhile; what is on record as shredded some shred was begun for.
ShredsAreBegun ==
    /\ tomb \subseteq begun /\ shredded \subseteq begun
    /\ \A t \in Threads : op[t].at = "tomb" => op[t].subject \in begun /\ dek[op[t].subject] = Absent

\* A payload that is promised is of a subject nobody began to shred.
PromisedIsKept ==
    \A a \in promised :
        /\ KeyOf(a) \notin begun
        /\ a \in env
        /\ dek[KeyOf(a)] \in Deks
        /\ bin[a] = dek[KeyOf(a)]

\* The inductive invariant of BlobTier.
BlobInv ==
    /\ TypeOK
    /\ up \/ promised # {} => master = 1
    /\ KeysAreCounted
    /\ PutsHoldTheKey
    /\ ShredsAreBegun
    /\ PromisedIsKept
    /\ ErasedStaysErased

LEMMA BlobConstants == MaxDeks \in Nat /\ Deks \subseteq Nat /\ Absent = 0 /\ Torn = -1 /\ 0 \notin Deks /\ -1 \notin Deks
BY BlobAssumption DEF Deks, Absent, Torn

LEMMA FilesAreNumbers ==
    ASSUME TypeOK
    PROVE  (\A k \in Keys : dek[k] \in File /\ dek[k] \in Int) /\ (\A a \in Addresses : bin[a] \in File /\ bin[a] \in Int)
<1>1. File \subseteq Int
    BY BlobConstants DEF File
<1> QED BY <1>1 DEF TypeOK

LEMMA AddressFields == ASSUME NEW a \in Addresses PROVE KeyOf(a) \in Keys
BY DEF Addresses, KeyOf

\* What a thread is at.
LEMMA OpFields ==
    ASSUME TypeOK, NEW t \in Threads
    PROVE  /\ op[t] = Idle \/ op[t] \in Op
           /\ op[t].at \in {"idle", "bin", "env", "tomb"}
           /\ op[t].at = "idle" <=> op[t] = Idle
           /\ Putting(t) => /\ op[t].address \in Addresses /\ KeyOf(op[t].address) \in Keys
                            /\ op[t].key \in Deks /\ op[t].key \in Nat
           /\ op[t].at = "tomb" => op[t].subject \in Keys /\ mutex = t
<1>1. op[t] = Idle \/ op[t] \in Op
    BY DEF TypeOK
<1>2. op[t].at = "tomb" => mutex = t
    BY DEF TypeOK
<1>3. CASE op[t] = Idle
    BY <1>3 DEF Idle, Putting
<1>4. CASE op[t] \in [at : {"bin", "env"}, address : Addresses, key : Deks]
    <2>1. /\ op[t].at \in {"bin", "env"} /\ op[t].address \in Addresses /\ op[t].key \in Deks
          /\ op[t].key \in Nat
        BY <1>4, BlobConstants
    <2>2. op[t] # Idle /\ op[t].at # "idle" /\ op[t].at # "tomb"
        BY <2>1 DEF Idle
    <2>3. KeyOf(op[t].address) \in Keys
        BY <2>1, AddressFields
    <2> QED BY <1>1, <1>2, <2>1, <2>2, <2>3
<1>5. CASE op[t] \in [at : {"tomb"}, subject : Keys]
    BY <1>1, <1>2, <1>5 DEF Idle, Putting
<1> QED BY <1>1, <1>3, <1>4, <1>5 DEF Op

\* One thread goes on, the others stay.
LEMMA GoesOn ==
    ASSUME TypeOK, NEW t \in Threads, NEW what, Goes(t, what)
    PROVE  op'[t] = what /\ \A u \in Threads : u # t => op'[u] = op[u]
BY DEF TypeOK, Goes

LEMMA BlobInit == Init => BlobInv
<1> SUFFICES ASSUME Init PROVE BlobInv
    OBVIOUS
<1>1. TypeOK
    <2>1. \A t \in Threads : op[t].at = "idle" /\ mutex # t
        BY BlobAssumption DEF Init, Idle
    <2>2. made \in 0..MaxDeks
        BY BlobConstants DEF Init
    <2>3. dek \in [Keys -> File] /\ bin \in [Addresses -> File] /\ op \in [Threads -> Op \cup {Idle}]
        BY DEF Init, File
    <2> QED BY <2>1, <2>2, <2>3 DEF Init, TypeOK
<1>2. \A t \in Threads : op[t].at = "idle"
    BY DEF Init, Idle
<1>3. KeysAreCounted
    BY <1>2 DEF Init, KeysAreCounted, Putting, Absent
<1>4. PutsHoldTheKey /\ ShredsAreBegun /\ PromisedIsKept /\ ErasedStaysErased
    BY <1>2 DEF Init, PutsHoldTheKey, ShredsAreBegun, PromisedIsKept, ErasedStaysErased, Putting
<1> QED BY <1>1, <1>3, <1>4 DEF Init, BlobInv

\* Master key and tombstones are read back before anything else is possible.
LEMMA OpenInv == ASSUME BlobInv, Open \/ OpenDies PROVE BlobInv'
<1> USE DEF history, process
<1>1. CASE Open
    <2> USE <1>1 DEF Open, LoadOrCreate, Remembered
    <2>1. TypeOK' /\ KeysAreCounted' /\ PutsHoldTheKey'
        BY DEF BlobInv, TypeOK, KeysAreCounted, PutsHoldTheKey, Putting
    <2>2. ShredsAreBegun' /\ PromisedIsKept' /\ ErasedStaysErased'
        BY DEF BlobInv, ShredsAreBegun, PromisedIsKept, ErasedStaysErased
    <2> QED BY <2>1, <2>2 DEF BlobInv
<1>2. CASE OpenDies
    <2> USE <1>2 DEF OpenDies
    <2>1. TypeOK' /\ KeysAreCounted' /\ PutsHoldTheKey'
        BY DEF BlobInv, TypeOK, KeysAreCounted, PutsHoldTheKey, Putting
    <2>2. ShredsAreBegun' /\ PromisedIsKept' /\ ErasedStaysErased'
        BY DEF BlobInv, ShredsAreBegun, PromisedIsKept, ErasedStaysErased
    <2>3. ~up /\ promised = {}
        BY BlobConstants DEF BlobInv
    <2> QED BY <2>1, <2>2, <2>3 DEF BlobInv
<1> QED BY <1>1, <1>2

\* The key of a put is the one on file, or one that was never made before.
LEMMA BeginPutInv == ASSUME BlobInv, NEW t \in Threads, NEW a \in Addresses, BeginPut(t, a) PROVE BlobInv'
<1> DEFINE k == KeyOf(a)
           d == DekOf(k)
<1> USE DEF BeginPut, Ready
<1>1. TypeOK /\ k \in Keys /\ made \in Nat /\ d \in Deks /\ d \in Nat
    <2>1. TypeOK /\ k \in Keys /\ d \in Deks
        BY AddressFields DEF BlobInv
    <2>2. made \in Nat
        BY BlobConstants DEF BlobInv, TypeOK
    <2> QED BY <2>1, <2>2, BlobConstants
<1>2. \/ dek[k] = Absent /\ d = made + 1 /\ made' = d
      \/ dek[k] \in Deks /\ d = dek[k] /\ made' = made
    <2>1. dek[k] <= made /\ dek[k] \in File
        BY <1>1 DEF BlobInv, KeysAreCounted, TypeOK
    <2>2. made' = IF d > made THEN d ELSE made
        OBVIOUS
    <2>3. CASE dek[k] = Absent
        <3>1. d = made + 1
            BY <2>3 DEF DekOf
        <3> HIDE DEF d
        <3> QED BY <1>1, <2>2, <2>3, <3>1
    <2>4. CASE dek[k] # Absent
        <3>1. d = dek[k]
            BY <2>4 DEF DekOf
        <3> HIDE DEF d
        <3> QED BY <1>1, <2>1, <2>2, <3>1
    <2> QED BY <2>3, <2>4
<1>3. made' \in 0..MaxDeks /\ made' \in Nat /\ made <= made' /\ d <= made'
    <2>1. made \in 0..MaxDeks /\ d <= MaxDeks /\ (made' = made => d <= made)
        BY <1>1, <1>2 DEF BlobInv, TypeOK, KeysAreCounted, Deks
    <2> QED BY <1>1, <1>2, <2>1, BlobConstants
<1>4. dek' \in [Keys -> File] /\ dek'[k] = d /\ \A j \in Keys : j # k => dek'[j] = dek[j]
    BY <1>1 DEF TypeOK, File
<1>5. /\ op'[t] = [at |-> "bin", address |-> a, key |-> d]
      /\ \A u \in Threads : u # t => op'[u] = op[u]
    BY <1>1, GoesOn
<1>6. Putting(t)' /\ \A u \in Threads : u # t => (Putting(u)' <=> Putting(u))
    BY <1>5 DEF Putting
<1>7. op[t].at = "idle"
    BY DEF Idle
<1> HIDE DEF d, k
<1>8. TypeOK'
    <2>1. op' \in [Threads -> Op \cup {Idle}]
        BY <1>1 DEF TypeOK, Op, Goes, d, k
    <2>2. \A u \in Threads : mutex' = u <=> op'[u].at = "tomb"
        BY <1>1, <1>5, <1>7 DEF TypeOK
    <2>3. spoiled' \subseteq Addresses
        BY <1>1 DEF TypeOK
    <2> QED BY <1>1, <1>3, <1>4, <2>1, <2>2, <2>3 DEF TypeOK
<1>9. KeysAreCounted'
    <2>1. \A j \in Keys : dek'[j] <= made'
        <3> TAKE j \in Keys
        <3>1. dek[j] <= made /\ dek[j] \in Int
            BY <1>1, FilesAreNumbers DEF BlobInv, KeysAreCounted
        <3> QED BY <1>1, <1>3, <1>4, <3>1
    <2>2. \A b \in Addresses : bin'[b] <= made'
        <3> TAKE b \in Addresses
        <3>1. bin[b] <= made /\ bin[b] \in Int
            BY <1>1, FilesAreNumbers DEF BlobInv, KeysAreCounted
        <3> QED BY <1>1, <1>3, <3>1
    <2>3. \A u \in Threads : Putting(u)' => op'[u].key <= made'
        BY <1>1, <1>3, <1>5, <1>6, OpFields DEF BlobInv, KeysAreCounted
    <2> QED BY <2>1, <2>2, <2>3 DEF KeysAreCounted
<1>10. PutsHoldTheKey'
    <2>1. SUFFICES ASSUME NEW u \in Threads, Putting(u)', KeyOf(op'[u].address) \notin begun
                   PROVE  /\ dek'[KeyOf(op'[u].address)] = op'[u].key
                          /\ op'[u].at = "env" /\ op'[u].address \notin spoiled'
                                => bin'[op'[u].address] = op'[u].key
        BY DEF PutsHoldTheKey
    <2>2. CASE u = t
        BY <1>4, <1>5, <2>2 DEF k
    <2>3. CASE u # t
        <3>1. Putting(u) /\ op'[u] = op[u] /\ KeyOf(op[u].address) \in Keys
            BY <1>1, <1>5, <1>6, <2>1, <2>3, OpFields
        <3>2. dek[KeyOf(op[u].address)] = op[u].key /\ op[u].key \in Deks
            BY <1>1, <2>1, <3>1, OpFields DEF BlobInv, PutsHoldTheKey
        <3>3. dek'[KeyOf(op[u].address)] = op[u].key
            BY <1>1, <1>2, <1>4, <3>1, <3>2, BlobConstants
        <3>4. op[u].address \notin spoiled' => op[u].address \notin spoiled
            BY <3>1 DEF Putting, Idle
        <3> QED BY <2>1, <3>1, <3>3, <3>4 DEF BlobInv, PutsHoldTheKey
    <2> QED BY <2>2, <2>3
<1>11. ShredsAreBegun'
    <2>1. ASSUME NEW u \in Threads, op'[u].at = "tomb" PROVE op'[u].subject \in begun /\ dek'[op'[u].subject] = Absent
        <3>1. u # t /\ op'[u] = op[u]
            BY <1>5, <2>1
        <3> QED BY <1>1, <2>1, <3>1, BlobAssumption, OpFields DEF DekFree, Free
    <2> QED BY <2>1 DEF BlobInv, ShredsAreBegun
<1>12. PromisedIsKept'
    <2>1. \A b \in promised : dek'[KeyOf(b)] = dek[KeyOf(b)]
        BY <1>1, <1>2, <1>4, BlobConstants, AddressFields DEF BlobInv, PromisedIsKept, TypeOK
    <2> QED BY <2>1 DEF BlobInv, PromisedIsKept
<1>13. ErasedStaysErased'
    <2>1. k \notin erased
        BY DEF BlobInv, ErasedStaysErased, DekFree, k
    <2> QED BY <1>1, <1>4, <2>1 DEF BlobInv, ErasedStaysErased, TypeOK
<1> QED BY <1>8, <1>9, <1>10, <1>11, <1>12, <1>13 DEF BlobInv

\* A key file that is cut short was not there before, and is no key.
LEMMA DekWriteFailsInv ==
    ASSUME BlobInv, NEW t \in Threads, NEW a \in Addresses, DekWriteFails(t, a)
    PROVE  BlobInv'
<1> USE DEF DekWriteFails, Ready, process, history
<1>1. TypeOK /\ KeyOf(a) \in Keys /\ dek[KeyOf(a)] = Absent /\ made \in Nat
    BY AddressFields, BlobConstants DEF BlobInv, TypeOK
<1>2. /\ dek' \in [Keys -> File] /\ dek'[KeyOf(a)] = Torn
      /\ \A j \in Keys : j # KeyOf(a) => dek'[j] = dek[j]
    BY <1>1 DEF TypeOK, File
<1>3. TypeOK'
    BY <1>1, <1>2 DEF TypeOK
<1>4. KeysAreCounted'
    BY <1>1, <1>2, BlobConstants DEF BlobInv, KeysAreCounted, Putting
<1>5. PutsHoldTheKey'
    <2>1. \A u \in Threads : Putting(u) => KeyOf(op[u].address) \in Keys /\ op[u].key \in Deks
        BY <1>1, OpFields
    <2> QED BY <1>1, <1>2, <2>1, BlobConstants DEF BlobInv, PutsHoldTheKey, Putting
<1>6. ShredsAreBegun'
    <2>1. \A u \in Threads : op[u].at # "tomb"
        BY <1>1, BlobAssumption, OpFields DEF DekFree, Free
    <2> QED BY <2>1 DEF BlobInv, ShredsAreBegun
<1>7. PromisedIsKept'
    <2>1. \A b \in promised : KeyOf(b) # KeyOf(a) /\ KeyOf(b) \in Keys
        BY <1>1, BlobConstants, AddressFields DEF BlobInv, PromisedIsKept, TypeOK
    <2> QED BY <1>2, <2>1 DEF BlobInv, PromisedIsKept
<1>8. ErasedStaysErased'
    <2>1. KeyOf(a) \notin erased
        BY DEF BlobInv, ErasedStaysErased, DekFree
    <2> QED BY <1>1, <1>2, <2>1 DEF BlobInv, ErasedStaysErased, TypeOK
<1> QED BY <1>3, <1>4, <1>5, <1>6, <1>7, <1>8 DEF BlobInv

LEMMA WriteBinInv == ASSUME BlobInv, NEW t \in Threads, WriteBin(t) PROVE BlobInv'
<1> DEFINE a == op[t].address
<1> USE DEF WriteBin, At, history
<1>1. TypeOK /\ Putting(t) /\ a \in Addresses /\ KeyOf(a) \in Keys /\ op[t].key \in Deks /\ op[t].key \in Nat
    BY OpFields DEF BlobInv, Putting
<1>2. /\ bin' \in [Addresses -> File] /\ bin'[a] = op[t].key
      /\ \A b \in Addresses : b # a => bin'[b] = bin[b]
    BY <1>1 DEF TypeOK, File
<1>3. /\ op'[t] = [op[t] EXCEPT !.at = "env"]
      /\ \A u \in Threads : u # t => op'[u] = op[u]
    BY <1>1, GoesOn
<1>4. op[t] \in [at : {"bin", "env"}, address : Addresses, key : Deks]
    BY <1>1, OpFields DEF Op, Idle
<1>5. /\ op'[t] \in Op /\ op'[t].at = "env" /\ op'[t].address = a /\ op'[t].key = op[t].key
    BY <1>3, <1>4 DEF Op
<1>6. \A u \in Threads : Putting(u)' <=> Putting(u)
    BY <1>1, <1>3, <1>5 DEF Putting
<1>7. \A u \in Threads : op'[u].at = "tomb" <=> op[u].at = "tomb"
    BY <1>1, <1>3, <1>5 DEF Putting
<1> HIDE DEF a
<1>8. TypeOK'
    <2>1. op' \in [Threads -> Op \cup {Idle}]
        BY <1>1, <1>3, <1>5 DEF TypeOK, Goes
    <2> QED BY <1>1, <1>2, <1>7, <2>1 DEF TypeOK
<1>9. KeysAreCounted'
    <2>1. op[t].key <= made
        BY <1>1 DEF BlobInv, KeysAreCounted
    <2> QED BY <1>2, <1>3, <1>5, <1>6, <2>1 DEF BlobInv, KeysAreCounted
<1>10. PutsHoldTheKey'
    <2>1. SUFFICES ASSUME NEW u \in Threads, Putting(u)', KeyOf(op'[u].address) \notin begun
                   PROVE  /\ dek'[KeyOf(op'[u].address)] = op'[u].key
                          /\ op'[u].at = "env" /\ op'[u].address \notin spoiled'
                                => bin'[op'[u].address] = op'[u].key
        BY DEF PutsHoldTheKey
    <2>2. /\ Putting(u) /\ op'[u].address = op[u].address /\ op'[u].key = op[u].key
          /\ op[u].address \in Addresses
        BY <1>1, <1>3, <1>5, <1>6, <2>1, OpFields DEF a
    <2>3. dek[KeyOf(op[u].address)] = op[u].key
        BY <2>1, <2>2 DEF BlobInv, PutsHoldTheKey
    <2>4. CASE op[u].address = a
        <3>1. dek[KeyOf(a)] = op[t].key
            BY <1>1, <2>1, <2>2, <2>4 DEF BlobInv, PutsHoldTheKey, a
        <3> QED BY <1>2, <2>2, <2>3, <2>4, <3>1
    <2>5. CASE op[u].address # a
        <3>1. u # t /\ op'[u] = op[u]
            BY <1>3, <2>5 DEF a
        <3> QED BY <1>2, <2>1, <2>2, <2>3, <2>5, <3>1 DEF BlobInv, PutsHoldTheKey
    <2> QED BY <2>4, <2>5
<1>11. ShredsAreBegun'
    BY <1>3, <1>5 DEF BlobInv, ShredsAreBegun
<1>12. PromisedIsKept'
    <2>1. ASSUME NEW b \in promised PROVE bin'[b] = bin[b]
        <3>1. b \in Addresses /\ KeyOf(b) \notin begun /\ bin[b] = dek[KeyOf(b)]
            BY DEF BlobInv, PromisedIsKept, TypeOK
        <3>2. b = a => dek[KeyOf(b)] = op[t].key
            BY <1>1, <3>1 DEF BlobInv, PutsHoldTheKey, a
        <3> QED BY <1>2, <3>1, <3>2
    <2> QED BY <2>1 DEF BlobInv, PromisedIsKept
<1>13. ErasedStaysErased'
    BY DEF BlobInv, ErasedStaysErased
<1> QED BY <1>8, <1>9, <1>10, <1>11, <1>12, <1>13 DEF BlobInv

\* A put that returns Ok has both its files, under the key on file.
LEMMA WriteEnvelopeInv == ASSUME BlobInv, NEW t \in Threads, WriteEnvelope(t) PROVE BlobInv'
<1> DEFINE a == op[t].address
<1> USE DEF WriteEnvelope, At
<1>1. TypeOK /\ Putting(t) /\ a \in Addresses /\ KeyOf(a) \in Keys /\ op[t].key \in Deks
    BY OpFields DEF BlobInv, Putting
<1>2. op'[t] = Idle /\ \A u \in Threads : u # t => op'[u] = op[u]
    BY <1>1, GoesOn
<1>3. op'[t].at = "idle" /\ ~Putting(t)'
    BY <1>2 DEF Idle, Putting
<1>4. \A u \in Threads : /\ Putting(u)' => Putting(u) /\ op'[u] = op[u]
                         /\ op'[u].at = "tomb" <=> op[u].at = "tomb"
                         /\ op'[u].at = "tomb" => op'[u] = op[u]
    BY <1>1, <1>2, <1>3 DEF Putting
<1>5. promised' \subseteq promised \cup {a}
    OBVIOUS
<1>6. TypeOK'
    <2>1. op' \in [Threads -> Op \cup {Idle}]
        BY <1>1 DEF TypeOK, Goes
    <2> QED BY <1>1, <1>4, <1>5, <2>1 DEF TypeOK
<1>7. KeysAreCounted' /\ PutsHoldTheKey'
    BY <1>4 DEF BlobInv, KeysAreCounted, PutsHoldTheKey
<1>8. ShredsAreBegun'
    BY <1>4 DEF BlobInv, ShredsAreBegun
<1>9. PromisedIsKept'
    <2>1. ASSUME NEW b \in promised', b \notin promised
          PROVE  /\ KeyOf(b) \notin begun /\ b \in env' /\ dek[KeyOf(b)] \in Deks
                 /\ bin[b] = dek[KeyOf(b)]
        <3>1. b = a /\ KeyOf(a) \notin begun /\ a \notin spoiled
            BY <1>5, <2>1
        <3>2. dek[KeyOf(a)] = op[t].key /\ bin[a] = op[t].key
            BY <1>1, <3>1 DEF BlobInv, PutsHoldTheKey
        <3> QED BY <1>1, <3>1, <3>2
    <2> QED BY <2>1 DEF BlobInv, PromisedIsKept
<1>10. ErasedStaysErased' /\ master = 1
    BY DEF BlobInv, ErasedStaysErased
<1> QED BY <1>6, <1>7, <1>8, <1>9, <1>10 DEF BlobInv

\* A write that is cut short takes its own payload with it, and no other.
LEMMA SpoilKeeps ==
    ASSUME BlobInv, NEW t \in Threads, Spoil(t)
    PROVE  /\ Putting(t) /\ op[t].address \in Addresses
           /\ bin' \in [Addresses -> File]
           /\ \A b \in Addresses : b # op[t].address => bin'[b] = bin[b]
           /\ \A b \in Addresses : bin'[b] = bin[b] \/ bin'[b] = Torn
           /\ env' \subseteq Addresses
           /\ \A b \in env : b # op[t].address => b \in env'
           /\ env' \subseteq env
           /\ promised' = promised \ {op[t].address}
           /\ spoiled' = spoiled \cup {op[t].address}
<1>1. Putting(t) /\ op[t].address \in Addresses /\ TypeOK
    BY OpFields DEF BlobInv, Spoil, Putting
<1>2. Torn \in File
    BY DEF File
<1> QED BY <1>1, <1>2 DEF Spoil, TypeOK

\* What the other parts of the invariant need of the files of puts.
LEMMA SpoilInv ==
    ASSUME BlobInv, NEW t \in Threads, Spoil(t), UNCHANGED <<dek, made, begun>>
    PROVE  /\ \A b \in Addresses : bin'[b] <= made
           /\ PromisedIsKept'
           /\ \A u \in Threads : Putting(u) /\ KeyOf(op[u].address) \notin begun =>
                 /\ dek[KeyOf(op[u].address)] = op[u].key
                 /\ op[u].at = "env" /\ op[u].address \notin spoiled' => bin'[op[u].address] = op[u].key
<1>1. TypeOK /\ made \in Nat
    BY BlobConstants DEF BlobInv, TypeOK
<1>2. \A b \in Addresses : bin'[b] <= made
    BY <1>1, SpoilKeeps, BlobConstants, FilesAreNumbers DEF BlobInv, KeysAreCounted
<1>3. PromisedIsKept'
    BY <1>1, SpoilKeeps DEF BlobInv, PromisedIsKept, TypeOK
<1>4. ASSUME NEW u \in Threads, Putting(u), KeyOf(op[u].address) \notin begun
      PROVE  /\ dek[KeyOf(op[u].address)] = op[u].key
             /\ op[u].at = "env" /\ op[u].address \notin spoiled' => bin'[op[u].address] = op[u].key
    BY <1>1, <1>4, SpoilKeeps, OpFields DEF BlobInv, PutsHoldTheKey
<1> QED BY <1>2, <1>3, <1>4

LEMMA PutFailsInv == ASSUME BlobInv, NEW t \in Threads, PutFails(t) PROVE BlobInv'
<1> USE DEF PutFails
<1>1. TypeOK /\ Putting(t) /\ op[t].address \in Addresses
    BY SpoilKeeps DEF BlobInv
<1>2. op'[t] = Idle /\ \A u \in Threads : u # t => op'[u] = op[u]
    BY <1>1, GoesOn
<1>3. op'[t].at = "idle" /\ ~Putting(t)'
    BY <1>2 DEF Idle, Putting
<1>4. \A u \in Threads : /\ Putting(u)' => Putting(u) /\ op'[u] = op[u]
                         /\ op'[u].at = "tomb" <=> op[u].at = "tomb"
                         /\ op'[u].at = "tomb" => op'[u] = op[u]
    BY <1>1, <1>2, <1>3 DEF Putting
<1>5. TypeOK'
    <2>1. op' \in [Threads -> Op \cup {Idle}]
        BY <1>1 DEF TypeOK, Goes
    <2> QED BY <1>1, <1>4, <2>1, SpoilKeeps DEF TypeOK
<1>6. KeysAreCounted'
    BY <1>4, SpoilInv DEF BlobInv, KeysAreCounted
<1>7. PutsHoldTheKey' /\ PromisedIsKept'
    <2>1. PromisedIsKept'
        BY SpoilInv
    <2>2. PutsHoldTheKey'
        BY <1>4, SpoilInv DEF PutsHoldTheKey
    <2> QED BY <2>1, <2>2
<1>8. ShredsAreBegun' /\ ErasedStaysErased'
    BY <1>4 DEF BlobInv, ShredsAreBegun, ErasedStaysErased
<1> QED BY <1>5, <1>6, <1>7, <1>8 DEF BlobInv

\* The key goes first, while nobody else is at the keys.
LEMMA BeginShredInv == ASSUME BlobInv, NEW t \in Threads, NEW k \in Keys, BeginShred(t, k) PROVE BlobInv'
<1> USE DEF BeginShred, Ready
<1>1. TypeOK /\ made \in Nat /\ op[t].at = "idle"
    BY BlobConstants DEF BlobInv, TypeOK, Idle
<1>2. dek' \in [Keys -> File] /\ dek'[k] = Absent /\ \A j \in Keys : j # k => dek'[j] = dek[j]
    BY <1>1 DEF TypeOK, File
<1>3. op'[t] = [at |-> "tomb", subject |-> k] /\ \A u \in Threads : u # t => op'[u] = op[u]
    BY <1>1, GoesOn
<1>4. /\ op'[t].at = "tomb" /\ op'[t].subject = k /\ op'[t] \in Op /\ ~Putting(t)'
      /\ \A u \in Threads : Putting(u)' => Putting(u) /\ op'[u] = op[u]
    BY <1>1, <1>3 DEF Putting, Op
<1>5. \A u \in Threads : op[u].at # "tomb"
    BY <1>1, BlobAssumption DEF Free, TypeOK
<1>6. TypeOK'
    <2>1. op' \in [Threads -> Op \cup {Idle}]
        BY <1>1, <1>4, <1>3 DEF TypeOK, Goes
    <2>2. \A u \in Threads : mutex' = u <=> op'[u].at = "tomb"
        BY <1>3, <1>4, <1>5
    <2> QED BY <1>1, <1>2, <2>1, <2>2 DEF TypeOK
<1>7. KeysAreCounted'
    BY <1>1, <1>2, <1>4, BlobConstants DEF BlobInv, KeysAreCounted
<1>8. PutsHoldTheKey'
    <2>1. \A u \in Threads : Putting(u) => KeyOf(op[u].address) \in Keys
        BY <1>1, OpFields
    <2> QED BY <1>2, <1>4, <2>1 DEF BlobInv, PutsHoldTheKey
<1>9. ShredsAreBegun'
    BY <1>2, <1>3, <1>4, <1>5 DEF BlobInv, ShredsAreBegun
<1>10. PromisedIsKept' /\ (promised' # {} => master = 1)
    BY <1>1, <1>2, AddressFields DEF BlobInv, PromisedIsKept, TypeOK
<1>11. ErasedStaysErased'
    BY <1>1, <1>2 DEF BlobInv, ErasedStaysErased, TypeOK
<1> QED BY <1>6, <1>7, <1>8, <1>9, <1>10, <1>11 DEF BlobInv

LEMMA TombstoneInv ==
    ASSUME BlobInv, NEW t \in Threads, Tombstone(t) \/ TombstoneFails(t)
    PROVE  BlobInv'
<1> DEFINE k == op[t].subject
<1> USE DEF Tombstone, TombstoneFails, At, history
<1>1. TypeOK /\ op[t].at = "tomb" /\ k \in Keys /\ k \in begun /\ dek[k] = Absent /\ mutex = t
    BY OpFields DEF BlobInv, ShredsAreBegun
<1>2. op'[t] = Idle /\ \A u \in Threads : u # t => op'[u] = op[u]
    BY <1>1, GoesOn
<1>3. op'[t].at = "idle" /\ ~Putting(t)'
    BY <1>2 DEF Idle, Putting
<1>4. \A u \in Threads : /\ Putting(u)' => Putting(u) /\ op'[u] = op[u]
                         /\ op'[u].at # "tomb"
    BY <1>1, <1>2, <1>3 DEF Putting, TypeOK
<1> HIDE DEF k
<1>5. TypeOK'
    <2>1. op' \in [Threads -> Op \cup {Idle}]
        BY <1>1 DEF TypeOK, Goes
    <2>2. \A u \in Threads : mutex' = u <=> op'[u].at = "tomb"
        BY <1>4, BlobAssumption
    <2> QED BY <1>1, <2>1, <2>2 DEF TypeOK, k
<1>6. KeysAreCounted' /\ PutsHoldTheKey'
    BY <1>4 DEF BlobInv, KeysAreCounted, PutsHoldTheKey
<1>7. ShredsAreBegun' /\ ErasedStaysErased'
    BY <1>1, <1>4 DEF BlobInv, ShredsAreBegun, ErasedStaysErased, k
<1>8. PromisedIsKept'
    BY DEF BlobInv, PromisedIsKept
<1> QED BY <1>5, <1>6, <1>7, <1>8 DEF BlobInv

\* A crash ends every put and shred, and damages one file at most.
LEMMA CrashInv == ASSUME BlobInv, Crash PROVE BlobInv'
<1> USE DEF Crash
<1>1. TypeOK /\ made \in Nat
    BY BlobConstants DEF BlobInv, TypeOK
<1>2. op' = [u \in Threads |-> Idle] /\ \A u \in Threads : op'[u].at = "idle" /\ ~Putting(u)'
    BY DEF Idle, Putting
<1>3. op' \in [Threads -> Op \cup {Idle}] /\ \A u \in Threads : mutex' = u <=> op'[u].at = "tomb"
    BY <1>2, BlobAssumption
<1>4. PutsHoldTheKey'
    BY <1>2 DEF PutsHoldTheKey
<1>5. CASE UNCHANGED <<dek, bin, env, tomb, promised, spoiled>>
    <2>1. TypeOK'
        BY <1>1, <1>3, <1>5 DEF TypeOK
    <2>2. KeysAreCounted' /\ ShredsAreBegun' /\ PromisedIsKept' /\ ErasedStaysErased'
        BY <1>2, <1>5 DEF BlobInv, KeysAreCounted, ShredsAreBegun, PromisedIsKept, ErasedStaysErased
    <2> QED BY <1>4, <1>5, <2>1, <2>2 DEF BlobInv
<1>6. ASSUME NEW t \in Threads, Spoil(t), UNCHANGED <<dek, tomb>> PROVE BlobInv'
    <2>1. TypeOK'
        <3>1. bin' \in [Addresses -> File] /\ env' \subseteq Addresses
            BY <1>6, SpoilKeeps
        <3>2. promised' \subseteq Addresses /\ spoiled' \subseteq Addresses
            BY <1>1, <1>6, SpoilKeeps DEF TypeOK
        <3> QED BY <1>1, <1>3, <1>6, <3>1, <3>2 DEF TypeOK
    <2>2. KeysAreCounted' /\ PromisedIsKept'
        <3>1. PromisedIsKept'
            BY <1>6, SpoilInv
        <3>2. KeysAreCounted'
            BY <1>2, <1>6, SpoilInv DEF BlobInv, KeysAreCounted
        <3> QED BY <3>1, <3>2
    <2>3. ShredsAreBegun' /\ ErasedStaysErased' /\ promised' \subseteq promised
        BY <1>2, <1>6, SpoilKeeps DEF BlobInv, ShredsAreBegun, ErasedStaysErased
    <2> QED BY <1>4, <2>1, <2>2, <2>3 DEF BlobInv
<1>7. ASSUME NEW t \in Threads, op[t].at = "tomb", tomb' = tomb \cup {op[t].subject},
             UNCHANGED <<dek, bin, env, promised, spoiled>>
      PROVE  BlobInv'
    <2>1. op[t].subject \in Keys /\ op[t].subject \in begun
        BY <1>1, <1>7, OpFields DEF BlobInv, ShredsAreBegun
    <2>2. TypeOK'
        BY <1>1, <1>3, <1>7, <2>1 DEF TypeOK
    <2>3. KeysAreCounted' /\ ShredsAreBegun' /\ PromisedIsKept' /\ ErasedStaysErased'
        BY <1>2, <1>7, <2>1 DEF BlobInv, KeysAreCounted, ShredsAreBegun, PromisedIsKept, ErasedStaysErased
    <2> QED BY <1>4, <1>7, <2>2, <2>3 DEF BlobInv
<1>8. ASSUME NEW k \in Keys, DekFree(k), dek[k] = Absent, dek' = [dek EXCEPT ![k] = Torn],
             UNCHANGED <<bin, env, tomb, promised, spoiled>>
      PROVE  BlobInv'
    <2>1. dek' \in [Keys -> File] /\ dek'[k] = Torn /\ \A j \in Keys : j # k => dek'[j] = dek[j]
        BY <1>1, <1>8 DEF TypeOK, File
    <2>2. TypeOK'
        BY <1>1, <1>3, <1>8, <2>1 DEF TypeOK
    <2>3. KeysAreCounted'
        BY <1>1, <1>2, <1>8, <2>1, BlobConstants DEF BlobInv, KeysAreCounted
    <2>4. ShredsAreBegun'
        BY <1>2, <1>8 DEF BlobInv, ShredsAreBegun
    <2>5. PromisedIsKept'
        <3>1. \A b \in promised : KeyOf(b) # k /\ KeyOf(b) \in Keys
            BY <1>1, <1>8, BlobConstants, AddressFields DEF BlobInv, PromisedIsKept, TypeOK
        <3> QED BY <1>8, <2>1, <3>1 DEF BlobInv, PromisedIsKept
    <2>6. ErasedStaysErased'
        <3>1. k \notin erased
            BY <1>8 DEF BlobInv, ErasedStaysErased, DekFree
        <3> QED BY <1>1, <1>8, <2>1, <3>1 DEF BlobInv, ErasedStaysErased, TypeOK
    <2> QED BY <1>4, <1>8, <2>2, <2>3, <2>4, <2>5, <2>6 DEF BlobInv
<1> QED BY <1>5, <1>6, <1>7, <1>8

LEMMA BlobStep == BlobInv /\ [Next]_vars => BlobInv'
<1> SUFFICES ASSUME BlobInv, [Next]_vars PROVE BlobInv'
    OBVIOUS
<1>1. CASE Open \/ OpenDies
    BY <1>1, OpenInv
<1>2. CASE Crash
    BY <1>2, CrashInv
<1>3. ASSUME NEW t \in Threads, NEW a \in Addresses, BeginPut(t, a) \/ DekWriteFails(t, a)
      PROVE  BlobInv'
    BY <1>3, BeginPutInv, DekWriteFailsInv
<1>4. ASSUME NEW t \in Threads, WriteBin(t) \/ WriteEnvelope(t) \/ PutFails(t)
      PROVE  BlobInv'
    BY <1>4, WriteBinInv, WriteEnvelopeInv, PutFailsInv
<1>5. ASSUME NEW t \in Threads, NEW k \in Keys, BeginShred(t, k)
      PROVE  BlobInv'
    BY <1>5, BeginShredInv
<1>6. ASSUME NEW t \in Threads, Tombstone(t) \/ TombstoneFails(t)
      PROVE  BlobInv'
    BY <1>6, TombstoneInv
<1>7. CASE UNCHANGED vars
    <2> USE <1>7 DEF vars, disk, process, history
    <2>1. TypeOK' /\ KeysAreCounted'
        BY DEF BlobInv, TypeOK, KeysAreCounted, Putting
    <2>2. PutsHoldTheKey'
        BY DEF BlobInv, PutsHoldTheKey, Putting
    <2>3. ShredsAreBegun' /\ PromisedIsKept' /\ ErasedStaysErased'
        BY DEF BlobInv, ShredsAreBegun, PromisedIsKept, ErasedStaysErased
    <2> QED BY <2>1, <2>2, <2>3 DEF BlobInv
<1> QED BY <1>1, <1>2, <1>3, <1>4, <1>5, <1>6, <1>7 DEF Next

LEMMA BlobInvariant == Spec => []BlobInv
BY BlobInit, BlobStep, PTL DEF Spec

\* A payload whose put returned Ok is read back, and a subject whose shred returned Ok
\* has no key any more: by this process and by every later one, whatever file is torn.
THEOREM PromisesKept == Spec => []PromisesAreKept
<1>1. BlobInv => PromisesAreKept
    <2> SUFFICES ASSUME BlobInv PROVE PromisedIsReadable
        BY DEF BlobInv, PromisesAreKept
    <2>1. ASSUME NEW a \in promised
          PROVE  master = 1 /\ Got(a, tomb) = "plaintext" /\ (up => Got(a, shredded) = "plaintext")
        <3>1. /\ master = 1 /\ KeyOf(a) \notin begun /\ a \in env
              /\ dek[KeyOf(a)] \in Deks /\ bin[a] = dek[KeyOf(a)] /\ bin[a] # Absent
            BY BlobConstants DEF BlobInv, PromisedIsKept
        <3>2. KeyOf(a) \notin tomb /\ KeyOf(a) \notin shredded
            BY <3>1 DEF BlobInv, ShredsAreBegun
        <3> QED BY <3>1, <3>2 DEF Got, Opens
    <2> QED BY <2>1 DEF PromisedIsReadable
<1> QED BY <1>1, BlobInvariant, PTL

-----------------------------------------------------------------------------
(* BlobTier implements BlobContract. *)

Plain == {a \in Addresses : Got(a, tomb) = "plaintext"}

LEMMA PlainIs ==
    ASSUME NEW a \in Addresses
    PROVE  a \in Plain <=> /\ a \in env /\ KeyOf(a) \notin tomb
                           /\ dek[KeyOf(a)] \in Deks /\ bin[a] = dek[KeyOf(a)]
<1>1. 0 \notin Deks /\ Absent = 0
    BY BlobConstants
<1> QED BY <1>1 DEF Plain, Got, Opens

\* The same, after a step.
LEMMA PlainBecomes ==
    ASSUME NEW a \in Addresses
    PROVE  a \in Plain' <=> /\ a \in env' /\ KeyOf(a) \notin tomb'
                            /\ dek'[KeyOf(a)] \in Deks /\ bin'[a] = dek'[KeyOf(a)]
<1>1. 0 \notin Deks /\ Absent = 0
    BY BlobConstants
<1> QED BY <1>1 DEF Plain, Got, Opens

\* Steps that leave every blob as readable as it was, make one readable, or one not.
LEMMA SamePlain ==
    ASSUME \A a \in Addresses : a \in Plain' <=> a \in Plain
    PROVE  Plain' = Plain
<1>1. Plain \subseteq Addresses /\ Plain' \subseteq Addresses
    BY DEF Plain
<1> QED BY <1>1

LEMMA OnePlain ==
    ASSUME NEW b \in Addresses, UNCHANGED tomb, b[1] \notin tomb \/ b \notin Plain',
           \A a \in Addresses : a # b => (a \in Plain' <=> a \in Plain)
    PROVE  [Contract!Next]_<<Plain, tomb>>
<1>1. Plain \subseteq Addresses /\ Plain' \subseteq Addresses
    BY DEF Plain
<1>2. CASE b \in Plain'
    <2>1. Plain' = Plain \cup {b}
        BY <1>1, <1>2
    <2>2. Contract!Put(b)
        BY <1>2, <2>1 DEF Contract!Put, Plain
    <2> QED BY <2>2 DEF Contract!Next, Contract!Addresses, Addresses
<1>3. CASE b \notin Plain'
    <2>1. Plain' = Plain \ {b}
        BY <1>1, <1>3
    <2>2. Contract!Damage(b)
        BY <2>1 DEF Contract!Damage, Plain
    <2> QED BY <2>2 DEF Contract!Next, Contract!Addresses, Addresses
<1> QED BY <1>2, <1>3

\* Nothing but a tombstone reaches the record: the payloads of its subject are gone.
LEMMA ShredPlain ==
    ASSUME NEW k \in Keys, tomb' = tomb \cup {k}, UNCHANGED <<dek, bin, env>>
    PROVE  [Contract!Next]_<<Plain, tomb>>
<1>1. \A a \in Addresses : a \in Plain' <=> a \in Plain /\ KeyOf(a) # k
    BY PlainIs, PlainBecomes
<1>2. Plain' = Plain \ Contract!Of(k)
    <2>1. Plain \subseteq Addresses /\ Plain' \subseteq Addresses
        BY DEF Plain
    <2>2. \A a \in Addresses : a \in Contract!Of(k) <=> KeyOf(a) = k
        BY DEF Contract!Of, Contract!Addresses, Addresses, KeyOf
    <2> QED BY <1>1, <2>1, <2>2
<1>3. Contract!Shred(k)
    BY <1>2 DEF Contract!Shred, Plain
<1> QED BY <1>3 DEF Contract!Next

\* A write that is cut short damages its own payload.
LEMMA SpoilPlain ==
    ASSUME BlobInv, NEW t \in Threads, Spoil(t), UNCHANGED <<dek, tomb>>
    PROVE  [Contract!Next]_<<Plain, tomb>>
<1> DEFINE b == op[t].address
<1>1. b \in Addresses /\ TypeOK
    BY SpoilKeeps DEF BlobInv
<1>2. \A a \in Addresses : a # b => (a \in Plain' <=> a \in Plain)
    <2> TAKE a \in Addresses
    <2>1. a # b => bin'[a] = bin[a] /\ (a \in env' <=> a \in env)
        BY SpoilKeeps
    <2> QED BY <2>1, PlainIs, PlainBecomes
<1>3. b[1] \notin tomb \/ b \notin Plain'
    BY <1>1, PlainBecomes DEF KeyOf
<1> HIDE DEF b
<1> QED BY <1>1, <1>2, <1>3, OnePlain

\* Every step puts one payload, damages one, erases or shreds one subject, or leaves
\* what can be read as it is.
LEMMA BlobStepImplements == BlobInv /\ [Next]_vars => [Contract!Next]_<<Plain, tomb>>
<1> SUFFICES ASSUME BlobInv, [Next]_vars PROVE [Contract!Next]_<<Plain, tomb>>
    OBVIOUS
<1>0. TypeOK /\ made \in Nat
    BY BlobConstants DEF BlobInv, TypeOK
<1>1. CASE Open \/ OpenDies
    <2>1. UNCHANGED <<dek, bin, env, tomb>>
        BY <1>1 DEF Open, OpenDies, history
    <2>2. Plain' = Plain
        BY <2>1, PlainIs, PlainBecomes, SamePlain
    <2> QED BY <2>1, <2>2
<1>2. CASE Crash
    <2>1. CASE UNCHANGED <<dek, bin, env, tomb>>
        <3>1. Plain' = Plain
            BY <2>1, PlainIs, PlainBecomes, SamePlain
        <3> QED BY <2>1, <3>1
    <2>2. ASSUME NEW t \in Threads, Spoil(t), UNCHANGED <<dek, tomb>>
          PROVE  [Contract!Next]_<<Plain, tomb>>
        BY <2>2, SpoilPlain
    <2>3. ASSUME NEW t \in Threads, op[t].at = "tomb", tomb' = tomb \cup {op[t].subject},
                 UNCHANGED <<dek, bin, env>>
          PROVE  [Contract!Next]_<<Plain, tomb>>
        BY <1>0, <2>3, OpFields, ShredPlain
    <2>4. ASSUME NEW k \in Keys, dek[k] = Absent, dek' = [dek EXCEPT ![k] = Torn], UNCHANGED <<bin, env, tomb>>
          PROVE  [Contract!Next]_<<Plain, tomb>>
        <3>1. dek'[k] = Torn /\ \A j \in Keys : j # k => dek'[j] = dek[j]
            BY <1>0, <2>4 DEF TypeOK
        <3>2. \A a \in Addresses : a \in Plain' <=> a \in Plain
            BY <2>4, <3>1, PlainIs, PlainBecomes, AddressFields, BlobConstants
        <3>3. Plain' = Plain
            BY <3>2, SamePlain
        <3> QED BY <2>4, <3>3
    <2> QED BY <1>2, <2>1, <2>2, <2>3, <2>4 DEF Crash
<1>3. ASSUME NEW t \in Threads, NEW a \in Addresses, BeginPut(t, a)
      PROVE  [Contract!Next]_<<Plain, tomb>>
    <2> DEFINE k == KeyOf(a)
               d == DekOf(k)
    <2>1. k \in Keys /\ d \in Deks /\ dek' = [dek EXCEPT ![k] = d] /\ UNCHANGED <<bin, env, tomb>>
        BY <1>3, AddressFields DEF BeginPut
    <2>2. dek'[k] = d /\ \A j \in Keys : j # k => dek'[j] = dek[j]
        BY <1>0, <2>1 DEF TypeOK
    <2>3. (dek[k] = Absent /\ d = made + 1) \/ d = dek[k]
        BY DEF DekOf
    <2> HIDE DEF k, d
    <2>4. \A b \in Addresses : bin[b] # made + 1
        BY <1>0, FilesAreNumbers DEF BlobInv, KeysAreCounted
    <2>5. \A b \in Addresses : b \in Plain' <=> b \in Plain
        BY <2>1, <2>2, <2>3, <2>4, PlainIs, PlainBecomes, AddressFields, BlobConstants
    <2>6. Plain' = Plain
        BY <2>5, SamePlain
    <2> QED BY <2>1, <2>6
<1>4. ASSUME NEW t \in Threads, NEW a \in Addresses, DekWriteFails(t, a)
      PROVE  [Contract!Next]_<<Plain, tomb>>
    <2>1. /\ dek'[KeyOf(a)] = Torn /\ dek[KeyOf(a)] = Absent
          /\ \A j \in Keys : j # KeyOf(a) => dek'[j] = dek[j]
          /\ UNCHANGED <<bin, env, tomb>>
        BY <1>0, <1>4, AddressFields DEF TypeOK, DekWriteFails
    <2>2. \A b \in Addresses : b \in Plain' <=> b \in Plain
        BY <2>1, PlainIs, PlainBecomes, AddressFields, BlobConstants
    <2>3. Plain' = Plain
        BY <2>2, SamePlain
    <2> QED BY <2>1, <2>3
<1>5. ASSUME NEW t \in Threads, WriteBin(t) \/ WriteEnvelope(t)
      PROVE  [Contract!Next]_<<Plain, tomb>>
    <2> DEFINE b == op[t].address
    <2>1. b \in Addresses /\ UNCHANGED <<dek, tomb>>
        BY <1>0, <1>5, OpFields DEF WriteBin, WriteEnvelope, At, Putting
    <2>2. \A a \in Addresses : a # b => bin'[a] = bin[a] /\ (a \in env' <=> a \in env)
        BY <1>0, <1>5, <2>1 DEF TypeOK, WriteBin, WriteEnvelope
    <2> HIDE DEF b
    <2>3. \A a \in Addresses : a # b => (a \in Plain' <=> a \in Plain)
        BY <2>1, <2>2, PlainIs, PlainBecomes
    <2>4. b[1] \notin tomb \/ b \notin Plain'
        BY <2>1, PlainBecomes DEF KeyOf
    <2> QED BY <2>1, <2>3, <2>4, OnePlain
<1>6. ASSUME NEW t \in Threads, PutFails(t)
      PROVE  [Contract!Next]_<<Plain, tomb>>
    BY <1>6, SpoilPlain DEF PutFails
<1>7. ASSUME NEW t \in Threads, NEW k \in Keys, BeginShred(t, k)
      PROVE  [Contract!Next]_<<Plain, tomb>>
    <2>1. /\ dek'[k] = Absent /\ \A j \in Keys : j # k => dek'[j] = dek[j]
          /\ UNCHANGED <<bin, env, tomb>>
        BY <1>0, <1>7 DEF TypeOK, BeginShred
    <2>2. \A a \in Addresses : a \in Plain' <=> a \in Plain /\ KeyOf(a) # k
        BY <2>1, PlainIs, PlainBecomes, AddressFields, BlobConstants
    <2>3. Plain' = Plain \ Contract!Of(k)
        <3>1. Plain \subseteq Addresses /\ Plain' \subseteq Addresses
            BY DEF Plain
        <3>2. \A a \in Addresses : a \in Contract!Of(k) <=> KeyOf(a) = k
            BY DEF Contract!Of, Contract!Addresses, Addresses, KeyOf
        <3> QED BY <2>2, <3>1, <3>2
    <2>4. Contract!Erase(k)
        BY <2>1, <2>3 DEF Contract!Erase, Plain
    <2> QED BY <2>4 DEF Contract!Next
<1>8. ASSUME NEW t \in Threads, Tombstone(t) \/ TombstoneFails(t)
      PROVE  [Contract!Next]_<<Plain, tomb>>
    <2>1. op[t].subject \in Keys /\ UNCHANGED <<dek, bin, env>>
        BY <1>0, <1>8, OpFields DEF Tombstone, TombstoneFails, At, history
    <2>2. CASE tomb' = tomb \cup {op[t].subject}
        BY <2>1, <2>2, ShredPlain
    <2>3. CASE tomb' = tomb
        <3>1. Plain' = Plain
            BY <2>1, <2>3, PlainIs, PlainBecomes, SamePlain
        <3> QED BY <2>3, <3>1
    <2> QED BY <1>8, <2>2, <2>3 DEF Tombstone, TombstoneFails
<1>9. CASE UNCHANGED vars
    <2>1. UNCHANGED <<dek, bin, env, tomb>>
        BY <1>9 DEF vars, disk
    <2>2. Plain' = Plain
        BY <2>1, PlainIs, PlainBecomes, SamePlain
    <2> QED BY <2>1, <2>2
<1> QED BY <1>1, <1>2, <1>3, <1>4, <1>5, <1>6, <1>7, <1>8, <1>9 DEF Next

\* The files, with their crashes and torn writes, implement the contract of the payload
\* tier: no payload comes back unless it is put again, and none of a shredded subject.
THEOREM TierImplements == Spec => ImplementsContract
<1>1. Init => Contract!Init
    <2> SUFFICES ASSUME Init PROVE Plain = {} /\ tomb = {}
        BY DEF Contract!Init, Plain
    <2>1. \A a \in Addresses : a \notin Plain
        BY PlainIs DEF Init
    <2> QED BY <2>1 DEF Plain, Init
<1>2. BlobInv /\ [Next]_vars => [Contract!Next]_(Contract!vars)
    BY BlobStepImplements DEF Contract!vars, Plain
<1> QED BY <1>1, <1>2, BlobInvariant, PTL DEF Spec, ImplementsContract, Contract!Spec

-----------------------------------------------------------------------------
(* Who is shown what. *)

Address == Ids \X SUBSET DOMAIN Objects
Artefact == [address : Address, kind : ArtefactKinds]
Register == [label : Label, sources : SUBSET DOMAIN Objects, artefacts : Seq(Artefact)]

\* A register, in its row or in a copy: labelled for what is in it, and what it lists
\* is there.
Sound(r, there) ==
    /\ r \in Register
    /\ Covers(r.label, r.sources)
    /\ \A i \in DOMAIN r.artefacts : r.artefacts[i].address \in there

RowsAreCounted ==
    /\ DOMAIN registers = 1..submitted /\ submitted \in 0..MaxRegisters
    /\ DOMAIN tasks \subseteq DOMAIN registers
    /\ syscalls \in 0..MaxSyscalls /\ cutShort \in 0..MaxCutShort

RegistersAreSound == \A id \in DOMAIN registers : Sound(registers[id], DOMAIN labels)

EnvelopesAreSound ==
    \A a \in DOMAIN labels : a \in Address /\ labels[a] \in Label /\ Covers(labels[a], a[2])

\* A stale copy is as sound as the row it overwrites.
CopiesAreSound ==
    /\ DOMAIN copies = DOMAIN Callers
    /\ \A c \in DOMAIN Callers : copies[c] # NoCopy =>
          /\ copies[c] \in [id : DOMAIN registers, register : Register]
          /\ Sound(copies[c].register, DOMAIN labels)

\* The register an artefact is attached to is the one its text was drafted from, and a
\* release that goes on was accepted as a whole.
CallsAreChecked ==
    \/ syscall = NoCall
    \/ syscall \in [at : {"task"}, id : DOMAIN registers, caller : DOMAIN Callers, approve : BOOLEAN]
    \/ /\ syscall \in [at : {"put", "row"}, id : DOMAIN registers, address : Address]
       /\ syscall.at = "put" => syscall.address[2] \subseteq registers[syscall.id].sources
       /\ syscall.at = "row" => syscall.address \in DOMAIN labels
    \/ /\ syscall \in [at : {"directory", "file"}, caller : DOMAIN Callers, dir : Dests,
                       artefacts : Seq(Artefact)]
       /\ ReleaseDest(syscall.dir)
       /\ \A i \in DOMAIN syscall.artefacts : FileName(syscall.artefacts[i].kind)
       /\ \E r \in releases : r.dir = syscall.dir
       /\ syscall.at = "file" => syscall.artefacts # <<>>

ShownIsCleared == shown \subseteq (DOMAIN Objects) \X (DOMAIN Callers) /\ OnlyClearedLeaves

\* The inductive invariant of ReadSurfaces.
SurfacesInv ==
    /\ RowsAreCounted
    /\ RegistersAreSound
    /\ EnvelopesAreSound
    /\ CopiesAreSound
    /\ CallsAreChecked
    /\ ShownIsCleared
    /\ ReleasesAreContained

LEMMA WithIs ==
    ASSUME NEW f, NEW k, NEW v
    PROVE  /\ DOMAIN With(f, k, v) = DOMAIN f \cup {k}
           /\ With(f, k, v)[k] = v
           /\ \A x \in DOMAIN f : x # k => With(f, k, v)[x] = f[x]
BY DEF With

LEMMA RegisterFields ==
    ASSUME NEW r \in Register
    PROVE  /\ r.label \in Label /\ r.sources \subseteq DOMAIN Objects /\ r.artefacts \in Seq(Artefact)
           /\ \A i \in DOMAIN r.artefacts : r.artefacts[i] \in Artefact
                 /\ r.artefacts[i].address \in Address /\ r.artefacts[i].kind \in ArtefactKinds
<1>1. r.label \in Label /\ r.sources \subseteq DOMAIN Objects /\ r.artefacts \in Seq(Artefact)
    BY DEF Register
<1>2. \A i \in DOMAIN r.artefacts : r.artefacts[i] \in Artefact
    BY <1>1
<1> QED BY <1>1, <1>2 DEF Artefact

\* Who is cleared for a text is cleared for all it was made from.
LEMMA CoveredFlows ==
    ASSUME NEW l \in Label, NEW sources \in SUBSET DOMAIN Objects, Covers(l, sources),
           NEW c \in DOMAIN Callers, FlowsTo(l, Callers[c])
    PROVE  \A o \in sources : FlowsTo(Objects[o], Callers[c])
<1> TAKE o \in sources
<1>1. Objects[o] \in Label /\ Callers[c] \in Clearance /\ Leq(Objects[o], l)
    BY InputsAssumption DEF Covers
<1> QED BY <1>1, FlowsDown

\* Showing them keeps I2.
LEMMA ShowIsCleared ==
    ASSUME ShownIsCleared, NEW l \in Label, NEW sources \in SUBSET DOMAIN Objects, Covers(l, sources),
           NEW c \in DOMAIN Callers, FlowsTo(l, Callers[c]), Show(sources, c)
    PROVE  ShownIsCleared'
<1>1. \A s \in shown' : s \in shown \/ (s[1] \in sources /\ s[2] = c)
    BY DEF Show
<1>2. \A o \in sources : FlowsTo(Objects[o], Callers[c])
    BY CoveredFlows
<1>3. shown' \subseteq (DOMAIN Objects) \X (DOMAIN Callers)
    BY DEF Show, ShownIsCleared
<1> QED BY <1>1, <1>2, <1>3 DEF ShownIsCleared, OnlyClearedLeaves

\* Taking a second register into a copy (Register::with_read) keeps it covered.
LEMMA WithReadSound ==
    ASSUME NEW there, NEW r, NEW other, Sound(r, there), Sound(other, there)
    PROVE  Sound(WithRead(r, other), there)
<1> DEFINE w == WithRead(r, other)
<1>1. r \in Register /\ other \in Register
    BY DEF Sound
<1>2. /\ r.label \in Label /\ r.sources \subseteq DOMAIN Objects
      /\ other.label \in Label /\ other.sources \subseteq DOMAIN Objects
    BY <1>1, RegisterFields
<1>3. /\ w.label = Join(r.label, other.label) /\ w.sources = r.sources \cup other.sources
      /\ w.artefacts = r.artefacts
      /\ w = [r EXCEPT !.sources = r.sources \cup other.sources, !.label = Join(r.label, other.label)]
    BY <1>1 DEF WithRead, Register
<1>4. Join(r.label, other.label) \in Label
    BY <1>2, JoinType
<1>5. w \in Register
    BY <1>1, <1>2, <1>3, <1>4 DEF Register
<1>6. Covers(w.label, w.sources)
    <2>1. ASSUME NEW o \in w.sources PROVE Leq(Objects[o], w.label)
        <3>1. Objects[o] \in Label
            BY <1>2, <1>3, InputsAssumption
        <3>2. Leq(Objects[o], r.label) \/ Leq(Objects[o], other.label)
            BY <1>3 DEF Sound, Covers
        <3>3. Leq(r.label, w.label) /\ Leq(other.label, w.label)
            BY <1>2, <1>3, JoinIsLeast
        <3> QED BY <1>2, <1>3, <1>4, <3>1, <3>2, <3>3 DEF Leq, Label, Scopes, Classes
    <2> HIDE DEF w
    <2> QED BY <2>1 DEF Covers
<1> HIDE DEF w
<1>7. \A i \in DOMAIN w.artefacts : w.artefacts[i].address \in there
    BY <1>3 DEF Sound
<1>8. Sound(w, there)
    BY <1>5, <1>6, <1>7 DEF Sound
<1> QED BY <1>8 DEF w

\* A path of ordinary components stays under the export root.
LEMMA OrdinaryStaysInside ==
    ASSUME NEW path \in Seq(Components), \A i \in DOMAIN path : path[i] \in {"normal", "cur"}
    PROVE  StaysInside(path)
<1>1. ASSUME NEW n \in DOMAIN path
      PROVE  Cardinality({i \in 1..n : path[i] = "parent"}) <= Cardinality({i \in 1..n : path[i] = "normal"})
    <2>1. n \in Nat /\ \A i \in 1..n : i \in DOMAIN path
        OBVIOUS
    <2>2. {i \in 1..n : path[i] = "parent"} = {}
        BY <2>1
    <2>3. IsFiniteSet({i \in 1..n : path[i] = "normal"})
        <3>1. {i \in 1..n : path[i] = "normal"} \subseteq 1..n
            OBVIOUS
        <3>2. IsFiniteSet(1..n)
            BY <2>1, FS_Interval
        <3> QED BY <3>1, <3>2, FS_Subset
    <2>4. Cardinality({i \in 1..n : path[i] = "normal"}) \in Nat
        BY <2>3, FS_CardinalityType
    <2>5. Cardinality({i \in 1..n : path[i] = "parent"}) = 0
        BY <2>2, FS_EmptySet
    <2> QED BY <2>4, <2>5
<1> QED BY <1>1 DEF StaysInside

\* A release that was accepted writes only there.
LEMMA ReleaseStaysInside ==
    ASSUME NEW dir \in Dests, ReleaseDest(dir)
    PROVE  /\ StaysInside(dir)
           /\ \A kind : FileName(kind) => StaysInside(dir \o NameParts(kind))
<1>1. dir \in Seq(Components) /\ \A i \in DOMAIN dir : dir[i] \in {"normal", "cur"}
    BY InputsAssumption DEF ReleaseDest
<1>2. StaysInside(dir)
    BY <1>1, OrdinaryStaysInside
<1>3. ASSUME NEW kind, FileName(kind) PROVE StaysInside(dir \o NameParts(kind))
    <2> DEFINE path == dir \o <<"normal">>
    <2>1. NameParts(kind) = <<"normal">>
        BY <1>3 DEF FileName
    <2>2. path \in Seq(Components) /\ \A i \in DOMAIN path : path[i] \in {"normal", "cur"}
        <3>1. path = Append(dir, "normal")
            BY <1>1
        <3>2. "normal" \in Components
            BY DEF Components
        <3> QED BY <1>1, <3>1, <3>2
    <2>3. StaysInside(path)
        <3> HIDE DEF path
        <3> QED BY <2>2, OrdinaryStaysInside
    <2> QED BY <2>1, <2>3
<1> QED BY <1>2, <1>3

\* Envelopes are never removed: what was sound stays so.
LEMMA SoundMore ==
    ASSUME NEW there, NEW more, there \subseteq more, NEW r, Sound(r, there)
    PROVE  Sound(r, more)
BY DEF Sound

LEMMA SurfacesInitInv == SurfacesInit => SurfacesInv
<1> SUFFICES ASSUME SurfacesInit PROVE SurfacesInv
    OBVIOUS
<1> USE DEF SurfacesInit
<1>1. DOMAIN registers = {} /\ DOMAIN tasks = {} /\ DOMAIN labels = {}
    OBVIOUS
<1>2. RowsAreCounted
    BY <1>1, SurfacesAssumption DEF RowsAreCounted
<1>3. RegistersAreSound /\ EnvelopesAreSound /\ CopiesAreSound /\ CallsAreChecked
    BY <1>1 DEF RegistersAreSound, EnvelopesAreSound, CopiesAreSound, CallsAreChecked
<1>4. ShownIsCleared /\ ReleasesAreContained
    BY DEF ShownIsCleared, OnlyClearedLeaves, ReleasesAreContained, FilesStayInside, RefusedReleaseLeavesNothing
<1> QED BY <1>2, <1>3, <1>4 DEF SurfacesInv

\* A new register is labelled like the one object it holds.
LEMMA SubmitTaskInv == ASSUME SurfacesInv, SubmitTask PROVE SurfacesInv'
<1> USE DEF exports
<1>1. PICK o \in DOMAIN Objects, c \in DOMAIN Callers, approve \in BOOLEAN :
        /\ registers' = With(registers, submitted + 1,
                             [label |-> Objects[o], sources |-> {o}, artefacts |-> <<>>])
        /\ syscall' = [at |-> "task", id |-> submitted + 1, caller |-> c, approve |-> approve]
    BY DEF SubmitTask
<1> DEFINE n == submitted + 1
           r == [label |-> Objects[o], sources |-> {o}, artefacts |-> <<>>]
<1>2. /\ submitted < MaxRegisters /\ submitted' = n
      /\ UNCHANGED <<tasks, labels, exports, copies, shown, syscalls, cutShort>>
    BY DEF SubmitTask
<1>3. submitted \in Nat /\ MaxRegisters \in Nat /\ DOMAIN registers = 1..submitted
    BY SurfacesAssumption DEF SurfacesInv, RowsAreCounted
<1>4. /\ DOMAIN registers' = 1..n /\ registers'[n] = r
      /\ \A id \in DOMAIN registers : registers'[id] = registers[id]
    <2> HIDE DEF r
    <2>1. DOMAIN registers' = (1..submitted) \cup {n}
        BY <1>1, <1>3, WithIs DEF r
    <2>2. registers'[n] = r
        BY <1>1 DEF With, r
    <2>3. \A id \in DOMAIN registers : id # n /\ registers'[id] = registers[id]
        BY <1>1, <1>3 DEF With, r
    <2> QED BY <1>3, <2>1, <2>2, <2>3
<1>5. Sound(r, DOMAIN labels)
    <2>1. Objects[o] \in Label
        BY InputsAssumption
    <2>2. Leq(Objects[o], Objects[o])
        BY <2>1 DEF Leq, Label, Scopes, Classes
    <2>3. <<>> \in Seq(Artefact)
        OBVIOUS
    <2> QED BY <2>1, <2>2, <2>3 DEF Sound, Register, Covers
<1> HIDE DEF r
<1>6. RowsAreCounted'
    BY <1>2, <1>3, <1>4 DEF SurfacesInv, RowsAreCounted
<1>7. RegistersAreSound'
    BY <1>2, <1>3, <1>4, <1>5 DEF SurfacesInv, RegistersAreSound
<1>8. EnvelopesAreSound' /\ ShownIsCleared' /\ ReleasesAreContained'
    BY <1>2 DEF SurfacesInv, EnvelopesAreSound, ShownIsCleared, OnlyClearedLeaves, ReleasesAreContained,
                FilesStayInside, RefusedReleaseLeavesNothing
<1>9. CopiesAreSound'
    <2>1. DOMAIN registers \subseteq DOMAIN registers'
        BY <1>3, <1>4
    <2> QED BY <1>2, <2>1 DEF SurfacesInv, CopiesAreSound
<1>10. CallsAreChecked'
    <2>1. n \in DOMAIN registers'
        BY <1>3, <1>4
    <2> QED BY <1>1, <2>1 DEF CallsAreChecked
<1> QED BY <1>6, <1>7, <1>8, <1>9, <1>10 DEF SurfacesInv

LEMMA CreateTaskInv == ASSUME SurfacesInv, CreateTask PROVE SurfacesInv'
<1> USE DEF CreateTask, exports
<1>1. RowsAreCounted'
    <2>1. DOMAIN tasks' \subseteq DOMAIN registers
        <3>1. CASE Readable(world, syscall.caller, syscall.id)
            <4>1. syscall.id \in DOMAIN registers
                BY <3>1 DEF Readable, world
            <4>2. DOMAIN tasks' = DOMAIN tasks \cup {syscall.id}
                BY <3>1 DEF With
            <4> QED BY <4>1, <4>2 DEF SurfacesInv, RowsAreCounted
        <3>2. CASE ~Readable(world, syscall.caller, syscall.id)
            BY <3>2 DEF SurfacesInv, RowsAreCounted
        <3> QED BY <3>1, <3>2
    <2> QED BY <2>1 DEF SurfacesInv, RowsAreCounted
<1>2. RegistersAreSound' /\ EnvelopesAreSound' /\ CopiesAreSound' /\ CallsAreChecked'
    BY DEF SurfacesInv, RegistersAreSound, EnvelopesAreSound, CopiesAreSound, CallsAreChecked
<1>3. ShownIsCleared' /\ ReleasesAreContained'
    BY DEF SurfacesInv, ShownIsCleared, OnlyClearedLeaves, ReleasesAreContained,
           FilesStayInside, RefusedReleaseLeavesNothing
<1> QED BY <1>1, <1>2, <1>3 DEF SurfacesInv

\* Another call on a register is counted.
LEMMA Counting ==
    ASSUME RowsAreCounted, Count, UNCHANGED <<tasks, submitted, cutShort>>,
           DOMAIN registers' = DOMAIN registers
    PROVE  RowsAreCounted'
BY SurfacesAssumption DEF RowsAreCounted, Count

LEMMA ReadRegisterInv == ASSUME SurfacesInv, NEW c \in DOMAIN Callers, ReadRegister(c) PROVE SurfacesInv'
<1> USE DEF exports
<1>1. PICK id \in Ids :
        /\ Readable(world, c, id)
        /\ copies' = [copies EXCEPT ![c] = [id |-> id, register |-> registers[id]]]
        /\ Show(registers[id].sources, c)
    BY DEF ReadRegister
<1>2. /\ Count /\ UNCHANGED <<registers, tasks, labels, exports, submitted, syscall, cutShort>>
    BY DEF ReadRegister
<1>3. id \in DOMAIN registers /\ FlowsTo(registers[id].label, Callers[c])
    BY <1>1 DEF Readable, world
<1>4. Sound(registers[id], DOMAIN labels)
    BY <1>3 DEF SurfacesInv, RegistersAreSound
<1>5. registers[id] \in Register /\ Covers(registers[id].label, registers[id].sources)
    BY <1>4 DEF Sound
<1>6. RowsAreCounted'
    BY <1>2, Counting DEF SurfacesInv
<1>7. RegistersAreSound' /\ EnvelopesAreSound' /\ CallsAreChecked' /\ ReleasesAreContained'
    BY <1>2 DEF SurfacesInv, RegistersAreSound, EnvelopesAreSound, CallsAreChecked, ReleasesAreContained,
                FilesStayInside, RefusedReleaseLeavesNothing
<1>8. CopiesAreSound'
    <2>1. DOMAIN copies' = DOMAIN Callers
        BY <1>1 DEF SurfacesInv, CopiesAreSound
    <2>2. /\ copies'[c] = [id |-> id, register |-> registers[id]]
          /\ \A d \in DOMAIN Callers : d # c => copies'[d] = copies[d]
        BY <1>1 DEF SurfacesInv, CopiesAreSound
    <2> QED BY <1>2, <1>3, <1>4, <1>5, <2>1, <2>2 DEF SurfacesInv, CopiesAreSound
<1>9. ShownIsCleared'
    BY <1>1, <1>3, <1>5, RegisterFields, ShowIsCleared DEF SurfacesInv
<1> QED BY <1>6, <1>7, <1>8, <1>9 DEF SurfacesInv

\* What is read is joined into the copy's label with it.
LEMMA ReadOtherInv == ASSUME SurfacesInv, NEW c \in DOMAIN Callers, ReadOther(c) PROVE SurfacesInv'
<1> USE DEF exports
<1>1. PICK id \in Ids :
        /\ Readable(world, c, id)
        /\ copies' = [copies EXCEPT ![c].register = WithRead(@, registers[id])]
        /\ Show(registers[id].sources, c)
    BY DEF ReadOther
<1>2. /\ Count /\ UNCHANGED <<registers, tasks, labels, exports, submitted, syscall, cutShort>>
      /\ copies[c] # NoCopy
    BY DEF ReadOther
<1>3. id \in DOMAIN registers /\ FlowsTo(registers[id].label, Callers[c])
    BY <1>1 DEF Readable, world
<1>4. Sound(registers[id], DOMAIN labels)
    BY <1>3 DEF SurfacesInv, RegistersAreSound
<1>5. registers[id] \in Register /\ Covers(registers[id].label, registers[id].sources)
    BY <1>4 DEF Sound
<1>6. RowsAreCounted'
    BY <1>2, Counting DEF SurfacesInv
<1>7. RegistersAreSound' /\ EnvelopesAreSound' /\ CallsAreChecked' /\ ReleasesAreContained'
    BY <1>2 DEF SurfacesInv, RegistersAreSound, EnvelopesAreSound, CallsAreChecked, ReleasesAreContained,
                FilesStayInside, RefusedReleaseLeavesNothing
<1>8. CopiesAreSound'
    <2> DEFINE w == WithRead(copies[c].register, registers[id])
    <2>1. copies[c] \in [id : DOMAIN registers, register : Register] /\ Sound(copies[c].register, DOMAIN labels)
        BY <1>2 DEF SurfacesInv, CopiesAreSound
    <2>2. Sound(w, DOMAIN labels) /\ w \in Register
        BY <1>4, <2>1, WithReadSound DEF Sound
    <2>3. /\ DOMAIN copies' = DOMAIN Callers
          /\ copies'[c] = [copies[c] EXCEPT !.register = w]
          /\ \A d \in DOMAIN Callers : d # c => copies'[d] = copies[d]
        BY <1>1 DEF SurfacesInv, CopiesAreSound
    <2> HIDE DEF w
    <2>4. copies'[c] \in [id : DOMAIN registers, register : Register] /\ copies'[c].register = w
        BY <2>1, <2>2, <2>3
    <2> QED BY <1>2, <2>2, <2>3, <2>4 DEF SurfacesInv, CopiesAreSound
<1>9. ShownIsCleared'
    BY <1>1, <1>3, <1>5, RegisterFields, ShowIsCleared DEF SurfacesInv
<1> QED BY <1>6, <1>7, <1>8, <1>9 DEF SurfacesInv

LEMMA EditKindInv == ASSUME SurfacesInv, NEW c \in DOMAIN Callers, EditKind(c) PROVE SurfacesInv'
<1> USE DEF exports
<1>1. PICK i \in DOMAIN copies[c].register.artefacts, kind \in ArtefactKinds :
        copies' = [copies EXCEPT ![c].register.artefacts[i].kind = kind]
    BY DEF EditKind
<1>2. /\ Count /\ UNCHANGED <<registers, tasks, labels, exports, submitted, syscall, shown, cutShort>>
      /\ copies[c] # NoCopy
    BY DEF EditKind
<1>3. RowsAreCounted'
    BY <1>2, Counting DEF SurfacesInv
<1>4. /\ RegistersAreSound' /\ EnvelopesAreSound' /\ CallsAreChecked' /\ ReleasesAreContained'
      /\ ShownIsCleared'
    BY <1>2 DEF SurfacesInv, RegistersAreSound, EnvelopesAreSound, CallsAreChecked, ReleasesAreContained,
                FilesStayInside, RefusedReleaseLeavesNothing, ShownIsCleared, OnlyClearedLeaves
<1>5. CopiesAreSound'
    <2> DEFINE r == copies[c].register
               a == [r.artefacts[i] EXCEPT !.kind = kind]
               as == [r.artefacts EXCEPT ![i] = a]
               w == [r EXCEPT !.artefacts = as]
    <2>1. copies[c] \in [id : DOMAIN registers, register : Register] /\ Sound(r, DOMAIN labels)
        BY <1>2 DEF SurfacesInv, CopiesAreSound
    <2>2. /\ DOMAIN copies' = DOMAIN Callers
          /\ copies'[c] = [copies[c] EXCEPT !.register = w]
          /\ \A d \in DOMAIN Callers : d # c => copies'[d] = copies[d]
        BY <1>1 DEF SurfacesInv, CopiesAreSound
    <2>3. r \in Register /\ i \in DOMAIN r.artefacts
        BY <2>1
    <2> HIDE DEF r
    <2>4. r.artefacts \in Seq(Artefact) /\ r.artefacts[i] \in Artefact
        BY <2>3, RegisterFields
    <2>5. a \in Artefact /\ a.address = r.artefacts[i].address
        BY <2>4 DEF Artefact
    <2> HIDE DEF a
    <2>6. /\ as \in Seq(Artefact) /\ DOMAIN as = DOMAIN r.artefacts
          /\ \A j \in DOMAIN as : as[j] = IF j = i THEN a ELSE r.artefacts[j]
        BY <2>3, <2>4, <2>5
    <2> HIDE DEF as
    <2>7. w \in Register /\ w.label = r.label /\ w.sources = r.sources /\ w.artefacts = as
        BY <2>3, <2>6 DEF Register
    <2> HIDE DEF w
    <2>8. Sound(w, DOMAIN labels)
        BY <2>1, <2>5, <2>6, <2>7 DEF Sound
    <2>9. copies'[c] \in [id : DOMAIN registers, register : Register] /\ copies'[c].register = w
        BY <2>1, <2>2, <2>7
    <2> QED BY <1>2, <2>2, <2>8, <2>9 DEF SurfacesInv, CopiesAreSound
<1> QED BY <1>3, <1>4, <1>5 DEF SurfacesInv

\* The row is replaced by the copy, however old; no call on a register is under way.
LEMMA WriteRegisterInv == ASSUME SurfacesInv, NEW c \in DOMAIN Callers, WriteRegister(c) PROVE SurfacesInv'
<1> USE DEF WriteRegister, exports
<1>1. copies[c] \in [id : DOMAIN registers, register : Register] /\ Sound(copies[c].register, DOMAIN labels)
    BY DEF SurfacesInv, CopiesAreSound
<1>2. /\ DOMAIN registers' = DOMAIN registers
      /\ \A id \in DOMAIN registers : registers'[id] = registers[id] \/ registers'[id] = copies[c].register
    BY <1>1
<1>3. RowsAreCounted'
    BY <1>2, Counting DEF SurfacesInv
<1>4. RegistersAreSound'
    BY <1>1, <1>2 DEF SurfacesInv, RegistersAreSound
<1>5. CopiesAreSound'
    BY <1>2 DEF SurfacesInv, CopiesAreSound
<1>6. CallsAreChecked'
    BY DEF CallsAreChecked, Unoccupied
<1>7. EnvelopesAreSound' /\ ShownIsCleared' /\ ReleasesAreContained'
    BY DEF SurfacesInv, EnvelopesAreSound, ShownIsCleared, OnlyClearedLeaves, ReleasesAreContained,
           FilesStayInside, RefusedReleaseLeavesNothing
<1> QED BY <1>3, <1>4, <1>5, <1>6, <1>7 DEF SurfacesInv

LEMMA CallAttachInv == ASSUME SurfacesInv, CallAttach PROVE SurfacesInv'
<1> USE DEF exports
<1>1. PICK c \in DOMAIN Callers, id \in Ids :
        /\ Readable(world, c, id)
        /\ \E text \in SUBSET registers[id].sources \ {{}} :
              syscall' = [at |-> "put", id |-> id, address |-> <<id, text>>]
    BY DEF CallAttach
<1>2. PICK text \in SUBSET registers[id].sources :
        syscall' = [at |-> "put", id |-> id, address |-> <<id, text>>]
    BY <1>1
<1>3. Count /\ UNCHANGED <<registers, tasks, labels, exports, submitted, copies, shown, cutShort>>
    BY DEF CallAttach
<1>4. id \in DOMAIN registers
    BY <1>1 DEF Readable, world
<1>5. registers[id].sources \subseteq DOMAIN Objects
    BY <1>4, RegisterFields DEF SurfacesInv, RegistersAreSound, Sound
<1>6. RowsAreCounted'
    BY <1>3, Counting DEF SurfacesInv
<1>7. CallsAreChecked'
    <2>1. <<id, text>> \in Address /\ <<id, text>>[2] \subseteq registers[id].sources
        BY <1>5 DEF Address
    <2> QED BY <1>2, <1>3, <1>4, <2>1 DEF CallsAreChecked
<1>8. RegistersAreSound' /\ EnvelopesAreSound' /\ CopiesAreSound' /\ ShownIsCleared' /\ ReleasesAreContained'
    BY <1>3 DEF SurfacesInv, RegistersAreSound, EnvelopesAreSound, CopiesAreSound, ShownIsCleared,
                OnlyClearedLeaves, ReleasesAreContained, FilesStayInside, RefusedReleaseLeavesNothing
<1> QED BY <1>6, <1>7, <1>8 DEF SurfacesInv

\* The envelope gets the label of the register, which covers the text drafted from it;
\* the same bytes put before are covered anew.
LEMMA PutArtefactInv == ASSUME SurfacesInv, PutArtefact PROVE SurfacesInv'
<1> DEFINE a == syscall.address
           id == syscall.id
<1> USE DEF exports
<1>1. /\ labels' = With(labels, a, registers[id].label)
      /\ syscall.at = "put" /\ syscall' = [syscall EXCEPT !.at = "row"]
      /\ UNCHANGED <<registers, tasks, exports, submitted, copies, shown, syscalls, cutShort>>
    BY DEF PutArtefact
<1>2. /\ syscall \in [at : {"put", "row"}, id : DOMAIN registers, address : Address]
      /\ a[2] \subseteq registers[id].sources
    BY <1>1 DEF SurfacesInv, CallsAreChecked, NoCall
<1>3. a \in Address /\ id \in DOMAIN registers
    BY <1>2
<1>4. registers[id] \in Register /\ Covers(registers[id].label, registers[id].sources)
    BY <1>3 DEF SurfacesInv, RegistersAreSound, Sound
<1>5. registers[id].label \in Label /\ Covers(registers[id].label, a[2])
    BY <1>2, <1>4, RegisterFields DEF Covers
<1>6. syscall' \in [at : {"put", "row"}, id : DOMAIN registers, address : Address]
      /\ syscall'.at = "row" /\ syscall'.address = a
    BY <1>1, <1>2
<1> HIDE DEF a, id
<1>7. /\ DOMAIN labels' = DOMAIN labels \cup {a} /\ labels'[a] = registers[id].label
      /\ \A b \in DOMAIN labels : b # a => labels'[b] = labels[b]
    BY <1>1 DEF With
<1>8. RowsAreCounted'
    BY <1>1 DEF SurfacesInv, RowsAreCounted
<1>9. RegistersAreSound' /\ CopiesAreSound'
    <2>1. DOMAIN labels \subseteq DOMAIN labels'
        BY <1>7
    <2>2. RegistersAreSound'
        BY <1>1, <2>1, SoundMore DEF SurfacesInv, RegistersAreSound
    <2>3. CopiesAreSound'
        BY <1>1, <2>1, SoundMore DEF SurfacesInv, CopiesAreSound
    <2> QED BY <2>2, <2>3
<1>10. EnvelopesAreSound'
    BY <1>3, <1>5, <1>7 DEF SurfacesInv, EnvelopesAreSound
<1>11. CallsAreChecked'
    BY <1>1, <1>6, <1>7 DEF CallsAreChecked
<1>12. ShownIsCleared' /\ ReleasesAreContained'
    BY <1>1 DEF SurfacesInv, ShownIsCleared, OnlyClearedLeaves, ReleasesAreContained,
                FilesStayInside, RefusedReleaseLeavesNothing
<1> QED BY <1>8, <1>9, <1>10, <1>11, <1>12 DEF SurfacesInv

\* The register lists the artefact once it is there.
LEMMA AttachRowInv == ASSUME SurfacesInv, AttachRow PROVE SurfacesInv'
<1> DEFINE id == syscall.id
           new == [address |-> syscall.address, kind |-> "plain"]
           w == [registers[id] EXCEPT !.artefacts = Append(registers[id].artefacts, new)]
<1> USE DEF exports
<1>1. /\ registers' = [registers EXCEPT ![id] = w]
      /\ syscall.at = "row" /\ syscall' = NoCall
      /\ UNCHANGED <<tasks, labels, exports, submitted, copies, shown, syscalls, cutShort>>
    BY DEF AttachRow
<1>2. /\ syscall \in [at : {"put", "row"}, id : DOMAIN registers, address : Address]
      /\ syscall.address \in DOMAIN labels
    BY <1>1 DEF SurfacesInv, CallsAreChecked, NoCall
<1>3. id \in DOMAIN registers /\ new \in Artefact /\ new.address \in DOMAIN labels
    BY <1>2 DEF Artefact, ArtefactKinds
<1>4. Sound(registers[id], DOMAIN labels) /\ registers[id] \in Register
    BY <1>3 DEF SurfacesInv, RegistersAreSound, Sound
<1>5. registers[id].artefacts \in Seq(Artefact)
    BY <1>4, RegisterFields
<1> HIDE DEF new
<1>6. /\ w \in Register /\ w.label = registers[id].label /\ w.sources = registers[id].sources
      /\ w.artefacts = Append(registers[id].artefacts, new)
    <2>1. Append(registers[id].artefacts, new) \in Seq(Artefact)
        BY <1>3, <1>5
    <2> QED BY <1>4, <2>1 DEF Register
<1> HIDE DEF w, id
<1>7. Sound(w, DOMAIN labels)
    <2>1. \A i \in DOMAIN w.artefacts :
             \/ w.artefacts[i] = new
             \/ i \in DOMAIN registers[id].artefacts /\ w.artefacts[i] = registers[id].artefacts[i]
        BY <1>5, <1>6
    <2> QED BY <1>3, <1>4, <1>6, <2>1 DEF Sound
<1>8. /\ DOMAIN registers' = DOMAIN registers
      /\ \A x \in DOMAIN registers : registers'[x] = registers[x] \/ registers'[x] = w
    BY <1>1, <1>3
<1>9. RowsAreCounted' /\ RegistersAreSound' /\ CopiesAreSound'
    BY <1>1, <1>7, <1>8 DEF SurfacesInv, RowsAreCounted, RegistersAreSound, CopiesAreSound
<1>10. CallsAreChecked' /\ EnvelopesAreSound' /\ ShownIsCleared' /\ ReleasesAreContained'
    BY <1>1 DEF SurfacesInv, CallsAreChecked, EnvelopesAreSound, ShownIsCleared, OnlyClearedLeaves,
                ReleasesAreContained, FilesStayInside, RefusedReleaseLeavesNothing
<1> QED BY <1>9, <1>10 DEF SurfacesInv

\* What an envelope lets out is what its label covers.
LEMMA ArtefactIsCleared ==
    ASSUME SurfacesInv, NEW c \in DOMAIN Callers, NEW a, MayRead(c, a), Show(a[2], c)
    PROVE  ShownIsCleared'
<1>1. a \in DOMAIN labels /\ FlowsTo(labels[a], Callers[c])
    BY DEF MayRead
<1>2. labels[a] \in Label /\ Covers(labels[a], a[2]) /\ a[2] \subseteq DOMAIN Objects
    BY <1>1 DEF SurfacesInv, EnvelopesAreSound, Address
<1> QED BY <1>1, <1>2, ShowIsCleared DEF SurfacesInv

LEMMA ReadArtefactInv == ASSUME SurfacesInv, NEW c \in DOMAIN Callers, ReadArtefact(c) PROVE SurfacesInv'
<1> USE DEF exports
<1>1. PICK a \in DOMAIN labels : MayRead(c, a) /\ Show(a[2], c)
    BY DEF ReadArtefact
<1>2. UNCHANGED <<registers, tasks, labels, exports, submitted, syscall, copies, syscalls, cutShort>>
    BY DEF ReadArtefact
<1>3. ShownIsCleared'
    BY <1>1, ArtefactIsCleared
<1>4. RowsAreCounted' /\ RegistersAreSound' /\ EnvelopesAreSound' /\ CopiesAreSound' /\ CallsAreChecked'
    BY <1>2 DEF SurfacesInv, RowsAreCounted, RegistersAreSound, EnvelopesAreSound, CopiesAreSound, CallsAreChecked
<1>5. ReleasesAreContained'
    BY <1>2 DEF SurfacesInv, ReleasesAreContained, FilesStayInside, RefusedReleaseLeavesNothing
<1> QED BY <1>3, <1>4, <1>5 DEF SurfacesInv

\* Destination and every name are judged before the first trace of a release.
LEMMA CallReleaseInv == ASSUME SurfacesInv, CallRelease PROVE SurfacesInv'
<1>1. PICK c \in DOMAIN Callers, t \in Ids, dir \in Dests :
         /\ Readable(world, c, t)
         /\ ReleaseDest(dir)
         /\ \A i \in DOMAIN registers[t].artefacts : FileName(registers[t].artefacts[i].kind)
         /\ syscall' = [at |-> "directory", caller |-> c, dir |-> dir,
                        artefacts |-> registers[t].artefacts]
         /\ releases' = releases \cup {[dir |-> dir, artefacts |-> registers[t].artefacts]}
    BY DEF CallRelease
<1>2. Count /\ UNCHANGED <<registers, tasks, labels, directories, files, submitted, copies, shown, cutShort>>
    BY DEF CallRelease
<1>3. registers[t].artefacts \in Seq(Artefact)
    BY <1>1, RegisterFields DEF Readable, world, SurfacesInv, RegistersAreSound, Sound
<1>4. RowsAreCounted'
    BY <1>2, Counting DEF SurfacesInv
<1>5. RegistersAreSound' /\ EnvelopesAreSound' /\ CopiesAreSound' /\ ShownIsCleared'
    BY <1>2 DEF SurfacesInv, RegistersAreSound, EnvelopesAreSound, CopiesAreSound, ShownIsCleared, OnlyClearedLeaves
<1> DEFINE new == [dir |-> dir, artefacts |-> registers[t].artefacts]
<1>6. /\ new.dir = dir /\ \A i \in DOMAIN new.artefacts : FileName(new.artefacts[i].kind)
      /\ releases' = releases \cup {new}
    BY <1>1
<1>7. CallsAreChecked'
    <2> DEFINE s == [at |-> "directory", caller |-> c, dir |-> dir, artefacts |-> registers[t].artefacts]
    <2>1. s \in [at : {"directory", "file"}, caller : DOMAIN Callers, dir : Dests, artefacts : Seq(Artefact)]
        BY <1>3
    <2>2. /\ s.dir = dir /\ s.at = "directory" /\ s.artefacts = registers[t].artefacts /\ syscall' = s
        BY <1>1
    <2> HIDE DEF s, new
    <2>3. \E r \in releases' : r.dir = syscall'.dir
        BY <1>6, <2>2
    <2> QED BY <1>1, <2>1, <2>2, <2>3 DEF CallsAreChecked
<1> HIDE DEF new
<1>8. ReleasesAreContained'
    <2>1. FilesStayInside'
        BY <1>2 DEF SurfacesInv, ReleasesAreContained, FilesStayInside
    <2>2. RefusedReleaseLeavesNothing'
        BY <1>1, <1>2, <1>6 DEF SurfacesInv, ReleasesAreContained, RefusedReleaseLeavesNothing
    <2> QED BY <2>1, <2>2 DEF ReleasesAreContained
<1> QED BY <1>4, <1>5, <1>7, <1>8 DEF SurfacesInv

\* What a release under way goes by.
LEMMA Releasing ==
    ASSUME SurfacesInv, syscall.at \in {"directory", "file"}
    PROVE  /\ syscall \in [at : {"directory", "file"}, caller : DOMAIN Callers, dir : Dests,
                           artefacts : Seq(Artefact)]
           /\ syscall.caller \in DOMAIN Callers /\ syscall.dir \in Dests
           /\ syscall.artefacts \in Seq(Artefact)
           /\ ReleaseDest(syscall.dir)
           /\ \A i \in DOMAIN syscall.artefacts : FileName(syscall.artefacts[i].kind)
           /\ \E r \in releases : r.dir = syscall.dir
           /\ syscall.at = "file" => syscall.artefacts # <<>>
BY DEF SurfacesInv, CallsAreChecked, NoCall

LEMMA MakeDirectoryInv == ASSUME SurfacesInv, MakeDirectory PROVE SurfacesInv'
<1> USE DEF MakeDirectory
<1>1. /\ syscall \in [at : {"directory", "file"}, caller : DOMAIN Callers, dir : Dests,
                      artefacts : Seq(Artefact)]
      /\ syscall.dir \in Dests /\ ReleaseDest(syscall.dir)
      /\ \A i \in DOMAIN syscall.artefacts : FileName(syscall.artefacts[i].kind)
      /\ \E r \in releases : r.dir = syscall.dir
    BY Releasing
<1>2. RowsAreCounted' /\ RegistersAreSound' /\ EnvelopesAreSound' /\ CopiesAreSound' /\ ShownIsCleared'
    BY DEF SurfacesInv, RowsAreCounted, RegistersAreSound, EnvelopesAreSound, CopiesAreSound,
           ShownIsCleared, OnlyClearedLeaves
<1>3. CallsAreChecked'
    <2>1. CASE syscall.artefacts = <<>>
        BY <2>1 DEF CallsAreChecked
    <2>2. CASE syscall.artefacts # <<>>
        <3>1. syscall' = [syscall EXCEPT !.at = "file"]
            BY <2>2
        <3>2. /\ syscall' \in [at : {"directory", "file"}, caller : DOMAIN Callers, dir : Dests,
                               artefacts : Seq(Artefact)]
              /\ syscall'.dir = syscall.dir /\ syscall'.artefacts = syscall.artefacts
            BY <1>1, <3>1
        <3> QED BY <1>1, <2>2, <3>2 DEF CallsAreChecked
    <2> QED BY <2>1, <2>2
<1>4. FilesStayInside'
    <2>1. StaysInside(syscall.dir)
        BY <1>1, ReleaseStaysInside
    <2> QED BY <2>1 DEF SurfacesInv, ReleasesAreContained, FilesStayInside
<1>5. RefusedReleaseLeavesNothing'
    BY <1>1 DEF SurfacesInv, ReleasesAreContained, RefusedReleaseLeavesNothing
<1> QED BY <1>2, <1>3, <1>4, <1>5 DEF SurfacesInv, ReleasesAreContained

\* Each file is judged by its own envelope again.
LEMMA WriteFileInv == ASSUME SurfacesInv, WriteFile PROVE SurfacesInv'
<1> DEFINE a == Head(syscall.artefacts)
<1>1. /\ syscall.at = "file"
      /\ \/ /\ MayRead(syscall.caller, a.address)
            /\ files' = files \cup {syscall.dir \o NameParts(a.kind)}
            /\ Show(a.address[2], syscall.caller)
            /\ syscall' = IF Len(syscall.artefacts) = 1 THEN NoCall
                          ELSE [syscall EXCEPT !.artefacts = Tail(syscall.artefacts)]
         \/ syscall' = NoCall /\ UNCHANGED <<files, shown>>
      /\ UNCHANGED <<registers, tasks, labels, releases, directories, submitted, copies, syscalls, cutShort>>
    BY DEF WriteFile
<1>2. /\ syscall \in [at : {"directory", "file"}, caller : DOMAIN Callers, dir : Dests,
                      artefacts : Seq(Artefact)]
      /\ syscall.caller \in DOMAIN Callers /\ syscall.dir \in Dests /\ ReleaseDest(syscall.dir)
      /\ syscall.artefacts \in Seq(Artefact) /\ syscall.artefacts # <<>>
      /\ \A i \in DOMAIN syscall.artefacts : FileName(syscall.artefacts[i].kind)
      /\ \E r \in releases : r.dir = syscall.dir
    BY <1>1, Releasing
<1>3. FileName(a.kind)
    BY <1>2
<1>4. /\ Tail(syscall.artefacts) \in Seq(Artefact)
      /\ \A i \in DOMAIN Tail(syscall.artefacts) : FileName(Tail(syscall.artefacts)[i].kind)
      /\ Len(syscall.artefacts) # 1 => Tail(syscall.artefacts) # <<>>
    <2>1. /\ Tail(syscall.artefacts) \in Seq(Artefact)
          /\ Len(Tail(syscall.artefacts)) = Len(syscall.artefacts) - 1
          /\ \A i \in DOMAIN Tail(syscall.artefacts) :
                i + 1 \in DOMAIN syscall.artefacts /\ Tail(syscall.artefacts)[i] = syscall.artefacts[i + 1]
        BY <1>2
    <2>2. \A i \in DOMAIN Tail(syscall.artefacts) : FileName(Tail(syscall.artefacts)[i].kind)
        BY <1>2, <2>1
    <2>3. Len(syscall.artefacts) # 1 => Tail(syscall.artefacts) # <<>>
        <3>1. Len(syscall.artefacts) \in Nat /\ Len(<<>>) = 0
            BY <1>2
        <3>2. Len(Tail(syscall.artefacts)) = 0 => Len(syscall.artefacts) = 1
            BY <2>1, <3>1
        <3> QED BY <3>1, <3>2
    <2> QED BY <2>1, <2>2, <2>3
<1> HIDE DEF a
<1>5. RowsAreCounted' /\ RegistersAreSound' /\ EnvelopesAreSound' /\ CopiesAreSound'
    BY <1>1 DEF SurfacesInv, RowsAreCounted, RegistersAreSound, EnvelopesAreSound, CopiesAreSound
<1>6. CallsAreChecked'
    <2>1. CASE syscall' = NoCall
        BY <2>1 DEF CallsAreChecked
    <2>2. CASE Len(syscall.artefacts) # 1 /\ syscall' = [syscall EXCEPT !.artefacts = Tail(syscall.artefacts)]
        <3>1. /\ syscall' \in [at : {"directory", "file"}, caller : DOMAIN Callers, dir : Dests,
                               artefacts : Seq(Artefact)]
              /\ syscall'.dir = syscall.dir /\ syscall'.artefacts = Tail(syscall.artefacts)
            BY <1>2, <1>4, <2>2
        <3> QED BY <1>1, <1>2, <1>4, <2>2, <3>1 DEF CallsAreChecked
    <2> QED BY <1>1, <2>1, <2>2
<1>7. ShownIsCleared'
    <2>1. CASE UNCHANGED shown
        BY <2>1 DEF SurfacesInv, ShownIsCleared, OnlyClearedLeaves
    <2>2. CASE MayRead(syscall.caller, a.address) /\ Show(a.address[2], syscall.caller)
        BY <1>2, <2>2, ArtefactIsCleared
    <2> QED BY <1>1, <2>1, <2>2
<1>8. FilesStayInside'
    <2>1. StaysInside(syscall.dir \o NameParts(a.kind))
        BY <1>2, <1>3, ReleaseStaysInside
    <2> QED BY <1>1, <2>1 DEF SurfacesInv, ReleasesAreContained, FilesStayInside
<1>9. RefusedReleaseLeavesNothing'
    BY <1>1 DEF SurfacesInv, ReleasesAreContained, RefusedReleaseLeavesNothing
<1> QED BY <1>5, <1>6, <1>7, <1>8, <1>9 DEF SurfacesInv, ReleasesAreContained

LEMMA CutShortInv == ASSUME SurfacesInv, CutShort PROVE SurfacesInv'
<1> USE DEF CutShort, exports
<1>1. RowsAreCounted'
    BY SurfacesAssumption DEF SurfacesInv, RowsAreCounted
<1>2. RegistersAreSound' /\ EnvelopesAreSound' /\ CopiesAreSound' /\ CallsAreChecked'
    BY DEF SurfacesInv, RegistersAreSound, EnvelopesAreSound, CopiesAreSound, CallsAreChecked
<1>3. ShownIsCleared' /\ ReleasesAreContained'
    BY DEF SurfacesInv, ShownIsCleared, OnlyClearedLeaves, ReleasesAreContained,
           FilesStayInside, RefusedReleaseLeavesNothing
<1> QED BY <1>1, <1>2, <1>3 DEF SurfacesInv

LEMMA SurfacesStep == SurfacesInv /\ [SurfacesNext]_surfaceVars => SurfacesInv'
<1> SUFFICES ASSUME SurfacesInv, [SurfacesNext]_surfaceVars PROVE SurfacesInv'
    OBVIOUS
<1>1. CASE SubmitTask \/ CreateTask \/ CallAttach \/ PutArtefact \/ AttachRow
    BY <1>1, SubmitTaskInv, CreateTaskInv, CallAttachInv, PutArtefactInv, AttachRowInv
<1>2. ASSUME NEW c \in DOMAIN Callers,
             ReadRegister(c) \/ ReadOther(c) \/ EditKind(c) \/ WriteRegister(c) \/ ReadArtefact(c)
      PROVE  SurfacesInv'
    BY <1>2, ReadRegisterInv, ReadOtherInv, EditKindInv, WriteRegisterInv, ReadArtefactInv
<1>3. CASE CallRelease \/ MakeDirectory \/ WriteFile \/ CutShort
    BY <1>3, CallReleaseInv, MakeDirectoryInv, WriteFileInv, CutShortInv
<1>4. CASE UNCHANGED surfaceVars
    <2> USE <1>4 DEF surfaceVars, exports
    <2>1. RowsAreCounted' /\ RegistersAreSound' /\ EnvelopesAreSound' /\ CopiesAreSound' /\ CallsAreChecked'
        BY DEF SurfacesInv, RowsAreCounted, RegistersAreSound, EnvelopesAreSound, CopiesAreSound, CallsAreChecked
    <2>2. ShownIsCleared' /\ ReleasesAreContained'
        BY DEF SurfacesInv, ShownIsCleared, OnlyClearedLeaves, ReleasesAreContained,
               FilesStayInside, RefusedReleaseLeavesNothing
    <2> QED BY <2>1, <2>2 DEF SurfacesInv
<1> QED BY <1>1, <1>2, <1>3, <1>4 DEF SurfacesNext

LEMMA SurfacesInvariant == SurfacesSpec => []SurfacesInv
BY SurfacesInitInv, SurfacesStep, PTL DEF SurfacesSpec

\* Every row and envelope is there, typed, and labelled for all that is in it, however
\* stale the copy that was written back and however often the same bytes were put.
THEOREM RowsLabelled == SurfacesSpec => []RowsAreLabelled
<1>1. SurfacesInv => RowsAreLabelled
    <2> SUFFICES ASSUME SurfacesInv PROVE SurfacesTypeOK /\ LabelsCover
        BY DEF RowsAreLabelled
    <2>1. \A id \in DOMAIN registers :
             /\ registers[id].label \in Label /\ registers[id].sources \subseteq DOMAIN Objects
             /\ Covers(registers[id].label, registers[id].sources)
             /\ \A i \in DOMAIN registers[id].artefacts : registers[id].artefacts[i].address \in DOMAIN labels
        BY RegisterFields DEF SurfacesInv, RegistersAreSound, Sound
    <2>2. SurfacesTypeOK
        BY <2>1 DEF SurfacesInv, RowsAreCounted, EnvelopesAreSound, SurfacesTypeOK
    <2>3. LabelsCover
        BY <2>1 DEF SurfacesInv, EnvelopesAreSound, LabelsCover
    <2> QED BY <2>2, <2>3
<1> QED BY <1>1, SurfacesInvariant, PTL

\* A release writes under the export root, and only if the kernel accepted all of it.
THEOREM ReleasesContained == SurfacesSpec => []ReleasesAreContained
<1>1. SurfacesInv => ReleasesAreContained
    BY DEF SurfacesInv
<1> QED BY <1>1, SurfacesInvariant, PTL

\* What a caller is answered is the same with and without the tasks it may not see.
LEMMA AnswersHide == ASSUME NEW c \in DOMAIN Callers PROVE Answers(world, c) = Answers(Without(world, c), c)
<1> DEFINE v == Without(world, c)
           Left == {t \in DOMAIN registers : Readable(world, c, t)}
<1>1. world.registers = registers /\ world.tasks = tasks
    BY DEF world
<1>2. /\ DOMAIN v.registers = Left
      /\ \A t \in Left : v.registers[t] = registers[t]
      /\ DOMAIN v.tasks = DOMAIN tasks \cap Left
      /\ \A t \in DOMAIN tasks \cap Left : v.tasks[t] = tasks[t]
    BY DEF Without, world
<1>3. \A t : t \in Left <=> t \in DOMAIN registers /\ FlowsTo(registers[t].label, Callers[c])
    BY DEF Readable, world
<1> HIDE DEF v, Left
<1>4. \A t : (VisibleTo(world, c, t) <=> t \in Left) /\ (VisibleTo(v, c, t) <=> t \in Left)
    BY <1>1, <1>2, <1>3 DEF VisibleTo
<1>5. Tasks(world, c) = DOMAIN tasks \cap Left /\ Tasks(v, c) = DOMAIN tasks \cap Left
    BY <1>1, <1>2, <1>4 DEF Tasks
<1>6. Top(world, c) = Top(v, c)
    BY <1>1, <1>2, <1>5 DEF Top
<1>7. \A t : Task(world, c, t) = Task(v, c, t)
    BY <1>1, <1>2, <1>4 DEF Task, TaskRow
<1>8. ASSUME NEW t PROVE ApprovalSubject(world, c, t) = ApprovalSubject(v, c, t)
    <2>1. CASE Task(world, c, t) = {}
        BY <1>7, <2>1 DEF ApprovalSubject
    <2>2. CASE Task(world, c, t) # {}
        <3>1. t \in DOMAIN tasks \cap Left
            BY <1>1, <1>4, <2>2 DEF Task, TaskRow
        <3>2. v.tasks[t] = world.tasks[t] /\ v.registers[t] = world.registers[t]
            BY <1>1, <1>2, <3>1
        <3> QED BY <1>7, <3>2 DEF ApprovalSubject
    <2> QED BY <2>1, <2>2
<1>9. Answers(world, c) = Answers(v, c)
    BY <1>5, <1>6, <1>7, <1>8 DEF Answers, ResolveTasks, ResolveTask
<1> QED BY <1>9 DEF v

\* I2: nothing made from an object reaches a caller who may not see it, by whatever
\* registers, envelopes and releases it went, and a hidden task answers like none.
THEOREM CallersSeeOnlyTheirs == SurfacesSpec => []CallersSeeTheirOwn
<1>1. SurfacesInv => CallersSeeTheirOwn
    BY AnswersHide DEF SurfacesInv, ShownIsCleared, CallersSeeTheirOwn, HiddenIsAbsent
<1> QED BY <1>1, SurfacesInvariant, PTL
=============================================================================
