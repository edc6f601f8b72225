---------------------------- MODULE SyscallProofs ----------------------------
(***************************************************************************)
(* Theorems about two things that go through the daemon's syscalls.        *)
(* Presence: for any number of threads, challenges and devices, a nonce    *)
(* makes at most one request human, and only in time, and the map keeps    *)
(* what it should.  Inference: what a projection does to a prompt, of any  *)
(* register and budget; the order of an inference's effects; what is       *)
(* mounted across restarts; and the label check and the honesty of every   *)
(* prompt that leaves.  The lemmas between the two are about the operators *)
(* of Projection: sums over sets of lines, lines put in an order, units    *)
(* tried one by one, the digits of a marker, sections put together.        *)
(***************************************************************************)
EXTENDS Presence, Inference, FiniteSetTheorems, NaturalsInduction, SequenceTheorems,
        WellFoundedInduction, TLAPS

-----------------------------------------------------------------------------
(* Presence *)

\* A request that has been granted its proof and waits for the kernel.
Granted(s) == task[s].stage = "kernel" /\ task[s].nonce # None

\* What a thread knows: its clock is no later than the wall's, the nonce it brings was
\* issued; and a granted nonce is spent, in its time, and was not acted on.
RequestsAreSound ==
    \A s \in Slots :
        /\ task[s] # Free => task[s].now <= wall
        /\ task[s].stage = "spend" => task[s].nonce \in DOMAIN issued
        /\ Granted(s) => /\ task[s].nonce \in spent
                         /\ acted[task[s].nonce] = 0
                         /\ task[s].now < issued[task[s].nonce]

\* One nonce is granted to one thread.
GrantsAreSole == \A s, t \in Slots :
    Granted(s) /\ Granted(t) /\ task[s].nonce = task[t].nonce => s = t

ActedIsSpent == \A n \in Nonces : acted[n] > 0 => n \in spent

\* The inductive invariant.
PresenceInv ==
    /\ PresenceTypeOK
    /\ MapIsBounded
    /\ ShownIsSpent
    /\ UnexpiredIsAnswerable
    /\ OneActPerNonce
    /\ RequestsAreSound
    /\ GrantsAreSole
    /\ ActedIsSpent

-----------------------------------------------------------------------------
(* What holds of the bookkeeping. *)

LEMMA Counting ==
    ASSUME PresenceTypeOK
    PROVE  /\ IsFiniteSet(DOMAIN issued) /\ IsFiniteSet(DOMAIN open)
           /\ Cardinality(DOMAIN issued) \in 0..MaxNonces
           /\ DOMAIN issued = 1..Cardinality(DOMAIN issued)
           /\ DOMAIN issued \subseteq Nonces
<1> USE PresenceAssumption
<1>1. PICK k \in 0..MaxNonces : DOMAIN issued = 1..k
    BY DEF PresenceTypeOK
<1>2. IsFiniteSet(1..k) /\ Cardinality(1..k) = k
    BY <1>1, FS_Interval
<1>3. IsFiniteSet(DOMAIN open)
    BY <1>1, <1>2, FS_Subset DEF PresenceTypeOK
<1> QED BY <1>1, <1>2, <1>3 DEF Nonces

\* The threads of PresenceTypeOK, one by one.
LEMMA Threads ==
    ASSUME PresenceTypeOK, NEW s \in Slots
    PROVE  /\ task[s] \in Request \cup {Free}
           /\ task[s].stage \in {"free", "issue", "spend", "refused", "kernel"}
           /\ task[s] = Free <=> task[s].stage = "free"
           /\ task[s] # Free => task[s] \in Request
BY DEF PresenceTypeOK, Request, Free

LEMMA InvInit == PresenceInit => PresenceInv
<1> SUFFICES ASSUME PresenceInit PROVE PresenceInv
    OBVIOUS
<1> USE PresenceAssumption
<1>1. DOMAIN issued = {} /\ DOMAIN open = {} /\ DOMAIN signed = {}
    BY DEF PresenceInit, NoMap
<1>2. PresenceTypeOK
    <2>1. 1..0 = {} /\ 0 \in 0..MaxNonces
        OBVIOUS
    <2>2. DOMAIN issued \in {1..k : k \in 0..MaxNonces}
        BY <1>1, <2>1
    <2> QED BY <1>1, <2>2 DEF PresenceInit, PresenceTypeOK, Times
<1>3. MapIsBounded
    BY <1>1, FS_EmptySet DEF MapIsBounded
<1>4. ShownIsSpent /\ UnexpiredIsAnswerable
    BY <1>1 DEF PresenceInit, ShownIsSpent, UnexpiredIsAnswerable
<1>5. OneActPerNonce /\ ActedIsSpent
    BY DEF PresenceInit, OneActPerNonce, ActedIsSpent
<1>6. RequestsAreSound /\ GrantsAreSole
    BY DEF PresenceInit, RequestsAreSound, GrantsAreSole, Granted, Free
<1> QED BY <1>2, <1>3, <1>4, <1>5, <1>6 DEF PresenceInv

-----------------------------------------------------------------------------
(* One lemma per action. *)

LEMMA TickKeeps == PresenceInv /\ Tick => PresenceInv'
<1> SUFFICES ASSUME PresenceInv, Tick PROVE PresenceInv'
    OBVIOUS
<1> USE PresenceAssumption
<1>1. PresenceTypeOK'
    BY DEF PresenceInv, PresenceTypeOK, Tick, Times
<1>2. MapIsBounded' /\ ShownIsSpent' /\ OneActPerNonce' /\ ActedIsSpent' /\ GrantsAreSole'
    BY DEF PresenceInv, Tick, MapIsBounded, ShownIsSpent, OneActPerNonce, ActedIsSpent, GrantsAreSole, Granted
<1>3. UnexpiredIsAnswerable'
    BY DEF PresenceInv, PresenceTypeOK, Tick, Times, UnexpiredIsAnswerable
<1>4. RequestsAreSound'
    <2> SUFFICES ASSUME NEW s \in Slots, task[s] # Free PROVE task[s].now <= wall + 1
        BY DEF PresenceInv, Tick, RequestsAreSound, Granted
    <2>1. task[s].now <= wall /\ task[s].now \in Times /\ wall \in Times
        BY Threads DEF PresenceInv, PresenceTypeOK, RequestsAreSound, Request
    <2> QED BY <2>1 DEF Times
<1> QED BY <1>1, <1>2, <1>3, <1>4 DEF PresenceInv

\* A thread takes a request that is not granted anything yet.
LEMMA TakeKeeps ==
    ASSUME PresenceInv, NEW s \in Slots, NEW stage \in {"issue", "spend", "kernel"},
           NEW method \in Methods \cup {"challenge"}, NEW nonce \in Nonces \cup {None},
           stage = "kernel" => nonce = None,
           stage = "spend" => nonce \in DOMAIN issued,
           Take(s, stage, method, nonce),
           DOMAIN signed' \subseteq DOMAIN issued, \A n \in DOMAIN signed' : signed'[n] \in Devices
    PROVE  PresenceInv'
<1> USE PresenceAssumption
<1> DEFINE r == [stage |-> stage, method |-> method, nonce |-> nonce, now |-> wall]
<1>1. r \in Request /\ r # Free
    BY DEF Request, Free, PresenceInv, PresenceTypeOK
<1>2. /\ task'[s] = r
      /\ \A t \in Slots \ {s} : task'[t] = task[t]
      /\ task' \in [Slots -> Request \cup {Free}]
    BY <1>1 DEF Take, PresenceInv, PresenceTypeOK
<1>3. PresenceTypeOK'
    BY <1>2 DEF PresenceInv, PresenceTypeOK, Take
<1>4. MapIsBounded' /\ ShownIsSpent' /\ OneActPerNonce' /\ ActedIsSpent' /\ UnexpiredIsAnswerable'
    BY DEF PresenceInv, Take, MapIsBounded, ShownIsSpent, OneActPerNonce, ActedIsSpent, UnexpiredIsAnswerable
<1>5. \A t \in Slots : Granted(t)' => t # s /\ Granted(t)
    BY <1>2 DEF Granted
<1>6. GrantsAreSole'
    BY <1>2, <1>5 DEF PresenceInv, GrantsAreSole
<1>7. RequestsAreSound'
    <2> SUFFICES ASSUME NEW t \in Slots
                 PROVE  /\ task'[t] # Free => task'[t].now <= wall
                        /\ task'[t].stage = "spend" => task'[t].nonce \in DOMAIN issued
                        /\ Granted(t)' => /\ task'[t].nonce \in spent
                                          /\ acted[task'[t].nonce] = 0
                                          /\ task'[t].now < issued[task'[t].nonce]
        BY DEF RequestsAreSound, Take
    <2>1. CASE t = s
        BY <2>1, <1>2, <1>5 DEF PresenceInv, PresenceTypeOK, Times
    <2>2. CASE t # s
        BY <2>2, <1>2, <1>5 DEF PresenceInv, RequestsAreSound
    <2> QED BY <2>1, <2>2
<1> QED BY <1>3, <1>4, <1>6, <1>7 DEF PresenceInv

LEMMA PresentKeeps ==
    ASSUME PresenceInv, NEW s \in Slots, NEW n \in Nonces, NEW method \in Methods, Present(s, n, method)
    PROVE  PresenceInv'
<1>1. PICK d \in IF n \in DOMAIN signed THEN {signed[n]} ELSE Devices : signed' = With(signed, n, d)
    BY DEF Present
<1>2. n \in DOMAIN issued /\ Take(s, "spend", method, n)
    BY DEF Present
<1>3. d \in Devices
    BY <1>1 DEF PresenceInv, PresenceTypeOK
<1>4. DOMAIN signed' \subseteq DOMAIN issued /\ \A m \in DOMAIN signed' : signed'[m] \in Devices
    BY <1>1, <1>2, <1>3 DEF With, PresenceInv, PresenceTypeOK
<1> QED BY <1>2, <1>4, TakeKeeps

LEMMA AskKeeps ==
    ASSUME PresenceInv, NEW s \in Slots, AskChallenge(s) \/ SendBare(s)
    PROVE  PresenceInv'
<1>1. DOMAIN signed' \subseteq DOMAIN issued /\ \A m \in DOMAIN signed' : signed'[m] \in Devices
    BY DEF AskChallenge, SendBare, PresenceInv, PresenceTypeOK
<1>2. CASE AskChallenge(s)
    <2>1. Take(s, "issue", "challenge", None)
        BY <1>2 DEF AskChallenge
    <2> QED BY <2>1, <1>1, TakeKeeps
<1>3. CASE SendBare(s)
    <2>1. Take(s, "kernel", "act", None)
        BY <1>3 DEF SendBare
    <2>2. "act" \in Methods
        BY DEF Methods
    <2> QED BY <2>1, <2>2, <1>1, TakeKeeps
<1> QED BY <1>2, <1>3

\* A thread that answers holds nothing.
LEMMA AnswerFrees ==
    ASSUME PresenceInv, NEW s \in Slots, Answer(s)
    PROVE  /\ task' \in [Slots -> Request \cup {Free}]
           /\ task'[s] = Free
           /\ \A t \in Slots \ {s} : task'[t] = task[t]
           /\ \A t \in Slots : Granted(t)' => t # s /\ Granted(t)
           /\ GrantsAreSole'
<1>1. /\ task' \in [Slots -> Request \cup {Free}]
      /\ task'[s] = Free
      /\ \A t \in Slots \ {s} : task'[t] = task[t]
    BY DEF Answer, PresenceInv, PresenceTypeOK
<1>2. \A t \in Slots : Granted(t)' => t # s /\ Granted(t)
    BY <1>1 DEF Granted, Free
<1>3. GrantsAreSole'
    BY <1>1, <1>2 DEF PresenceInv, GrantsAreSole
<1> QED BY <1>1, <1>2, <1>3

LEMMA RefuseKeeps ==
    ASSUME PresenceInv, NEW s \in Slots, Refuse(s)
    PROVE  PresenceInv'
<1>1. Answer(s) /\ UNCHANGED <<wall, open, signed, issued, spent, acted>>
    BY DEF Refuse
<1>2. PresenceTypeOK'
    BY <1>1, AnswerFrees DEF PresenceInv, PresenceTypeOK
<1>3. MapIsBounded' /\ ShownIsSpent' /\ OneActPerNonce' /\ ActedIsSpent' /\ UnexpiredIsAnswerable'
    BY <1>1 DEF PresenceInv, MapIsBounded, ShownIsSpent, OneActPerNonce, ActedIsSpent, UnexpiredIsAnswerable
<1>4. RequestsAreSound'
    BY <1>1, AnswerFrees DEF PresenceInv, RequestsAreSound, Free
<1> QED BY <1>1, <1>2, <1>3, <1>4, AnswerFrees DEF PresenceInv

LEMMA DoActKeeps ==
    ASSUME PresenceInv, NEW s \in Slots, DoAct(s)
    PROVE  PresenceInv'
<1> DEFINE n == task[s].nonce
<1>1. Answer(s) /\ UNCHANGED <<wall, open, signed, issued, spent>>
    BY DEF DoAct
<1>2. Granted(s) /\ n \in Nonces
    BY Threads DEF DoAct, IsHuman, Granted, PresenceInv, Request
<1>3. n \in spent /\ acted[n] = 0
    BY <1>2 DEF PresenceInv, RequestsAreSound
<1>4. /\ acted' \in [Nonces -> Nat] /\ acted'[n] = 1
      /\ \A m \in Nonces \ {n} : acted'[m] = acted[m]
    BY <1>2, <1>3 DEF DoAct, PresenceInv, PresenceTypeOK
<1>5. PresenceTypeOK'
    BY <1>1, <1>4, AnswerFrees DEF PresenceInv, PresenceTypeOK
<1>6. MapIsBounded' /\ ShownIsSpent' /\ UnexpiredIsAnswerable'
    BY <1>1 DEF PresenceInv, MapIsBounded, ShownIsSpent, UnexpiredIsAnswerable
<1>7. OneActPerNonce' /\ ActedIsSpent'
    BY <1>1, <1>3, <1>4 DEF PresenceInv, OneActPerNonce, ActedIsSpent
<1>8. RequestsAreSound'
    <2> SUFFICES ASSUME NEW t \in Slots
                 PROVE  /\ task'[t] # Free => task'[t].now <= wall
                        /\ task'[t].stage = "spend" => task'[t].nonce \in DOMAIN issued
                        /\ Granted(t)' => /\ task'[t].nonce \in spent
                                          /\ acted'[task'[t].nonce] = 0
                                          /\ task'[t].now < issued[task'[t].nonce]
        BY <1>1 DEF RequestsAreSound
    <2>1. CASE t = s
        BY <2>1, <1>1, AnswerFrees DEF Free
    <2>2. CASE t # s
        <3>1. task'[t] = task[t] /\ (Granted(t)' => Granted(t))
            BY <2>2, <1>1, AnswerFrees
        <3>2. Granted(t) => task[t].nonce # n
            BY <2>2, <1>2 DEF PresenceInv, GrantsAreSole
        <3>3. Granted(t) => task[t].nonce \in Nonces
            BY Threads DEF Granted, PresenceInv, Request
        <3> QED BY <3>1, <3>2, <3>3, <1>4 DEF PresenceInv, RequestsAreSound
    <2> QED BY <2>1, <2>2
<1> QED BY <1>1, <1>5, <1>6, <1>7, <1>8, AnswerFrees DEF PresenceInv

LEMMA RestartKeeps == PresenceInv /\ Restart => PresenceInv'
<1> SUFFICES ASSUME PresenceInv, Restart PROVE PresenceInv'
    OBVIOUS
<1>1. /\ DOMAIN open' = {} /\ spent' = spent \cup DOMAIN open
      /\ \A s \in Slots : task'[s] = Free
      /\ UNCHANGED <<wall, signed, issued, acted>>
    BY DEF Restart, NoMap
<1>2. PresenceTypeOK'
    BY <1>1 DEF PresenceInv, PresenceTypeOK, Restart
<1>3. MapIsBounded'
    BY <1>1, FS_EmptySet, PresenceAssumption DEF MapIsBounded
<1>4. ShownIsSpent' /\ OneActPerNonce' /\ ActedIsSpent' /\ UnexpiredIsAnswerable'
    BY <1>1 DEF PresenceInv, ShownIsSpent, OneActPerNonce, ActedIsSpent, UnexpiredIsAnswerable
<1>5. RequestsAreSound' /\ GrantsAreSole'
    BY <1>1 DEF RequestsAreSound, GrantsAreSole, Granted, Free
<1> QED BY <1>2, <1>3, <1>4, <1>5 DEF PresenceInv

LEMMA SpendKeeps ==
    ASSUME PresenceInv, NEW s \in Slots, Spend(s)
    PROVE  PresenceInv'
<1> USE PresenceAssumption
<1> DEFINE r == task[s]
           n == task[s].nonce
<1>1. /\ n \in DOMAIN issued /\ n \in Nonces /\ r \in Request /\ r # Free
      /\ r.now <= wall /\ r.now \in Times
    BY Threads, Counting DEF Spend, PresenceInv, RequestsAreSound, Request
<1>2. /\ DOMAIN open' = DOMAIN open \ {n}
      /\ \A m \in DOMAIN open' : open'[m] = open[m]
      /\ spent' = spent \cup {n}
      /\ UNCHANGED <<wall, signed, issued, acted>>
    BY DEF Spend, Taken, Without, Restrict
<1>3. /\ task'[s].stage = IF Accepted(r) /\ TakesPresence(r.method) THEN "kernel" ELSE "refused"
      /\ task'[s].nonce = n /\ task'[s].now = r.now /\ task'[s] \in Request
      /\ \A t \in Slots \ {s} : task'[t] = task[t]
      /\ task' \in [Slots -> Request \cup {Free}]
    BY <1>1 DEF Spend, PresenceInv, PresenceTypeOK, Request
<1>4. PresenceTypeOK'
    BY <1>1, <1>2, <1>3 DEF PresenceInv, PresenceTypeOK
<1>5. MapIsBounded'
    <2>1. Cardinality(DOMAIN open') <= Cardinality(DOMAIN open)
          /\ Cardinality(DOMAIN open') \in Nat /\ Cardinality(DOMAIN open) \in Nat
        BY <1>2, Counting, FS_Subset, FS_CardinalityType DEF PresenceInv
    <2> QED BY <2>1 DEF PresenceInv, MapIsBounded
<1>6. ShownIsSpent' /\ OneActPerNonce' /\ ActedIsSpent' /\ UnexpiredIsAnswerable'
    BY <1>2 DEF PresenceInv, ShownIsSpent, OneActPerNonce, ActedIsSpent, UnexpiredIsAnswerable
<1>7. Granted(s)' => /\ n \in DOMAIN open /\ n \notin spent
                     /\ acted[n] = 0 /\ r.now < issued[n]
    <2> SUFFICES ASSUME Granted(s)'
                 PROVE  /\ n \in DOMAIN open /\ n \notin spent
                        /\ acted[n] = 0 /\ r.now < issued[n]
        OBVIOUS
    <2>1. Accepted(r)
        BY <1>3 DEF Granted
    <2>2. n \in DOMAIN open /\ n \notin spent
        BY <2>1 DEF Accepted, PresenceInv, ShownIsSpent
    <2>3. acted[n] = 0
        BY <1>1, <2>2 DEF PresenceInv, ActedIsSpent, PresenceTypeOK
    <2>4. r.now < issued[n]
        BY <2>1, <2>2 DEF Accepted, PresenceInv, PresenceTypeOK
    <2> QED BY <2>2, <2>3, <2>4
<1>8. \A t \in Slots \ {s} : Granted(t)' => Granted(t) /\ task[t].nonce \in spent
    BY <1>3 DEF Granted, PresenceInv, RequestsAreSound
<1>9. GrantsAreSole'
    BY <1>3, <1>7, <1>8 DEF PresenceInv, GrantsAreSole, Granted
<1>10. RequestsAreSound'
    <2> SUFFICES ASSUME NEW t \in Slots
                 PROVE  /\ task'[t] # Free => task'[t].now <= wall
                        /\ task'[t].stage = "spend" => task'[t].nonce \in DOMAIN issued
                        /\ Granted(t)' => /\ task'[t].nonce \in spent'
                                          /\ acted[task'[t].nonce] = 0
                                          /\ task'[t].now < issued[task'[t].nonce]
        BY <1>2 DEF RequestsAreSound
    <2>1. CASE t = s
        BY <2>1, <1>1, <1>2, <1>3, <1>7
    <2>2. CASE t # s
        BY <2>2, <1>2, <1>3, <1>8 DEF PresenceInv, RequestsAreSound
    <2> QED BY <2>1, <2>2
<1> QED BY <1>4, <1>5, <1>6, <1>9, <1>10 DEF PresenceInv

\* Every challenge that went missing had expired, or had as many others beside it as
\* the map holds less one, none of them closer to expiry.
LEMMA OthersEnough ==
    ASSUME PresenceInv, NEW n, NEW D, D \subseteq DOMAIN open, n \in D,
           Cardinality(D) >= MaxChallenges, \A m \in D : issued[n] <= issued[m]
    PROVE  Cardinality({m \in DOMAIN issued \ {n} : issued[m] >= issued[n]}) >= MaxChallenges - 1
<1> DEFINE Others == {m \in DOMAIN issued \ {n} : issued[m] >= issued[n]}
<1> USE PresenceAssumption
<1>1. IsFiniteSet(DOMAIN issued) /\ DOMAIN open \subseteq DOMAIN issued
    BY Counting DEF PresenceInv, PresenceTypeOK
<1>2. IsFiniteSet(D) /\ IsFiniteSet(Others) /\ IsFiniteSet(D \ {n})
    BY <1>1, FS_Subset
<1>3. Cardinality(D \ {n}) = Cardinality(D) - 1
    BY <1>2, FS_RemoveElement
<1>4. \A m \in D : issued[m] \in Int
    BY <1>1 DEF PresenceInv, PresenceTypeOK
<1>5. D \ {n} \subseteq Others
    BY <1>1, <1>4
<1>6. Cardinality(D \ {n}) <= Cardinality(Others)
    BY <1>2, <1>5, FS_Subset
<1>7. Cardinality(D) \in Nat /\ Cardinality(D \ {n}) \in Nat /\ Cardinality(Others) \in Nat
    BY <1>2, FS_CardinalityType
<1> HIDE DEF Others
<1>8. Cardinality(Others) >= MaxChallenges - 1
    BY <1>3, <1>6, <1>7
<1> QED BY <1>8 DEF Others

LEMMA IssueKeeps ==
    ASSUME PresenceInv, NEW s \in Slots, Issue(s)
    PROVE  PresenceInv'
<1> USE PresenceAssumption
<1> DEFINE now == task[s].now
           n == Cardinality(DOMAIN issued) + 1
           live == Restrict(open, {m \in DOMAIN open : open[m] > now})
<1>1. PICK out \in Evicted(live) : open' = With(Without(live, out), n, now + Ttl)
    BY DEF Issue
<1>2. /\ n \in Nonces /\ issued' = With(issued, n, now + Ttl)
      /\ Answer(s) /\ UNCHANGED <<wall, signed, spent, acted>>
    BY DEF Issue
<1>3. now \in Times /\ now <= wall /\ wall \in Times
    BY Threads DEF Issue, PresenceInv, RequestsAreSound, Request, PresenceTypeOK
<1>4. /\ DOMAIN issued = 1..(n - 1) /\ n - 1 \in 0..MaxNonces /\ n \notin DOMAIN issued
      /\ IsFiniteSet(DOMAIN issued) /\ IsFiniteSet(DOMAIN open)
    BY Counting DEF PresenceInv
<1>5. /\ DOMAIN live = {m \in DOMAIN open : open[m] > now}
      /\ \A m \in DOMAIN live : live[m] = open[m]
    BY DEF Restrict
<1> HIDE DEF live
<1>6. /\ DOMAIN open' = (DOMAIN live \ out) \cup {n}
      /\ open'[n] = now + Ttl
      /\ \A m \in DOMAIN live \ out : m # n /\ open'[m] = issued[m]
    <2>1. DOMAIN live \subseteq DOMAIN open /\ DOMAIN open \subseteq DOMAIN issued
        BY <1>5 DEF PresenceInv, PresenceTypeOK
    <2>2. \A m \in DOMAIN live : live[m] = issued[m] /\ m # n
        BY <1>4, <1>5, <2>1 DEF PresenceInv, PresenceTypeOK
    <2> QED BY <1>1, <2>1, <2>2 DEF With, Without, Restrict
<1>7. /\ DOMAIN issued' = DOMAIN issued \cup {n} /\ issued'[n] = now + Ttl
      /\ \A m \in DOMAIN issued : issued'[m] = issued[m]
    BY <1>2, <1>4 DEF With
<1> HIDE DEF n, now
<1>0. DOMAIN issued' = 1..n
    <2>1. n \in Nat \ {0}
        BY <1>2 DEF Nonces
    <2> QED BY <1>4, <1>7, <2>1
<1>8. PresenceTypeOK'
    <2>1. DOMAIN issued' \in {1..k : k \in 0..MaxNonces}
        BY <1>0, <1>2 DEF Nonces
    <2>2. \A m \in DOMAIN issued' : issued'[m] \in 0..(MaxWall + Ttl)
        BY <1>3, <1>4, <1>7 DEF PresenceInv, PresenceTypeOK, Times
    <2>3. /\ DOMAIN open' \subseteq DOMAIN issued'
          /\ \A m \in DOMAIN open' : open'[m] = issued'[m]
        BY <1>4, <1>5, <1>6, <1>7 DEF PresenceInv, PresenceTypeOK
    <2>4. DOMAIN issued \subseteq DOMAIN issued'
        BY <1>4, <1>7
    <2> QED BY <1>2, <2>1, <2>2, <2>3, <2>4, AnswerFrees DEF PresenceInv, PresenceTypeOK
<1>9. IsFiniteSet(DOMAIN live) /\ Cardinality(DOMAIN live) \in Nat
      /\ Cardinality(DOMAIN live) <= MaxChallenges
    <2>1. DOMAIN live \subseteq DOMAIN open
        BY <1>5
    <2>2. IsFiniteSet(DOMAIN live) /\ Cardinality(DOMAIN live) <= Cardinality(DOMAIN open)
        BY <1>4, <2>1, FS_Subset
    <2>3. Cardinality(DOMAIN live) \in Nat /\ Cardinality(DOMAIN open) \in Nat
        BY <1>4, <2>2, FS_CardinalityType
    <2> QED BY <2>2, <2>3 DEF PresenceInv, MapIsBounded
<1>10. MapIsBounded'
    <2> DEFINE left == DOMAIN live \ out
    <2>1. IsFiniteSet(left) /\ Cardinality(left) \in Nat /\ Cardinality(left) <= MaxChallenges - 1
        <3>1. CASE Cardinality(DOMAIN live) < MaxChallenges
            <4>1. out = {}
                BY <1>1, <3>1 DEF Evicted
            <4> QED BY <1>9, <3>1, <4>1
        <3>2. CASE ~(Cardinality(DOMAIN live) < MaxChallenges)
            <4>1. PICK m \in DOMAIN live : out = {m}
                BY <1>1, <3>2 DEF Evicted
            <4>2. IsFiniteSet(left) /\ Cardinality(left) = Cardinality(DOMAIN live) - 1
                BY <1>9, <4>1, FS_RemoveElement
            <4>3. Cardinality(left) \in Nat
                BY <4>2, FS_CardinalityType
            <4> QED BY <1>9, <4>2, <4>3
        <3> QED BY <3>1, <3>2
    <2> HIDE DEF left
    <2>2. Cardinality(left \cup {n}) = IF n \in left THEN Cardinality(left) ELSE Cardinality(left) + 1
        BY <2>1, FS_AddElement
    <2> QED BY <1>6, <2>1, <2>2 DEF MapIsBounded, left
<1>11. ShownIsSpent' /\ OneActPerNonce' /\ ActedIsSpent'
    <2>1. spent \subseteq DOMAIN issued /\ DOMAIN live \subseteq DOMAIN open
        BY <1>5 DEF PresenceInv, PresenceTypeOK
    <2>2. ShownIsSpent'
        BY <1>2, <1>4, <1>6, <2>1 DEF PresenceInv, ShownIsSpent
    <2> QED BY <1>2, <2>2 DEF PresenceInv, OneActPerNonce, ActedIsSpent
<1>12. UnexpiredIsAnswerable'
    <2> SUFFICES ASSUME NEW m \in DOMAIN issued' \ (spent \cup DOMAIN open'), ~(wall >= issued'[m])
                 PROVE  Cardinality({k \in DOMAIN issued' \ {m} : issued'[k] >= issued'[m]})
                            >= MaxChallenges - 1
        BY <1>2 DEF UnexpiredIsAnswerable
    <2> DEFINE NoSooner == {k \in DOMAIN issued \ {m} : issued[k] >= issued[m]}
               Later == {k \in DOMAIN issued' \ {m} : issued'[k] >= issued'[m]}
    <2>1. m \in DOMAIN issued /\ issued'[m] = issued[m] /\ DOMAIN issued \subseteq DOMAIN issued'
        BY <1>4, <1>6, <1>7
    <2>2. Cardinality(NoSooner) >= MaxChallenges - 1
        <3>1. CASE m \notin DOMAIN open
            BY <2>1, <3>1 DEF PresenceInv, UnexpiredIsAnswerable
        <3>2. CASE m \in DOMAIN open
            <4>1. m \in DOMAIN live
                <5>1. open[m] = issued[m] /\ issued[m] \in Int
                    BY <2>1, <3>2 DEF PresenceInv, PresenceTypeOK
                <5> QED BY <1>3, <1>5, <2>1, <3>2, <5>1 DEF Times
            <4>2. out # {} /\ m \in out
                BY <1>6, <4>1
            <4>3. Cardinality(DOMAIN live) >= MaxChallenges /\ \A k \in DOMAIN live : live[m] <= live[k]
                BY <1>1, <1>9, <4>2 DEF Evicted
            <4>4. DOMAIN live \subseteq DOMAIN open /\ \A k \in DOMAIN live : live[k] = issued[k]
                BY <1>5 DEF PresenceInv, PresenceTypeOK
            <4> QED BY <4>1, <4>3, <4>4, OthersEnough
        <3> QED BY <3>1, <3>2
    <2>3. NoSooner \subseteq Later
        BY <1>7, <2>1
    <2>4. IsFiniteSet(Later) /\ IsFiniteSet(NoSooner)
        <3>1. IsFiniteSet(DOMAIN issued')
            BY <1>0, <1>2, FS_Interval DEF Nonces
        <3> QED BY <1>4, <3>1, FS_Subset
    <2>5. /\ Cardinality(NoSooner) <= Cardinality(Later)
          /\ Cardinality(NoSooner) \in Nat /\ Cardinality(Later) \in Nat
        BY <2>3, <2>4, FS_Subset, FS_CardinalityType
    <2> HIDE DEF NoSooner, Later
    <2>6. Cardinality(Later) >= MaxChallenges - 1
        BY <2>2, <2>5
    <2> QED BY <2>6 DEF Later
<1>13. RequestsAreSound'
    <2> SUFFICES ASSUME NEW t \in Slots
                 PROVE  /\ task'[t] # Free => task'[t].now <= wall
                        /\ task'[t].stage = "spend" => task'[t].nonce \in DOMAIN issued'
                        /\ Granted(t)' => /\ task'[t].nonce \in spent
                                          /\ acted[task'[t].nonce] = 0
                                          /\ task'[t].now < issued'[task'[t].nonce]
        BY <1>2 DEF RequestsAreSound
    <2>1. CASE t = s
        BY <2>1, <1>2, AnswerFrees DEF Free
    <2>2. CASE t # s
        <3>1. task'[t] = task[t] /\ (Granted(t)' => Granted(t))
            BY <2>2, <1>2, AnswerFrees
        <3>2. spent \subseteq DOMAIN issued /\ DOMAIN issued \subseteq DOMAIN issued'
            BY <1>4, <1>7 DEF PresenceInv, PresenceTypeOK
        <3> QED BY <3>1, <3>2, <1>7 DEF PresenceInv, RequestsAreSound
    <2> QED BY <2>1, <2>2
<1> QED BY <1>2, <1>8, <1>10, <1>11, <1>12, <1>13, AnswerFrees DEF PresenceInv

-----------------------------------------------------------------------------
LEMMA NextKeeps == PresenceInv /\ [PresenceNext]_presenceVars => PresenceInv'
<1> SUFFICES ASSUME PresenceInv, [PresenceNext]_presenceVars PROVE PresenceInv'
    OBVIOUS
<1>1. CASE Tick
    BY <1>1, TickKeeps
<1>2. CASE Restart
    BY <1>2, RestartKeeps
<1>3. ASSUME NEW s \in Slots, AskChallenge(s) \/ SendBare(s) PROVE PresenceInv'
    BY <1>3, AskKeeps
<1>4. ASSUME NEW s \in Slots, NEW n \in Nonces, NEW method \in Methods, Present(s, n, method)
      PROVE  PresenceInv'
    BY <1>4, PresentKeeps
<1>5. ASSUME NEW s \in Slots, Issue(s) PROVE PresenceInv'
    BY <1>5, IssueKeeps
<1>6. ASSUME NEW s \in Slots, Spend(s) PROVE PresenceInv'
    BY <1>6, SpendKeeps
<1>7. ASSUME NEW s \in Slots, Refuse(s) PROVE PresenceInv'
    BY <1>7, RefuseKeeps
<1>8. ASSUME NEW s \in Slots, DoAct(s) PROVE PresenceInv'
    BY <1>8, DoActKeeps
<1>9. CASE UNCHANGED presenceVars
    BY <1>9 DEF presenceVars, PresenceInv, PresenceTypeOK, MapIsBounded, ShownIsSpent, UnexpiredIsAnswerable,
                OneActPerNonce, RequestsAreSound, GrantsAreSole, Granted, ActedIsSpent
<1> QED BY <1>1, <1>2, <1>3, <1>4, <1>5, <1>6, <1>7, <1>8, <1>9 DEF PresenceNext

\* The invariant holds of every behaviour.
THEOREM Invariant == PresenceSpec => []PresenceInv
BY InvInit, NextKeeps, PTL DEF PresenceSpec

\* A proof makes one request human, however often it is sent, however the threads
\* interleave, and over a restart (Challenges::spend and dispatch in server.rs).
THEOREM ActOnce == PresenceSpec => []OneActPerNonce
<1>1. PresenceInv => OneActPerNonce
    BY DEF PresenceInv
<1> QED BY <1>1, Invariant, PTL

\* The challenge map stays bounded, never holds what was shown, and loses an
\* unexpired challenge only to enough others (Challenges::issue and spend).
THEOREM ChallengesKept == PresenceSpec => []ChallengesAreKept
<1>1. PresenceInv => ChallengesAreKept
    BY DEF PresenceInv, ChallengesAreKept
<1> QED BY <1>1, Invariant, PTL

\* Whatever is done as a human was asked for while its challenge was unexpired, with an
\* enrolled key, however long the kernel's mutex kept it waiting (dispatch in server.rs).
THEOREM ActsInTime == PresenceSpec => ActsAreTimely
<1> DEFINE Timely == \A n \in Nonces : acted'[n] # acted[n] =>
              \E s \in Slots :
                  /\ task[s] # Free /\ task[s].nonce = n
                  /\ signed[n] \in Enrolled
                  /\ task[s].now < issued[n]
<1>1. ASSUME PresenceInv, [PresenceNext]_presenceVars PROVE [Timely]_presenceVars
    <2> SUFFICES ASSUME NEW n \in Nonces, acted'[n] # acted[n], PresenceNext
                 PROVE  \E s \in Slots :
                            /\ task[s] # Free /\ task[s].nonce = n
                            /\ signed[n] \in Enrolled
                            /\ task[s].now < issued[n]
        BY <1>1 DEF presenceVars
    <2>1. PICK s \in Slots : DoAct(s)
        BY DEF PresenceNext, Tick, Restart, AskChallenge, SendBare, Present, Take, Issue, Spend, Refuse
    <2>2. Granted(s) /\ task[s].nonce \in Nonces /\ signed[task[s].nonce] \in Enrolled
        BY <1>1, <2>1, Threads DEF DoAct, IsHuman, Granted, PresenceInv, Request
    <2>3. task[s].nonce = n
        BY <1>1, <2>1, <2>2 DEF DoAct, PresenceInv, PresenceTypeOK
    <2>4. task[s] # Free /\ task[s].now < issued[n]
        BY <1>1, <2>2, <2>3, Threads DEF PresenceInv, RequestsAreSound, Granted
    <2> QED BY <2>2, <2>3, <2>4
<1> QED BY <1>1, Invariant, PTL DEF PresenceSpec, ActsAreTimely

-----------------------------------------------------------------------------
(* Numbers *)

\* A set of numbers that is not empty has a least one.
LEMMA LeastOf ==
    ASSUME NEW S, S \subseteq Nat, S # {}
    PROVE  \E m \in S : \A j \in S : m <= j
<1> DEFINE Less == {ss \in Nat \X Nat : ss[1] < ss[2]}
<1>1. IsWellFoundedOn(Less, Nat)
    <2>1. Less = OpToRel(<, Nat)
        BY DEF OpToRel
    <2> QED BY <2>1, NatLessThanWellFounded
<1>2. PICK m \in S : \A j \in S : ~(<<j, m>> \in Less)
    <2> HIDE DEF Less
    <2> QED BY <1>1, WFMin
<1>3. \A j \in S : m <= j
    <2> TAKE j \in S
    <2>1. <<j, m>> \notin Less /\ j \in Nat /\ m \in Nat
        BY <1>2
    <2> QED BY <2>1
<1> QED BY <1>3

\* What holds at 0 and goes from each number to the next holds of every number.
LEMMA Onwards ==
    ASSUME NEW S, 0 \in S, \A k \in Nat : k \in S => k + 1 \in S
    PROVE  Nat \subseteq S
<1> DEFINE Bad == {k \in Nat : k \notin S}
<1> SUFFICES ASSUME Bad # {} PROVE FALSE
    OBVIOUS
<1>1. PICK m \in Bad : \A j \in Bad : m <= j
    <2>1. Bad \subseteq Nat
        OBVIOUS
    <2> HIDE DEF Bad
    <2> QED BY <2>1, LeastOf
<1>2. m \in Nat /\ m \notin S /\ m # 0
    OBVIOUS
<1>3. m - 1 \in Nat /\ ~(m <= m - 1) /\ (m - 1) + 1 = m
    BY <1>2
<1>4. m - 1 \in S
    BY <1>1, <1>3
<1> QED BY <1>2, <1>3, <1>4

\* What every subset has that the smaller ones make have it, all subsets have.
LEMMA BySize ==
    ASSUME NEW S, IsFiniteSet(S), NEW Q,
           \A s \in SUBSET S : (\A t \in SUBSET s : t # s => t \in Q) => s \in Q
    PROVE  SUBSET S \subseteq Q
<1> DEFINE Bad == {s \in SUBSET S : s \notin Q}
           Sizes == {Cardinality(s) : s \in Bad}
<1> SUFFICES ASSUME Bad # {} PROVE FALSE
    OBVIOUS
<1>1. \A s \in SUBSET S : IsFiniteSet(s) /\ Cardinality(s) \in Nat
    BY FS_Subset, FS_CardinalityType
<1>2. PICK m \in Sizes : \A j \in Sizes : m <= j
    <2>1. Sizes \subseteq Nat /\ Sizes # {}
        BY <1>1
    <2> HIDE DEF Sizes
    <2> QED BY <2>1, LeastOf
<1>3. PICK s \in Bad : m = Cardinality(s)
    BY <1>2
<1>4. ASSUME NEW t \in SUBSET s, t # s PROVE t \in Q
    <2>1. Cardinality(t) < Cardinality(s) /\ t \in SUBSET S
        <3>1. s \in SUBSET S
            OBVIOUS
        <3>2. Cardinality(t) <= Cardinality(s) /\ Cardinality(t) # Cardinality(s)
            BY <1>1, <1>4, <3>1, FS_Subset
        <3> QED BY <1>1, <3>1, <3>2
    <2>2. t \in Bad => Cardinality(t) \in Sizes
        OBVIOUS
    <2>3. ~(m <= Cardinality(t))
        BY <1>1, <1>3, <2>1
    <2> QED BY <1>2, <2>1, <2>2, <2>3
<1> QED BY <1>4

-----------------------------------------------------------------------------
(* Folds over a finite set. *)

Folding(S, base, pick, step, it) ==
    it = [s \in SUBSET S |-> IF s = {} THEN base ELSE step[<<s, it[s \ {pick[s]}]>>]]

\* There is a function that takes one element after another out of a set.
LEMMA FoldExists ==
    ASSUME NEW S, IsFiniteSet(S), NEW V, NEW base \in V,
           NEW pick, \A s \in SUBSET S : s # {} => pick[s] \in s,
           NEW step, \A s \in SUBSET S : \A v \in V : step[<<s, v>>] \in V
    PROVE  \E it \in [SUBSET S -> V] : Folding(S, base, pick, step, it)
<1> DEFINE Small(n) == {s \in SUBSET S : Cardinality(s) <= n}
           Val(it, s) == IF s = {} THEN base ELSE step[<<s, it[s \ {pick[s]}]>>]
           Folds(it, n) == it \in [Small(n) -> V] /\ \A s \in Small(n) : it[s] = Val(it, s)
           Good == {n \in Nat : \E it : Folds(it, n)}
<1>1. \A s \in SUBSET S : IsFiniteSet(s) /\ Cardinality(s) \in Nat /\ (Cardinality(s) = 0 <=> s = {})
    BY FS_Subset, FS_CardinalityType, FS_EmptySet
<1>2. ASSUME NEW s \in SUBSET S, s # {}
      PROVE  /\ s \ {pick[s]} \in SUBSET S
             /\ Cardinality(s \ {pick[s]}) = Cardinality(s) - 1
    BY <1>1, <1>2, FS_RemoveElement
<1>3. 0 \in Good
    <2>1. Small(0) = {{}}
        <3>1. {} \in SUBSET S /\ Cardinality({}) <= 0
            BY FS_EmptySet
        <3>2. ASSUME NEW s \in SUBSET S, Cardinality(s) <= 0 PROVE s = {}
            BY <1>1, <3>2
        <3> QED BY <3>1, <3>2
    <2>2. Folds([s \in Small(0) |-> base], 0)
        BY <2>1
    <2>3. \E it : Folds(it, 0)
        BY <2>2
    <2> HIDE DEF Folds
    <2> QED BY <2>3
<1>4. ASSUME NEW k \in Nat, k \in Good PROVE k + 1 \in Good
    <2>1. PICK it : Folds(it, k)
        BY <1>4
    <2> DEFINE into == [s \in Small(k + 1) |-> Val(it, s)]
    <2>2. ASSUME NEW s \in Small(k + 1), s # {}
          PROVE  s \ {pick[s]} \in Small(k)
        <3>1. Cardinality(s \ {pick[s]}) = Cardinality(s) - 1 /\ s \ {pick[s]} \in SUBSET S
            BY <1>2, <2>2
        <3>2. Cardinality(s) \in Nat /\ Cardinality(s) <= k + 1
            BY <1>1, <2>2
        <3>3. Cardinality(s) - 1 <= k
            BY <3>2
        <3> QED BY <3>1, <3>3
    <2>3. Small(k) \subseteq Small(k + 1)
        <3>1. ASSUME NEW s \in SUBSET S, Cardinality(s) <= k PROVE Cardinality(s) <= k + 1
            BY <1>1, <3>1
        <3> QED BY <3>1
    <2>4. into \in [Small(k + 1) -> V]
        <3>1. ASSUME NEW s \in Small(k + 1) PROVE Val(it, s) \in V
            <4>1. CASE s = {}
                BY <4>1
            <4>2. CASE s # {}
                <5>1. it[s \ {pick[s]}] \in V
                    BY <2>1, <2>2, <4>2
                <5> QED BY <4>2, <5>1
            <4> QED BY <4>1, <4>2
        <3> HIDE DEF Val, Small
        <3> QED BY <3>1
    <2>5. \A s \in Small(k) : into[s] = it[s]
        <3> HIDE DEF Val, Small
        <3> QED BY <2>1, <2>3
    <2>6. ASSUME NEW s \in Small(k + 1) PROVE into[s] = Val(into, s)
        <3>1. into[s] = Val(it, s)
            <4> HIDE DEF Val, Small
            <4> QED OBVIOUS
        <3>2. s # {} => into[s \ {pick[s]}] = it[s \ {pick[s]}]
            <4> HIDE DEF into, Small
            <4> QED BY <2>2, <2>5
        <3> HIDE DEF into, Small
        <3> QED BY <3>1, <3>2
    <2>7. Folds(into, k + 1)
        <3> HIDE DEF into, Val, Small
        <3> QED BY <2>4, <2>6
    <2> HIDE DEF Folds
    <2> QED BY <2>7
<1>5. Cardinality(S) \in Good
    <2>1. Nat \subseteq Good
        <3> HIDE DEF Good
        <3> QED BY <1>3, <1>4, Onwards
    <2> HIDE DEF Good
    <2> QED BY <2>1, FS_CardinalityType
<1>6. PICK it : Folds(it, Cardinality(S))
    BY <1>5
<1>7. Small(Cardinality(S)) = SUBSET S
    BY FS_Subset
<1>8. it = [s \in SUBSET S |-> Val(it, s)] /\ it \in [SUBSET S -> V]
    <2> HIDE DEF Val, Small
    <2> QED BY <1>6, <1>7
<1> QED BY <1>8 DEF Folding

-----------------------------------------------------------------------------
(* The bytes of a set of lines. *)

Cost(p, i) == p[i].len + 1
Measured(p, lines) == IsFiniteSet(lines) /\ \A i \in lines : p[i].len \in Nat
Some(s) == CHOOSE x \in s : TRUE
Sums(p, it, S) ==
    /\ it \in [SUBSET S -> Nat]
    /\ \A s \in SUBSET S : it[s] = IF s = {} THEN 0 ELSE Cost(p, Some(s)) + it[s \ {Some(s)}]

\* What the fold of Bytes is.
LEMMA BytesIs ==
    ASSUME NEW p, NEW S, Measured(p, S)
    PROVE  \E it : Sums(p, it, S) /\ Bytes(p, S) = it[S]
<1> DEFINE pick == [s \in SUBSET S |-> Some(s)]
           step == [sv \in (SUBSET S) \X Nat |-> IF sv[1] = {} THEN 0 ELSE Cost(p, Some(sv[1])) + sv[2]]
           IsIt(it) == it = [s \in SUBSET S |-> IF s = {} THEN 0
                                                ELSE Cost(p, Some(s)) + it[s \ {Some(s)}]]
<1>1. \A s \in SUBSET S : s # {} => Some(s) \in s /\ Cost(p, Some(s)) \in Nat
    <2> TAKE s \in SUBSET S
    <2> HAVE s # {}
    <2>1. Some(s) \in s
        BY DEF Some
    <2> QED BY <2>1 DEF Measured, Cost
<1>2. \A s \in SUBSET S : s # {} => pick[s] \in s
    BY <1>1
<1>3. \A s \in SUBSET S : \A v \in Nat : step[<<s, v>>] \in Nat
    BY <1>1
<1>4. PICK it \in [SUBSET S -> Nat] : Folding(S, 0, pick, step, it)
    <2>1. IsFiniteSet(S) /\ 0 \in Nat
        BY DEF Measured
    <2> HIDE DEF pick, step, IsIt
    <2> QED BY <1>2, <1>3, <2>1, FoldExists
<1>5. ASSUME NEW s \in SUBSET S, s # {}
      PROVE  step[<<s, it[s \ {pick[s]}]>>] = Cost(p, Some(s)) + it[s \ {Some(s)}]
    <2>1. pick[s] = Some(s) /\ it[s \ {Some(s)}] \in Nat
        OBVIOUS
    <2> QED BY <1>5, <2>1
<1>6. IsIt(it)
    <2> HIDE DEF pick, step
    <2> QED BY <1>4, <1>5 DEF Folding, IsIt
<1>7. IsIt(CHOOSE f : IsIt(f))
    <2> HIDE DEF IsIt
    <2> QED BY <1>6
<1> DEFINE f == CHOOSE f : IsIt(f)
<1>8. Bytes(p, S) = f[S]
    BY DEF Bytes, MapThenSumSet, MapThenFoldSet, Cost, Some
<1>9. IsIt(f)
    BY <1>7
<1> HIDE DEF f
<1>10. f \in [SUBSET S -> Nat]
    <2> DEFINE Q == {s \in SUBSET S : f[s] \in Nat}
    <2>1. ASSUME NEW s \in SUBSET S, \A t \in SUBSET s : t # s => t \in Q PROVE s \in Q
        <3>1. CASE s = {}
            BY <1>9, <3>1
        <3>2. CASE s # {}
            <4>1. Some(s) \in s /\ Cost(p, Some(s)) \in Nat
                BY <1>1, <3>2
            <4>2. f[s \ {Some(s)}] \in Nat
                BY <2>1, <4>1
            <4>3. f[s] = Cost(p, Some(s)) + f[s \ {Some(s)}]
                BY <1>9, <3>2
            <4> QED BY <4>1, <4>2, <4>3
        <3> QED BY <3>1, <3>2
    <2>2. SUBSET S \subseteq Q
        <3> HIDE DEF Q
        <3> QED BY <2>1, BySize DEF Measured
    <2> QED BY <1>9, <2>2
<1>11. Sums(p, f, S)
    BY <1>9, <1>10 DEF Sums
<1> QED BY <1>8, <1>11

\* The same lines cost the same, whatever more there is to sum.
LEMMA SumsAgree ==
    ASSUME NEW p, NEW S, NEW T, S \subseteq T, IsFiniteSet(S), NEW it, NEW jt,
           Sums(p, it, S), Sums(p, jt, T)
    PROVE  it[S] = jt[S]
<1> DEFINE Q == {s \in SUBSET S : it[s] = jt[s]}
<1>1. ASSUME NEW s \in SUBSET S, \A t \in SUBSET s : t # s => t \in Q PROVE s \in Q
    <2>1. CASE s = {}
        BY <2>1 DEF Sums
    <2>2. CASE s # {}
        <3>1. Some(s) \in s
            BY <2>2 DEF Some
        <3>2. s \ {Some(s)} \in Q
            BY <1>1, <3>1
        <3>3. it[s] = Cost(p, Some(s)) + it[s \ {Some(s)}]
            BY <2>2 DEF Sums
        <3>4. jt[s] = Cost(p, Some(s)) + jt[s \ {Some(s)}]
            BY <2>2 DEF Sums
        <3> QED BY <3>2, <3>3, <3>4
    <2> QED BY <2>1, <2>2
<1>2. SUBSET S \subseteq Q
    <2> HIDE DEF Q
    <2> QED BY <1>1, BySize
<1> QED BY <1>2

\* Any line may be counted last.
LEMMA SumsTakeOut ==
    ASSUME NEW p, NEW S, Measured(p, S), NEW it, Sums(p, it, S)
    PROVE  \A s \in SUBSET S : \A x \in s : it[s] = Cost(p, x) + it[s \ {x}]
<1> DEFINE Q == {s \in SUBSET S : \A x \in s : it[s] = Cost(p, x) + it[s \ {x}]}
<1>1. \A i \in S : Cost(p, i) \in Nat
    BY DEF Measured, Cost
<1>2. ASSUME NEW s \in SUBSET S, \A t \in SUBSET s : t # s => t \in Q PROVE s \in Q
    <2> SUFFICES ASSUME NEW x \in s PROVE it[s] = Cost(p, x) + it[s \ {x}]
        OBVIOUS
    <2> DEFINE c == Some(s)
    <2>1. c \in s
        BY DEF Some
    <2>2. it[s] = Cost(p, c) + it[s \ {c}]
        BY DEF Sums
    <2> HIDE DEF c
    <2>3. CASE x = c
        BY <2>2, <2>3
    <2>4. CASE x # c
        <3> DEFINE r == s \ {c, x}
        <3>1. r = (s \ {c}) \ {x} /\ r = (s \ {x}) \ {c} /\ r \in SUBSET S
            OBVIOUS
        <3>2. s \ {c} \in Q /\ s \ {x} \in Q /\ x \in s \ {c} /\ c \in s \ {x}
            BY <1>2, <2>1, <2>4
        <3>3. it[s \ {c}] = Cost(p, x) + it[r]
            BY <3>1, <3>2
        <3>4. it[s \ {x}] = Cost(p, c) + it[r]
            BY <3>1, <3>2
        <3>5. it[r] \in Nat
            BY <3>1 DEF Sums
        <3>6. Cost(p, x) \in Nat /\ Cost(p, c) \in Nat
            BY <1>1, <2>1
        <3> HIDE DEF r
        <3> QED BY <2>2, <3>3, <3>4, <3>5, <3>6
    <2> QED BY <2>3, <2>4
<1>3. SUBSET S \subseteq Q
    <2> HIDE DEF Q
    <2> QED BY <1>2, BySize DEF Measured
<1> QED BY <1>3

\* The bytes of no line, and of one line more.
LEMMA BytesOfNone ==
    ASSUME NEW p
    PROVE  Bytes(p, {}) = 0
<1>1. Measured(p, {})
    BY FS_EmptySet DEF Measured
<1>2. PICK it : Sums(p, it, {}) /\ Bytes(p, {}) = it[{}]
    BY <1>1, BytesIs
<1> QED BY <1>2 DEF Sums

\* The bytes of one line more.
LEMMA BytesOfMore ==
    ASSUME NEW p, NEW S, NEW x, x \notin S, NEW T, T = S \cup {x}, Measured(p, T)
    PROVE  Bytes(p, S) \in Nat /\ Bytes(p, T) = Bytes(p, S) + p[x].len + 1
<1>1. Measured(p, S)
    BY FS_Subset DEF Measured
<1>2. PICK it : Sums(p, it, S) /\ Bytes(p, S) = it[S]
    BY <1>1, BytesIs
<1>3. PICK jt : Sums(p, jt, T) /\ Bytes(p, T) = jt[T]
    BY BytesIs
<1>4. it[S] = jt[S]
    BY <1>1, <1>2, <1>3, SumsAgree DEF Measured
<1>5. jt[T] = Cost(p, x) + jt[T \ {x}]
    <2>1. T \in SUBSET T /\ x \in T
        OBVIOUS
    <2> QED BY <1>3, <2>1, SumsTakeOut
<1>6. T \ {x} = S
    OBVIOUS
<1>7. it[S] \in Nat /\ p[x].len \in Nat
    BY <1>2 DEF Sums, Measured
<1>8. Bytes(p, T) = Cost(p, x) + Bytes(p, S) /\ Bytes(p, S) \in Nat
    BY <1>2, <1>3, <1>4, <1>5, <1>6, <1>7
<1> DEFINE b == Bytes(p, S)
           n == p[x].len
<1>9. b \in Nat /\ n \in Nat /\ Bytes(p, T) = (n + 1) + b
    BY <1>7, <1>8 DEF Cost
<1>10. (n + 1) + b = b + n + 1
    <2> HIDE DEF b, n
    <2> QED BY <1>9
<1> QED BY <1>9, <1>10

\* Bytes are a number.
LEMMA BytesType ==
    ASSUME NEW p, NEW S, Measured(p, S)
    PROVE  Bytes(p, S) \in Nat
<1>1. PICK it : Sums(p, it, S) /\ Bytes(p, S) = it[S]
    BY BytesIs
<1> QED BY <1>1 DEF Sums

-----------------------------------------------------------------------------
(* The lines of a set in an order. *)

StrictOrder(S, R) ==
    /\ \A m \in S : <<m, m>> \notin R
    /\ \A m, n \in S : m # n => <<m, n>> \in R \/ <<n, m>> \in R
    /\ \A l, m, n \in S : <<l, m>> \in R /\ <<m, n>> \in R => <<l, n>> \in R

\* q has every line of S once, each after those before it.
Ordered(S, R, q) ==
    /\ q \in [1..Cardinality(S) -> S] /\ Cardinality(S) \in Nat
    /\ \A n \in S : \E k \in 1..Cardinality(S) : q[k] = n
    /\ \A i, j \in 1..Cardinality(S) : i < j <=> <<q[i], q[j]>> \in R

Placed(S, R) ==
    [k \in 1..Cardinality(S) |-> CHOOSE n \in S : Cardinality({m \in S : <<m, n>> \in R}) = k - 1]

\* The number of lines before each line is the place it has.
LEMMA PlacesAreOrdered ==
    ASSUME NEW S, IsFiniteSet(S), NEW R, StrictOrder(S, R)
    PROVE  Ordered(S, R, Placed(S, R))
<1> DEFINE N == Cardinality(S)
           Lesser(n) == {m \in S : <<m, n>> \in R}
           at == [n \in S |-> Cardinality(Lesser(n))]
           q == [k \in 1..N |-> CHOOSE n \in S : Cardinality(Lesser(n)) = k - 1]
<1>1. N \in Nat
    BY FS_CardinalityType
<1>2. ASSUME NEW m \in S, NEW n \in S, <<m, n>> \in R PROVE at[m] < at[n]
    <2>1. IsFiniteSet(Lesser(n)) /\ IsFiniteSet(Lesser(m))
        BY FS_Subset
    <2>2. Lesser(m) \subseteq Lesser(n) /\ Lesser(m) # Lesser(n)
        BY <1>2 DEF StrictOrder
    <2>3. at[m] = Cardinality(Lesser(m)) /\ at[n] = Cardinality(Lesser(n))
        OBVIOUS
    <2> HIDE DEF Lesser, at
    <2>4. Cardinality(Lesser(m)) <= Cardinality(Lesser(n)) /\ Cardinality(Lesser(m)) # Cardinality(Lesser(n))
        BY <2>1, <2>2, FS_Subset
    <2>5. Cardinality(Lesser(m)) \in Nat /\ Cardinality(Lesser(n)) \in Nat
        BY <2>1, FS_CardinalityType
    <2> QED BY <2>3, <2>4, <2>5
<1>3. ASSUME NEW n \in S PROVE at[n] \in 0..(N - 1)
    <2>1. Lesser(n) \in SUBSET S /\ Lesser(n) # S
        BY DEF StrictOrder
    <2>2. at[n] = Cardinality(Lesser(n))
        OBVIOUS
    <2> HIDE DEF Lesser, at
    <2>3. IsFiniteSet(Lesser(n)) /\ Cardinality(Lesser(n)) <= N /\ Cardinality(Lesser(n)) # N
        BY <2>1, FS_Subset
    <2>4. Cardinality(Lesser(n)) \in Nat
        BY <2>3, FS_CardinalityType
    <2> QED BY <1>1, <2>2, <2>3, <2>4
<1>4. at \in Injection(S, 0..(N - 1))
    <2>1. at \in [S -> 0..(N - 1)]
        <3>1. at = [n \in S |-> at[n]]
            OBVIOUS
        <3> HIDE DEF at
        <3> QED BY <1>3, <3>1
    <2>2. \A m, n \in S : at[m] = at[n] => m = n
        <3> SUFFICES ASSUME NEW m \in S, NEW n \in S, at[m] = at[n], m # n PROVE FALSE
            OBVIOUS
        <3> HIDE DEF at
        <3>1. at[m] < at[n] \/ at[n] < at[m]
            BY <1>2 DEF StrictOrder
        <3>2. at[m] \in Int /\ at[n] \in Int
            BY <1>3
        <3> QED BY <3>1, <3>2
    <2> HIDE DEF at
    <2> QED BY <2>1, <2>2 DEF Injection, IsInjective
<1>5. at \in Surjection(S, 0..(N - 1))
    <2>1. IsFiniteSet(0..(N - 1)) /\ Cardinality(0..(N - 1)) = N
        BY <1>1, FS_Interval
    <2> HIDE DEF at, N
    <2> QED BY <1>4, <2>1, FS_Injection DEF N
<1>6. ASSUME NEW k \in 1..N PROVE q[k] \in S /\ at[q[k]] = k - 1
    <2>1. k - 1 \in 0..(N - 1)
        BY <1>1
    <2>2. PICK n \in S : at[n] = k - 1
        <3> HIDE DEF at, N
        <3> QED BY <1>5, <2>1 DEF Surjection
    <2>3. \A x \in S : at[x] = Cardinality(Lesser(x))
        OBVIOUS
    <2>4. q[k] = CHOOSE x \in S : Cardinality(Lesser(x)) = k - 1
        OBVIOUS
    <2> HIDE DEF at, Lesser, N, q
    <2> QED BY <2>2, <2>3, <2>4
<1>7. ASSUME NEW n \in S PROVE \E k \in 1..N : q[k] = n
    <2>1. at[n] + 1 \in 1..N /\ (at[n] + 1) - 1 = at[n] /\ at[n] \in Int
        BY <1>1, <1>3
    <2>2. q[at[n] + 1] \in S /\ at[q[at[n] + 1]] = at[n]
        <3> HIDE DEF at, N, q
        <3> QED BY <1>6, <2>1
    <2>3. q[at[n] + 1] = n
        <3> HIDE DEF at, N, q
        <3> QED BY <1>4, <2>2 DEF Injection, IsInjective
    <2> HIDE DEF at, N, q
    <2> QED BY <2>1, <2>3
<1>8. ASSUME NEW i \in 1..N, NEW j \in 1..N PROVE i < j <=> <<q[i], q[j]>> \in R
    <2> HIDE DEF at, N, q
    <2>1. /\ q[i] \in S /\ at[q[i]] = i - 1
          /\ q[j] \in S /\ at[q[j]] = j - 1
        BY <1>6
    <2>2. i \in Int /\ j \in Int
        BY <1>1
    <2>3. CASE q[i] = q[j]
        <3>1. i = j
            BY <2>1, <2>2, <2>3
        <3> QED BY <2>1, <2>2, <2>3, <3>1 DEF StrictOrder
    <2>4. CASE <<q[i], q[j]>> \in R
        <3>1. at[q[i]] < at[q[j]]
            BY <1>2, <2>1, <2>4
        <3> QED BY <2>1, <2>2, <2>4, <3>1
    <2>5. CASE <<q[j], q[i]>> \in R
        <3>1. at[q[j]] < at[q[i]]
            BY <1>2, <2>1, <2>5
        <3>2. <<q[i], q[j]>> \notin R
            BY <2>1, <2>5 DEF StrictOrder
        <3> QED BY <2>1, <2>2, <3>1, <3>2
    <2> QED BY <2>1, <2>3, <2>4, <2>5 DEF StrictOrder
<1>9. q \in [1..N -> S]
    <2>1. q = [k \in 1..N |-> q[k]]
        <3> HIDE DEF Lesser, N
        <3> QED OBVIOUS
    <2> HIDE DEF q, at, N
    <2> QED BY <1>6, <2>1
<1>10. Ordered(S, R, q)
    <2> HIDE DEF q
    <2> QED BY <1>1, <1>7, <1>8, <1>9 DEF Ordered
<1>11. q = Placed(S, R)
    BY DEF Placed
<1> HIDE DEF q
<1> QED BY <1>10, <1>11

\* The lines of a prompt, by their numbers.
LEMMA InPlaceIs ==
    ASSUME NEW S, S \subseteq Nat, IsFiniteSet(S)
    PROVE  Ordered(S, {mn \in S \X S : mn[1] < mn[2]}, InPlace(S))
<1> DEFINE R == {mn \in S \X S : mn[1] < mn[2]}
<1>1. \A m, n \in S : <<m, n>> \in R <=> m < n
    OBVIOUS
<1>2. StrictOrder(S, R)
    <2>1. \A m \in S : m \in Nat
        OBVIOUS
    <2> HIDE DEF R
    <2> QED BY <1>1, <2>1 DEF StrictOrder
<1>3. \A n \in S : {m \in S : <<m, n>> \in R} = {m \in S : m < n}
    <2> HIDE DEF R
    <2> QED BY <1>1
<1> DEFINE q == Placed(S, R)
<1>4. q = InPlace(S)
    <2> DEFINE a(k) == CHOOSE n \in S : Cardinality({m \in S : <<m, n>> \in R}) = k - 1
               b(k) == CHOOSE n \in S : Cardinality({m \in S : m < n}) = k - 1
    <2>1. \A k \in 1..Cardinality(S) : a(k) = b(k)
        <3> HIDE DEF R
        <3> QED BY <1>3
    <2>2. q = [k \in 1..Cardinality(S) |-> a(k)]
        <3> HIDE DEF R
        <3> QED BY DEF Placed
    <2>3. InPlace(S) = [k \in 1..Cardinality(S) |-> b(k)]
        BY DEF InPlace, SortedBy
    <2> HIDE DEF a, b, q
    <2> QED BY <2>1, <2>2, <2>3
<1>5. Ordered(S, R, q)
    <2> HIDE DEF R
    <2> QED BY <1>2, PlacesAreOrdered
<1> QED BY <1>4, <1>5

-----------------------------------------------------------------------------
(* What is admitted. *)

Kinds == DOMAIN Rank

\* A register, lowered: a line has its number, and a constraint its heading above it.
IsPrompt(p) ==
    /\ p \in Seq([at : Nat, kind : Kinds, len : Nat, field : Kinds])
    /\ \A n \in DOMAIN p : p[n].at = n
    /\ \A n \in DOMAIN p : p[n].field = "BULLET" =>
         \E h \in 1..(n - 1) : /\ p[h].kind = "CONSTRAINTS"
                               /\ \A i \in (h + 1)..n : p[i].field = "BULLET"

\* A rank is a number, and nought is the rank of what the call is.
LEMMA RankIs ==
    \A k \in Kinds : Rank[k] \in Nat /\ (Rank[k] = 0 <=> k \in {"ROLE", "GOAL"})
BY DEF Kinds, Rank

\* What is known of the lines of a prompt.
LEMMA PromptIs ==
    ASSUME NEW p, IsPrompt(p)
    PROVE  /\ Len(p) \in Nat /\ DOMAIN p = 1..Len(p) /\ IsFiniteSet(DOMAIN p)
           /\ \A n \in DOMAIN p : /\ p[n].kind \in Kinds /\ p[n].len \in Nat /\ p[n].at = n
                                  /\ RankOf(p, n) \in Nat
                                  /\ RankOf(p, n) = 0 <=> p[n].kind \in {"ROLE", "GOAL"}
           /\ \A lines \in SUBSET DOMAIN p : Measured(p, lines) /\ lines \subseteq Nat
<1>1. Len(p) \in Nat /\ DOMAIN p = 1..Len(p)
    BY DEF IsPrompt
<1>2. IsFiniteSet(DOMAIN p)
    BY <1>1, FS_Interval
<1>3. \A n \in DOMAIN p : p[n].kind \in Kinds /\ p[n].len \in Nat /\ p[n].at = n
    <2> DEFINE L == [at : Nat, kind : Kinds, len : Nat, field : Kinds]
    <2>1. p \in Seq(L) /\ \A n \in DOMAIN p : p[n].at = n
        BY DEF IsPrompt
    <2>2. \A l \in L : l.kind \in Kinds /\ l.len \in Nat
        OBVIOUS
    <2> HIDE DEF L
    <2>3. \A n \in DOMAIN p : p[n] \in L
        BY <2>1
    <2> QED BY <2>1, <2>2, <2>3
<1>4. \A n \in DOMAIN p : /\ RankOf(p, n) \in Nat
                          /\ RankOf(p, n) = 0 <=> p[n].kind \in {"ROLE", "GOAL"}
    BY <1>3, RankIs DEF RankOf
<1>5. \A lines \in SUBSET DOMAIN p : Measured(p, lines) /\ lines \subseteq Nat
    BY <1>1, <1>2, <1>3, FS_Subset DEF Measured
<1> QED BY <1>1, <1>2, <1>3, <1>4, <1>5

\* Of the lines of some units, those that are units are those units.
LEMMA LinesOfUnits ==
    ASSUME NEW p, IsPrompt(p), NEW units, units \subseteq Units(p)
    PROVE  /\ LinesOf(p, units) \subseteq DOMAIN p
           /\ \A u \in Units(p) : u \in LinesOf(p, units) <=> u \in units
<1>1. DOMAIN p \subseteq Nat
    BY PromptIs
<1>2. \A u \in units : u \in LinesOf(p, units)
    <2> TAKE u \in units
    <2>1. u \in DOMAIN p /\ u <= u /\ (u + 1)..u = {}
        BY <1>1 DEF Units
    <2> QED BY <2>1 DEF LinesOf
<1>3. ASSUME NEW u \in Units(p), u \in LinesOf(p, units) PROVE u \in units
    <2>1. PICK v \in units : v <= u /\ \A i \in (v + 1)..u : Owned(p, i)
        BY <1>3 DEF LinesOf
    <2>2. u \in Nat /\ v \in Nat /\ ~Owned(p, u)
        BY <1>1 DEF Units
    <2>3. ~(u \in (v + 1)..u)
        BY <2>1, <2>2
    <2>4. u = v
        BY <2>1, <2>2, <2>3
    <2> QED BY <2>4
<1> QED BY <1>2, <1>3 DEF LinesOf

\* A set of numbers into to n has a greatest one.
LEMMA MaxOf ==
    ASSUME NEW n \in Nat, NEW S, S \subseteq 1..n, S # {}
    PROVE  Max(S) \in S /\ \A j \in S : j <= Max(S)
<1> DEFINE T == {n - j : j \in S}
<1>1. PICK t \in T : \A j \in T : t <= j
    <2>1. T \subseteq Nat
        OBVIOUS
    <2>2. PICK j \in S : TRUE
        OBVIOUS
    <2>3. n - j \in T
        OBVIOUS
    <2> HIDE DEF T
    <2> QED BY <2>1, <2>3, LeastOf
<1>2. PICK m \in S : t = n - m
    OBVIOUS
<1>3. ASSUME NEW j \in S PROVE m >= j
    <2>1. n - m <= n - j
        BY <1>1, <1>2
    <2>2. m \in Int /\ j \in Int
        OBVIOUS
    <2> QED BY <2>1, <2>2
<1>4. Max(S) \in S /\ \A j \in S : Max(S) >= j
    BY <1>3 DEF Max
<1> QED BY <1>4

Rest(p) == Units(p) \ Essential(p)
Order(p) == SortedBy(Rest(p), LAMBDA u, v : Before(p, u, v))
Priority(p) == {uv \in Rest(p) \X Rest(p) : Before(p, uv[1], uv[2])}

\* Units that are not essential are tried by rank, then by place.
LEMMA OrderIs ==
    ASSUME NEW p, IsPrompt(p)
    PROVE  Ordered(Rest(p), Priority(p), Order(p))
<1> DEFINE S == Rest(p)
           R == Priority(p)
           q == Placed(S, R)
<1>1. IsFiniteSet(S) /\ \A n \in S : n \in Nat /\ RankOf(p, n) \in Nat
    BY PromptIs, FS_Subset DEF Rest, Units
<1>2. \A m, n \in S : <<m, n>> \in R <=> Before(p, m, n)
    BY DEF Priority
<1>3. StrictOrder(S, R)
    <2>1. \A m, n \in S : Before(p, m, n) <=> \/ RankOf(p, m) < RankOf(p, n)
                                              \/ RankOf(p, m) = RankOf(p, n) /\ m < n
        BY DEF Before
    <2> HIDE DEF S, R
    <2> QED BY <1>1, <1>2, <2>1 DEF StrictOrder
<1>4. \A n \in S : {m \in S : <<m, n>> \in R} = {m \in S : Before(p, m, n)}
    <2> HIDE DEF S, R
    <2> QED BY <1>2
<1>5. q = Order(p)
    <2> DEFINE a(k) == CHOOSE n \in S : Cardinality({m \in S : <<m, n>> \in R}) = k - 1
               b(k) == CHOOSE n \in S : Cardinality({m \in S : Before(p, m, n)}) = k - 1
    <2>1. \A k \in 1..Cardinality(S) : a(k) = b(k)
        <3> HIDE DEF S, R
        <3> QED BY <1>4
    <2>2. q = [k \in 1..Cardinality(S) |-> a(k)]
        <3> HIDE DEF S, R
        <3> QED BY DEF Placed
    <2>3. Order(p) = [k \in 1..Cardinality(S) |-> b(k)]
        BY DEF Order, SortedBy
    <2> HIDE DEF a, b, q, S, R
    <2> QED BY <2>1, <2>2, <2>3
<1>6. Ordered(S, R, q)
    <2> HIDE DEF S, R
    <2> QED BY <1>1, <1>3, PlacesAreOrdered
<1> QED BY <1>5, <1>6

\* The units kept after each of them has been tried in its turn.
Tries(p, budget, kept, n) ==
    /\ kept \in [0..n -> SUBSET Units(p)]
    /\ kept[0] = Essential(p)
    /\ \A k \in 1..n :
         LET with == kept[k - 1] \cup {Order(p)[k]}
         IN  kept[k] = IF Fits(p, with, budget) THEN with ELSE kept[k - 1]

\* The units that are admitted are those kept after the last has been tried.
LEMMA AdmittedIs ==
    ASSUME NEW p, IsPrompt(p), NEW budget
    PROVE  LET n == Cardinality(Rest(p))
           IN  \E kept : Tries(p, budget, kept, n) /\ Admitted(p, budget) = kept[n]
<1> DEFINE n == Cardinality(Rest(p))
           q == Order(p)
           D == 1..n
           V == SUBSET Units(p)
           Try(v, u) == IF Fits(p, v \cup {u}, budget) THEN v \cup {u} ELSE v
           pick == [s \in SUBSET D |-> Max(s)]
           step == [sv \in (SUBSET D) \X V |-> IF sv[1] = {} THEN {} ELSE Try(sv[2], q[Max(sv[1])])]
           IsIt(E, it) == it = [s \in SUBSET E |-> IF s = {} THEN Essential(p)
                                                   ELSE Try(it[s \ {Max(s)}], Order(p)[Max(s)])]
<1>1. n \in Nat /\ q \in [D -> Rest(p)] /\ DOMAIN q = D
    BY OrderIs DEF Ordered
<1>2. IsFiniteSet(D) /\ Essential(p) \in V /\ Rest(p) \subseteq Units(p)
    BY <1>1, FS_Interval DEF Essential, Rest
<1>3. \A s \in SUBSET D : s # {} => Max(s) \in s
    BY <1>1, MaxOf
<1>4. \A v \in V : \A u \in Units(p) : Try(v, u) \in V
    OBVIOUS
<1>5. \A s \in SUBSET D : s # {} => pick[s] \in s
    BY <1>3
<1>6. \A s \in SUBSET D : \A v \in V : step[<<s, v>>] \in V
    <2> SUFFICES ASSUME NEW s \in SUBSET D, NEW v \in V PROVE step[<<s, v>>] \in V
        OBVIOUS
    <2>1. step[<<s, v>>] = IF s = {} THEN {} ELSE Try(v, q[Max(s)])
        <3> HIDE DEF V, Try, D, q
        <3> QED OBVIOUS
    <2>2. s # {} => q[Max(s)] \in Units(p)
        <3> HIDE DEF q, V, Try
        <3> QED BY <1>1, <1>2, <1>3
    <2>3. {} \in V
        OBVIOUS
    <2> HIDE DEF V, Try, D, q, step
    <2> QED BY <1>4, <2>1, <2>2, <2>3
<1>7. PICK it \in [SUBSET D -> V] : Folding(D, Essential(p), pick, step, it)
    <2> HIDE DEF D, V, pick, step
    <2> QED BY <1>2, <1>5, <1>6, FoldExists
<1>8. ASSUME NEW s \in SUBSET D, s # {}
      PROVE  step[<<s, it[s \ {pick[s]}]>>] = Try(it[s \ {Max(s)}], q[Max(s)])
    <2>1. pick[s] = Max(s)
        OBVIOUS
    <2>2. it[s \ {Max(s)}] \in V
        <3> HIDE DEF V, D
        <3> QED OBVIOUS
    <2> HIDE DEF V, Try, D, q, pick
    <2> QED BY <1>8, <2>1, <2>2
<1>9. IsIt(D, it)
    <2> HIDE DEF V, Try, D, pick, step
    <2> QED BY <1>7, <1>8 DEF Folding
<1> DEFINE f == CHOOSE g : IsIt(D, g)
<1>10. IsIt(D, f)
    <2> HIDE DEF IsIt
    <2> QED BY <1>9
<1>11. Admitted(p, budget) = f[D]
    <2> DEFINE E == DOMAIN Order(p)
    <2>1. Admitted(p, budget) = (CHOOSE g : IsIt(E, g))[E]
        BY DEF Admitted, FoldLeft, MapThenFoldSet, Order, Rest
    <2>2. E = D
        BY <1>1
    <2> HIDE DEF IsIt, D, E
    <2> QED BY <2>1, <2>2
<1> HIDE DEF f
<1> DEFINE kept == [k \in 0..n |-> f[1..k]]
<1>12. \A k \in 0..n : 1..k \in SUBSET D
    BY <1>1
<1>13. f[1..0] = Essential(p)
    <2>1. 1..0 = {} /\ {} \in SUBSET D
        OBVIOUS
    <2> HIDE DEF D, Try
    <2> QED BY <1>10, <2>1
<1>14. ASSUME NEW k \in 1..n PROVE f[1..k] = Try(f[1..(k - 1)], q[k])
    <2>1. 1..k \in SUBSET D /\ 1..k # {} /\ k \in 1..k /\ k \in Nat /\ 1..k \subseteq Nat
        BY <1>1
    <2>2. Max(1..k) = k
        <3>1. Max(1..k) \in 1..k /\ k <= Max(1..k)
            BY <2>1, MaxOf
        <3> QED BY <2>1, <3>1
    <2>3. (1..k) \ {k} = 1..(k - 1)
        BY <2>1
    <2> HIDE DEF D, Try
    <2> QED BY <1>10, <2>1, <2>2, <2>3
<1>15. \A k \in 0..n : kept[k] \in V
    <2> DEFINE Q == {k \in Nat : k \in 0..n => f[1..k] \in V}
    <2>1. 0 \in Q
        BY <1>2, <1>13
    <2>2. ASSUME NEW k \in Nat, k \in Q PROVE k + 1 \in Q
        <3> SUFFICES ASSUME k + 1 \in 0..n PROVE f[1..(k + 1)] \in V
            OBVIOUS
        <3>1. k + 1 \in 1..n /\ k \in 0..n /\ (k + 1) - 1 = k
            BY <1>1
        <3>2. q[k + 1] \in Units(p) /\ f[1..k] \in V
            BY <1>1, <1>2, <2>2, <3>1
        <3>3. f[1..(k + 1)] = Try(f[1..k], q[k + 1])
            <4> HIDE DEF Try, q, n
            <4> QED BY <1>14, <3>1
        <3> HIDE DEF Try, q, n, V
        <3> QED BY <1>4, <3>2, <3>3
    <2>3. Nat \subseteq Q
        <3> HIDE DEF Q
        <3> QED BY <2>1, <2>2, Onwards
    <2> HIDE DEF V
    <2> QED BY <1>1, <2>3
<1>16. Tries(p, budget, kept, n)
    <2>1. kept \in [0..n -> V]
        <3> HIDE DEF V
        <3> QED BY <1>15
    <2>2. kept[0] = Essential(p)
        BY <1>1, <1>13
    <2>3. ASSUME NEW k \in 1..n PROVE kept[k] = Try(kept[k - 1], q[k])
        <3>1. k \in 0..n /\ k - 1 \in 0..n
            BY <1>1
        <3> HIDE DEF Try, q, n
        <3> QED BY <1>14, <3>1
    <2> HIDE DEF kept
    <2> QED BY <2>1, <2>2, <2>3 DEF Tries
<1>17. Admitted(p, budget) = kept[n]
    BY <1>1, <1>11
<1> HIDE DEF kept
<1> QED BY <1>16, <1>17

\* What is admitted holds what must be kept and fits; what is left out does not fit with
\* what is more important than it.
LEMMA AdmittedRightly ==
    ASSUME NEW p, IsPrompt(p), NEW budget, Fits(p, Essential(p), budget)
    PROVE  LET K == Admitted(p, budget)
           IN  /\ Essential(p) \subseteq K /\ K \subseteq Units(p) /\ Fits(p, K, budget)
               /\ \A u \in Units(p) \ K : ~Fits(p, {v \in K : Before(p, v, u)} \cup {u}, budget)
<1> DEFINE n == Cardinality(Rest(p))
           q == Order(p)
           K == Admitted(p, budget)
<1>1. PICK kept : Tries(p, budget, kept, n) /\ K = kept[n]
    BY AdmittedIs
<1>2. /\ n \in Nat /\ q \in [1..n -> Rest(p)]
      /\ \A u \in Rest(p) : \E k \in 1..n : q[k] = u
      /\ \A i, j \in 1..n : i < j <=> <<q[i], q[j]>> \in Priority(p)
    BY OrderIs DEF Ordered
<1> HIDE DEF n, q, K
<1>3. \A i, j \in 1..n : i < j <=> Before(p, q[i], q[j])
    BY <1>2 DEF Priority
<1>4. /\ kept \in [0..n -> SUBSET Units(p)]
      /\ kept[0] = Essential(p)
      /\ \A k \in 1..n :
           kept[k] = IF Fits(p, kept[k - 1] \cup {q[k]}, budget)
                     THEN kept[k - 1] \cup {q[k]} ELSE kept[k - 1]
    BY <1>1 DEF Tries, q
<1>5. \A i, j \in 1..n : q[i] = q[j] => i = j
    <2> SUFFICES ASSUME NEW i \in 1..n, NEW j \in 1..n, q[i] = q[j] PROVE i = j
        OBVIOUS
    <2>1. (i < j <=> Before(p, q[i], q[i])) /\ (j < i <=> Before(p, q[i], q[i])) /\ (i < i <=> Before(p, q[i], q[i]))
        BY <1>3
    <2> QED BY <1>2, <2>1
<1> DEFINE Good(k) == /\ Essential(p) \subseteq kept[k] /\ Fits(p, kept[k], budget)
                      /\ \A i \in 1..n : q[i] \in kept[k] <=> i <= k /\ q[i] \in kept[i]
           Q == {k \in Nat : k \in 0..n => Good(k)}
<1>6. 0 \in Q
    <2>1. \A i \in 1..n : q[i] \notin Essential(p) /\ ~(i <= 0)
        BY <1>2 DEF Rest
    <2>2. Good(0)
        BY <1>4, <2>1
    <2> HIDE DEF Good
    <2> QED BY <2>2
<1>7. ASSUME NEW k \in Nat, k \in Q PROVE k + 1 \in Q
    <2> SUFFICES ASSUME k + 1 \in 0..n PROVE Good(k + 1)
        OBVIOUS
    <2>1. k + 1 \in 1..n /\ k \in 0..n /\ (k + 1) - 1 = k
        BY <1>2
    <2>2. Good(k)
        <3> HIDE DEF Good
        <3> QED BY <1>7, <2>1
    <2>3. kept[k + 1] = IF Fits(p, kept[k] \cup {q[k + 1]}, budget)
                        THEN kept[k] \cup {q[k + 1]} ELSE kept[k]
        BY <1>4, <2>1
    <2>4. ASSUME NEW i \in 1..n PROVE q[i] \in kept[k + 1] <=> i <= k + 1 /\ q[i] \in kept[i]
        <3>1. CASE i = k + 1
            BY <3>1
        <3>2. CASE i # k + 1
            <4>1. q[i] # q[k + 1]
                BY <1>5, <2>1, <3>2
            <4>2. q[i] \in kept[k + 1] <=> q[i] \in kept[k]
                BY <2>3, <4>1
            <4>3. i <= k + 1 <=> i <= k
                BY <2>1, <3>2
            <4> QED BY <2>2, <4>2, <4>3
        <3> QED BY <3>1, <3>2
    <2> QED BY <2>2, <2>3, <2>4
<1>8. \A k \in 0..n : Good(k)
    <2>1. Nat \subseteq Q
        <3> HIDE DEF Q
        <3> QED BY <1>6, <1>7, Onwards
    <2> HIDE DEF Good
    <2> QED BY <1>2, <2>1
<1>9. n \in 0..n /\ K = kept[n] /\ K \subseteq Units(p)
    BY <1>1, <1>2, <1>4
<1>10. ASSUME NEW u \in Units(p) \ K
       PROVE  ~Fits(p, {v \in K : Before(p, v, u)} \cup {u}, budget)
    <2>1. u \in Rest(p)
        BY <1>8, <1>9 DEF Rest
    <2>2. PICK j \in 1..n : q[j] = u
        BY <1>2, <2>1
    <2>3. j - 1 \in 0..n /\ j \in 0..n /\ j <= n
        BY <1>2
    <2>4. q[j] \notin kept[j]
        BY <1>8, <1>9, <2>2, <2>3
    <2>5. ~Fits(p, kept[j - 1] \cup {u}, budget)
        BY <1>4, <2>2, <2>4
    <2>6. ASSUME NEW v \in Units(p)
          PROVE  v \in kept[j - 1] <=> v \in K /\ Before(p, v, u)
        <3>1. CASE v \in Essential(p)
            <4>1. v \in kept[j - 1] /\ v \in K
                BY <1>8, <1>9, <2>3, <3>1
            <4>2. RankOf(p, v) = 0 /\ RankOf(p, u) # 0 /\ RankOf(p, u) \in Nat
                BY <2>1, <3>1, PromptIs DEF Essential, Rest, Units
            <4>3. Before(p, v, u)
                BY <4>2 DEF Before
            <4> QED BY <4>1, <4>3
        <3>2. CASE v \notin Essential(p)
            <4>1. PICK i \in 1..n : q[i] = v
                BY <1>2, <3>2 DEF Rest
            <4>2. v \in kept[j - 1] <=> i <= j - 1 /\ v \in kept[i]
                BY <1>8, <2>3, <4>1
            <4>3. v \in K <=> i <= n /\ v \in kept[i]
                BY <1>8, <1>9, <4>1
            <4>4. i <= n /\ (i <= j - 1 <=> i < j)
                BY <1>2, <2>3
            <4>5. i < j <=> Before(p, v, u)
                BY <1>3, <2>2, <4>1
            <4> QED BY <4>2, <4>3, <4>4, <4>5
        <3> QED BY <3>1, <3>2
    <2>7. kept[j - 1] \subseteq Units(p)
        BY <1>4, <2>3
    <2>8. kept[j - 1] = {v \in K : Before(p, v, u)}
        BY <1>9, <2>6, <2>7
    <2> QED BY <2>5, <2>8
<1> QED BY <1>8, <1>9, <1>10 DEF K

-----------------------------------------------------------------------------
(* The length of a marker. *)

\* What holds of a number when it holds of all the smaller ones, holds of all.
LEMMA FromSmaller ==
    ASSUME NEW S, \A n \in Nat : (\A k \in 0..(n - 1) : k \in S) => n \in S
    PROVE  Nat \subseteq S
<1> DEFINE Bad == {k \in Nat : k \notin S}
<1> SUFFICES ASSUME Bad # {} PROVE FALSE
    OBVIOUS
<1>1. PICK m \in Bad : \A j \in Bad : m <= j
    <2>1. Bad \subseteq Nat
        OBVIOUS
    <2> HIDE DEF Bad
    <2> QED BY <2>1, LeastOf
<1>2. m \in Nat /\ m \notin S
    OBVIOUS
<1>3. ASSUME NEW k \in 0..(m - 1) PROVE k \in S
    <2>1. k \in Nat /\ ~(m <= k)
        BY <1>2
    <2> QED BY <1>1, <2>1
<1> QED BY <1>2, <1>3

\* A tenth of a number is a smaller one.
LEMMA Tenth ==
    ASSUME NEW n \in Nat, n >= 10
    PROVE  n \div 10 \in 0..(n - 1)
OBVIOUS

\* Tenths are ordered as the numbers are.
LEMMA TenthKeepsOrder ==
    ASSUME NEW m \in Nat, NEW n \in Nat, m <= n
    PROVE  m \div 10 <= n \div 10
OBVIOUS

DigitsOf(g, n) == IF n < 10 THEN 1 ELSE 1 + g[n \div 10]

\* The recursion is well founded: there is such a function.
LEMMA DigitsIs ==
    /\ Digits \in [Nat -> Nat]
    /\ \A n \in Nat : Digits[n] = DigitsOf(Digits, n)
<1> DEFINE Part(g, m) == g \in [0..m -> Nat] /\ \A n \in 0..m : g[n] = DigitsOf(g, n)
           Good == {m \in Nat : \E g : Part(g, m)}
           IsIt(f) == f = [n \in Nat |-> DigitsOf(f, n)]
<1>1. ASSUME NEW a \in Nat, NEW b \in Nat, NEW g, NEW h, Part(g, a), Part(h, b)
      PROVE  \A n \in Nat : n <= a /\ n <= b => g[n] = h[n]
    <2> DEFINE Same == {n \in Nat : n <= a /\ n <= b => g[n] = h[n]}
    <2>1. ASSUME NEW n \in Nat, \A k \in 0..(n - 1) : k \in Same PROVE n \in Same
        <3> SUFFICES ASSUME n <= a, n <= b PROVE g[n] = h[n]
            OBVIOUS
        <3>1. n \in 0..a /\ n \in 0..b
            OBVIOUS
        <3>2. g[n] = DigitsOf(g, n) /\ h[n] = DigitsOf(h, n)
            BY <1>1, <3>1
        <3>3. n >= 10 => g[n \div 10] = h[n \div 10]
            <4> SUFFICES ASSUME n >= 10 PROVE g[n \div 10] = h[n \div 10]
                OBVIOUS
            <4> DEFINE t == n \div 10
            <4>1. t \in 0..(n - 1)
                BY Tenth
            <4> HIDE DEF t
            <4>2. t \in Same /\ t \in Nat /\ t <= a /\ t <= b
                BY <2>1, <4>1
            <4>3. g[t] = h[t]
                BY <4>2
            <4> QED BY <4>3 DEF t
        <3> HIDE DEF Part, Same
        <3> QED BY <3>2, <3>3 DEF DigitsOf
    <2>2. Nat \subseteq Same
        <3> HIDE DEF Same
        <3> QED BY <2>1, FromSmaller
    <2> QED BY <2>2
<1>2. 0 \in Good
    <2>1. Part([n \in 0..0 |-> 1], 0)
        BY DEF DigitsOf
    <2>2. \E g : Part(g, 0)
        BY <2>1
    <2> HIDE DEF Part
    <2> QED BY <2>2
<1>3. ASSUME NEW m \in Nat, m \in Good PROVE m + 1 \in Good
    <2>1. PICK g : Part(g, m)
        BY <1>3
    <2> DEFINE h == [n \in 0..(m + 1) |-> DigitsOf(g, n)]
    <2>2. ASSUME NEW n \in 0..(m + 1), n >= 10 PROVE n \div 10 \in 0..m
        <3> DEFINE t == n \div 10
        <3>1. t \in 0..(n - 1)
            BY <2>2, Tenth
        <3> HIDE DEF t
        <3>2. t \in 0..m
            BY <3>1
        <3> QED BY <3>2 DEF t
    <2>3. h \in [0..(m + 1) -> Nat]
        <3>1. ASSUME NEW n \in 0..(m + 1) PROVE DigitsOf(g, n) \in Nat
            <4>1. n >= 10 => g[n \div 10] \in Nat
                BY <2>1, <2>2
            <4> HIDE DEF Part
            <4>2. CASE n < 10
                BY <4>2 DEF DigitsOf
            <4>3. CASE ~(n < 10)
                <5> DEFINE d == g[n \div 10]
                <5>1. n >= 10
                    BY <4>3
                <5>2. d \in Nat
                    BY <4>1, <5>1
                <5>3. DigitsOf(g, n) = 1 + d
                    BY <4>3 DEF DigitsOf
                <5> HIDE DEF d
                <5> QED BY <5>2, <5>3
            <4> QED BY <4>2, <4>3
        <3> HIDE DEF Part
        <3> QED BY <3>1
    <2>4. \A n \in 0..m : n \in 0..(m + 1) /\ h[n] = g[n]
        <3> TAKE n \in 0..m
        <3>1. n \in 0..(m + 1)
            OBVIOUS
        <3> QED BY <2>1, <3>1
    <2>5. ASSUME NEW n \in 0..(m + 1) PROVE h[n] = DigitsOf(h, n)
        <3>1. h[n] = DigitsOf(g, n)
            OBVIOUS
        <3>2. n >= 10 => h[n \div 10] = g[n \div 10]
            <4> HIDE DEF h, Part
            <4> QED BY <2>2, <2>4
        <3> HIDE DEF h, Part
        <3>3. n < 10 \/ n >= 10
            OBVIOUS
        <3> QED BY <3>1, <3>2, <3>3 DEF DigitsOf
    <2>6. Part(h, m + 1)
        <3> HIDE DEF h
        <3> QED BY <2>3, <2>5
    <2>7. m + 1 \in Nat /\ \E x : Part(x, m + 1)
        <3> HIDE DEF h, Part
        <3> QED BY <2>6
    <2> HIDE DEF Part
    <2> QED BY <2>7
<1>4. \A m \in Nat : \E g : Part(g, m)
    <2>1. Nat \subseteq Good
        <3> HIDE DEF Good
        <3> QED BY <1>2, <1>3, Onwards
    <2> HIDE DEF Part
    <2> QED BY <2>1
<1> DEFINE G(m) == CHOOSE g : Part(g, m)
           f == [n \in Nat |-> G(n)[n]]
<1>5. ASSUME NEW m \in Nat PROVE Part(G(m), m)
    <2> HIDE DEF Part
    <2> QED BY <1>4
<1>6. ASSUME NEW m \in Nat, NEW n \in 0..m PROVE f[n] = G(m)[n]
    <2>1. n \in Nat /\ n <= m /\ n <= n
        OBVIOUS
    <2>2. Part(G(m), m) /\ Part(G(n), n)
        BY <1>5, <2>1
    <2>3. f[n] = G(n)[n]
        <3> HIDE DEF G
        <3> QED BY <2>1
    <2> HIDE DEF Part, f, G
    <2> QED BY <1>1, <2>1, <2>2, <2>3
<1>7. ASSUME NEW n \in Nat PROVE f[n] = DigitsOf(f, n) /\ f[n] \in Nat
    <2>1. Part(G(n), n) /\ n \in 0..n
        <3> HIDE DEF Part, G
        <3> QED BY <1>5
    <2>2. f[n] = G(n)[n]
        <3> HIDE DEF f, G, Part
        <3> QED BY <1>6, <2>1
    <2>3. G(n)[n] = DigitsOf(G(n), n) /\ G(n)[n] \in Nat
        <3> HIDE DEF f, G
        <3> QED BY <2>1
    <2>4. n >= 10 => f[n \div 10] = G(n)[n \div 10]
        <3> SUFFICES ASSUME n >= 10 PROVE f[n \div 10] = G(n)[n \div 10]
            OBVIOUS
        <3> DEFINE t == n \div 10
        <3>1. t \in 0..(n - 1)
            BY Tenth
        <3> HIDE DEF t, f, G, Part
        <3>2. t \in 0..n
            BY <3>1
        <3>3. f[t] = G(n)[t]
            BY <1>6, <3>2
        <3> QED BY <3>3 DEF t
    <2>5. n < 10 \/ n >= 10
        OBVIOUS
    <2> HIDE DEF f, G, Part
    <2> QED BY <2>2, <2>3, <2>4, <2>5 DEF DigitsOf
<1>8. IsIt(f)
    <2>1. f = [n \in Nat |-> f[n]]
        <3> HIDE DEF G
        <3> QED OBVIOUS
    <2> HIDE DEF f
    <2> QED BY <1>7, <2>1
<1>9. IsIt(Digits)
    <2>1. IsIt(CHOOSE g : IsIt(g))
        <3> HIDE DEF IsIt, f
        <3> QED BY <1>8
    <2>2. Digits = CHOOSE g : IsIt(g)
        BY DEF Digits, DigitsOf
    <2> HIDE DEF IsIt
    <2> QED BY <2>1, <2>2
<1>10. \A n \in Nat : Digits[n] = DigitsOf(Digits, n)
    BY <1>9
<1>11. \A n \in Nat : Digits[n] \in Nat
    <2> DEFINE Q == {n \in Nat : Digits[n] \in Nat}
    <2>1. ASSUME NEW n \in Nat, \A k \in 0..(n - 1) : k \in Q PROVE n \in Q
        <3>1. CASE n < 10
            BY <1>10, <3>1 DEF DigitsOf
        <3>2. CASE n >= 10
            <4> DEFINE d == Digits[n \div 10]
            <4>1. n \div 10 \in Q
                BY <2>1, <3>2, Tenth
            <4>2. d \in Nat
                BY <4>1
            <4>3. Digits[n] = 1 + d
                <5>1. ~(n < 10)
                    BY <3>2
                <5> QED BY <1>10, <5>1 DEF DigitsOf
            <4> HIDE DEF d
            <4> QED BY <4>2, <4>3
        <3> QED BY <3>1, <3>2
    <2>2. Nat \subseteq Q
        <3> HIDE DEF Q
        <3> QED BY <2>1, FromSmaller
    <2> QED BY <2>2
<1>12. Digits = [n \in Nat |-> Digits[n]]
    BY <1>9
<1> QED BY <1>10, <1>11, <1>12

\* A larger number takes no fewer digits.
LEMMA DigitsGrow ==
    ASSUME NEW m \in Nat, NEW n \in Nat, m <= n
    PROVE  Digits[m] <= Digits[n]
<1> DEFINE Q == {b \in Nat : \A a \in 0..b : Digits[a] <= Digits[b]}
<1>1. ASSUME NEW b \in Nat, \A k \in 0..(b - 1) : k \in Q PROVE b \in Q
    <2> SUFFICES ASSUME NEW a \in 0..b PROVE Digits[a] <= Digits[b]
        OBVIOUS
    <2>1. Digits[a] = DigitsOf(Digits, a) /\ Digits[b] = DigitsOf(Digits, b) /\ Digits[b] \in Nat
        BY DigitsIs
    <2>2. CASE b < 10
        <3>1. a < 10
            BY <2>2
        <3> QED BY <2>1, <2>2, <3>1 DEF DigitsOf
    <2>3. CASE b >= 10
        <3> DEFINE s == a \div 10
                   t == b \div 10
        <3>1. s \in Nat /\ t \in 0..(b - 1) /\ s <= t
            BY <2>3, Tenth, TenthKeepsOrder
        <3>2. Digits[b] = 1 + Digits[t] /\ (a < 10 => Digits[a] = 1) /\ (~(a < 10) => Digits[a] = 1 + Digits[s])
            <4>1. ~(b < 10)
                BY <2>3
            <4> QED BY <2>1, <4>1 DEF DigitsOf
        <3> HIDE DEF s, t
        <3>3. s \in 0..t /\ t \in Q
            BY <1>1, <3>1
        <3>4. Digits[s] <= Digits[t]
            BY <3>3
        <3>5. Digits[s] \in Nat /\ Digits[t] \in Nat
            BY <3>1, DigitsIs
        <3> DEFINE x == Digits[s]
                   y == Digits[t]
        <3> HIDE DEF x, y
        <3>6. x <= y /\ x \in Nat /\ y \in Nat
            BY <3>4, <3>5 DEF x, y
        <3>7. Digits[b] = 1 + y /\ (Digits[a] = 1 \/ Digits[a] = 1 + x)
            BY <3>2 DEF x, y
        <3> QED BY <3>6, <3>7
    <2> QED BY <2>2, <2>3
<1>2. Nat \subseteq Q
    <2> HIDE DEF Q
    <2> QED BY <1>1, FromSmaller
<1>3. n \in Q /\ m \in 0..n
    BY <1>2
<1> QED BY <1>3

-----------------------------------------------------------------------------
(* A projection keeps its word. *)

KeptOf(r) == {r[i].at : i \in {j \in DOMAIN r : r[j].kind # "MARKER"}}

DeclaresDrops(p, r) ==
    /\ r # p => r[Len(r)].kind = "MARKER" /\ (Len(r) - 1) + r[Len(r)].n = Len(p)
    /\ \A i, j \in 1..(IF r # p THEN Len(r) - 1 ELSE Len(r)) : i < j => r[i].at < r[j].at
DropsLeast(p, r, budget) ==
    r # p => LET units == {u \in Units(p) : u \in KeptOf(r)}
             IN  \A u \in Units(p) \ units :
                   ~Fits(p, {v \in units : Before(p, v, u)} \cup {u}, budget)
KeepsRoleAndGoal(p, r) ==
    \A n \in DOMAIN p : p[n].kind \in {"ROLE", "GOAL"} => n \in KeptOf(r)
KeepsHeadings(p, r) ==
    (\A n \in DOMAIN p : p[n].field = "BULLET" => p[n].kind = "BULLET") =>
        \A n \in KeptOf(r) : p[n].field = "BULLET" =>
            \E h \in KeptOf(r) : h < n /\ p[h].kind = "CONSTRAINTS"

\* What ProjectionKeepsItsWord asks of the prompt r sent for p.
Honest(p, r, budget) ==
    /\ Count(r) <= budget
    /\ DeclaresDrops(p, r) /\ DropsLeast(p, r, budget)
    /\ KeepsRoleAndGoal(p, r) /\ KeepsHeadings(p, r)

\* The heading of a constraint.
LEMMA HeadingOf ==
    ASSUME NEW p, IsPrompt(p), NEW n \in DOMAIN p, p[n].field = "BULLET"
    PROVE  \E h \in DOMAIN p : /\ h < n /\ p[h].kind = "CONSTRAINTS"
                               /\ \A i \in (h + 1)..n : i \in DOMAIN p /\ p[i].field = "BULLET"
<1>1. PICK h \in 1..(n - 1) : /\ p[h].kind = "CONSTRAINTS"
                              /\ \A i \in (h + 1)..n : p[i].field = "BULLET"
    BY DEF IsPrompt
<1>2. n \in 1..Len(p) /\ Len(p) \in Nat /\ DOMAIN p = 1..Len(p)
    BY PromptIs
<1>3. h \in DOMAIN p /\ h < n /\ \A i \in (h + 1)..n : i \in DOMAIN p
    BY <1>2
<1> QED BY <1>1, <1>3

\* A prompt that fits is sent as it is.
LEMMA WholeIsHonest ==
    ASSUME NEW p, IsPrompt(p), NEW budget, Count(p) <= budget
    PROVE  Honest(p, p, budget)
<1>1. /\ Len(p) \in Nat /\ DOMAIN p = 1..Len(p)
      /\ \A n \in DOMAIN p : p[n].at = n /\ p[n].kind \in Kinds
    BY PromptIs
<1>2. "MARKER" \notin Kinds
    BY DEF Kinds, Rank
<1>3. KeptOf(p) = DOMAIN p
    BY <1>1, <1>2 DEF KeptOf
<1>4. KeepsHeadings(p, p)
    BY <1>3, HeadingOf DEF KeepsHeadings
<1>5. DeclaresDrops(p, p)
    BY <1>1 DEF DeclaresDrops
<1> QED BY <1>3, <1>4, <1>5 DEF Honest, DropsLeast, KeepsRoleAndGoal

\* All the lines of a prompt, in place.
LEMMA AllInPlace ==
    ASSUME NEW n \in Nat
    PROVE  InPlace(1..n) = [k \in 1..n |-> k]
<1>1. IsFiniteSet(1..n) /\ Cardinality(1..n) = n
    BY FS_Interval
<1> DEFINE c(k) == CHOOSE x \in 1..n : Cardinality({m \in 1..n : m < x}) = k - 1
<1>2. InPlace(1..n) = [k \in 1..Cardinality(1..n) |-> c(k)]
    BY DEF InPlace, SortedBy
<1>3. ASSUME NEW k \in 1..n PROVE c(k) = k
    <2>1. ASSUME NEW x \in 1..n PROVE Cardinality({m \in 1..n : m < x}) = x - 1
        <3>1. {m \in 1..n : m < x} = 1..(x - 1)
            OBVIOUS
        <3>2. Cardinality(1..(x - 1)) = x - 1
            <4>1. x - 1 \in Int /\ 1 \in Int /\ x \in Nat /\ x >= 1
                OBVIOUS
            <4>2. Cardinality(1..(x - 1)) = IF 1 > x - 1 THEN 0 ELSE (x - 1) - 1 + 1
                BY <4>1, FS_Interval
            <4> QED BY <4>1, <4>2
        <3> QED BY <3>1, <3>2
    <2>2. \A x \in 1..n : Cardinality({m \in 1..n : m < x}) = k - 1 <=> x = k
        <3> TAKE x \in 1..n
        <3>1. x - 1 = k - 1 <=> x = k
            OBVIOUS
        <3> QED BY <2>1, <3>1
    <2> QED BY <2>2
<1> HIDE DEF c
<1> QED BY <1>1, <1>2, <1>3

\* The lines that are kept, as they are put into the prompt, cost what they cost.
LEMMA BytesOfPicked ==
    ASSUME NEW p, IsPrompt(p), NEW L, L \subseteq DOMAIN p, NEW r, NEW k,
           Ordered(L, {mn \in L \X L : mn[1] < mn[2]}, InPlace(L)), k = Cardinality(L),
           \A i \in 1..k : r[i].len = p[InPlace(L)[i]].len
    PROVE  Bytes(r, 1..k) = Bytes(p, L) /\ Measured(r, 1..k)
<1> DEFINE q == InPlace(L)
           Upto(j) == {q[i] : i \in 1..j}
           Q == {j \in Nat : j <= k => Bytes(r, 1..j) = Bytes(p, Upto(j))}
<1>1. /\ k \in Nat /\ q \in [1..k -> L]
      /\ \A n \in L : \E i \in 1..k : q[i] = n
      /\ \A i, j \in 1..k : i < j => q[i] < q[j]
    BY DEF Ordered
<1> HIDE DEF q
<1>2. \A i \in 1..k : r[i].len \in Nat /\ q[i] \in L /\ r[i].len = p[q[i]].len
    <2> TAKE i \in 1..k
    <2>1. q[i] \in L /\ r[i].len = p[q[i]].len
        BY <1>1 DEF q
    <2>2. q[i] \in DOMAIN p
        BY <2>1
    <2>3. p[q[i]].len \in Nat
        BY <2>2, PromptIs
    <2> QED BY <2>1, <2>3
<1>3. \A j \in Nat : j <= k => /\ Measured(r, 1..j) /\ Measured(p, Upto(j))
    <2> TAKE j \in Nat
    <2> HAVE j <= k
    <2>1. IsFiniteSet(1..j) /\ \A i \in 1..j : i \in 1..k
        BY <1>1, FS_Interval
    <2>2. Upto(j) \in SUBSET DOMAIN p
        BY <1>2, <2>1
    <2> HIDE DEF Upto
    <2> QED BY <1>2, <2>1, <2>2, PromptIs DEF Measured
<1>4. 0 \in Q
    <2>1. 1..0 = {} /\ Upto(0) = {}
        OBVIOUS
    <2> HIDE DEF Upto
    <2> QED BY <2>1, BytesOfNone
<1>5. ASSUME NEW j \in Nat, j \in Q PROVE j + 1 \in Q
    <2> SUFFICES ASSUME j + 1 <= k PROVE Bytes(r, 1..(j + 1)) = Bytes(p, Upto(j + 1))
        OBVIOUS
    <2>1. j <= k /\ j + 1 \in 1..k /\ j + 1 \notin 1..j /\ 1..(j + 1) = (1..j) \cup {j + 1}
        BY <1>1
    <2>2. Bytes(r, 1..j) = Bytes(p, Upto(j))
        BY <1>5, <2>1
    <2>3. Upto(j + 1) = Upto(j) \cup {q[j + 1]}
        BY <2>1
    <2>4. q[j + 1] \notin Upto(j)
        <3> SUFFICES ASSUME NEW i \in 1..j, q[i] = q[j + 1] PROVE FALSE
            OBVIOUS
        <3>1. i \in 1..k /\ i < j + 1
            BY <1>1, <2>1
        <3>2. q[i] \in DOMAIN p /\ q[i] < q[j + 1]
            BY <1>1, <1>2, <2>1, <3>1
        <3>3. q[i] \in Nat
            BY <3>2, PromptIs
        <3> HIDE DEF Upto, Q
        <3>4. q[i] < q[i]
            BY <3>2
        <3> DEFINE x == q[i]
        <3>5. x \in Nat /\ x < x
            BY <3>3, <3>4
        <3> HIDE DEF x
        <3> QED BY <3>5
    <2> HIDE DEF Upto, Q
    <2>5. Measured(r, 1..(j + 1)) /\ Measured(p, Upto(j + 1))
        <3>1. j + 1 \in Nat
            OBVIOUS
        <3> QED BY <1>3, <3>1
    <2>6. Bytes(r, 1..(j + 1)) = Bytes(r, 1..j) + r[j + 1].len + 1
        BY <2>1, <2>5, BytesOfMore
    <2>7. Bytes(p, Upto(j + 1)) = Bytes(p, Upto(j)) + p[q[j + 1]].len + 1
        BY <2>3, <2>4, <2>5, BytesOfMore
    <2> QED BY <1>2, <2>1, <2>2, <2>6, <2>7
<1>6. Nat \subseteq Q
    <2> HIDE DEF Q
    <2> QED BY <1>4, <1>5, Onwards
<1>7. Upto(k) = L
    BY <1>1
<1> HIDE DEF Upto
<1> QED BY <1>1, <1>3, <1>6, <1>7

\* What an arch can be handed: lines of known kinds and lengths, and a marker.
Legible(r) ==
    \E N \in Nat : /\ DOMAIN r = 1..N
                   /\ \A i \in 1..N : r[i].kind \in Kinds \cup {"MARKER"} /\ r[i].len \in Nat

\* More bytes are more tokens.
LEMMA TokensGrow ==
    ASSUME NEW a \in Nat, NEW b \in Nat, a <= b
    PROVE  Tokens(a) <= Tokens(b) /\ Tokens(a) \in Nat /\ Tokens(b) \in Nat
BY DEF Tokens

\* A line that stands under its heading goes where the heading goes.
LEMMA HeadingsGoAlong ==
    ASSUME NEW p, IsPrompt(p), NEW K, K \subseteq Units(p),
           \A n \in DOMAIN p : p[n].field = "BULLET" => p[n].kind = "BULLET",
           NEW n \in LinesOf(p, K), p[n].field = "BULLET"
    PROVE  \E h \in LinesOf(p, K) : h < n /\ p[h].kind = "CONSTRAINTS"
<1>1. n \in DOMAIN p /\ DOMAIN p \subseteq Nat
    BY PromptIs DEF LinesOf
<1>2. PICK h \in DOMAIN p : /\ h < n /\ p[h].kind = "CONSTRAINTS"
                            /\ \A i \in (h + 1)..n : i \in DOMAIN p /\ p[i].field = "BULLET"
    BY <1>1, HeadingOf
<1>3. \A i \in (h + 1)..n : Owned(p, i)
    <2> TAKE i \in (h + 1)..n
    <2>1. h \in 1..(i - 1) /\ \A j \in (h + 1)..i : j \in (h + 1)..n
        BY <1>1, <1>2, PromptIs
    <2>2. \A j \in (h + 1)..i : p[j].kind = "BULLET"
        BY <1>2, <2>1
    <2> QED BY <1>2, <2>1, <2>2 DEF Owned
<1>4. ~Owned(p, h)
    <2> SUFFICES ASSUME Owned(p, h) PROVE FALSE
        OBVIOUS
    <2>1. PICK g \in 1..(h - 1) : \A i \in (g + 1)..h : p[i].kind = "BULLET"
        BY DEF Owned
    <2>2. h \in (g + 1)..h
        BY <1>1, <2>1
    <2> QED BY <1>2, <2>1, <2>2
<1>5. PICK u \in K : u <= n /\ \A i \in (u + 1)..n : Owned(p, i)
    BY DEF LinesOf
<1>6. u \in Nat /\ ~Owned(p, u)
    BY <1>1 DEF Units
<1>7. u = h
    <2>1. ~(u > h)
        <3>1. u > h => u \in (h + 1)..n
            BY <1>1, <1>5, <1>6
        <3> QED BY <1>3, <1>6, <3>1
    <2>2. ~(u < h)
        <3>1. u < h => h \in (u + 1)..n
            BY <1>1, <1>2, <1>6
        <3> QED BY <1>4, <1>5, <3>1
    <2> QED BY <1>1, <1>6, <2>1, <2>2
<1>8. h \in LinesOf(p, K)
    <2>1. h \in Units(p)
        BY <1>4 DEF Units
    <2> QED BY <1>7, <2>1, LinesOfUnits
<1> QED BY <1>2, <1>8

\* More units have more lines.
LEMMA LinesOfMore ==
    ASSUME NEW p, NEW J, NEW K, J \subseteq K
    PROVE  LinesOf(p, J) \subseteq LinesOf(p, K)
BY DEF LinesOf

\* Whatever prompt and budget it is given, project() refuses, or makes of the prompt one
\* that keeps its word (arch::project).
THEOREM ProjectionIsHonest ==
    ASSUME NEW p, IsPrompt(p), NEW budget \in Nat, Project(p, budget) # Unfit
    PROVE  Honest(p, Project(p, budget), budget) /\ Legible(Project(p, budget))
<1> DEFINE r == Project(p, budget)
           K == Admitted(p, budget)
           L == LinesOf(p, K)
           k == Cardinality(L)
           n == Dropped(p, K)
           q == InPlace(L)
           N == Len(p)
<1>18. ASSUME Count(p) <= budget PROVE Honest(p, r, budget) /\ Legible(r)
    <2>1. r = p
        BY <1>18 DEF Project
    <2>2. Legible(p)
        BY PromptIs DEF Legible
    <2> HIDE DEF r
    <2> QED BY <1>18, <2>1, <2>2, WholeIsHonest
<1> SUFFICES ASSUME ~(Count(p) <= budget) PROVE Honest(p, r, budget) /\ Legible(r)
    BY <1>18
<1>1. Fits(p, Essential(p), budget)
    BY DEF Project
<1>2. /\ Essential(p) \subseteq K /\ K \subseteq Units(p) /\ Fits(p, K, budget)
      /\ \A u \in Units(p) \ K : ~Fits(p, {v \in K : Before(p, v, u)} \cup {u}, budget)
    BY <1>1, AdmittedRightly
<1>3. /\ N \in Nat /\ DOMAIN p = 1..N /\ IsFiniteSet(DOMAIN p)
      /\ \A i \in DOMAIN p : p[i].at = i /\ p[i].kind \in Kinds
    BY PromptIs
<1>0. Cardinality(DOMAIN p) = N
    <2> HIDE DEF N
    <2>1. Cardinality(1..N) = N
        BY <1>3, FS_Interval
    <2> QED BY <1>3, <2>1
<1>4. L \subseteq DOMAIN p /\ \A u \in Units(p) : u \in L <=> u \in K
    BY <1>2, LinesOfUnits
<1>5. IsFiniteSet(L) /\ L \subseteq Nat /\ k \in Nat
    BY <1>3, <1>4, FS_Subset, FS_CardinalityType, PromptIs
<1>6. Ordered(L, {mn \in L \X L : mn[1] < mn[2]}, q)
    BY <1>5, InPlaceIs
<1>7. /\ q \in [1..k -> L] /\ DOMAIN q = 1..k
      /\ \A i \in L : \E j \in 1..k : q[j] = i
      /\ \A i, j \in 1..k : i < j => q[i] < q[j]
    BY <1>6 DEF Ordered
<1>8. IsFiniteSet(DOMAIN p \ L) /\ n \in Nat /\ n + k = N
    <2>1. IsFiniteSet(DOMAIN p \ L) /\ n \in Nat
        BY <1>3, FS_Difference, FS_CardinalityType DEF Dropped
    <2>2. Cardinality(DOMAIN p \ L) = Cardinality(DOMAIN p) - Cardinality((DOMAIN p) \cap L)
        BY <1>3, FS_Difference
    <2>3. (DOMAIN p) \cap L = L /\ Cardinality(DOMAIN p) = N
        <3> HIDE DEF L, N
        <3> QED BY <1>0, <1>4
    <2>4. n = N - k
        BY <2>2, <2>3 DEF Dropped
    <2> HIDE DEF n, k, N
    <2> QED BY <1>3, <1>5, <2>1, <2>4
<1>9. r = [i \in 1..k |-> p[q[i]]] \o (IF n = 0 THEN <<>> ELSE <<Marker(n)>>)
    <2>1. r = [i \in DOMAIN q |-> p[q[i]]] \o (IF n = 0 THEN <<>> ELSE <<Marker(n)>>)
        BY <1>1 DEF Project
    <2> HIDE DEF r, q, k, n
    <2> QED BY <1>7, <2>1
<1>10. ASSUME n = 0 PROVE r = p
    <2>1. k = N /\ L = DOMAIN p
        <3>1. k = N
            BY <1>3, <1>5, <1>8, <1>10
        <3> HIDE DEF L, N
        <3> QED BY <1>0, <1>3, <1>4, <3>1, FS_Subset DEF k
    <2>2. q = [i \in 1..N |-> i]
        <3>1. InPlace(1..N) = [i \in 1..N |-> i]
            BY <1>3, AllInPlace
        <3> HIDE DEF L, N
        <3> QED BY <1>3, <2>1, <3>1 DEF q
    <2>3. [i \in 1..k |-> p[q[i]]] = p
        <3>1. p = [i \in 1..N |-> p[i]]
            BY <1>3 DEF IsPrompt
        <3>2. \A i \in 1..N : p[q[i]] = p[i]
            BY <2>2
        <3> HIDE DEF q, k, N
        <3> QED BY <2>1, <3>1, <3>2
    <2>4. p \o <<>> = p
        BY DEF IsPrompt
    <2> HIDE DEF r, q, k, n
    <2> QED BY <1>9, <1>10, <2>3, <2>4
<1> DEFINE w == [i \in 1..k |-> p[q[i]]]
<1>11. w \in Seq({p[i] : i \in DOMAIN p}) /\ Len(w) = k
    <2>1. \A i \in 1..k : q[i] \in DOMAIN p
        BY <1>4, <1>7
    <2> HIDE DEF k, q
    <2> QED BY <1>5, <2>1
<1>12. ASSUME n # 0
       PROVE  /\ Len(r) = k + 1 /\ DOMAIN r = 1..(k + 1)
              /\ r[k + 1] = Marker(n)
              /\ \A i \in 1..k : r[i] = p[q[i]]
    <2>1. r = w \o <<Marker(n)>>
        BY <1>9, <1>12
    <2>2. \A i \in 1..k : w[i] = p[q[i]]
        OBVIOUS
    <2> DEFINE M == Marker(n)
               P == {p[i] : i \in DOMAIN p}
    <2>3. r = w \o <<M>> /\ w \in Seq(P)
        BY <1>11, <2>1
    <2> HIDE DEF w, r, k, q, n, M, P
    <2>4. Len(r) = k + 1 /\ DOMAIN r = 1..(k + 1) /\ r[k + 1] = M /\ \A i \in 1..k : r[i] = w[i]
        BY <1>5, <1>11, <2>3
    <2> QED BY <2>2, <2>4 DEF M
<1> DEFINE b == Bytes(p, L)
           m == Cardinality(DOMAIN p \ LinesOf(p, Essential(p)))
           c == 27 + Digits[m]
           d == 27 + Digits[n]
<1>13. b \in Nat /\ Tokens(b + c + 1) <= budget
    <2>1. Reserved(p).len = c
        BY DEF Reserved, Marker
    <2>2. b \in Nat
        BY <1>4, PromptIs, BytesType
    <2> QED BY <1>2, <2>1, <2>2 DEF Fits
<1>14. c \in Nat /\ d \in Nat /\ d <= c
    <2>1. LinesOf(p, Essential(p)) \subseteq L
        BY <1>2, LinesOfMore
    <2>2. IsFiniteSet(DOMAIN p \ LinesOf(p, Essential(p)))
        BY <1>3, FS_Difference
    <2>3. m \in Nat /\ n <= m
        <3>1. DOMAIN p \ L \in SUBSET (DOMAIN p \ LinesOf(p, Essential(p)))
            BY <2>1
        <3> HIDE DEF L, K
        <3> QED BY <2>2, <3>1, FS_Subset, FS_CardinalityType DEF Dropped, L, K
    <2> HIDE DEF m, n
    <2>4. Digits[n] <= Digits[m] /\ Digits[n] \in Nat /\ Digits[m] \in Nat
        BY <1>8, <2>3, DigitsGrow, DigitsIs
    <2> DEFINE x == Digits[n]
               y == Digits[m]
    <2>5. x <= y /\ x \in Nat /\ y \in Nat
        BY <2>4
    <2> HIDE DEF x, y
    <2>6. 27 + x <= 27 + y /\ 27 + x \in Nat /\ 27 + y \in Nat
        BY <2>5
    <2> QED BY <2>6 DEF x, y
<1>15. Count(r) <= budget
    <2> SUFFICES ASSUME NEW e \in Nat, Count(r) = Tokens(e), e <= b + c + 1 PROVE Count(r) <= budget
        <3>1. CASE n = 0
            <4>1. Count(r) = Tokens(b)
                <5>1. L = DOMAIN p
                    <6>1. k = N
                        BY <1>3, <1>5, <1>8, <3>1
                    <6> HIDE DEF L, N
                    <6> QED BY <1>0, <1>3, <1>4, <6>1, FS_Subset DEF k
                <5>2. r = p
                    BY <1>10, <3>1
                <5> HIDE DEF r, L
                <5> QED BY <5>1, <5>2 DEF Count
            <4>2. b <= b + c + 1
                <5> HIDE DEF b, c
                <5> QED BY <1>13, <1>14
            <4> HIDE DEF r, b, c
            <4> QED BY <1>13, <4>1, <4>2
        <3>2. CASE n # 0
            <4>1. Bytes(r, 1..k) = b /\ Measured(r, 1..k)
                <5>1. \A i \in 1..k : r[i].len = p[q[i]].len
                    <6> HIDE DEF r, q, k
                    <6> QED BY <1>12, <3>2
                <5> HIDE DEF r, L
                <5> QED BY <1>4, <1>6, <5>1, BytesOfPicked
            <4>2. r[k + 1].len = d /\ DOMAIN r = 1..(k + 1)
                <5>1. Marker(n).len = d
                    BY DEF Marker
                <5> HIDE DEF r, k, n
                <5> QED BY <1>12, <3>2, <5>1
            <4>3. Bytes(r, 1..(k + 1)) = b + d + 1
                <5>1. k + 1 \notin 1..k /\ 1..(k + 1) = (1..k) \cup {k + 1}
                    <6> HIDE DEF k
                    <6> QED BY <1>5
                <5>2. IsFiniteSet(1..(k + 1))
                    <6> HIDE DEF k
                    <6>1. k + 1 \in Int /\ 1 \in Int
                        BY <1>5
                    <6> QED BY <6>1, FS_Interval
                <5>3. Measured(r, 1..(k + 1))
                    <6> HIDE DEF r, k, d, b
                    <6> QED BY <1>14, <4>1, <4>2, <5>1, <5>2 DEF Measured
                <5> HIDE DEF r, k, d, b
                <5>4. Bytes(r, 1..(k + 1)) = Bytes(r, 1..k) + r[k + 1].len + 1
                    <6> DEFINE S == 1..k
                               x == k + 1
                               T == 1..(k + 1)
                    <6>1. x \notin S /\ T = S \cup {x} /\ Measured(r, T)
                        BY <5>1, <5>3
                    <6> HIDE DEF S, x, T
                    <6>2. Bytes(r, T) = Bytes(r, S) + r[x].len + 1
                        BY <6>1, BytesOfMore
                    <6> QED BY <6>2 DEF S, x, T
                <5> QED BY <4>1, <4>2, <5>4
            <4>4. Count(r) = Tokens(b + d + 1)
                <5> HIDE DEF r, k, d, b
                <5> QED BY <4>2, <4>3 DEF Count
            <4>5. b + d + 1 \in Nat /\ b + d + 1 <= b + c + 1
                <5> HIDE DEF b, c, d
                <5> QED BY <1>13, <1>14
            <4> HIDE DEF r, b, c, d
            <4> QED BY <4>4, <4>5
        <3> QED BY <3>1, <3>2
    <2> HIDE DEF r, b, c
    <2>1. b + c + 1 \in Nat
        BY <1>13, <1>14
    <2>2. Tokens(e) <= Tokens(b + c + 1) /\ Tokens(e) \in Nat /\ Tokens(b + c + 1) \in Nat
        BY <2>1, TokensGrow
    <2> QED BY <1>13, <2>2
<1>16. CASE r = p
    <2>1. Legible(p)
        BY <1>3, PromptIs DEF Legible
    <2> HIDE DEF r
    <2> QED BY <1>15, <1>16, <2>1, WholeIsHonest
<1>17. CASE r # p
    <2>1. n # 0
        <3> HIDE DEF r, n
        <3> QED BY <1>10, <1>17
    <2>2. /\ Len(r) = k + 1 /\ DOMAIN r = 1..(k + 1)
          /\ r[k + 1] = Marker(n)
          /\ \A i \in 1..k : r[i] = p[q[i]]
        <3> HIDE DEF r, n, k, q
        <3> QED BY <1>12, <2>1
    <2>3. \A i \in 1..k : r[i].at = q[i] /\ r[i].kind \in Kinds /\ q[i] \in L /\ q[i] \in Nat
        <3>1. \A i \in 1..k : q[i] \in L /\ q[i] \in DOMAIN p /\ q[i] \in Nat
            <4> HIDE DEF r, n, k, q, L
            <4> QED BY <1>4, <1>5, <1>7
        <3> HIDE DEF r, n, k, q, L
        <3> QED BY <1>3, <2>2, <3>1
    <2>4. r[k + 1].kind = "MARKER" /\ r[k + 1].n = n
        <3>1. Marker(n).kind = "MARKER" /\ Marker(n).n = n
            BY DEF Marker
        <3> HIDE DEF r, n, k
        <3> QED BY <2>2, <3>1
    <2>5. KeptOf(r) = L
        <3>1. "MARKER" \notin Kinds
            BY DEF Kinds, Rank
        <3>2. \A i \in DOMAIN r : i \in 1..k \/ i = k + 1
            <4> HIDE DEF r, k
            <4> QED BY <1>5, <2>2
        <3>3. \A i \in 1..k : i \in DOMAIN r
            <4> HIDE DEF r, k
            <4> QED BY <1>5, <2>2
        <3> HIDE DEF r, k, q, L, n
        <3> QED BY <1>7, <2>3, <2>4, <3>1, <3>2, <3>3 DEF KeptOf
    <2>6. DeclaresDrops(p, r)
        <3>1. (Len(r) - 1) + r[Len(r)].n = Len(p) /\ Len(r) - 1 = k /\ Len(r) = k + 1
            <4> HIDE DEF r, k, n
            <4> QED BY <1>5, <1>8, <2>2, <2>4
        <3>2. \A i, j \in 1..k : i < j => r[i].at < r[j].at
            <4> HIDE DEF r, k, q, L
            <4> QED BY <1>7, <2>3
        <3> HIDE DEF r, k
        <3> QED BY <1>17, <2>4, <3>1, <3>2 DEF DeclaresDrops
    <2>7. DropsLeast(p, r, budget)
        <3>1. {u \in Units(p) : u \in KeptOf(r)} = K
            <4> HIDE DEF r, L, K
            <4> QED BY <1>2, <1>4, <2>5
        <3> HIDE DEF r, K
        <3> QED BY <1>2, <3>1 DEF DropsLeast
    <2>8. KeepsRoleAndGoal(p, r)
        <3> SUFFICES ASSUME NEW i \in DOMAIN p, p[i].kind \in {"ROLE", "GOAL"} PROVE i \in KeptOf(r)
            BY DEF KeepsRoleAndGoal
        <3>1. ~Owned(p, i)
            <4> SUFFICES ASSUME Owned(p, i) PROVE FALSE
                OBVIOUS
            <4>1. PICK h \in 1..(i - 1) : \A j \in (h + 1)..i : p[j].kind = "BULLET"
                BY DEF Owned
            <4>2. i \in (h + 1)..i
                BY <1>3, <4>1
            <4> QED BY <4>1, <4>2
        <3>2. i \in Units(p) /\ RankOf(p, i) = 0
            BY <3>1, PromptIs DEF Units
        <3>3. i \in K
            BY <1>2, <3>2 DEF Essential
        <3> HIDE DEF r, L, K
        <3> QED BY <1>4, <2>5, <3>2, <3>3
    <2>9. KeepsHeadings(p, r)
        <3> HIDE DEF r, K
        <3> QED BY <1>2, <2>5, HeadingsGoAlong DEF KeepsHeadings, L
    <2>10. Legible(r)
        <3>1. ASSUME NEW i \in 1..(k + 1)
              PROVE  r[i].kind \in Kinds \cup {"MARKER"} /\ r[i].len \in Nat
            <4>1. CASE i = k + 1
                <5>1. Marker(n).len = d
                    BY DEF Marker
                <5> HIDE DEF r, k, n, d
                <5> QED BY <1>14, <2>2, <2>4, <4>1, <5>1
            <4>2. CASE i # k + 1
                <5>1. i \in 1..k
                    <6> HIDE DEF k
                    <6> QED BY <1>5, <4>2
                <5>2. r[i] = p[q[i]] /\ q[i] \in DOMAIN p
                    <6> HIDE DEF r, k, q, L
                    <6> QED BY <1>4, <2>2, <2>3, <5>1
                <5>3. p[q[i]].kind \in Kinds /\ p[q[i]].len \in Nat
                    <6> HIDE DEF q
                    <6> QED BY <5>2, PromptIs
                <5> HIDE DEF r, q
                <5> QED BY <5>2, <5>3
            <4> QED BY <4>1, <4>2
        <3>2. k + 1 \in Nat
            <4> HIDE DEF k
            <4> QED BY <1>5
        <3> HIDE DEF r, k
        <3> QED BY <2>2, <3>1, <3>2 DEF Legible
    <2> HIDE DEF r
    <2> QED BY <1>15, <2>6, <2>7, <2>8, <2>9, <2>10 DEF Honest
<1> HIDE DEF r
<1> QED BY <1>16, <1>17

-----------------------------------------------------------------------------
(* A register, lowered, is a prompt. *)

LinesOfField(f) == [kind : Kinds, len : Nat, field : {f}]
AllLines == [kind : Kinds, len : Nat, field : Kinds]

\* Parts put one after another are lines if each of the parts is.
LEMMA FlattenType ==
    ASSUME NEW T, NEW seqs \in Seq(Seq(T))
    PROVE  FlattenSeq(seqs) \in Seq(T)
<1> DEFINE n == Len(seqs)
           S == Seq(T)
           Part(f, m) == f = [i \in 1..m |-> IF i = 1 THEN seqs[i] ELSE f[i - 1] \o seqs[i]]
           Good == {m \in Nat : \E f : Part(f, m)}
<1>1. n \in Nat /\ \A i \in 1..n : seqs[i] \in S
    <2> HIDE DEF S
    <2> QED BY DEF S
<1>2. \A s, t \in S : s \o t \in S
    OBVIOUS
<1>3. 0 \in Good
    <2>1. Part([i \in 1..0 |-> <<>>], 0)
        OBVIOUS
    <2>2. \E f : Part(f, 0)
        BY <2>1
    <2> HIDE DEF Part
    <2> QED BY <2>2
<1>4. ASSUME NEW m \in Nat, m \in Good PROVE m + 1 \in Good
    <2>1. PICK g : Part(g, m)
        BY <1>4
    <2> DEFINE h == [i \in 1..(m + 1) |-> IF i = 1 THEN seqs[i] ELSE g[i - 1] \o seqs[i]]
    <2>2. \A i \in 1..m : i \in 1..(m + 1) /\ h[i] = g[i]
        <3> TAKE i \in 1..m
        <3>1. i \in 1..(m + 1)
            OBVIOUS
        <3>2. g[i] = IF i = 1 THEN seqs[i] ELSE g[i - 1] \o seqs[i]
            BY <2>1
        <3> HIDE DEF Part
        <3> QED BY <3>1, <3>2
    <2>3. ASSUME NEW i \in 1..(m + 1) PROVE h[i] = IF i = 1 THEN seqs[i] ELSE h[i - 1] \o seqs[i]
        <3>1. h[i] = IF i = 1 THEN seqs[i] ELSE g[i - 1] \o seqs[i]
            OBVIOUS
        <3>2. i # 1 => i - 1 \in 1..m
            OBVIOUS
        <3> HIDE DEF h, Part
        <3> QED BY <2>2, <3>1, <3>2
    <2>4. Part(h, m + 1)
        <3>1. h = [i \in 1..(m + 1) |-> h[i]]
            OBVIOUS
        <3> HIDE DEF h
        <3> QED BY <2>3, <3>1
    <2>5. \E f : Part(f, m + 1)
        <3> HIDE DEF h, Part
        <3> QED BY <2>4
    <2> HIDE DEF Part
    <2> QED BY <2>5
<1>5. \E f : Part(f, n)
    <2>1. Nat \subseteq Good
        <3> HIDE DEF Good
        <3> QED BY <1>3, <1>4, Onwards
    <2> HIDE DEF Part, n
    <2> QED BY <1>1, <2>1
<1> DEFINE f == CHOOSE g : Part(g, n)
<1>6. Part(f, n)
    <2> HIDE DEF Part, n
    <2> QED BY <1>5
<1>7. n # 0 => FlattenSeq(seqs) = f[n]
    BY DEF FlattenSeq
<1> HIDE DEF f
<1> DEFINE Q == {m \in Nat : m + 1 \in 1..n => f[m + 1] \in S}
<1>8. 0 \in Q
    <2> SUFFICES ASSUME 0 + 1 \in 1..n PROVE f[0 + 1] \in S
        OBVIOUS
    <2>1. f[1] = seqs[1]
        <3> HIDE DEF n
        <3> QED BY <1>6
    <2> HIDE DEF S, n
    <2> QED BY <1>1, <2>1
<1>9. ASSUME NEW m \in Nat, m \in Q PROVE m + 1 \in Q
    <2> SUFFICES ASSUME (m + 1) + 1 \in 1..n PROVE f[(m + 1) + 1] \in S
        OBVIOUS
    <2>1. m + 1 \in 1..n /\ (m + 1) + 1 # 1 /\ ((m + 1) + 1) - 1 = m + 1
        <3> HIDE DEF n
        <3> QED BY <1>1
    <2>2. f[(m + 1) + 1] = f[m + 1] \o seqs[(m + 1) + 1]
        <3> HIDE DEF n
        <3> QED BY <1>6, <2>1
    <2>3. f[m + 1] \in S
        BY <1>9, <2>1
    <2> HIDE DEF S, n
    <2> QED BY <1>1, <1>2, <2>2, <2>3
<1>10. CASE n = 0
    <2>1. FlattenSeq(seqs) = seqs /\ seqs = <<>>
        BY <1>10 DEF FlattenSeq
    <2> QED BY <2>1
<1>11. CASE n # 0
    <2>1. Nat \subseteq Q
        <3> HIDE DEF Q
        <3> QED BY <1>8, <1>9, Onwards
    <2>2. n - 1 \in Nat /\ (n - 1) + 1 = n /\ n \in 1..n
        <3> HIDE DEF n
        <3> QED BY <1>1, <1>11
    <2>3. f[n] \in S
        <3> HIDE DEF n, S
        <3> QED BY <2>1, <2>2
    <2> HIDE DEF n
    <2> QED BY <1>7, <1>11, <2>3
<1> QED BY <1>10, <1>11

\* The lines of a text, under the field they come from.
LEMMA HeadedType ==
    ASSUME NEW f \in Kinds, NEW text \in Texts
    PROVE  Headed(f, text) \in Seq(LinesOfField(f))
<1> DEFINE X == [kind : DOMAIN Rank, len : Nat]
           h(n) == [kind |-> IF n = 1 THEN f ELSE text[n].kind, len |-> text[n].len, field |-> f]
<1>1. text \in Seq(X)
    BY DEF Texts
<1>2. \A x \in X : x.kind \in Kinds /\ x.len \in Nat
    BY DEF Kinds
<1> HIDE DEF X
<1>3. Len(text) \in Nat /\ DOMAIN text = 1..Len(text) /\ \A n \in 1..Len(text) : text[n] \in X
    BY <1>1
<1>4. \A n \in 1..Len(text) : h(n) \in LinesOfField(f)
    BY <1>2, <1>3 DEF LinesOfField
<1>5. Headed(f, text) = [n \in 1..Len(text) |-> h(n)]
    BY <1>3 DEF Headed
<1> HIDE DEF h
<1> QED BY <1>3, <1>4, <1>5

\* The lines of texts of one field.
LEMMA SectionType ==
    ASSUME NEW f \in Kinds, NEW texts \in Seq(Texts)
    PROVE  Section(f, texts) \in Seq(LinesOfField(f))
<1> DEFINE T == LinesOfField(f)
           seqs == [n \in DOMAIN texts |-> Headed(f, texts[n])]
<1>1. Len(texts) \in Nat /\ DOMAIN texts = 1..Len(texts) /\ \A n \in 1..Len(texts) : texts[n] \in Texts
    OBVIOUS
<1>2. seqs \in Seq(Seq(T))
    <2>1. \A n \in 1..Len(texts) : Headed(f, texts[n]) \in Seq(T)
        BY <1>1, HeadedType
    <2> DEFINE U == Seq(T)
    <2>2. \A n \in 1..Len(texts) : Headed(f, texts[n]) \in U
        BY <2>1
    <2> HIDE DEF U
    <2>3. seqs \in Seq(U)
        BY <1>1, <2>2
    <2> QED BY <2>3 DEF U
<1>3. Section(f, texts) = FlattenSeq(seqs)
    BY DEF Section
<1> HIDE DEF seqs, T
<1> QED BY <1>2, <1>3, FlattenType DEF T

\* Every constraint of some lines stands under its heading.
Headings(s) ==
    \A n \in DOMAIN s : s[n].field = "BULLET" =>
        \E h \in 1..(n - 1) : /\ s[h].kind = "CONSTRAINTS"
                              /\ \A i \in (h + 1)..n : s[i].field = "BULLET"

\* Lines of which none is a constraint.
LEMMA WithoutConstraints ==
    ASSUME NEW f \in Kinds, f # "BULLET", NEW s \in Seq(LinesOfField(f))
    PROVE  s \in Seq(AllLines) /\ Headings(s)
<1>1. \A l \in LinesOfField(f) : l \in AllLines /\ l.field = f
    BY DEF LinesOfField, AllLines
<1> DEFINE X == LinesOfField(f)
<1> HIDE DEF X
<1>2. \A n \in DOMAIN s : s[n] \in X
    BY DEF X
<1>3. s \in Seq(AllLines)
    BY <1>1, <1>2 DEF X
<1>4. Headings(s)
    BY <1>1, <1>2 DEF Headings, X
<1> QED BY <1>3, <1>4

\* Parts put together keep their constraints under their headings.
LEMMA JoinedHeadings ==
    ASSUME NEW s \in Seq(AllLines), NEW t \in Seq(AllLines), Headings(s), Headings(t)
    PROVE  s \o t \in Seq(AllLines) /\ Headings(s \o t)
<1> DEFINE X == AllLines
           r == s \o t
<1>1. r \in Seq(AllLines)
    OBVIOUS
<1>2. /\ Len(s) \in Nat /\ Len(t) \in Nat /\ DOMAIN s = 1..Len(s) /\ DOMAIN t = 1..Len(t)
      /\ DOMAIN r = 1..(Len(s) + Len(t))
      /\ \A i \in 1..Len(s) : r[i] = s[i]
      /\ \A i \in 1..Len(t) : r[Len(s) + i] = t[i]
    <2> HIDE DEF X
    <2> QED BY DEF X
<1> HIDE DEF r
<1>3. ASSUME NEW n \in DOMAIN r, r[n].field = "BULLET"
      PROVE  \E h \in 1..(n - 1) : /\ r[h].kind = "CONSTRAINTS"
                                   /\ \A i \in (h + 1)..n : r[i].field = "BULLET"
    <2>1. CASE n <= Len(s)
        <3>1. n \in 1..Len(s) /\ s[n].field = "BULLET"
            BY <1>2, <1>3, <2>1
        <3>2. PICK h \in 1..(n - 1) : /\ s[h].kind = "CONSTRAINTS"
                                      /\ \A i \in (h + 1)..n : s[i].field = "BULLET"
            BY <1>2, <3>1 DEF Headings
        <3>3. r[h] = s[h] /\ \A i \in (h + 1)..n : r[i] = s[i]
            BY <1>2, <3>1
        <3> QED BY <3>2, <3>3
    <2>2. CASE ~(n <= Len(s))
        <3> DEFINE m == n - Len(s)
        <3>1. m \in 1..Len(t) /\ n = Len(s) + m /\ t[m].field = "BULLET"
            BY <1>2, <1>3, <2>2
        <3> HIDE DEF m
        <3>2. PICK h \in 1..(m - 1) : /\ t[h].kind = "CONSTRAINTS"
                                      /\ \A i \in (h + 1)..m : t[i].field = "BULLET"
            BY <1>2, <3>1 DEF Headings
        <3>3. r[Len(s) + h].kind = "CONSTRAINTS" /\ Len(s) + h \in 1..(n - 1)
            BY <1>2, <3>1, <3>2
        <3>4. ASSUME NEW i \in ((Len(s) + h) + 1)..n PROVE r[i].field = "BULLET"
            <4>1. i - Len(s) \in (h + 1)..m /\ i - Len(s) \in 1..Len(t)
                    /\ i = Len(s) + (i - Len(s))
                BY <1>2, <3>1
            <4> QED BY <1>2, <3>2, <4>1
        <3> QED BY <3>3, <3>4
    <2> QED BY <2>1, <2>2
<1>4. Headings(r)
    BY <1>3 DEF Headings
<1> QED BY <1>1, <1>4 DEF r

\* The constraints under their heading.
LEMMA ConstraintsHeaded ==
    ASSUME NEW s \in Seq(LinesOfField("BULLET"))
    PROVE  LET r == <<Header("CONSTRAINTS")>> \o s
           IN  r \in Seq(AllLines) /\ Headings(r)
<1> DEFINE X == LinesOfField("BULLET")
           c == Header("CONSTRAINTS")
           r == <<c>> \o s
<1>1. \A l \in X : l \in AllLines /\ l.field = "BULLET"
    BY DEF LinesOfField, AllLines, Kinds, Rank
<1>2. c \in AllLines /\ c.kind = "CONSTRAINTS"
    BY DEF Header, AllLines, HeaderLen, Kinds, Rank
<1> HIDE DEF X, c
<1>3. Len(s) \in Nat /\ \A i \in 1..Len(s) : s[i] \in X
    BY DEF X
<1>4. s \in Seq(AllLines) /\ <<c>> \in Seq(AllLines)
    <2> DEFINE A == AllLines
    <2> HIDE DEF A
    <2>1. s \in Seq(A) /\ <<c>> \in Seq(A)
        BY <1>1, <1>2, <1>3 DEF A, X
    <2> QED BY <2>1 DEF A
<1>5. r \in Seq(AllLines)
    <2> DEFINE A == AllLines
    <2> HIDE DEF A
    <2>1. <<c>> \o s \in Seq(A)
        BY <1>4 DEF A
    <2> QED BY <2>1 DEF A
<1>6. DOMAIN r = 1..(Len(s) + 1) /\ r[1] = c /\ \A i \in 2..(Len(s) + 1) : r[i].field = "BULLET"
    <2>1. \A i \in 2..(Len(s) + 1) : r[i] = s[i - 1] /\ i - 1 \in 1..Len(s)
        BY <1>3
    <2>2. DOMAIN r = 1..(Len(s) + 1) /\ r[1] = c
        BY <1>3
    <2> HIDE DEF r
    <2> QED BY <1>1, <1>3, <2>1, <2>2
<1>7. c.field # "BULLET"
    BY DEF c, Header
<1>8. Headings(r)
    <2> HIDE DEF r
    <2> SUFFICES ASSUME NEW n \in DOMAIN r, r[n].field = "BULLET"
                 PROVE  \E h \in 1..(n - 1) : /\ r[h].kind = "CONSTRAINTS"
                                              /\ \A i \in (h + 1)..n : r[i].field = "BULLET"
        BY DEF Headings
    <2>1. n # 1 /\ 1 \in 1..(n - 1) /\ \A i \in (1 + 1)..n : i \in 2..(Len(s) + 1)
        BY <1>3, <1>6, <1>7
    <2> QED BY <1>2, <1>6, <2>1
<1> QED BY <1>5, <1>8 DEF r, c

\* The texts of a register.
TextsOf(reg) ==
    /\ reg.goal \in Texts
    /\ reg.constraints \in Seq(Texts) /\ reg.evidence \in Seq(Texts)
    /\ reg.decisions \in Seq(Texts) /\ reg.open \in Seq(Texts)

\* What lower() makes of a register is a prompt.
LEMMA LowerIs ==
    ASSUME NEW reg, TextsOf(reg)
    PROVE  IsPrompt(Lower(reg))
<1> DEFINE Good(s) == s \in Seq(AllLines) /\ Headings(s)
           a == <<Header("ROLE")>>
           b == Headed("GOAL", reg.goal)
           c == IF reg.constraints = <<>> THEN <<>>
                ELSE <<Header("CONSTRAINTS")>> \o Section("BULLET", reg.constraints)
           d == Section("EVIDENCE", reg.evidence)
           e == Section("DECISION", reg.decisions)
           f == Section("OPEN", reg.open)
           lines == Lowered(reg)
<1>0. {"ROLE", "GOAL", "BULLET", "EVIDENCE", "DECISION", "OPEN"} \subseteq Kinds
    BY DEF Kinds, Rank
<1>1. Good(a)
    <2>1. Header("ROLE") \in LinesOfField("ROLE")
        BY <1>0 DEF Header, LinesOfField, HeaderLen
    <2>2. a \in Seq(LinesOfField("ROLE"))
        <3> DEFINE L == LinesOfField("ROLE")
        <3> HIDE DEF L
        <3>1. a \in Seq(L)
            BY <2>1 DEF L
        <3> QED BY <3>1 DEF L
    <2> HIDE DEF a
    <2> QED BY <1>0, <2>2, WithoutConstraints
<1>2. Good(b)
    <2>1. b \in Seq(LinesOfField("GOAL"))
        BY <1>0, HeadedType DEF TextsOf
    <2> HIDE DEF b
    <2> QED BY <1>0, <2>1, WithoutConstraints
<1>3. Good(c)
    <2>1. CASE reg.constraints = <<>>
        BY <2>1 DEF Headings
    <2>2. CASE reg.constraints # <<>>
        <3>1. Section("BULLET", reg.constraints) \in Seq(LinesOfField("BULLET"))
            BY <1>0, SectionType DEF TextsOf
        <3>2. Good(<<Header("CONSTRAINTS")>> \o Section("BULLET", reg.constraints))
            BY <3>1, ConstraintsHeaded
        <3> QED BY <2>2, <3>2
    <2> QED BY <2>1, <2>2
<1>4. Good(d)
    <2>1. d \in Seq(LinesOfField("EVIDENCE"))
        BY <1>0, SectionType DEF TextsOf
    <2> HIDE DEF d
    <2> QED BY <1>0, <2>1, WithoutConstraints
<1>5. Good(e)
    <2>1. e \in Seq(LinesOfField("DECISION"))
        BY <1>0, SectionType DEF TextsOf
    <2> HIDE DEF e
    <2> QED BY <1>0, <2>1, WithoutConstraints
<1>6. Good(f)
    <2>1. f \in Seq(LinesOfField("OPEN"))
        BY <1>0, SectionType DEF TextsOf
    <2> HIDE DEF f
    <2> QED BY <1>0, <2>1, WithoutConstraints
<1>7. \A s, t : Good(s) /\ Good(t) => Good(s \o t)
    BY JoinedHeadings
<1>8. lines = a \o b \o c \o d \o e \o f
    BY DEF Lowered
<1>9. Good(a \o b \o c \o d \o e \o f)
    <2> HIDE DEF Good, a, b, c, d, e, f, lines
    <2>1. Good(a \o b)
        BY <1>1, <1>2, <1>7
    <2>2. Good(a \o b \o c)
        BY <1>3, <1>7, <2>1
    <2>3. Good(a \o b \o c \o d)
        BY <1>4, <1>7, <2>2
    <2>4. Good(a \o b \o c \o d \o e)
        BY <1>5, <1>7, <2>3
    <2> QED BY <1>6, <1>7, <2>4
<1>10. Good(lines)
    <2> HIDE DEF Good, a, b, c, d, e, f, lines
    <2> QED BY <1>8, <1>9
<1> HIDE DEF a, b, c, d, e, f
<1> DEFINE line(n) == [at |-> n, kind |-> lines[n].kind, len |-> lines[n].len,
                       field |-> lines[n].field]
           p == [n \in DOMAIN lines |-> line(n)]
           N == Len(lines)
           P == [at : Nat, kind : Kinds, len : Nat, field : Kinds]
<1>11. Lower(reg) = p
    BY DEF Lower
<1> HIDE DEF lines
<1>12. N \in Nat /\ DOMAIN lines = 1..N /\ \A n \in 1..N : lines[n] \in AllLines
    <2> DEFINE A == AllLines
    <2>1. lines \in Seq(A)
        BY <1>10
    <2> HIDE DEF A
    <2>2. N \in Nat /\ DOMAIN lines = 1..N /\ \A n \in 1..N : lines[n] \in A
        BY <2>1
    <2> QED BY <2>2 DEF A
<1> HIDE DEF N
<1>13. \A n \in 1..N : line(n) \in P
    BY <1>12 DEF AllLines
<1>14. /\ DOMAIN p = 1..N
       /\ \A n \in 1..N : p[n] = line(n)
    BY <1>12
<1>15. p \in Seq(P)
    <2> HIDE DEF line, P
    <2>1. p = [n \in 1..N |-> line(n)]
        BY <1>12
    <2> HIDE DEF p
    <2> QED BY <1>12, <1>13, <2>1
<1>16. \A n \in 1..N : p[n].at = n /\ p[n].kind = lines[n].kind /\ p[n].field = lines[n].field
    BY <1>14
<1>17. \A n \in DOMAIN p : p[n].field = "BULLET" =>
         \E h \in 1..(n - 1) : /\ p[h].kind = "CONSTRAINTS"
                               /\ \A i \in (h + 1)..n : p[i].field = "BULLET"
    <2> HIDE DEF p, line
    <2> SUFFICES ASSUME NEW n \in 1..N, p[n].field = "BULLET"
                 PROVE  \E h \in 1..(n - 1) : /\ p[h].kind = "CONSTRAINTS"
                                              /\ \A i \in (h + 1)..n : p[i].field = "BULLET"
        BY <1>14
    <2>1. PICK h \in 1..(n - 1) : /\ lines[h].kind = "CONSTRAINTS"
                                  /\ \A i \in (h + 1)..n : lines[i].field = "BULLET"
        BY <1>10, <1>12, <1>16 DEF Headings
    <2>2. h \in 1..N /\ \A i \in (h + 1)..n : i \in 1..N
        BY <1>12
    <2> QED BY <1>16, <2>1, <2>2
<1>18. IsPrompt(p)
    BY <1>14, <1>15, <1>16, <1>17 DEF IsPrompt
<1> HIDE DEF p
<1> QED BY <1>11, <1>18

\* What an arch that echoes its prompt answers is a text.
LEMMA EchoIs ==
    ASSUME NEW r, Legible(r)
    PROVE  Echo(r) \in Texts
<1> DEFINE before(n) == Bytes(r, 1..(n - 1))
           shown == {n \in DOMAIN r : before(n) < 200}
           cut(n) == IF r[n].len + before(n) > 200 THEN 200 - before(n) ELSE r[n].len
           as(n) == IF r[n].kind = "MARKER" THEN "PLAIN" ELSE r[n].kind
           line(n) == [kind |-> as(n), len |-> cut(n)]
<1>1. Echo(r) = [n \in shown |-> line(n)]
    BY DEF Echo
<1>2. PICK N \in Nat : /\ DOMAIN r = 1..N
                       /\ \A i \in 1..N : r[i].kind \in Kinds \cup {"MARKER"} /\ r[i].len \in Nat
    BY DEF Legible
<1>3. \A j \in 0..N : Measured(r, 1..j)
    <2> TAKE j \in 0..N
    <2>1. j \in Int /\ 1 \in Int
        OBVIOUS
    <2>2. IsFiniteSet(1..j)
        BY <2>1, FS_Interval
    <2>3. \A i \in 1..j : i \in 1..N
        OBVIOUS
    <2> QED BY <1>2, <2>2, <2>3 DEF Measured
<1>4. \A n \in 1..N : before(n) \in Nat
    <2> TAKE n \in 1..N
    <2>1. n - 1 \in 0..N
        OBVIOUS
    <2> QED BY <1>3, <2>1, BytesType
<1>5. \A n \in 1..N : n + 1 \in 1..N => before(n) <= before(n + 1)
    <2> TAKE n \in 1..N
    <2> HAVE n + 1 \in 1..N
    <2>1. /\ n \notin 1..(n - 1) /\ 1..n = (1..(n - 1)) \cup {n}
          /\ n \in 0..N /\ (n + 1) - 1 = n
        OBVIOUS
    <2>2. Bytes(r, 1..n) = Bytes(r, 1..(n - 1)) + r[n].len + 1
        BY <1>3, <2>1, BytesOfMore
    <2>3. before(n + 1) = before(n) + r[n].len + 1
        BY <2>1, <2>2
    <2> HIDE DEF before
    <2> QED BY <1>2, <1>4, <2>3
<1> HIDE DEF before
<1>6. ASSUME NEW n \in 1..N, before(n) < 200
      PROVE  line(n) \in [kind : DOMAIN Rank, len : Nat]
    <2>1. cut(n) \in Nat
        BY <1>2, <1>4, <1>6
    <2>2. as(n) \in DOMAIN Rank
        <3>1. "PLAIN" \in Kinds
            BY DEF Kinds, Rank
        <3>2. r[n].kind \in Kinds \cup {"MARKER"}
            BY <1>2
        <3> QED BY <3>1, <3>2 DEF Kinds
    <2> QED BY <2>1, <2>2
<1>7. \E k \in Nat : shown = 1..k
    <2>1. CASE shown = 1..N
        BY <2>1
    <2>2. CASE shown # 1..N
        <3> DEFINE T == (1..N) \ shown
        <3>1. T \subseteq Nat /\ T # {}
            BY <1>2, <2>2
        <3>2. PICK m \in T : \A j \in T : m <= j
            <4> HIDE DEF T
            <4> QED BY <3>1, LeastOf
        <3>3. m \in 1..N /\ ~(before(m) < 200)
            BY <1>2, <3>2
        <3> DEFINE Q == {j \in Nat : m + j <= N => ~(before(m + j) < 200)}
        <3>4. 0 \in Q
            BY <3>3
        <3>5. ASSUME NEW j \in Nat, j \in Q PROVE j + 1 \in Q
            <4> SUFFICES ASSUME m + (j + 1) <= N PROVE ~(before(m + (j + 1)) < 200)
                OBVIOUS
            <4>1. m + j \in 1..N /\ (m + j) + 1 \in 1..N /\ m + (j + 1) = (m + j) + 1
                BY <3>3
            <4>2. ~(before(m + j) < 200)
                BY <3>3, <3>5, <4>1
            <4>3. before(m + j) <= before((m + j) + 1)
                BY <1>5, <4>1
            <4>4. before(m + j) \in Nat /\ before((m + j) + 1) \in Nat
                BY <1>4, <4>1
            <4> DEFINE a == before(m + j)
                       b == before((m + j) + 1)
            <4>5. ~(a < 200) /\ a <= b /\ a \in Nat /\ b \in Nat
                BY <4>2, <4>3, <4>4
            <4> HIDE DEF a, b
            <4>6. ~(b < 200)
                BY <4>5
            <4> QED BY <4>1, <4>6 DEF b
        <3>6. Nat \subseteq Q
            <4> HIDE DEF Q
            <4> QED BY <3>4, <3>5, Onwards
        <3>7. \A i \in 1..N : i \in shown => i <= m - 1
            <4> SUFFICES ASSUME NEW i \in 1..N, i >= m PROVE ~(before(i) < 200)
                BY <3>3
            <4>1. i - m \in Nat /\ m + (i - m) = i /\ i <= N
                BY <3>3
            <4>2. i - m \in Q
                BY <3>6, <4>1
            <4> QED BY <4>1, <4>2
        <3>8. \A i \in 1..(m - 1) : i \in shown
            <4> SUFFICES ASSUME NEW i \in 1..(m - 1), i \notin shown PROVE FALSE
                OBVIOUS
            <4>1. i \in 1..N /\ i < m
                BY <3>3
            <4>2. i \in T
                BY <4>1
            <4>3. m <= i
                BY <3>2, <4>2
            <4> QED BY <3>3, <4>1, <4>3
        <3>9. shown \subseteq 1..N
            BY <1>2
        <3>10. m - 1 \in Nat /\ \A i \in 1..N : i <= m - 1 => i \in 1..(m - 1)
            BY <3>3
        <3>11. shown = 1..(m - 1)
            <4> HIDE DEF shown, T
            <4> QED BY <3>7, <3>8, <3>9, <3>10
        <3> QED BY <3>10, <3>11
    <2> QED BY <2>1, <2>2
<1>8. PICK k \in Nat : shown = 1..k
    BY <1>7
<1>9. \A n \in 1..k : line(n) \in [kind : DOMAIN Rank, len : Nat]
    <2> TAKE n \in 1..k
    <2>1. n \in shown
        BY <1>8
    <2>2. n \in 1..N /\ before(n) < 200
        BY <1>2, <2>1
    <2> HIDE DEF line
    <2> QED BY <1>6, <2>2
<1> DEFINE X == [kind : DOMAIN Rank, len : Nat]
<1>10. [n \in 1..k |-> line(n)] \in Seq(X)
    <2>1. \A n \in 1..k : line(n) \in X
        BY <1>9
    <2> HIDE DEF X, line
    <2> QED BY <2>1
<1> HIDE DEF line, shown
<1> QED BY <1>1, <1>8, <1>10 DEF Texts

-----------------------------------------------------------------------------
(* The inductive invariant *)

InferStages == {"project", "logProjected", "complete", "logInfer", "stats", "raise"}

\* The elements of a sequence; no set is at hand that a decision is a member of.
Elements(s) == {s[i] : i \in DOMAIN s}
IsSequence(s) == s \in Seq(Elements(s))

\* What a register that is there is made of, as far as its rows are concerned.
RegisterIsWhole ==
    register # NoRegister =>
        /\ {"goal", "label", "constraints", "evidence", "decisions", "open"} \subseteq DOMAIN register
        /\ IsSequence(register.decisions) /\ IsSequence(register.open)

\* What the call in progress carries from its checks to its effects.
CallsAreWhole ==
    /\ "at" \in DOMAIN call
    /\ call.at = "mountRow" => {"manifest", "budget"} \subseteq DOMAIN call /\ call.manifest \in Manifests
    /\ call.at \in {"deleteRow", "logUnmounted"} => "id" \in DOMAIN call /\ call.id \in Ids
    /\ call.at \in InferStages =>
         /\ {"id", "role", "full", "budget", "prompt", "output"} \subseteq DOMAIN call
         /\ register # NoRegister

\* EffectsInOrder: the answers of the register, and the rest.
Recorded == Len(register.decisions) + Len(register.open)
RecordedInOrder == register # NoRegister => Recorded <= stats.calls
CountsInOrder ==
    /\ stats.calls <= events["infer"] /\ events["infer"] <= sends
    /\ stats.projected <= events["projected"] /\ events["projected"] <= projections

\* An inference in progress has left more behind in what it did first.
EffectsAreOwed ==
    /\ call.at = "logProjected" => events["projected"] < projections
    /\ call.at \in {"complete", "logInfer", "stats"} /\ call.prompt # call.full =>
         stats.projected < events["projected"]
    /\ call.at = "logInfer" => events["infer"] < sends
    /\ call.at = "stats" => stats.calls < events["infer"]
    /\ call.at = "raise" => Recorded < stats.calls

\* An unmount takes the adapter out of memory before its row, and the row before its
\* event; and the row the label was checked against stays until the prompt is sent.
CallsKeepTheTable ==
    /\ call.at = "deleteRow" => call.id \notin DOMAIN mounted
    /\ call.at = "logUnmounted" => call.id \notin DOMAIN mounted \cup DOMAIN arches
    /\ call.at \in {"project", "logProjected", "complete"} =>
         call.id \in DOMAIN arches /\ FlowsTo(register.label, arches[call.id])

CountsAreNumbers == sends \in Nat /\ projections \in Nat

InferenceInv ==
    /\ EffectsInOrder /\ MountsAreKept
    /\ RegisterIsWhole /\ CallsAreWhole /\ EffectsAreOwed /\ CallsKeepTheTable /\ CountsAreNumbers

-----------------------------------------------------------------------------
(* What most actions leave alone *)

LEMMA TableKept ==
    ASSUME InferenceInv, UNCHANGED <<arches, mounted, gone>>
    PROVE  MountsAreOnDisk' /\ UnmountedStaysOut'
BY DEF InferenceInv, MountsAreKept, MountsAreOnDisk, UnmountedStaysOut

LEMMA RegisterKept ==
    ASSUME RegisterIsWhole, UNCHANGED register
    PROVE  RegisterIsWhole'
BY DEF RegisterIsWhole

LEMMA EffectsKept ==
    ASSUME InferenceInv, UNCHANGED <<register, stats, events, sends, projections>>
    PROVE  RegisterIsWhole' /\ EffectsInOrder' /\ CountsAreNumbers'
BY RegisterKept DEF InferenceInv, EffectsInOrder, CountsAreNumbers

\* A dead daemon has no call in progress.
LEMMA CallsNeedANode ==
    ASSUME InferenceInv, call.at # "idle"
    PROVE  up
BY DEF InferenceInv, MountsAreKept, TypeOK, Idle

LEMMA TypesKept ==
    ASSUME InferenceInv, UNCHANGED <<arches, mounted, register, up, gone>>, up,
           (events \in [EventKinds -> Nat] /\ stats \in [{"calls", "projected"} -> Nat])'
    PROVE  TypeOK'
BY DEF InferenceInv, MountsAreKept, TypeOK

\* One more event of a kind.
LEMMA LogCounts ==
    ASSUME InferenceInv, NEW kind \in EventKinds, Log(kind)
    PROVE  /\ events' \in [EventKinds -> Nat]
           /\ events'[kind] = events[kind] + 1
           /\ \A k \in EventKinds \ {kind} : events'[k] = events[k]
BY DEF InferenceInv, MountsAreKept, TypeOK, Log

LEMMA CountsTyped ==
    ASSUME InferenceInv
    PROVE  /\ \A k \in EventKinds : events[k] \in Nat
           /\ stats.calls \in Nat /\ stats.projected \in Nat
           /\ sends \in Nat /\ projections \in Nat
BY DEF InferenceInv, MountsAreKept, TypeOK, CountsAreNumbers

LEMMA OrderSplits ==
    /\ EffectsInOrder <=> RecordedInOrder /\ CountsInOrder
    /\ EffectsInOrder' <=> RecordedInOrder' /\ CountsInOrder'
BY DEF EffectsInOrder, RecordedInOrder, CountsInOrder, Recorded

LEMMA RecordedIsANumber ==
    ASSUME RegisterIsWhole, register # NoRegister
    PROVE  Recorded \in Nat
<1>1. Len(register.decisions) \in Nat /\ Len(register.open) \in Nat
    BY DEF RegisterIsWhole, IsSequence
<1> DEFINE d == Len(register.decisions)
           o == Len(register.open)
<1>2. Recorded = d + o
    BY DEF Recorded
<1>3. d \in Nat /\ o \in Nat
    BY <1>1
<1> HIDE DEF d, o
<1> QED BY <1>2, <1>3

\* Counting more inferences is no harm to the register.
LEMMA RecordedKept ==
    ASSUME InferenceInv, UNCHANGED register, stats.calls <= stats'.calls, stats'.calls \in Nat
    PROVE  RecordedInOrder'
<1>1. Recorded' = Recorded
    BY DEF Recorded
<1>2. CASE register # NoRegister
    <2>1. Recorded \in Nat /\ Recorded <= stats.calls
        BY <1>2, RecordedIsANumber, OrderSplits DEF InferenceInv, RecordedInOrder
    <2> QED BY <1>1, <2>1, CountsTyped DEF RecordedInOrder
<1> QED BY <1>2 DEF RecordedInOrder

LEMMA GotoKeeps ==
    ASSUME InferenceInv, NEW at, Goto(at)
    PROVE  /\ call'.at = at /\ DOMAIN call' = DOMAIN call
           /\ \A f \in DOMAIN call \ {"at"} : call'[f] = call[f]
BY DEF InferenceInv, CallsAreWhole, Goto

\* Between calls nothing is owed.
LEMMA IdleOwesNothing ==
    ASSUME call' = Idle
    PROVE  CallsAreWhole' /\ EffectsAreOwed' /\ CallsKeepTheTable'
BY DEF Idle, CallsAreWhole, EffectsAreOwed, CallsKeepTheTable, InferStages

-----------------------------------------------------------------------------
(* mount and unmount *)

LEMMA RemountInv == ASSUME InferenceInv, Remount PROVE InferenceInv'
<1> USE DEF Remount, Ready, disk, history
<1>1. PICK m \in Manifests, b \in Budgets :
        /\ m.id \in DOMAIN mounted /\ mounted[m.id].manifest = m
        /\ mounted' = [x \in DOMAIN mounted \cup {m.id} |->
                         IF x = m.id THEN [manifest |-> m, budget |-> b] ELSE mounted[x]]
    BY DEF Conflicts, Mounted, Set
<1>2. TypeOK' /\ MountsAreOnDisk' /\ UnmountedStaysOut'
    BY <1>1 DEF InferenceInv, MountsAreKept, TypeOK, MountsAreOnDisk, UnmountedStaysOut
<1>3. CallsAreWhole' /\ EffectsAreOwed' /\ CallsKeepTheTable'
    BY IdleOwesNothing
<1> QED BY <1>2, <1>3, EffectsKept DEF InferenceInv, MountsAreKept

LEMMA CallMountInv == ASSUME InferenceInv, CallMount PROVE InferenceInv'
<1> USE DEF CallMount, Ready, Begin, disk, history
<1>1. PICK m \in Manifests, b \in Budgets :
        call' = [at |-> "mountRow", manifest |-> m, budget |-> b]
    OBVIOUS
<1>2. TypeOK'
    BY TypesKept DEF InferenceInv, MountsAreKept, TypeOK
<1>3. CallsAreWhole' /\ EffectsAreOwed' /\ CallsKeepTheTable'
    BY <1>1 DEF CallsAreWhole, EffectsAreOwed, CallsKeepTheTable, InferStages
<1> QED BY <1>2, <1>3, EffectsKept, TableKept DEF InferenceInv, MountsAreKept

LEMMA MountRowInv == ASSUME InferenceInv, MountRow PROVE InferenceInv'
<1> DEFINE m == call.manifest
<1> USE DEF MountRow
<1>1. up /\ m \in Manifests /\ "at" \in DOMAIN call
    BY CallsNeedANode DEF InferenceInv, CallsAreWhole
<1>2. /\ arches' = [x \in DOMAIN arches \cup {m.id} |-> IF x = m.id THEN m ELSE arches[x]]
      /\ mounted' = [x \in DOMAIN mounted \cup {m.id} |->
                       IF x = m.id THEN [manifest |-> m, budget |-> call.budget] ELSE mounted[x]]
      /\ gone' = gone \ {m.id}
    BY DEF Mounted, Set
<1>3. MountsAreOnDisk' /\ UnmountedStaysOut'
    BY <1>2 DEF InferenceInv, MountsAreKept, MountsAreOnDisk, UnmountedStaysOut
<1>4. TypeOK'
    <2>1. \A id \in DOMAIN arches' : arches'[id] \in Manifests /\ arches'[id].id = id
        BY <1>1, <1>2 DEF InferenceInv, MountsAreKept, TypeOK
    <2>2. \A id \in DOMAIN mounted' : mounted'[id].manifest \in Manifests
        BY <1>1, <1>2 DEF InferenceInv, MountsAreKept, TypeOK
    <2> QED BY <1>1, <1>2, <2>1, <2>2 DEF InferenceInv, MountsAreKept, TypeOK
<1>5. CallsAreWhole' /\ EffectsAreOwed' /\ CallsKeepTheTable'
    BY <1>1 DEF Goto, CallsAreWhole, EffectsAreOwed, CallsKeepTheTable, InferStages
<1> QED BY <1>3, <1>4, <1>5, EffectsKept DEF InferenceInv, MountsAreKept

LEMMA CallUnmountInv == ASSUME InferenceInv, CallUnmount PROVE InferenceInv'
<1> USE DEF CallUnmount, Ready, Begin, disk, history
<1>1. PICK id \in Ids : /\ mounted' = [x \in DOMAIN mounted \ {id} |-> mounted[x]]
                        /\ call' = [at |-> "deleteRow", id |-> id]
    BY DEF Drop
<1>2. TypeOK' /\ MountsAreOnDisk' /\ UnmountedStaysOut'
    BY <1>1 DEF InferenceInv, MountsAreKept, TypeOK, MountsAreOnDisk, UnmountedStaysOut
<1>3. CallsAreWhole' /\ EffectsAreOwed' /\ CallsKeepTheTable'
    BY <1>1 DEF CallsAreWhole, EffectsAreOwed, CallsKeepTheTable, InferStages
<1> QED BY <1>2, <1>3, EffectsKept DEF InferenceInv, MountsAreKept

LEMMA DeleteRowInv == ASSUME InferenceInv, DeleteRow PROVE InferenceInv'
<1>1. up /\ call.id \in Ids /\ call.id \notin DOMAIN mounted
    BY CallsNeedANode DEF DeleteRow, InferenceInv, CallsAreWhole, CallsKeepTheTable
<1>2. /\ arches' = [x \in DOMAIN arches \ {call.id} |-> arches[x]]
      /\ UNCHANGED <<register, stats, events, up, mounted, sends, projections, gone>>
    BY DEF DeleteRow, Drop, history
<1>3. MountsAreOnDisk' /\ UnmountedStaysOut'
    BY <1>1, <1>2 DEF InferenceInv, MountsAreKept, MountsAreOnDisk, UnmountedStaysOut
<1>4. TypeOK'
    BY <1>1, <1>2 DEF InferenceInv, MountsAreKept, TypeOK
<1>5. call'.at = "logUnmounted" /\ call'.id = call.id /\ "at" \in DOMAIN call' /\ "id" \in DOMAIN call'
    BY GotoKeeps DEF DeleteRow, InferenceInv, CallsAreWhole
<1>6. CallsAreWhole' /\ EffectsAreOwed' /\ CallsKeepTheTable'
    BY <1>1, <1>2, <1>5 DEF CallsAreWhole, EffectsAreOwed, CallsKeepTheTable, InferStages
<1> QED BY <1>2, <1>3, <1>4, <1>6, EffectsKept DEF InferenceInv, MountsAreKept

LEMMA LogLastInv == ASSUME InferenceInv, LogLast PROVE InferenceInv'
<1> USE DEF LogLast
<1>1. up
    BY CallsNeedANode
<1>2. PICK kind \in EventKinds : Log(kind) /\ kind \notin {"projected", "infer"}
    BY DEF EventKinds
<1>3. TypeOK' /\ MountsAreOnDisk' /\ UnmountedStaysOut'
    <2>1. gone' = gone \/ (call.at = "logUnmounted" /\ gone' = gone \cup {call.id})
        OBVIOUS
    <2>2. events' \in [EventKinds -> Nat]
        BY <1>2, LogCounts
    <2>3. MountsAreOnDisk' /\ UnmountedStaysOut'
        BY <2>1 DEF InferenceInv, MountsAreKept, MountsAreOnDisk, UnmountedStaysOut, CallsKeepTheTable
    <2> QED
        BY <1>1, <2>1, <2>2, <2>3 DEF InferenceInv, MountsAreKept, TypeOK, CallsAreWhole
<1>4. EffectsInOrder' /\ CountsAreNumbers'
    <2>1. events'["infer"] = events["infer"] /\ events'["projected"] = events["projected"]
        BY <1>2, LogCounts DEF EventKinds
    <2> QED BY <2>1 DEF InferenceInv, EffectsInOrder, CountsAreNumbers
<1> QED BY <1>3, <1>4, IdleOwesNothing, RegisterKept DEF InferenceInv, MountsAreKept

-----------------------------------------------------------------------------
(* submit_task and write_register *)

LEMMA SubmitInv == ASSUME InferenceInv, Submit PROVE InferenceInv'
<1>1. PICK goal \in Goals, label \in Labels :
        register' = [goal |-> goal, label |-> label, constraints |-> <<>>,
                     evidence |-> <<>>, decisions |-> <<>>, open |-> <<>>]
    BY DEF Submit
<1>2. /\ UNCHANGED <<arches, stats, events, up, mounted, sends, projections, gone>>
      /\ call' = [at |-> "logSubmitted"] /\ up
    BY DEF Submit, Ready, history
<1>3. TypeOK'
    BY <1>1, <1>2 DEF InferenceInv, MountsAreKept, TypeOK
<1>4. <<>> \in Seq({<<>>[i] : i \in DOMAIN <<>>}) /\ Len(<<>>) = 0
    OBVIOUS
<1>5. register'.decisions = <<>> /\ register'.open = <<>>
    BY <1>1
<1>6. RegisterIsWhole'
    BY <1>1, <1>4, <1>5 DEF RegisterIsWhole, IsSequence, Elements
<1>7. EffectsInOrder' /\ CountsAreNumbers'
    <2>1. Len(register'.decisions) + Len(register'.open) <= stats'.calls
        BY <1>2, <1>4, <1>5, CountsTyped
    <2> QED BY <1>2, <2>1 DEF InferenceInv, EffectsInOrder, CountsAreNumbers
<1>8. CallsAreWhole' /\ EffectsAreOwed' /\ CallsKeepTheTable'
    BY <1>2 DEF CallsAreWhole, EffectsAreOwed, CallsKeepTheTable, InferStages
<1> QED BY <1>2, <1>3, <1>6, <1>7, <1>8, TableKept DEF InferenceInv, MountsAreKept

LEMMA EditInv == ASSUME InferenceInv, Edit PROVE InferenceInv'
<1>1. PICK e \in Edits : register' = [register EXCEPT !.constraints = e.constraints,
                                                      !.evidence = e.evidence]
    BY DEF Edit
<1>2. /\ UNCHANGED <<arches, stats, events, up, mounted, sends, projections, gone>>
      /\ call' = [at |-> "logWritten"] /\ up /\ register # NoRegister
    BY DEF Edit, Ready, Begin, history
<1>3. /\ DOMAIN register' = DOMAIN register
      /\ register'.goal = register.goal /\ register'.label = register.label
      /\ register'.decisions = register.decisions /\ register'.open = register.open
    BY <1>1, <1>2 DEF InferenceInv, RegisterIsWhole
<1>4. TypeOK'
    BY <1>2, <1>3 DEF InferenceInv, MountsAreKept, TypeOK
<1>5. RegisterIsWhole'
    BY <1>2, <1>3 DEF InferenceInv, RegisterIsWhole
<1>6. EffectsInOrder' /\ CountsAreNumbers'
    BY <1>2, <1>3 DEF InferenceInv, EffectsInOrder, CountsAreNumbers
<1>7. CallsAreWhole' /\ EffectsAreOwed' /\ CallsKeepTheTable'
    BY <1>2 DEF CallsAreWhole, EffectsAreOwed, CallsKeepTheTable, InferStages
<1> QED BY <1>2, <1>4, <1>5, <1>6, <1>7, TableKept DEF InferenceInv, MountsAreKept

-----------------------------------------------------------------------------
(* infer *)

LEMMA CallInferInv == ASSUME InferenceInv, CallInfer PROVE InferenceInv'
<1>1. PICK id \in Ids, role \in Roles, c \in Clearances, at \in {"project", "complete"} :
        /\ MayInfer(id, c)
        /\ call' = [at |-> at, id |-> id, role |-> role, full |-> Lower(register),
                    budget |-> mounted[id].budget, prompt |-> Lower(register),
                    output |-> <<>>]
    BY DEF CallInfer, Begin
<1>2. UNCHANGED <<disk, mounted, history, up>> /\ up
    BY DEF CallInfer, Ready
<1>3. TypeOK'
    BY <1>2, TypesKept DEF disk, history, InferenceInv, MountsAreKept, TypeOK
<1>4. CallsAreWhole' /\ EffectsAreOwed'
    BY <1>1, <1>2 DEF CallsAreWhole, EffectsAreOwed, InferStages, MayInfer, disk
<1>5. CallsKeepTheTable'
    BY <1>1, <1>2 DEF CallsKeepTheTable, MayInfer, disk, InferenceInv, MountsAreKept, MountsAreOnDisk
<1> QED BY <1>2, <1>3, <1>4, <1>5, TableKept, EffectsKept DEF InferenceInv, MountsAreKept, disk, history

\* A call that goes on to its next stage and leaves the register alone: what is left is
\* what it counts, and what it owes.
LEMMA InferGoesOn ==
    ASSUME InferenceInv, call.at \in InferStages, call'.at \in InferStages \ {"project"},
           UNCHANGED <<arches, mounted, register, up, gone>>,
           DOMAIN call \subseteq DOMAIN call', call'.id = call.id,
           call'.at \in {"logProjected", "complete"} =>
             call.at \in {"project", "logProjected", "complete"},
           (events \in [EventKinds -> Nat] /\ stats \in [{"calls", "projected"} -> Nat])',
           RecordedInOrder', CountsInOrder', CountsAreNumbers', EffectsAreOwed'
    PROVE  InferenceInv'
<1>1. call.at # "idle"
    BY DEF InferStages
<1>2. TypeOK'
    BY <1>1, TypesKept, CallsNeedANode
<1>3. CallsAreWhole'
    BY DEF InferenceInv, CallsAreWhole, InferStages
<1>4. CallsKeepTheTable'
    BY DEF InferenceInv, CallsKeepTheTable, InferStages
<1> QED BY <1>2, <1>3, <1>4, OrderSplits, TableKept, RegisterKept DEF InferenceInv, MountsAreKept

LEMMA ProjectPromptInv == ASSUME InferenceInv, ProjectPrompt PROVE InferenceInv'
<1>1. UNCHANGED <<arches, register, stats, events, up, mounted, gone, sends>>
    BY DEF ProjectPrompt, disk
<1>2. CASE call' = Idle /\ UNCHANGED projections
    <2>1. up
        BY CallsNeedANode DEF ProjectPrompt
    <2>2. TypeOK'
        BY <1>1, <2>1, TypesKept DEF InferenceInv, MountsAreKept, TypeOK
    <2> QED
        BY <1>1, <1>2, <2>2, IdleOwesNothing, EffectsKept, TableKept DEF InferenceInv, MountsAreKept
<1>3. CASE /\ call' = [call EXCEPT !.at = "logProjected", !.prompt = Project(call.full, call.budget)]
           /\ projections' = projections + 1
    <2>1. /\ call.at = "project" /\ call'.at = "logProjected" /\ call'.id = call.id
          /\ DOMAIN call' = DOMAIN call
        BY <1>3 DEF ProjectPrompt, InferenceInv, CallsAreWhole, InferStages
    <2>2. CountsInOrder' /\ CountsAreNumbers' /\ EffectsAreOwed'
        BY <1>1, <1>3, <2>1, CountsTyped, OrderSplits
        DEF InferenceInv, CountsInOrder, CountsAreNumbers, EffectsAreOwed, EventKinds
    <2>3. RecordedInOrder'
        BY <1>1, CountsTyped, RecordedKept
    <2> QED
        BY <1>1, <2>1, <2>2, <2>3, InferGoesOn DEF InferStages, InferenceInv, MountsAreKept, TypeOK
<1> QED BY <1>2, <1>3 DEF ProjectPrompt

LEMMA LogProjectedInv == ASSUME InferenceInv, LogProjected PROVE InferenceInv'
<1>1. /\ UNCHANGED <<arches, register, stats, up, mounted, gone, sends, projections>>
      /\ call.at = "logProjected" /\ Log("projected") /\ Goto("complete")
    BY DEF LogProjected, history
<1>2. call'.at = "complete" /\ call'.id = call.id /\ DOMAIN call' = DOMAIN call
    BY <1>1, GotoKeeps DEF InferenceInv, CallsAreWhole, InferStages
<1>3. /\ events' \in [EventKinds -> Nat]
      /\ events'["projected"] = events["projected"] + 1 /\ events'["infer"] = events["infer"]
    BY <1>1, LogCounts DEF EventKinds
<1>4. CountsInOrder' /\ CountsAreNumbers' /\ EffectsAreOwed'
    BY <1>1, <1>2, <1>3, CountsTyped, OrderSplits
    DEF InferenceInv, CountsInOrder, CountsAreNumbers, EffectsAreOwed, EventKinds
<1>5. RecordedInOrder'
    BY <1>1, <1>2, <1>3, CountsTyped, RecordedKept
<1> QED
    BY <1>1, <1>2, <1>3, <1>4, <1>5, InferGoesOn DEF InferStages, InferenceInv, MountsAreKept, TypeOK

LEMMA CompleteInv == ASSUME InferenceInv, Complete PROVE InferenceInv'
<1>1. /\ UNCHANGED <<arches, register, stats, events, up, mounted, gone, projections>>
      /\ call.at = "complete" /\ sends' = sends + 1
    BY DEF Complete, Send, disk
<1>2. PICK out \in Answers \cup {Echo(call.prompt)} :
        call' = [call EXCEPT !.at = "logInfer", !.output = out]
    BY DEF Complete
<1>3. /\ DOMAIN call' = DOMAIN call
      /\ call'.at = "logInfer" /\ call'.id = call.id
      /\ call'.prompt = call.prompt /\ call'.full = call.full
    BY <1>1, <1>2 DEF InferenceInv, CallsAreWhole, InferStages
<1>4. CountsInOrder' /\ CountsAreNumbers' /\ EffectsAreOwed'
    BY <1>1, <1>3, CountsTyped, OrderSplits
    DEF InferenceInv, CountsInOrder, CountsAreNumbers, EffectsAreOwed, EventKinds
<1>5. RecordedInOrder'
    BY <1>1, <1>3, CountsTyped, RecordedKept
<1> QED
    BY <1>1, <1>3, <1>4, <1>5, InferGoesOn DEF InferStages, InferenceInv, MountsAreKept, TypeOK

LEMMA ArchErrsInv == ASSUME InferenceInv, ArchErrs PROVE InferenceInv'
<1>1. /\ UNCHANGED <<arches, register, stats, events, up, mounted, gone, projections>>
      /\ call.at = "complete" /\ call' = Idle /\ sends' = sends + 1
    BY DEF ArchErrs, Send, disk
<1>2. TypeOK'
    BY <1>1, TypesKept, CallsNeedANode DEF InferenceInv, MountsAreKept, TypeOK
<1>3. CountsInOrder' /\ CountsAreNumbers'
    BY <1>1, CountsTyped, OrderSplits DEF InferenceInv, CountsInOrder, CountsAreNumbers, EventKinds
<1>4. RecordedInOrder'
    BY <1>1, CountsTyped, RecordedKept
<1> QED BY <1>1, <1>2, <1>3, <1>4, OrderSplits, IdleOwesNothing, TableKept, RegisterKept DEF InferenceInv, MountsAreKept

LEMMA LogInferInv == ASSUME InferenceInv, LogInfer PROVE InferenceInv'
<1>1. /\ UNCHANGED <<arches, register, stats, up, mounted, gone, sends, projections>>
      /\ call.at = "logInfer" /\ Log("infer") /\ Goto("stats")
    BY DEF LogInfer, history
<1>2. /\ call'.at = "stats" /\ call'.id = call.id /\ DOMAIN call' = DOMAIN call
      /\ call'.prompt = call.prompt /\ call'.full = call.full
    BY <1>1, GotoKeeps DEF InferenceInv, CallsAreWhole, InferStages
<1>3. /\ events' \in [EventKinds -> Nat]
      /\ events'["infer"] = events["infer"] + 1 /\ events'["projected"] = events["projected"]
    BY <1>1, LogCounts DEF EventKinds
<1>4. CountsInOrder' /\ CountsAreNumbers' /\ EffectsAreOwed'
    BY <1>1, <1>2, <1>3, CountsTyped, OrderSplits
    DEF InferenceInv, CountsInOrder, CountsAreNumbers, EffectsAreOwed, EventKinds
<1>5. RecordedInOrder'
    BY <1>1, <1>2, <1>3, CountsTyped, RecordedKept
<1> QED
    BY <1>1, <1>2, <1>3, <1>4, <1>5, InferGoesOn DEF InferStages, InferenceInv, MountsAreKept, TypeOK

LEMMA BumpStatsInv == ASSUME InferenceInv, BumpStats PROVE InferenceInv'
<1>1. /\ UNCHANGED <<arches, register, events, up, mounted, gone, sends, projections>>
      /\ call.at = "stats" /\ Goto("raise")
    BY DEF BumpStats, history
<1>2. call'.at = "raise" /\ call'.id = call.id /\ DOMAIN call' = DOMAIN call
    BY <1>1, GotoKeeps DEF InferenceInv, CallsAreWhole, InferStages
<1>3. /\ stats' \in [{"calls", "projected"} -> Nat] /\ stats'.calls = stats.calls + 1
      /\ \/ stats'.projected = stats.projected
         \/ call.prompt # call.full /\ stats'.projected = stats.projected + 1
    BY CountsTyped DEF BumpStats, Projected
<1>4. Recorded' < stats'.calls
    <2>1. Recorded \in Nat /\ Recorded <= stats.calls
        BY <1>1, RecordedIsANumber, OrderSplits
        DEF InferenceInv, CallsAreWhole, InferStages, RecordedInOrder
    <2>2. Recorded' = Recorded
        BY <1>1 DEF Recorded
    <2> QED BY <1>3, <2>1, <2>2, CountsTyped
<1>5. CountsInOrder' /\ CountsAreNumbers' /\ EffectsAreOwed'
    BY <1>1, <1>2, <1>3, <1>4, CountsTyped, OrderSplits
    DEF InferenceInv, CountsInOrder, CountsAreNumbers, EffectsAreOwed, EventKinds
<1>6. RecordedInOrder'
    BY <1>1, <1>2, <1>3, CountsTyped, RecordedKept
<1> QED
    BY <1>1, <1>2, <1>3, <1>5, <1>6, InferGoesOn DEF InferStages, InferenceInv, MountsAreKept, TypeOK

LEMMA SequencesAre ==
    ASSUME NEW S, NEW t \in Seq(S)
    PROVE  IsSequence(t)
<1>1. Len(t) \in Nat /\ t \in [1..Len(t) -> S]
    BY LenProperties
<1>2. t \in [1..Len(t) -> Elements(t)]
    BY <1>1 DEF Elements
<1> QED BY <1>1, <1>2 DEF IsSequence

LEMMA Appending ==
    ASSUME NEW s, IsSequence(s), NEW e
    PROVE  IsSequence(Append(s, e)) /\ Len(Append(s, e)) = Len(s) + 1 /\ Len(s) \in Nat
<1>1. s \in Seq(Elements(s))
    BY DEF IsSequence
<1>2. Append(s, e) \in Seq(Elements(s) \cup {e}) /\ Len(Append(s, e)) = Len(s) + 1 /\ Len(s) \in Nat
    BY <1>1
<1> QED BY <1>2, SequencesAre

LEMMA WriteRegisterInv == ASSUME InferenceInv, WriteRegister PROVE InferenceInv'
<1>1. /\ UNCHANGED <<arches, events, stats, up, mounted, gone, sends, projections>>
      /\ call.at = "raise" /\ Goto("logWritten") /\ register # NoRegister
    BY DEF WriteRegister, history, InferenceInv, CallsAreWhole, InferStages
<1>2. up
    BY <1>1, CallsNeedANode
<1>3. PICK field \in {"open", "decisions"} :
        register' = [register EXCEPT ![field] = Append(@, call.output)]
    BY DEF WriteRegister, Raise
<1>4. /\ IsSequence(register.open) /\ IsSequence(register.decisions)
      /\ {"goal", "label", "constraints", "evidence", "decisions", "open"} \subseteq DOMAIN register
    BY <1>1 DEF InferenceInv, RegisterIsWhole
<1>5. /\ DOMAIN register' = DOMAIN register
      /\ register'.goal = register.goal /\ register'.label = register.label
    BY <1>3, <1>4
<1>6. \/ /\ register'.open = Append(register.open, call.output)
         /\ register'.decisions = register.decisions
      \/ /\ register'.decisions = Append(register.decisions, call.output)
         /\ register'.open = register.open
    BY <1>3, <1>4
<1>7. RegisterIsWhole'
    BY <1>4, <1>5, <1>6, Appending DEF RegisterIsWhole
<1>8. Recorded' = Recorded + 1 /\ Recorded \in Nat
    <2> DEFINE d == Len(register.decisions)
               o == Len(register.open)
               dd == Len(register'.decisions)
               oo == Len(register'.open)
    <2>1. d \in Nat /\ o \in Nat
        BY <1>4, Appending
    <2>2. (dd = d + 1 /\ oo = o) \/ (dd = d /\ oo = o + 1)
        BY <1>4, <1>6, Appending
    <2>3. Recorded = d + o /\ Recorded' = dd + oo
        BY DEF Recorded
    <2> HIDE DEF d, o, dd, oo
    <2> QED BY <2>1, <2>2, <2>3
<1>9. RecordedInOrder' /\ CountsInOrder' /\ CountsAreNumbers'
    <2>1. Recorded < stats.calls
        BY <1>1 DEF InferenceInv, EffectsAreOwed
    <2>2. RecordedInOrder'
        BY <1>1, <1>8, <2>1, CountsTyped DEF RecordedInOrder
    <2> QED BY <1>1, <2>2, OrderSplits DEF InferenceInv, CountsInOrder, CountsAreNumbers
<1>10. TypeOK'
    BY <1>1, <1>2, <1>5 DEF InferenceInv, MountsAreKept, TypeOK
<1>11. call'.at = "logWritten" /\ "at" \in DOMAIN call'
    BY <1>1, GotoKeeps DEF InferenceInv, CallsAreWhole
<1>12. CallsAreWhole' /\ EffectsAreOwed' /\ CallsKeepTheTable'
    BY <1>11 DEF CallsAreWhole, EffectsAreOwed, CallsKeepTheTable, InferStages
<1> QED
    BY <1>1, <1>7, <1>9, <1>10, <1>12, OrderSplits, TableKept DEF InferenceInv, MountsAreKept

-----------------------------------------------------------------------------
(* Faults *)

LEMMA WriteFailsInv == ASSUME InferenceInv, WriteFails PROVE InferenceInv'
<1>1. UNCHANGED <<disk, up, mounted, history>> /\ call' = Idle /\ up
    BY CallsNeedANode DEF WriteFails
<1>2. TypeOK'
    BY <1>1, TypesKept DEF InferenceInv, MountsAreKept, TypeOK, disk, history
<1> QED
    BY <1>1, <1>2, IdleOwesNothing, EffectsKept, TableKept
    DEF InferenceInv, MountsAreKept, disk, history

LEMMA CrashInv == ASSUME InferenceInv, Crash PROVE InferenceInv'
<1>1. UNCHANGED <<disk, history>> /\ call' = Idle /\ mounted' = <<>> /\ up' = FALSE
    BY DEF Crash
<1>2. DOMAIN mounted' = {}
    BY <1>1
<1>3. MountsAreOnDisk' /\ UnmountedStaysOut'
    BY <1>1, <1>2
    DEF InferenceInv, MountsAreKept, MountsAreOnDisk, UnmountedStaysOut, disk, history
<1>4. TypeOK'
    BY <1>1, <1>2 DEF InferenceInv, MountsAreKept, TypeOK, disk, history
<1> QED
    BY <1>1, <1>3, <1>4, IdleOwesNothing, EffectsKept DEF InferenceInv, MountsAreKept, disk, history

LEMMA LoadInv == ASSUME InferenceInv, Load PROVE InferenceInv'
<1>1. UNCHANGED <<disk, history, call>> /\ call = Idle /\ up'
    BY DEF Load, InferenceInv, MountsAreKept, TypeOK
<1>2. mounted' = [id \in DOMAIN arches |-> [manifest |-> arches[id], budget |-> arches[id].ceiling]]
    BY DEF Load, Restored
<1>3. MountsAreOnDisk' /\ UnmountedStaysOut'
    BY <1>1, <1>2
    DEF InferenceInv, MountsAreKept, MountsAreOnDisk, UnmountedStaysOut, disk, history
<1>4. TypeOK'
    BY <1>1, <1>2 DEF InferenceInv, MountsAreKept, TypeOK, disk, history
<1> QED
    BY <1>1, <1>3, <1>4, IdleOwesNothing, EffectsKept DEF InferenceInv, MountsAreKept, disk, history

-----------------------------------------------------------------------------
(* The theorems *)

LEMMA InferenceInit == Init => InferenceInv
<1> SUFFICES ASSUME Init PROVE InferenceInv
    OBVIOUS
<1>1. DOMAIN <<>> = {}
    OBVIOUS
<1>2. MountsAreKept
    BY <1>1 DEF Init, MountsAreKept, TypeOK, MountsAreOnDisk, UnmountedStaysOut
<1>3. events["infer"] = 0 /\ events["projected"] = 0
    BY DEF Init, EventKinds
<1>4. EffectsInOrder /\ CountsAreNumbers
    BY <1>3 DEF Init, EffectsInOrder, CountsAreNumbers
<1>5. RegisterIsWhole /\ CallsAreWhole /\ EffectsAreOwed /\ CallsKeepTheTable
    BY DEF Init, Idle, RegisterIsWhole, CallsAreWhole, EffectsAreOwed, CallsKeepTheTable, InferStages
<1> QED BY <1>2, <1>4, <1>5 DEF InferenceInv

LEMMA InferenceStep == InferenceInv /\ [Next]_vars => InferenceInv'
<1> SUFFICES ASSUME InferenceInv, [Next]_vars PROVE InferenceInv'
    OBVIOUS
<1>1. CASE Remount \/ CallMount \/ MountRow \/ CallUnmount \/ DeleteRow \/ LogLast
    BY <1>1, RemountInv, CallMountInv, MountRowInv, CallUnmountInv, DeleteRowInv, LogLastInv
<1>2. CASE Submit \/ Edit \/ CallInfer \/ ProjectPrompt \/ LogProjected \/ Complete \/ ArchErrs
    BY <1>2, SubmitInv, EditInv, CallInferInv, ProjectPromptInv, LogProjectedInv, CompleteInv, ArchErrsInv
<1>3. CASE LogInfer \/ BumpStats \/ WriteRegister
    BY <1>3, LogInferInv, BumpStatsInv, WriteRegisterInv
<1>4. CASE WriteFails \/ Crash \/ Load
    BY <1>4, WriteFailsInv, CrashInv, LoadInv
<1>5. CASE UNCHANGED vars
    <2>1. CallsAreWhole' /\ EffectsAreOwed' /\ CallsKeepTheTable' /\ TypeOK'
        BY <1>5 DEF InferenceInv, MountsAreKept, TypeOK, CallsAreWhole, EffectsAreOwed, Recorded,
                    CallsKeepTheTable, InferStages, vars, disk, history
    <2> QED BY <1>5, <2>1, EffectsKept, TableKept DEF InferenceInv, MountsAreKept, vars, disk, history
<1> QED BY <1>1, <1>2, <1>3, <1>4, <1>5 DEF Next

LEMMA InferenceInvariant == Spec => []InferenceInv
BY InferenceInit, InferenceStep, PTL DEF Spec

\* Whatever an inference left of its later effects, it left the earlier ones before, with
\* a write that fails or a crash between any two (infer).
THEOREM InOrder == Spec => []EffectsInOrder
<1>1. InferenceInv => EffectsInOrder
    BY DEF InferenceInv
<1> QED BY <1>1, InferenceInvariant, PTL

\* Every restart mounts what was mounted and nothing else (mount, unmount, load).
THEOREM MountsSurvive == Spec => []MountsAreKept
<1>1. InferenceInv => MountsAreKept
    BY DEF InferenceInv
<1> QED BY <1>1, InferenceInvariant, PTL

\* A prompt is handed only to an arch whose row the register's label flows to (i2_flow).
THEOREM SendsCleared == Spec => SendsAreCleared
<1> DEFINE Cleared == call.id \in DOMAIN arches /\ FlowsTo(register.label, arches[call.id])
<1>1. InferenceInv /\ [Next]_vars => [sends' # sends => Cleared]_vars
    <2> SUFFICES ASSUME InferenceInv, Next, sends' # sends PROVE Cleared
        OBVIOUS
    <2>1. CASE Complete \/ ArchErrs
        BY <2>1 DEF Complete, ArchErrs, InferenceInv, CallsKeepTheTable
    <2>2. CASE ~(Complete \/ ArchErrs)
        BY <2>2 DEF Next, Remount, CallMount, MountRow, CallUnmount, DeleteRow, LogLast, Submit,
                    Edit, CallInfer, ProjectPrompt, LogProjected, LogInfer, BumpStats,
                    WriteRegister, WriteFails, Crash, Load, history
    <2> QED BY <2>1, <2>2
<1> QED BY <1>1, InferenceInvariant, PTL DEF Spec, SendsAreCleared

-----------------------------------------------------------------------------
(* The prompts of inferences *)

\* A budget is a number wherever it is kept.
BudgetsAreNumbers ==
    /\ call.at = "mountRow" => call.budget \in Nat
    /\ \A id \in DOMAIN mounted : mounted[id].budget \in Nat

\* A register is made of texts: its goal, what callers wrote and what arches answered.
TextsAreWhole == register # NoRegister => TextsOf(register)

\* An inference in progress has a prompt, and from its projection to its answer one
\* that keeps its word.
CallsArePrompts ==
    /\ call.at \in InferStages =>
         /\ call.budget \in Nat /\ IsPrompt(call.full)
         /\ Legible(call.prompt) /\ call.output \in Texts
    /\ call.at \in {"logProjected", "complete"} => Honest(call.full, call.prompt, call.budget)

SentIsHonest == sent # Nothing => Honest(sent.full, sent.prompt, sent.budget)

PromptsInv ==
    /\ InferenceInv
    /\ BudgetsAreNumbers /\ TextsAreWhole /\ CallsArePrompts /\ SentIsHonest

\* What an inference begins with: the whole register, and the budget of its arch.
LEMMA InferBegins ==
    ASSUME CallInfer
    PROVE  \E id \in Ids :
             /\ id \in DOMAIN mounted /\ register # NoRegister
             /\ "at" \in DOMAIN call' /\ call'.at \in {"project", "complete"}
             /\ call'.full = Lower(register) /\ call'.prompt = Lower(register)
             /\ call'.budget = mounted[id].budget /\ call'.output = <<>>
             /\ call'.at = "complete" => ~(Count(Lower(register)) > mounted[id].budget)
<1>1. PICK id \in Ids, role \in Roles, c \in Clearances :
        /\ MayInfer(id, c)
        /\ Begin([at |-> IF Exceeds(Lower(register), mounted[id].budget) THEN "project" ELSE "complete",
                  id |-> id, role |-> role, full |-> Lower(register), budget |-> mounted[id].budget,
                  prompt |-> Lower(register), output |-> <<>>])
    BY DEF CallInfer
<1> DEFINE x == Exceeds(Lower(register), mounted[id].budget)
<1> HIDE DEF x
<1>2. call' = [at |-> IF x THEN "project" ELSE "complete",
               id |-> id, role |-> role, full |-> Lower(register), budget |-> mounted[id].budget,
               prompt |-> Lower(register), output |-> <<>>]
    BY <1>1 DEF Begin, x
<1>3. call'.at = "complete" => ~x
    BY <1>2
<1>4. id \in DOMAIN mounted /\ register # NoRegister
    BY <1>1 DEF MayInfer
<1> QED BY <1>2, <1>3, <1>4 DEF x, Exceeds

\* A projection ends the call, or leaves it with a prompt that fits.
LEMMA PromptProjected ==
    ASSUME PromptsInv, ProjectPrompt
    PROVE  /\ UNCHANGED <<sent, mounted, register>>
           /\ \/ call' = Idle
              \/ /\ Project(call.full, call.budget) # Unfit
                 /\ call.at = "project" /\ call'.at = "logProjected"
                 /\ call'.prompt = Project(call.full, call.budget)
                 /\ call'.full = call.full /\ call'.budget = call.budget
                 /\ call'.output = call.output
<1>1. UNCHANGED <<sent, mounted, register>> /\ call.at = "project"
    BY DEF ProjectPrompt, disk
<1>2. {"at", "full", "budget", "prompt", "output"} \subseteq DOMAIN call
    BY <1>1 DEF PromptsInv, InferenceInv, CallsAreWhole, InferStages
<1> DEFINE fitted == Project(call.full, call.budget)
<1>3. \/ call' = Idle
      \/ fitted # Unfit /\ call' = [call EXCEPT !.at = "logProjected", !.prompt = fitted]
    BY DEF ProjectPrompt
<1> HIDE DEF fitted
<1>4. CASE call' = [call EXCEPT !.at = "logProjected", !.prompt = fitted]
    <2>1. /\ call'.at = "logProjected" /\ call'.prompt = fitted /\ call'.full = call.full
          /\ call'.budget = call.budget /\ call'.output = call.output
        BY <1>2, <1>4
    <2> QED BY <1>1, <1>3, <2>1 DEF fitted, Idle
<1> QED BY <1>1, <1>3, <1>4

\* An arch's answer goes on with the call; what it was handed is what was kept for it.
LEMMA PromptSent ==
    ASSUME PromptsInv, Complete
    PROVE  /\ UNCHANGED <<mounted, register>> /\ call.at = "complete"
           /\ sent'.full = call.full /\ sent'.prompt = call.prompt /\ sent'.budget = call.budget
           /\ call'.at = "logInfer" /\ call'.full = call.full /\ call'.prompt = call.prompt
           /\ call'.budget = call.budget /\ call'.output \in Answers \cup {Echo(call.prompt)}
<1>1. UNCHANGED <<mounted, register>> /\ call.at = "complete"
    BY DEF Complete, Send, disk
<1>2. {"at", "full", "budget", "prompt", "output"} \subseteq DOMAIN call
    BY <1>1 DEF PromptsInv, InferenceInv, CallsAreWhole, InferStages
<1>3. PICK out \in Answers \cup {Echo(call.prompt)} :
        call' = [call EXCEPT !.at = "logInfer", !.output = out]
    BY DEF Complete
<1>4. sent'.full = call.full /\ sent'.prompt = call.prompt /\ sent'.budget = call.budget
    BY DEF Complete, Send
<1> QED BY <1>1, <1>2, <1>3, <1>4

\* Budgets are numbers when they are read, kept and restored (mount, load).
LEMMA BudgetsStep == ASSUME PromptsInv, [Next]_vars PROVE BudgetsAreNumbers'
<1> USE BudgetsAssumption
<1>1. CASE Remount
    <2>1. PICK m \in Manifests, b \in Budgets :
            mounted' = [x \in DOMAIN mounted \cup {m.id} |->
                          IF x = m.id THEN [manifest |-> m, budget |-> b] ELSE mounted[x]]
        BY <1>1 DEF Remount, Mounted, Set
    <2>2. UNCHANGED call
        BY <1>1 DEF Remount
    <2> QED BY <2>1, <2>2 DEF PromptsInv, BudgetsAreNumbers
<1>2. CASE CallMount
    <2>1. UNCHANGED mounted
        BY <1>2 DEF CallMount
    <2>2. PICK m \in Manifests, b \in Budgets :
            call' = [at |-> "mountRow", manifest |-> m, budget |-> b]
        BY <1>2 DEF CallMount, Begin
    <2>3. call'.budget \in Nat
        BY <2>2
    <2> QED BY <2>1, <2>3 DEF PromptsInv, BudgetsAreNumbers
<1>3. CASE MountRow
    <2>1. mounted' = [x \in DOMAIN mounted \cup {call.manifest.id} |->
                        IF x = call.manifest.id
                        THEN [manifest |-> call.manifest, budget |-> call.budget] ELSE mounted[x]]
        BY <1>3 DEF MountRow, Mounted, Set
    <2>2. call.at = "mountRow" /\ Goto("logMounted")
        BY <1>3 DEF MountRow
    <2>3. call'.at = "logMounted"
        BY <2>2, GotoKeeps DEF PromptsInv
    <2>4. call.budget \in Nat
        BY <2>2 DEF PromptsInv, BudgetsAreNumbers
    <2> QED BY <2>1, <2>3, <2>4 DEF PromptsInv, BudgetsAreNumbers
<1>4. CASE CallUnmount
    <2>1. PICK id \in Ids : /\ mounted' = [x \in DOMAIN mounted \ {id} |-> mounted[x]]
                            /\ call' = [at |-> "deleteRow", id |-> id]
        BY <1>4 DEF CallUnmount, Begin, Drop
    <2> QED BY <2>1 DEF PromptsInv, BudgetsAreNumbers
<1>5. CASE Crash
    <2>1. call' = Idle /\ mounted' = <<>> /\ DOMAIN <<>> = {}
        BY <1>5 DEF Crash
    <2> QED BY <2>1 DEF BudgetsAreNumbers, Idle
<1>6. CASE Load
    <2>1. /\ mounted' = [id \in DOMAIN arches |-> [manifest |-> arches[id], budget |-> arches[id].ceiling]]
          /\ UNCHANGED call
        BY <1>6 DEF Load, Restored
    <2>2. \A id \in DOMAIN arches : arches[id] \in Manifests
        BY DEF PromptsInv, InferenceInv, MountsAreKept, TypeOK
    <2> QED BY <2>1, <2>2 DEF PromptsInv, BudgetsAreNumbers
<1>7. CASE DeleteRow \/ LogProjected \/ LogInfer \/ BumpStats \/ WriteRegister
    <2>1. UNCHANGED mounted
        BY <1>7 DEF DeleteRow, LogProjected, LogInfer, BumpStats, WriteRegister
    <2>2. PICK at \in {"logUnmounted", "complete", "stats", "raise", "logWritten"} : Goto(at)
        BY <1>7 DEF DeleteRow, LogProjected, LogInfer, BumpStats, WriteRegister
    <2>3. call'.at = at
        BY <2>2, GotoKeeps DEF PromptsInv
    <2> QED BY <2>1, <2>3 DEF PromptsInv, BudgetsAreNumbers
<1>8. CASE LogLast \/ ArchErrs \/ WriteFails
    <2>1. UNCHANGED mounted /\ call' = Idle
        BY <1>8 DEF LogLast, ArchErrs, WriteFails, Send
    <2> QED BY <2>1 DEF PromptsInv, BudgetsAreNumbers, Idle
<1>9. CASE Submit \/ Edit \/ CallInfer
    <2>1. UNCHANGED mounted
        BY <1>9 DEF Submit, Edit, CallInfer
    <2>2. call'.at # "mountRow"
        <3>1. CASE Submit \/ Edit
            <4>1. call' = [at |-> "logSubmitted"] \/ call' = [at |-> "logWritten"]
                BY <3>1 DEF Submit, Edit, Begin
            <4> QED BY <4>1
        <3>2. CASE CallInfer
            BY <3>2, InferBegins
        <3> QED BY <1>9, <3>1, <3>2
    <2> QED BY <2>1, <2>2 DEF PromptsInv, BudgetsAreNumbers
<1>10. CASE ProjectPrompt \/ Complete
    <2>1. UNCHANGED mounted
        BY <1>10 DEF ProjectPrompt, Complete, Send
    <2>2. call'.at # "mountRow"
        <3>1. CASE ProjectPrompt
            BY <3>1, PromptProjected DEF Idle
        <3>2. CASE Complete
            BY <3>2, PromptSent
        <3> QED BY <1>10, <3>1, <3>2
    <2> QED BY <2>1, <2>2 DEF PromptsInv, BudgetsAreNumbers
<1>11. CASE UNCHANGED vars
    BY <1>11 DEF vars, PromptsInv, BudgetsAreNumbers
<1> QED
    BY <1>1, <1>2, <1>3, <1>4, <1>5, <1>6, <1>7, <1>8, <1>9, <1>10, <1>11 DEF Next

\* An answer, and what an arch that echoes its prompt answers, are texts.
LEMMA AnswersAreTexts ==
    ASSUME PromptsInv, Complete
    PROVE  call'.output \in Texts
<1>1. call.at = "complete" /\ call'.output \in Answers \cup {Echo(call.prompt)}
    BY PromptSent
<1>2. Legible(call.prompt)
    BY <1>1 DEF PromptsInv, CallsArePrompts, InferStages
<1>3. Echo(call.prompt) \in Texts
    BY <1>2, EchoIs
<1> QED BY <1>1, <1>3, TextsAssumption

\* A text more is a sequence of texts still.
LEMMA TextsGrow ==
    ASSUME NEW s \in Seq(Texts), NEW t \in Texts
    PROVE  Append(s, t) \in Seq(Texts)
<1> DEFINE T == Texts
<1>1. s \in Seq(T) /\ t \in T
    OBVIOUS
<1> HIDE DEF T
<1>2. Append(s, t) \in Seq(T)
    BY <1>1
<1> QED BY <1>2 DEF T

\* A register is made of texts, whoever writes it (submit_task, write_register, raise).
LEMMA TextsStep == ASSUME PromptsInv, [Next]_vars PROVE TextsAreWhole'
<1>1. CASE UNCHANGED register
    BY <1>1 DEF PromptsInv, TextsAreWhole, TextsOf
<1>2. CASE Submit
    <2>1. PICK goal \in Goals, label \in Labels :
            register' = [goal |-> goal, label |-> label, constraints |-> <<>>,
                         evidence |-> <<>>, decisions |-> <<>>, open |-> <<>>]
        BY <1>2 DEF Submit
    <2>2. goal \in Texts
        BY TextsAssumption
    <2>3. <<>> \in Seq(Texts)
        <3> DEFINE T == Texts
        <3> HIDE DEF T
        <3>1. <<>> \in Seq(T)
            OBVIOUS
        <3> QED BY <3>1 DEF T
    <2>4. /\ register'.goal = goal /\ register'.constraints = <<>> /\ register'.evidence = <<>>
          /\ register'.decisions = <<>> /\ register'.open = <<>>
        BY <2>1
    <2> QED BY <2>2, <2>3, <2>4 DEF TextsAreWhole, TextsOf
<1>3. CASE Edit
    <2>1. PICK e \in Edits : register' = [register EXCEPT !.constraints = e.constraints,
                                                         !.evidence = e.evidence]
        BY <1>3 DEF Edit
    <2>2. register # NoRegister
        BY <1>3 DEF Edit
    <2>3. /\ {"goal", "constraints", "evidence", "decisions", "open"} \subseteq DOMAIN register
          /\ TextsOf(register)
        BY <2>2 DEF PromptsInv, InferenceInv, RegisterIsWhole, TextsAreWhole
    <2>4. /\ register'.goal = register.goal /\ register'.constraints = e.constraints
          /\ register'.evidence = e.evidence /\ register'.decisions = register.decisions
          /\ register'.open = register.open
        BY <2>1, <2>3
    <2>5. e.constraints \in Seq(Texts) /\ e.evidence \in Seq(Texts)
        BY TextsAssumption
    <2> QED BY <2>3, <2>4, <2>5 DEF TextsAreWhole, TextsOf
<1>4. CASE WriteRegister
    <2>1. call.at = "raise" /\ register # NoRegister
        BY <1>4 DEF WriteRegister, PromptsInv, InferenceInv, CallsAreWhole, InferStages
    <2>2. call.output \in Texts
        BY <2>1 DEF PromptsInv, CallsArePrompts, InferStages
    <2>3. /\ {"goal", "constraints", "evidence", "decisions", "open"} \subseteq DOMAIN register
          /\ TextsOf(register)
        BY <2>1 DEF PromptsInv, InferenceInv, RegisterIsWhole, TextsAreWhole
    <2>4. \/ register' = [register EXCEPT !.open = Append(@, call.output)]
          \/ register' = [register EXCEPT !.decisions = Append(@, call.output)]
        BY <1>4 DEF WriteRegister, Raise
    <2>5. /\ register'.goal = register.goal /\ register'.constraints = register.constraints
          /\ register'.evidence = register.evidence
          /\ register'.open \in {register.open, Append(register.open, call.output)}
          /\ register'.decisions \in {register.decisions, Append(register.decisions, call.output)}
        BY <2>3, <2>4
    <2>6. register.open \in Seq(Texts) /\ register.decisions \in Seq(Texts)
        BY <2>3 DEF TextsOf
    <2>7. /\ Append(register.open, call.output) \in Seq(Texts)
          /\ Append(register.decisions, call.output) \in Seq(Texts)
        BY <2>2, <2>6, TextsGrow
    <2>8. TextsOf(register')
        BY <2>3, <2>5, <2>6, <2>7 DEF TextsOf
    <2> QED BY <2>8 DEF TextsAreWhole, TextsOf
<1> QED
    BY <1>1, <1>2, <1>3, <1>4
    DEF Next, Remount, CallMount, MountRow, CallUnmount, DeleteRow, LogLast, CallInfer, ProjectPrompt,
        LogProjected, Complete, ArchErrs, Send, LogInfer, BumpStats, WriteFails, Crash, Load,
        disk, history, vars

\* Other steps of an inference leave its prompt as it is.
LEMMA PromptCarried ==
    ASSUME PromptsInv, LogProjected \/ LogInfer \/ BumpStats
    PROVE  /\ UNCHANGED sent
           /\ call.at \in InferStages /\ call'.at \in InferStages
           /\ call'.at \in {"logProjected", "complete"} => call.at = "logProjected"
           /\ call'.full = call.full /\ call'.budget = call.budget
           /\ call'.prompt = call.prompt /\ call'.output = call.output
<1>1. PICK at \in {"complete", "stats", "raise"} :
        Goto(at) /\ (at = "complete" => call.at = "logProjected")
    BY DEF LogProjected, LogInfer, BumpStats
<1>2. UNCHANGED sent /\ call.at \in InferStages
    BY DEF LogProjected, LogInfer, BumpStats, history, InferStages
<1>3. /\ call'.at = at
      /\ \A f \in DOMAIN call \ {"at"} : call'[f] = call[f]
    BY <1>1, GotoKeeps DEF PromptsInv
<1>4. {"full", "budget", "prompt", "output"} \subseteq DOMAIN call
    BY <1>2 DEF PromptsInv, InferenceInv, CallsAreWhole
<1> QED BY <1>1, <1>2, <1>3, <1>4 DEF InferStages

\* The prompt of an inference keeps its word from its projection on (infer, project).
LEMMA CallsStep == ASSUME PromptsInv, [Next]_vars PROVE CallsArePrompts'
<1>1. CASE CallInfer
    <2>1. PICK id \in DOMAIN mounted :
             /\ register # NoRegister
             /\ call'.at \in {"project", "complete"}
             /\ call'.full = Lower(register) /\ call'.prompt = Lower(register)
             /\ call'.budget = mounted[id].budget /\ call'.output = <<>>
             /\ call'.at = "complete" => ~(Count(Lower(register)) > mounted[id].budget)
        BY <1>1, InferBegins
    <2> DEFINE p == Lower(register)
               b == mounted[id].budget
    <2>2. IsPrompt(p)
        <3>1. TextsOf(register)
            BY <2>1 DEF PromptsInv, TextsAreWhole
        <3> QED BY <3>1, LowerIs
    <2>3. b \in Nat
        BY DEF PromptsInv, BudgetsAreNumbers
    <2>4. <<>> \in Texts
        BY DEF Texts
    <2> HIDE DEF p, b
    <2>5. Legible(p)
        BY <2>2, PromptIs DEF Legible
    <2>6. call'.at = "complete" => Count(p) <= b
        <3>1. Bytes(p, DOMAIN p) \in Nat
            BY <2>2, PromptIs, BytesType
        <3>2. Count(p) \in Nat
            BY <3>1, TokensGrow DEF Count
        <3> QED BY <2>1, <2>3, <3>2 DEF p, b
    <2>7. call'.at = "complete" => Honest(p, p, b)
        BY <2>2, <2>6, WholeIsHonest
    <2> QED BY <2>1, <2>2, <2>3, <2>4, <2>5, <2>7 DEF CallsArePrompts, p, b
<1>2. CASE ProjectPrompt
    <2>1. CASE call' = Idle
        BY <2>1 DEF Idle, CallsArePrompts, InferStages
    <2>2. CASE call' # Idle
        <3>1. /\ Project(call.full, call.budget) # Unfit
              /\ call.at = "project" /\ call'.at = "logProjected"
              /\ call'.prompt = Project(call.full, call.budget)
              /\ call'.full = call.full /\ call'.budget = call.budget
              /\ call'.output = call.output
            BY <1>2, <2>2, PromptProjected
        <3>2. call.budget \in Nat /\ IsPrompt(call.full) /\ call.output \in Texts
            BY <3>1 DEF PromptsInv, CallsArePrompts, InferStages
        <3>3. /\ Honest(call.full, Project(call.full, call.budget), call.budget)
              /\ Legible(Project(call.full, call.budget))
            BY <3>1, <3>2, ProjectionIsHonest
        <3> QED BY <3>1, <3>2, <3>3 DEF CallsArePrompts
    <2> QED BY <2>1, <2>2
<1>3. CASE LogProjected \/ LogInfer \/ BumpStats
    <2>1. /\ call.at \in InferStages
          /\ call'.at \in {"logProjected", "complete"} => call.at = "logProjected"
          /\ call'.full = call.full /\ call'.budget = call.budget
          /\ call'.prompt = call.prompt /\ call'.output = call.output
        BY <1>3, PromptCarried
    <2> QED BY <2>1 DEF PromptsInv, CallsArePrompts
<1>4. CASE Complete
    <2>1. /\ call.at = "complete" /\ call'.at = "logInfer" /\ call'.full = call.full
          /\ call'.prompt = call.prompt /\ call'.budget = call.budget
        BY <1>4, PromptSent
    <2>2. call'.output \in Texts
        BY <1>4, AnswersAreTexts
    <2> QED BY <2>1, <2>2 DEF PromptsInv, CallsArePrompts, InferStages
<1>5. CASE call' = Idle
    BY <1>5 DEF Idle, CallsArePrompts, InferStages
<1>6. CASE CallMount \/ CallUnmount \/ Submit \/ Edit
    <2>1. PICK at \in {"mountRow", "deleteRow", "logSubmitted", "logWritten"} : call'.at = at
        <3>1. CASE CallMount
            BY <3>1 DEF CallMount, Begin
        <3>2. CASE CallUnmount
            BY <3>2 DEF CallUnmount, Begin
        <3>3. CASE Submit
            BY <3>3 DEF Submit
        <3>4. CASE Edit
            BY <3>4 DEF Edit, Begin
        <3> QED BY <1>6, <3>1, <3>2, <3>3, <3>4
    <2> QED BY <2>1 DEF CallsArePrompts, InferStages
<1>7. CASE MountRow \/ DeleteRow \/ WriteRegister
    <2>1. PICK at \in {"logMounted", "logUnmounted", "logWritten"} : Goto(at)
        BY <1>7 DEF MountRow, DeleteRow, WriteRegister
    <2>2. call'.at = at
        BY <2>1, GotoKeeps DEF PromptsInv
    <2> QED BY <2>2 DEF CallsArePrompts, InferStages
<1>8. CASE UNCHANGED call
    BY <1>8 DEF PromptsInv, CallsArePrompts
<1> QED
    BY <1>1, <1>2, <1>3, <1>4, <1>5, <1>6, <1>7, <1>8
    DEF Next, Remount, LogLast, ArchErrs, WriteFails, Crash, Load, vars

\* What an arch is handed is the prompt of the call (complete).
LEMMA SentStep == ASSUME PromptsInv, [Next]_vars PROVE SentIsHonest'
<1>1. CASE Complete \/ ArchErrs
    <2>1. /\ call.at = "complete" /\ sent'.full = call.full
          /\ sent'.prompt = call.prompt /\ sent'.budget = call.budget
        BY <1>1, PromptSent DEF ArchErrs, Send
    <2>2. Honest(call.full, call.prompt, call.budget)
        BY <2>1 DEF PromptsInv, CallsArePrompts
    <2> QED BY <2>1, <2>2 DEF SentIsHonest
<1>2. CASE UNCHANGED sent
    BY <1>2 DEF PromptsInv, SentIsHonest
<1> QED
    BY <1>1, <1>2
    DEF Next, Remount, CallMount, MountRow, CallUnmount, DeleteRow, LogLast, Submit, Edit, CallInfer,
        ProjectPrompt, LogProjected, LogInfer, BumpStats, WriteRegister, WriteFails, Crash, Load,
        history, vars

LEMMA PromptsInvariant == Spec => []PromptsInv
<1>1. Init => PromptsInv
    <2> SUFFICES ASSUME Init PROVE PromptsInv
        OBVIOUS
    <2>1. InferenceInv
        BY InferenceInit
    <2>2. DOMAIN <<>> = {}
        OBVIOUS
    <2>3. BudgetsAreNumbers /\ TextsAreWhole /\ CallsArePrompts /\ SentIsHonest
        BY <2>2 DEF Init, Idle, BudgetsAreNumbers, TextsAreWhole, CallsArePrompts, InferStages, SentIsHonest
    <2> QED BY <2>1, <2>3 DEF PromptsInv
<1>2. PromptsInv /\ [Next]_vars => PromptsInv'
    BY InferenceStep, BudgetsStep, TextsStep, CallsStep, SentStep DEF PromptsInv
<1> QED BY <1>1, <1>2, PTL DEF Spec

\* Every prompt an arch is handed fits its budget with its marker, says what is missing,
\* lacks only what did not fit beside what matters more, and keeps the role, the goal and
\* the heading of every constraint: whatever the register's texts, the budgets, the edits
\* and the answers (project, infer).
THEOREM KeepsItsWord == Spec => []ProjectionKeepsItsWord
<1>1. PromptsInv => ProjectionKeepsItsWord
    <2> SUFFICES ASSUME PromptsInv PROVE ProjectionKeepsItsWord
        OBVIOUS
    <2>1. CASE ~Sent
        BY <2>1 DEF ProjectionKeepsItsWord, SentFits, DropsAreDeclared, ImportantFirst,
                    RoleAndGoalSurvive, NoBulletWithoutHeading
    <2>2. CASE Sent
        <3> DEFINE p == sent.full
                   r == sent.prompt
                   b == sent.budget
        <3>1. Honest(p, r, b)
            BY <2>2 DEF PromptsInv, SentIsHonest, Sent
        <3>2. Kept = KeptOf(r) /\ (Marked <=> r # p)
            BY DEF Kept, KeptOf, Marked
        <3> HIDE DEF p, r, b
        <3>3. SentFits
            BY <3>1 DEF SentFits, Honest, r, b
        <3>4. DropsAreDeclared
            <4>1. DeclaresDrops(p, r)
                BY <3>1 DEF Honest
            <4> QED BY <3>2, <4>1 DEF DropsAreDeclared, DeclaresDrops, p, r
        <3>5. ImportantFirst
            <4>1. DropsLeast(p, r, b)
                BY <3>1 DEF Honest
            <4> QED BY <3>2, <4>1 DEF ImportantFirst, DropsLeast, p, r, b
        <3>6. RoleAndGoalSurvive
            BY <3>1, <3>2 DEF Honest, RoleAndGoalSurvive, KeepsRoleAndGoal, p, r
        <3>7. NoBulletWithoutHeading
            <4>1. KeepsHeadings(p, r)
                BY <3>1 DEF Honest
            <4> QED BY <3>2, <4>1 DEF NoBulletWithoutHeading, KeepsHeadings, p, r
        <3> QED BY <3>3, <3>4, <3>5, <3>6, <3>7 DEF ProjectionKeepsItsWord
    <2> QED BY <2>1, <2>2
<1> QED BY <1>1, PromptsInvariant, PTL
=============================================================================
