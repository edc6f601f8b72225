------------------------------ MODULE Presence ------------------------------
(***************************************************************************)
(* The syscall transport's presence protocol: how one request becomes a    *)
(* human one.  The server (vk_ipc::server) serves many connections at      *)
(* once; a request runs on a thread of its own, which reads the clock      *)
(* first, then takes the mutex of the challenge map, then the mutex of the *)
(* kernel, and releases each before the next.  The client (vk) asks for a  *)
(* challenge, signs its nonce with its device key and sends the proof with *)
(* one request.  A client that loses its connection does not know what     *)
(* became of the request, and may send the same proof again, with this     *)
(* method or another, while the first is still on its way.                 *)
(*                                                                         *)
(* A signature is good exactly if its device is enrolled: what is signed   *)
(* (PresenceProof::message, Challenge::digest) is not modelled further,    *)
(* and an approval's own expiry, which the client chooses, is left out.    *)
(***************************************************************************)
EXTENDS Integers, FiniteSets, Functions

CONSTANTS
    Devices,
    Enrolled,       \* those the kernel has enrolled
    Slots,          \* bound: requests in flight
    MaxNonces,      \* bound: challenges minted in a behaviour
    MaxWall,        \* bound: the clock
    Ttl,            \* CHALLENGE_TTL_MS
    MaxChallenges   \* MAX_CHALLENGES

ASSUME PresenceAssumption ==
    /\ Enrolled \subseteq Devices
    /\ MaxNonces \in Nat /\ MaxWall \in Nat
    /\ Ttl \in Nat \ {0} /\ MaxChallenges \in Nat \ {0}

Nonces == 1..MaxNonces
None == 0
Times == 0..MaxWall

\* "act" stands for the methods that take a proof and refuse a machine (stop,
\* resume, approve), "show" for those that take none.
Methods == {"act", "show"}
TakesPresence(method) == method = "act"

VARIABLES
    wall,       \* the clock now_ms reads
    open,       \* Challenges.open: nonce -> expiry
    task,       \* the request each thread of the server is at
    signed,     \* nonce -> the device whose key signed it
    \* History.
    issued,     \* nonce -> the expiry it was issued with; a nonce is made once
    spent,      \* the nonces some request has presented, or a restart forgot
    acted       \* how often each nonce let something be done as a human

presenceVars == <<wall, open, task, signed, issued, spent, acted>>

-----------------------------------------------------------------------------
(* A request on its thread. *)

Free == [stage |-> "free"]
Request ==
    [stage : {"issue", "spend", "refused", "kernel"},
     method : Methods \cup {"challenge"}, nonce : Nonces \cup {None}, now : Times]

NoMap == [n \in {} |-> 0]
With(f, n, value) == [m \in DOMAIN f \cup {n} |-> IF m = n THEN value ELSE f[m]]
Without(f, S) == Restrict(f, DOMAIN f \ S)

PresenceInit ==
    /\ wall = 0
    /\ open = NoMap
    /\ task = [s \in Slots |-> Free]
    /\ signed = NoMap
    /\ issued = NoMap
    /\ spent = {}
    /\ acted = [n \in Nonces |-> 0]

Tick ==
    /\ wall < MaxWall
    /\ wall' = wall + 1
    /\ UNCHANGED <<open, task, signed, issued, spent, acted>>

\* handle_connection and the top of dispatch: a thread takes the request and
\* reads the clock before it waits for a mutex.
Take(s, stage, method, nonce) ==
    /\ task[s] = Free
    /\ task' = [task EXCEPT ![s] =
          [stage |-> stage, method |-> method, nonce |-> nonce, now |-> wall]]
    /\ UNCHANGED <<wall, open, issued, spent, acted>>

-----------------------------------------------------------------------------
(* vk. *)

\* challenge(): nonces are uuids, so there is always another one.
AskChallenge(s) ==
    Take(s, "issue", "challenge", None) /\ UNCHANGED signed

\* A call that carries no proof.
SendBare(s) ==
    Take(s, "kernel", "act", None) /\ UNCHANGED signed

\* presence(), approve(): the nonce is signed once and sent, and after a broken
\* connection sent again.
Present(s, n, method) ==
    /\ n \in DOMAIN issued
    /\ Take(s, "spend", method, n)
    /\ \E d \in IF n \in DOMAIN signed THEN {signed[n]} ELSE Devices :
          signed' = With(signed, n, d)

\* The answer goes out, or finds nobody, and the thread is free.
Answer(s) == task' = [task EXCEPT ![s] = Free]

-----------------------------------------------------------------------------
(* Challenges, under their mutex. *)

\* Variant of Evicted: the challenge furthest from expiry makes room.
EvictedNewest(live) ==
    IF Cardinality(DOMAIN live) < MaxChallenges THEN {{}}
    ELSE {{n} : n \in {n \in DOMAIN live : \A m \in DOMAIN live : live[m] <= live[n]}}

\* What issue drops to make room: of those closest to expiry, any one.
Evicted(live) ==
    IF Cardinality(DOMAIN live) < MaxChallenges THEN {{}}
    ELSE {{n} : n \in {n \in DOMAIN live : \A m \in DOMAIN live : live[n] <= live[m]}}

\* Challenges::issue
Issue(s) ==
    /\ task[s].stage = "issue"
    /\ LET now == task[s].now
           n == Cardinality(DOMAIN issued) + 1
           live == Restrict(open, {m \in DOMAIN open : open[m] > now})
       IN  /\ n \in Nonces
           /\ \E out \in Evicted(live) : open' = With(Without(live, out), n, now + Ttl)
           /\ issued' = With(issued, n, now + Ttl)
    /\ Answer(s)
    /\ UNCHANGED <<wall, signed, spent, acted>>

\* Variant of Taken: a nonce is looked up, and another thread may look it up.
TakenLater(r) == UNCHANGED open

\* A nonce leaves the map whatever the verdict.
Taken(r) == open' = Without(open, {r.nonce})

\* Variant of Accepted: a challenge is good in its last millisecond too.
AcceptedAtExpiry(r) == r.nonce \in DOMAIN open /\ r.now <= open[r.nonce]

Accepted(r) == r.nonce \in DOMAIN open /\ r.now < open[r.nonce]

\* Challenges::spend, before the method is looked at.
Spend(s) ==
    /\ task[s].stage = "spend"
    /\ Taken(task[s])
    /\ spent' = spent \cup {task[s].nonce}
    /\ task' = [task EXCEPT ![s].stage =
          IF Accepted(task[s]) /\ TakesPresence(task[s].method) THEN "kernel" ELSE "refused"]
    /\ UNCHANGED <<wall, signed, issued, acted>>

-----------------------------------------------------------------------------
(* dispatch, under the kernel's mutex. *)

\* ctx_for, and what i1_presence and i1_approval then ask: human on a proof
\* that verifies, machine without one.
IsHuman(r) == r.nonce # None /\ signed[r.nonce] \in Enrolled

Refuse(s) ==
    /\ \/ task[s].stage = "refused"
       \/ task[s].stage = "kernel" /\ ~IsHuman(task[s])
    /\ Answer(s)
    /\ UNCHANGED <<wall, open, signed, issued, spent, acted>>

DoAct(s) ==
    /\ task[s].stage = "kernel"
    /\ IsHuman(task[s])
    /\ acted' = [acted EXCEPT ![task[s].nonce] = @ + 1]
    /\ Answer(s)
    /\ UNCHANGED <<wall, open, signed, issued, spent>>

\* The daemon dies and another one serves: the map was in memory.
Restart ==
    /\ open' = NoMap
    /\ spent' = spent \cup DOMAIN open
    /\ task' = [s \in Slots |-> Free]
    /\ UNCHANGED <<wall, signed, issued, acted>>

-----------------------------------------------------------------------------
PresenceNext ==
    \/ Tick
    \/ Restart
    \/ \E s \in Slots :
          \/ AskChallenge(s)
          \/ SendBare(s)
          \/ \E n \in Nonces, method \in Methods : Present(s, n, method)
          \/ Issue(s)
          \/ Spend(s)
          \/ Refuse(s)
          \/ DoAct(s)

PresenceSpec == PresenceInit /\ [][PresenceNext]_presenceVars

-----------------------------------------------------------------------------
(* Properties. *)

PresenceTypeOK ==
    /\ wall \in Times
    /\ DOMAIN issued \in {1..k : k \in 0..MaxNonces}
    /\ \A n \in DOMAIN issued : issued[n] \in 0..(MaxWall + Ttl)
    /\ DOMAIN open \subseteq DOMAIN issued
    /\ \A n \in DOMAIN open : open[n] = issued[n]
    /\ task \in [Slots -> Request \cup {Free}]
    /\ DOMAIN signed \subseteq DOMAIN issued
    /\ \A n \in DOMAIN signed : signed[n] \in Devices
    /\ spent \subseteq DOMAIN issued
    /\ acted \in [Nonces -> Nat]

\* A proof makes one request human, however often it is sent, however the
\* threads that carry it interleave, and over a restart of the daemon: it is
\* "a signature ... over a server-issued, single-use, expiring nonce"
\* (vk-ipc/src/lib.rs:9-12).
OneActPerNonce == \A n \in Nonces : acted[n] <= 1

\* A nonce shown to any request, to a method that takes no proof included, is
\* gone from the map: "a proof sent to a method that would ignore it cannot be
\* shown again to one that would not" (vk-ipc/src/server.rs:309-312).
ShownIsSpent == spent \cap DOMAIN open = {}

\* What is done as a human was asked for while its challenge was unexpired, with
\* an enrolled device's key, although the kernel may get to it much later
\* (vk-ipc/src/server.rs:308).
ActsAreTimely ==
    [][\A n \in Nonces : acted'[n] # acted[n] =>
          \E s \in Slots :
              /\ task[s] # Free /\ task[s].nonce = n
              /\ signed[n] \in Enrolled
              /\ task[s].now < issued[n]]_presenceVars

\* A challenge that is not spent and not expired is answerable: only
\* MaxChallenges - 1 others that expire no sooner, and the one being issued,
\* can have pushed it out (vk-ipc/src/server.rs:45-61).
UnexpiredIsAnswerable ==
    \A n \in DOMAIN issued \ (spent \cup DOMAIN open) :
        \/ wall >= issued[n]
        \/ Cardinality({m \in DOMAIN issued \ {n} : issued[m] >= issued[n]})
              >= MaxChallenges - 1

\* "A local client that mints nonces it never spends cannot grow the map
\* without limit" (vk-ipc/src/server.rs:28-30).
MapIsBounded == Cardinality(DOMAIN open) <= MaxChallenges

\* The map holds what it should: bounded, without what was shown, and with every
\* challenge a human may still be about to answer.
ChallengesAreKept == PresenceTypeOK /\ MapIsBounded /\ ShownIsSpent /\ UnexpiredIsAnswerable
=============================================================================
