---------------------------- MODULE StopAuthority ----------------------------
(***************************************************************************)
(* What the kernel promises about STOP, with no disk, no process and no    *)
(* failure in sight: the in-memory kernel of vk-stub, which the real       *)
(* kernel declares as its semantics (vk-kernel/src/lib.rs:1).  A STOP is   *)
(* issued once under an id of its own, it stays until a RESUME cites that  *)
(* id, and an automation runs only in a business no live STOP holds.       *)
(***************************************************************************)
EXTENDS Naturals

CONSTANTS
    Ids,            \* the ids a STOP can take
    Businesses,     \* the businesses automations run in
    NodeScope       \* the scope of a STOP of the whole node, no business

Scopes == Businesses \cup {NodeScope}

VARIABLES
    issued,         \* every STOP ever issued: a set of [id, scope]
    lifted,         \* the STOP ids some RESUME cites
    ran             \* how often an automation ran, per business

vars == <<issued, lifted, ran>>

-----------------------------------------------------------------------------
IssuedIds == {e.id : e \in issued}

\* StopSet::stopped: some STOP of this scope is cited by no RESUME.
InForce(scope) == \E e \in issued : e.scope = scope /\ e.id \notin lifted

Init ==
    /\ issued = {}
    /\ lifted = {}
    /\ ran = [b \in Businesses |-> 0]

\* stop(scope): the id is new.
Issue(id, scope) ==
    /\ id \notin IssuedIds
    /\ issued' = issued \cup {[id |-> id, scope |-> scope]}
    /\ UNCHANGED <<lifted, ran>>

\* resume(stop_id): refused unless the STOP is known.
Lift(id) ==
    /\ id \in IssuedIds
    /\ lifted' = lifted \cup {id}
    /\ UNCHANGED <<issued, ran>>

\* run_automation by a machine (whether its business holds a live autonomy
\* lease is not part of this promise).
Run(b) ==
    /\ ~InForce(b)
    /\ ran' = [ran EXCEPT ![b] = @ + 1]
    /\ UNCHANGED <<issued, lifted>>

Next ==
    \/ \E id \in Ids, scope \in Scopes : Issue(id, scope)
    \/ \E id \in Ids : Lift(id)
    \/ \E b \in Businesses : Run(b)

Spec == Init /\ [][Next]_vars
=============================================================================
