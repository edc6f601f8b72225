------------------------ MODULE MCPromotionReplicas -------------------------
(***************************************************************************)
(* Promotion, the replicated data types and the federation root for TLC.   *)
(* They share no state, so a behaviour exercises one of them.  Promotion   *)
(* has two modules, two devices with keys of their own, an approval of     *)
(* each kind and each way it can be wrong.                                 *)
(***************************************************************************)
EXTENDS Promotion, StopMerge, MetadataMerge, HybridClock, Federation

VARIABLE part
replicaVars == <<stopVars, docVars, clockVars, rootVars>>
MCVars == <<vars, replicaVars, part>>

Manifest(s, auto, person, evolved, script) ==
    [subject |-> s, auto |-> auto, person |-> person, evolved |-> evolved, script |-> script]
MCManifests == {Manifest("m1", "none", FALSE, TRUE, FALSE), Manifest("m1", "yes", TRUE, FALSE, FALSE),
                Manifest("m2", "yes", FALSE, FALSE, TRUE)}
Human(s, action, expires, key) ==
    [subject |-> s, kind |-> "human", approver |-> "phone", action |-> action,
     expires |-> expires, key |-> key]
MCApprovals == {Human("m1", "m1", 1, "k1"), Human("m1", "m2", 1, "k1"),
                [Human("m1", "m1", 1, "k1") EXCEPT !.kind = "test"]}
MCVerdicts == {{}, {[gate |-> "annex_iii", subject |-> "m1", pass |-> TRUE],
                    [gate |-> "declassification", subject |-> "m2", pass |-> TRUE]},
               {[gate |-> "annex_iii", subject |-> "m2", pass |-> TRUE]}}

MCOwner == [s1 |-> "n1", s2 |-> "n2"]
MCStopIds == DOMAIN MCOwner

\* Two holders under two thresholds, one holder under two ids, a key that does
\* not decode.
MCRoot(keys, threshold) == [keys |-> keys, threshold |-> threshold, expires |-> 1]
MCRoots ==
    {MCRoot([k1 |-> "ann", k2 |-> "bob"], 1), MCRoot([k1 |-> "ann", k2 |-> "bob"], 2),
     MCRoot([k1 |-> "ann", k2 |-> "ann"], 2), MCRoot([k1 |-> "bob", k2 |-> "none"], 1)}

MCInit ==
    /\ part \in {"promotion", "stops", "docs", "clocks", "roots"}
    /\ Init /\ StopInit /\ DocInit /\ ClockInit /\ RootInit
    /\ part # "roots" => root = CHOOSE r \in MCRoots : TRUE
MCNext ==
    /\ UNCHANGED part
    /\ \/ part = "promotion" /\ Next /\ UNCHANGED replicaVars
       \/ part = "stops" /\ StopNext /\ UNCHANGED <<vars, docVars, clockVars, rootVars>>
       \/ part = "docs" /\ DocNext /\ UNCHANGED <<vars, stopVars, clockVars, rootVars>>
       \/ part = "clocks" /\ ClockNext /\ UNCHANGED <<vars, stopVars, docVars, rootVars>>
       \/ part = "roots" /\ RootNext /\ UNCHANGED <<vars, stopVars, docVars, clockVars>>
MCSpec == MCInit /\ [][MCNext]_MCVars
=============================================================================
