---------------------------- MODULE MCNodeStart -----------------------------
(***************************************************************************)
(* NodeStart for TLC.  Stores, endpoints and files have no names of their  *)
(* own, so one call is given the first of each.  Two calls have their keys *)
(* in the keyring, or in one file, or over one store in two.  A ledger     *)
(* that does not verify, and --force, are tried where they share all they  *)
(* have, and a file.                                                       *)
(***************************************************************************)
EXTENDS NodeStart

CONSTANTS b1, s1, e1, f1

Shared(of) == \A b \in Boots : of[b] = of[b1]

MCInit ==
    /\ Init
    /\ store[b1] = s1 /\ endpoint[b1] = e1 /\ place[b1] \in {f1, Keyring}
    /\ Keyring \in {place[b] : b \in Boots} => Shared(place)
    /\ Shared(store) \/ Shared(place)
    /\ intact = {} => Shared(store) /\ Shared(endpoint) /\ place = [b \in Boots |-> f1]
    /\ intact # {} => forced = {}
    /\ synced \in {{}, {s1}}
    /\ \A p \in Endpoints : name[p] = name[e1]

MCSpec == MCInit /\ [][Next]_vars /\ Fairness
=============================================================================
