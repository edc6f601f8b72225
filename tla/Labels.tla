-------------------------------- MODULE Labels --------------------------------
(***************************************************************************)
(* Information-flow labels (vk_contracts::labels): a label is an element   *)
(* of a join-semilattice, a clearance a cut through it.  Scopes and data   *)
(* classes are numbered from low to high.                                  *)
(***************************************************************************)
EXTENDS Naturals

Scopes == 0..4              \* public, vertical, business, personal, holdout
Holdout == 4
Classes == 0..2             \* own, third_party_mandated, unknown
Own == 0
Origins == {"owner_authored", "owner_shipped", "third_party_inbound", "web"}

Label == [scope : Scopes, class : Classes, origins : SUBSET Origins]
Clearance == [maxScope : Scopes, thirdParty : BOOLEAN]

Higher(a, b) == IF a < b THEN b ELSE a

Join(a, b) ==
    [scope |-> Higher(a.scope, b.scope),
     class |-> Higher(a.class, b.class),
     origins |-> a.origins \cup b.origins]

\* The order Join is the least upper bound of.
Leq(a, b) ==
    /\ a.scope <= b.scope
    /\ a.class <= b.class
    /\ a.origins \subseteq b.origins

\* Label::flows_to: nobody is cleared for the holdout set.
FlowsTo(label, clearance) ==
    /\ label.scope # Holdout
    /\ label.scope <= clearance.maxScope
    /\ label.class = Own \/ clearance.thirdParty
=============================================================================
