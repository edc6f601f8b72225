---------------------------- MODULE MetadataMerge ----------------------------
(***************************************************************************)
(* MetadataDoc on several nodes: local writes and merges of any state      *)
(* another node has had.  I3: a merge adopts a write, has it already or    *)
(* records a conflict.  Which authors a conflict names is left out.        *)
(***************************************************************************)
EXTENDS Naturals, FiniteSets

CONSTANTS
    Authors,        \* the nodes
    DocKeys, Values,
    MaxWrites       \* bound: local writes

VARIABLES
    writes,         \* node -> (key -> value)
    conflicts,      \* node -> set of [key, mine, theirs]
    versions,       \* every document some node has had
    known,          \* node -> <<key, value>> it wrote or merged and has not replaced
    written

docVars == <<writes, conflicts, versions, known, written>>

-----------------------------------------------------------------------------
Entry(k, v) == [key |-> k, value |-> v]
Assigned(f, k, v) == [x \in DOMAIN f \cup {k} |-> IF x = k THEN v ELSE f[x]]

DocInit ==
    /\ writes = [n \in Authors |-> <<>>]
    /\ conflicts = [n \in Authors |-> {}]
    /\ versions = {}
    /\ known = [n \in Authors |-> {}]
    /\ written = 0

Release(n) == versions' = versions \cup {[writes |-> writes'[n], conflicts |-> conflicts'[n],
                                          known |-> known'[n]]}

\* write: this node's value replaces what it had.
WriteDoc(n) ==
    \E k \in DocKeys, v \in Values :
        /\ written < MaxWrites /\ written' = written + 1
        /\ writes' = [writes EXCEPT ![n] = Assigned(@, k, v)]
        /\ known' = [known EXCEPT ![n] = {e \in @ : e.key # k} \cup {Entry(k, v)}]
        /\ UNCHANGED conflicts
        /\ Release(n)

Adopted(mine, theirs) ==
    [k \in DOMAIN mine \cup DOMAIN theirs |-> IF k \in DOMAIN mine THEN mine[k] ELSE theirs[k]]
Surfaced(mine, theirs) ==
    {[key |-> k, mine |-> mine[k], theirs |-> theirs[k]] :
        k \in {x \in DOMAIN mine \cap DOMAIN theirs : mine[x] # theirs[x]}}

\* Variant of MergeDoc: the conflicts another node recorded stay with it.
MergeDocOwnConflicts(n, other) ==
    /\ writes' = [writes EXCEPT ![n] = Adopted(@, other.writes)]
    /\ conflicts' = [conflicts EXCEPT ![n] = @ \cup Surfaced(writes[n], other.writes)]

\* merge: mine is kept, a different theirs is a conflict, their conflicts are mine too.
MergeDoc(n, other) ==
    /\ writes' = [writes EXCEPT ![n] = Adopted(@, other.writes)]
    /\ conflicts' = [conflicts EXCEPT ![n] = @ \cup Surfaced(writes[n], other.writes)
                                               \cup other.conflicts]

ReceiveDoc(n) ==
    \E other \in versions :
        /\ MergeDoc(n, other)
        /\ known' = [known EXCEPT ![n] = @ \cup other.known]
        /\ UNCHANGED written
        /\ Release(n)

DocNext == \E n \in Authors : WriteDoc(n) \/ ReceiveDoc(n)

DocSpec == DocInit /\ [][DocNext]_docVars

-----------------------------------------------------------------------------
(* Properties *)

\* I3 over any chain of merges: what a node wrote or merged is its value of the key or
\* stands in a conflict, until the node itself writes that key again (merge).
NoSilentLoss ==
    \A n \in Authors : \A e \in known[n] :
        \/ e.key \in DOMAIN writes[n] /\ writes[n][e.key] = e.value
        \/ \E c \in conflicts[n] : c.key = e.key /\ e.value \in {c.mine, c.theirs}
=============================================================================
