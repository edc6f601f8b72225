------------------------------ MODULE MCPayloads ------------------------------
(***************************************************************************)
(* BlobTier and ReadSurfaces for TLC: the payloads as they are stored, and *)
(* who may see them.  The two share no state, so a behaviour exercises one *)
(* of them.                                                                *)
(***************************************************************************)
EXTENDS BlobTier, ReadSurfaces, TLC

VARIABLE part
MCVars == <<vars, surfaceVars, part>>

MCObjects ==
    [deal |-> [scope |-> 2, class |-> Own, origins |-> {"owner_authored"}],
     letter |-> [scope |-> 1, class |-> 2, origins |-> {"third_party_inbound"}]]
MCCallers ==
    [owner |-> [maxScope |-> 3, thirdParty |-> TRUE],
     clerk |-> [maxScope |-> 1, thirdParty |-> TRUE]]
MCDests == {<<"cur", "normal">>, <<"normal", "parent", "parent">>}

Interchangeable == Permutations(Threads) \cup Permutations(Texts)

MCInit == part \in {"blobs", "surfaces"} /\ Init /\ SurfacesInit
MCNext ==
    /\ UNCHANGED part
    /\ \/ part = "blobs" /\ Next /\ UNCHANGED surfaceVars
       \/ part = "surfaces" /\ SurfacesNext /\ UNCHANGED vars
MCSpec == MCInit /\ [][MCNext]_MCVars
=============================================================================
