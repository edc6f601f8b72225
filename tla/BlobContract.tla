---------------------------- MODULE BlobContract ----------------------------
(***************************************************************************)
(* What a payload tier promises (the contract of vk_contracts::storage,    *)
(* "key/shred semantics", and the in-memory BlobStore there): a blob can   *)
(* be read once it was put, until its subject is shredded; a subject that  *)
(* was shredded takes no more blobs.  A payload may also be lost, one      *)
(* whose rewriting was cut short or all of one subject at once, but no     *)
(* payload comes back unless it is put again.                              *)
(***************************************************************************)
CONSTANTS Keys, Texts

VARIABLES
    readable,   \* the addresses (subject, text) that can be read
    shredded    \* the subjects on record as shredded

vars == <<readable, shredded>>

Addresses == Keys \X Texts
Of(k) == {a \in Addresses : a[1] = k}

Init == readable = {} /\ shredded = {}

Put(a) ==
    /\ a[1] \notin shredded
    /\ readable' = readable \cup {a}
    /\ UNCHANGED shredded

Shred(k) ==
    /\ shredded' = shredded \cup {k}
    /\ readable' = readable \ Of(k)

\* A shred that was cut short before it went on record.
Erase(k) ==
    /\ readable' = readable \ Of(k)
    /\ UNCHANGED shredded

Damage(a) ==
    /\ readable' = readable \ {a}
    /\ UNCHANGED shredded

Next ==
    \/ \E a \in Addresses : Put(a) \/ Damage(a)
    \/ \E k \in Keys : Shred(k) \/ Erase(k)

Spec == Init /\ [][Next]_vars
=============================================================================
