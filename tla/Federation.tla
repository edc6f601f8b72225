----------------------------- MODULE Federation -----------------------------
(***************************************************************************)
(* A federation root that is signed, amended and shown to a node           *)
(* (vk-contracts/src/federation.rs).  Who collects the signatures is not   *)
(* in the repository: holders sign when they like, and whoever writes the  *)
(* document enters any signature it has seen under any key id.             *)
(***************************************************************************)
EXTENDS Integers, FiniteSets, Functions

CONSTANTS
    KeyIds,
    Holders,        \* who holds a private key
    Roots,          \* the roots that come up
    NoKey           \* the entry of a key id whose public key does not decode

\* RootRole
RootRole(r) ==
    /\ DOMAIN r = {"keys", "threshold", "expires"}
    /\ DOMAIN r.keys \subseteq KeyIds
    /\ \A id \in DOMAIN r.keys : r.keys[id] \in Holders \cup {NoKey}
    /\ r.threshold \in Nat /\ r.expires \in Nat

ASSUME RootsAssumption == \A r \in Roots : RootRole(r)
ASSUME KeysAssumption ==
    IsFiniteSet(KeyIds) /\ IsFiniteSet(Holders) /\ NoKey \notin Holders

VARIABLES
    root,           \* SignedRoot.root
    signatures,     \* SignedRoot.signatures: key id -> who signed which root
    signed          \* every signature a holder has made

rootVars == <<root, signatures, signed>>

-----------------------------------------------------------------------------
RootInit ==
    /\ root \in Roots
    /\ signatures = [id \in {} |-> <<>>]
    /\ signed = {}

\* What is signed is the digest of the whole root.
Sign(h) ==
    /\ signed' = signed \cup {<<h, root>>}
    /\ UNCHANGED <<root, signatures>>

Enter(id, s) ==
    /\ signatures' = [k \in DOMAIN signatures \cup {id} |->
                         IF k = id THEN s ELSE signatures[k]]
    /\ UNCHANGED <<root, signed>>

\* The root changes, and the signatures it had stay in the document.
Amend(r) ==
    /\ root' = r
    /\ UNCHANGED <<signatures, signed>>

RootNext ==
    \/ \E h \in Holders : Sign(h)
    \/ \E id \in KeyIds, s \in signed : Enter(id, s)
    \/ \E r \in Roots : Amend(r)

RootSpec == RootInit /\ [][RootNext]_rootVars

-----------------------------------------------------------------------------
(* SignedRoot::verify *)

\* Variant of Valid: what was signed is not looked at.
ValidForAny ==
    {id \in DOMAIN root.keys \cap DOMAIN signatures : signatures[id][1] = root.keys[id]}

\* The entries whose signature is good under the key of their own id.
Valid ==
    {id \in DOMAIN root.keys \cap DOMAIN signatures : signatures[id] = <<root.keys[id], root>>}

Verifies(now) ==
    /\ now < root.expires
    /\ Cardinality(Valid) >= root.threshold

-----------------------------------------------------------------------------
(* Properties. *)

Signers == {h \in Holders : <<h, root>> \in signed}

\* A node that accepts a root knows that as many holders as its threshold says
\* signed this very root, not an earlier one and not one of them several times,
\* as long as the root gives no two ids the same key
\* (vk-contracts/src/federation.rs:40-61).
AcceptedIsSigned ==
    IsInjective(root.keys) =>
        \A now \in 0..root.expires :
            Verifies(now) => Cardinality(Signers) >= root.threshold
=============================================================================
