----------------------------- MODULE ReleasePaths -----------------------------
(***************************************************************************)
(* Where a release may write.  A path is the sequence of its components    *)
(* as std::path yields them: "normal", "cur" (.), "parent" (..), "root"    *)
(* and "prefix" (a drive).  An artefact kind is one of                     *)
(*   "plain"     a short token,                                            *)
(*   "trailing"  a token that ends in a separator, which std::path drops,  *)
(*   "nested"    two tokens and a separator between them,                  *)
(*   "climbing"  one that leads out through "..".                              *)
(***************************************************************************)
EXTENDS Naturals, Sequences, FiniteSets

Components == {"normal", "cur", "parent", "root", "prefix"}
ArtefactKinds == {"plain", "trailing", "nested", "climbing"}

\* validate_artefact_kind: at the door where artefacts come in.
ValidKind(kind) == kind = "plain"

\* The components of "<hash12>.<kind>".
NameParts(kind) ==
    CASE kind \in {"plain", "trailing"} -> <<"normal">>
      [] kind = "nested" -> <<"normal", "normal">>
      [] kind = "climbing" -> <<"normal", "parent", "parent", "parent", "normal">>

\* release_file_name: one ordinary component.
FileName(kind) == NameParts(kind) = <<"normal">>

\* Variant of ReleaseDest: relative is enough.
ReleaseDestRelative(dir) == dir # <<>> /\ dir[1] \notin {"root", "prefix"}

\* release_dest: a relative subpath of the export root.
ReleaseDest(dir) == dir # <<>> /\ \A i \in DOMAIN dir : dir[i] \in {"normal", "cur"}

\* Creating a file under a name that ends in a separator fails.
CanBeCreated(kind) == kind # "trailing"

\* A path, joined to the export root, that stays under it all the way.
StaysInside(path) ==
    LET Upto(n, kind) == Cardinality({i \in 1..n : path[i] = kind})
    IN  \A n \in DOMAIN path : /\ path[n] \notin {"root", "prefix"}
                               /\ Upto(n, "parent") <= Upto(n, "normal")
=============================================================================
