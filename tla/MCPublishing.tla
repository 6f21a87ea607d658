---------------------------- MODULE MCPublishing ----------------------------
(***************************************************************************)
(* Publishing with small sets; ids, editors and slugs are interchangeable. *)
(***************************************************************************)
EXTENDS Publishing, TLC

Symmetry == Permutations(Ids) \union Permutations(Editors) \union Permutations(Slugs)

(* The run follows a behaviour up to its first outdated update, which is   *)
(* still checked; the proofs cover what comes after.                       *)
UpToOutdated == ~stale
=============================================================================
