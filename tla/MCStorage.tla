----------------------------- MODULE MCStorage -----------------------------
(***************************************************************************)
(* Two names and two processes, both interchangeable.                      *)
(***************************************************************************)
EXTENDS Storage, TLC

FsSymmetry == Permutations(FsNames) \cup Permutations(FsPids)
=============================================================================
