----------------------------- MODULE MCUploads ------------------------------
(***************************************************************************)
(* One slot of each kind, two file names.                                  *)
(***************************************************************************)
EXTENDS Uploads, TLC

Symmetry == Permutations(Request) \cup Permutations(Put) \cup Permutations(Name)
=============================================================================
