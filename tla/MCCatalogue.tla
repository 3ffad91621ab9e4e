---------------------------- MODULE MCCatalogue -----------------------------
(***************************************************************************)
(* One publisher with one app and another to come.                         *)
(***************************************************************************)
EXTENDS Catalogue, TLC

Symmetry == Permutations(Request) \cup Permutations(Key)
=============================================================================
