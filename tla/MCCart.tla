------------------------------- MODULE MCCart -------------------------------
(***************************************************************************)
(* Small instances of Cart: two apps, of which one may be unbuyable.       *)
(***************************************************************************)
EXTENDS Cart, TLC

Symmetry == Permutations(Request)
=============================================================================
