----------------------------- MODULE MCReviews ------------------------------
(***************************************************************************)
(* Two buyers and the publisher, three requests, two ratings.              *)
(***************************************************************************)
EXTENDS Reviews, TLC

Symmetry == Permutations(Request)
=============================================================================
