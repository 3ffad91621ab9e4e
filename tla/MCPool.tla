------------------------------- MODULE MCPool -------------------------------
(***************************************************************************)
(* The pool for TLC: liveness is checked, so no symmetry.                  *)
(***************************************************************************)
EXTENDS Pool
=============================================================================
