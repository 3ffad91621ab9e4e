--------------------------- MODULE MCDiscussions ----------------------------
(***************************************************************************)
(* Two clients of one discussion.                                          *)
(***************************************************************************)
EXTENDS Discussions, TLC

Symmetry == Permutations(Conn) \cup Permutations(Message)
=============================================================================
