----------------------------- MODULE MCAccounts -----------------------------
(***************************************************************************)
(* Two users registered before and one name nobody has.                    *)
(***************************************************************************)
EXTENDS Accounts, TLC

CONSTANTS ann, bob

MCNameOf == ann :> "ann" @@ bob :> "bob"

Symmetry == Permutations(Request)
=============================================================================
