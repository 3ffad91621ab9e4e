------------------------------ MODULE MCWallet ------------------------------
(***************************************************************************)
(* Small instances of Wallet: a buyer, a buyer who is a publisher too, and *)
(* a second publisher; a dear app and a cheap one, bought by both buyers.  *)
(* One cart holds two rows for the same app (module Cart shows how).       *)
(***************************************************************************)
EXTENDS WalletAtomic, TLC

CONSTANTS ann, bob, cat, game, tool

MCUser == {ann, bob, cat}
MCApp == {game, tool}
MCPrice == game :> 2 @@ tool :> 1
MCPublisher == game :> bob @@ tool :> cat
MCBalance == ann :> 4 @@ bob :> 2 @@ cat :> 0
MCCart == ann :> (game :> 1 @@ tool :> 1) @@ bob :> (game :> 0 @@ tool :> 2)
          @@ cat :> None

Symmetry == Permutations(Request)
=============================================================================
