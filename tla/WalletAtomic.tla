---------------------------- MODULE WalletAtomic ----------------------------
(***************************************************************************)
(* Wallet against the atomic Bank, and the sums over all users.            *)
(***************************************************************************)
EXTENDS Wallet, Functions

ASSUME FiniteStore == IsFiniteSet(User) /\ IsFiniteSet(App)

\* PurchaseService.add_app_to_cart refuses an app to its publisher.
ASSUME NoOwnApps == \A a \in App : InitialCart[Publisher[a]][a] = 0

Atomic == INSTANCE Bank
    WITH balance <- [u \in User |-> db[u]], owned <- purchases

\* A step no stale write preceded or is part of is a step of the atomic Bank or
\* none at all: the stale writes are the only thing between the code and Bank.
BankUnlessRaced ==
    [][raced' = {} => Atomic!Next \/ UNCHANGED Atomic!vars]_vars

\* A checkout charges what it credits: whatever the interleaving, committed
\* changes of balances add up to what transfers and codes brought in.
MoneyConserved ==
    SumFunctionOnSet(ledger, User) = SumFunctionOnSet(InitialBalance, User) + inflow

\* The purchase rows of app a.
Sales(a) == SumFunction([u \in User |-> purchases[u][a]])

\* times_purchased is the number of purchase rows of the app, unless two
\* checkouts wrote it from overlapping reads.
SalesCounted == \A a \in App \ raced : db[a] = Sales(a)
=============================================================================
