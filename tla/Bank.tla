-------------------------------- MODULE Bank --------------------------------
(***************************************************************************)
(* What the store promises about money, with every operation atomic: a     *)
(* deposit adds, a withdrawal never overdraws, a purchase moves the price  *)
(* of every app bought from the buyer to its publisher and gives the buyer *)
(* only apps not owned yet.                                                *)
(***************************************************************************)
EXTENDS Integers, Functions

CONSTANTS User, App, Price, Publisher, Amount, CodeValue

VARIABLES balance, owned

vars == <<balance, owned>>

\* The price of a bag of apps, and the part of it that goes to publisher p.
Prices(bag) == [a \in App |-> Price[a] * bag[a]]
Cost(bag) == SumFunction(Prices(bag))
Income(bag, p) == SumFunctionOnSet(Prices(bag), {a \in App : Publisher[a] = p})

Init ==
    /\ balance \in [User -> Int] /\ \A u \in User : balance[u] >= 0
    /\ owned = [u \in User |-> [a \in App |-> 0]]

\* A top-up or a promo code.
Deposit(u, n) ==
    /\ balance' = [balance EXCEPT ![u] = @ + n]
    /\ UNCHANGED owned

Withdraw(u, n) ==
    /\ balance[u] >= n
    /\ balance' = [balance EXCEPT ![u] = @ - n]
    /\ UNCHANGED owned

\* u pays for what u gains, every publisher earns from it what is sold of theirs.
Purchase(u) ==
    LET bag == [a \in App |-> owned'[u][a] - owned[u][a]] IN
    /\ \A a \in App : bag[a] >= 0 /\ (bag[a] > 0 => owned[u][a] = 0)
    /\ owned' = [owned EXCEPT ![u] = owned'[u]]
    /\ balance[u] >= Cost(bag)
    /\ balance' = [v \in User |->
         balance[v] + Income(bag, v) - (IF v = u THEN Cost(bag) ELSE 0)]

Next == \E u \in User :
    \/ \E n \in Amount \cup {CodeValue} : Deposit(u, n)
    \/ \E n \in Amount : Withdraw(u, n)
    \/ Purchase(u)

Spec == Init /\ [][Next]_vars
=============================================================================
