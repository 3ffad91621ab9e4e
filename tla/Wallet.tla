------------------------------- MODULE Wallet -------------------------------
(***************************************************************************)
(* The money of the store: top-up, withdrawal and promo code activation    *)
(* (services/finance_service.py, repo/finance_repo.py) and checkout        *)
(* (PurchaseService.purchase_apps_in_cart), every request cut at the       *)
(* awaits where the event loop may run another request.                    *)
(*                                                                         *)
(* cart[u][a] counts the cart_items rows of user u for app a; two rows for *)
(* one app are possible, see module Cart.  Carts are filled in module      *)
(* Cart; here they are what the users hold when the requests arrive.       *)
(***************************************************************************)
EXTENDS Integers, FiniteSets

CONSTANTS User, App, Request,
          Code,            \* promo codes issued by the daily task
          Price,           \* Price[a] >= 0 (base_models/app.py)
          Publisher,       \* Publisher[a]: who published app a
          Amount,          \* amounts of transfers, > 0 (base_models/transfer.py)
          CodeValue,       \* what a promo code is worth (db_tasks.py: 500)
          InitialBalance,
          InitialCart,
          MayFail          \* can a database or Redis call raise

Row == User \cup App

ASSUME WalletAssumption ==
    /\ User \cap App = {}
    /\ Price \in [App -> Nat]
    /\ Publisher \in [App -> User]
    /\ Amount \subseteq Nat \ {0}
    /\ CodeValue \in Nat \ {0}
    /\ InitialBalance \in [User -> Nat]
    /\ InitialCart \in [User -> [App -> Nat]]
    /\ MayFail \in BOOLEAN

VARIABLES db, loaded, base, delta, stale, ledger, raced,   \* UnitOfWork
          pc,         \* pc[r]: the await request r stands at
          user,       \* user[r]: who sent r
          code,       \* code[r]: the promo code r activates
          todo,       \* todo[r]: cart items not yet looked at
          bought,     \* bought[r]: purchased_apps, as copies per app
          total,      \* total[r]: actual_total_price
          earned,     \* earned[r]: publisher_earnings
          unpaid,     \* unpaid[r]: publishers not yet loaded and credited
          cart,       \* carts and cart_items
          purchases,  \* purchases[u][a]: rows in purchases
          codes,      \* promo_codes:* keys in Redis
          expired,    \* codes whose 24 hours ran out (history)
          credited,   \* credited[c]: committed activations of c (history)
          inflow      \* net money committed transfers and codes brought in (history)

session == <<db, loaded, base, delta, stale, ledger, raced>>
checkoutVars == <<todo, bought, total, earned, unpaid>>
storeVars == <<cart, purchases>>
codeVars == <<codes, expired, credited>>
vars == <<session, pc, user, code, checkoutVars, storeVars, codeVars, inflow>>

UoW == INSTANCE UnitOfWork

None == [a \in App |-> 0]
NoEarnings == [u \in User |-> 0]
Plus(u, n) == [x \in Row |-> IF x = u THEN n ELSE 0]

\* Initially balances are what earlier requests left; nobody has bought anything.
Init ==
    /\ db = [x \in Row |-> IF x \in User THEN InitialBalance[x] ELSE 0]
    /\ ledger = db
    /\ loaded = [r \in Request |-> {}]
    /\ base = [r \in Request |-> UoW!Zero]
    /\ delta = [r \in Request |-> UoW!Zero]
    /\ stale = [r \in Request |-> {}]
    /\ raced = {}
    /\ pc = [r \in Request |-> "new"]
    /\ user \in [Request -> User]
    /\ code \in [Request -> Code]
    /\ todo = [r \in Request |-> None]
    /\ bought = [r \in Request |-> None]
    /\ total = [r \in Request |-> 0]
    /\ earned = [r \in Request |-> NoEarnings]
    /\ unpaid = [r \in Request |-> {}]
    /\ cart = InitialCart
    /\ purchases = [u \in User |-> None]
    /\ codes = Code
    /\ expired = {}
    /\ credited = [c \in Code |-> 0]
    /\ inflow = 0

Goto(r, from, to) == pc[r] = from /\ pc' = [pc EXCEPT ![r] = to]

\* The locals of a request that has been answered are gone.
ForgetCheckout(r) ==
    /\ todo' = [todo EXCEPT ![r] = None]
    /\ bought' = [bought EXCEPT ![r] = None]
    /\ total' = [total EXCEPT ![r] = 0]
    /\ earned' = [earned EXCEPT ![r] = NoEarnings]
    /\ unpaid' = [unpaid EXCEPT ![r] = {}]

\* r leaves its `async with self.uow` block without committing.
Leave(r, from, to) ==
    /\ Goto(r, from, to)
    /\ UoW!Rollback(r)
    /\ ForgetCheckout(r)
    /\ UNCHANGED <<user, code, storeVars, codeVars, inflow>>

Reject(r, from) == Leave(r, from, "done")

\* Answered; "code_lost" is "done" for an activation that failed after its DEL.
Final == {"done", "code_lost"}

-----------------------------------------------------------------------------
(* Transfers *)

CreateTransferToBalance(r, n) ==
    /\ Goto(r, "new", "commit_transfer")
    /\ UoW!Touch(r, {user[r]}, Plus(user[r], n))
    /\ UNCHANGED <<user, code, checkoutVars, storeVars, codeVars, inflow>>

\* Mutant: the withdrawal without its balance check.
CreateTransferToCardUnchecked(r, n) ==
    /\ Goto(r, "new", "commit_transfer")
    /\ UoW!Touch(r, {user[r]}, Plus(user[r], -n))
    /\ UNCHANGED <<user, code, checkoutVars, storeVars, codeVars, inflow>>

\* The balance is compared with the amount as it was read.
CreateTransferToCard(r, n) ==
    /\ db[user[r]] >= n
    /\ Goto(r, "new", "commit_transfer")
    /\ UoW!Touch(r, {user[r]}, Plus(user[r], -n))
    /\ UNCHANGED <<user, code, checkoutVars, storeVars, codeVars, inflow>>

RefuseTransferToCard(r) ==
    /\ \E n \in Amount : db[user[r]] < n
    /\ Reject(r, "new")

CommitTransfer(r) ==
    /\ Goto(r, "commit_transfer", "done")
    /\ UoW!Commit(r)
    /\ inflow' = inflow + delta[r][user[r]]
    /\ UNCHANGED <<user, code, checkoutVars, storeVars, codeVars>>

-----------------------------------------------------------------------------
(* Promo codes *)

GetPromoCode(r) ==
    /\ code[r] \in codes
    /\ Goto(r, "new", "code_user")
    /\ UNCHANGED <<session, user, code, checkoutVars, storeVars, codeVars, inflow>>

RefusePromoCode(r) ==
    /\ code[r] \notin codes
    /\ Reject(r, "new")

AddPromoAmount(r) ==
    /\ Goto(r, "code_user", "code_delete")
    /\ UoW!Touch(r, {user[r]}, Plus(user[r], CodeValue))
    /\ UNCHANGED <<user, code, checkoutVars, storeVars, codeVars, inflow>>

\* The key goes before the balance is committed, and whether DEL removed
\* anything is not looked at.
DeletePromoCode(r) ==
    /\ Goto(r, "code_delete", "commit_code")
    /\ codes' = codes \ {code[r]}
    /\ UNCHANGED <<session, user, code, checkoutVars, storeVars,
                   expired, credited, inflow>>

\* Mutant: the block ends without the commit.
CommitPromoCodeForgotten(r) == Reject(r, "commit_code")

CommitPromoCode(r) ==
    /\ Goto(r, "commit_code", "done")
    /\ UoW!Commit(r)
    /\ credited' = [credited EXCEPT ![code[r]] = @ + 1]
    /\ inflow' = inflow + CodeValue
    /\ UNCHANGED <<user, code, checkoutVars, storeVars, codes, expired>>

\* Redis drops the key 24 hours after the task set it.
ExpirePromoCode(c) ==
    /\ c \in codes
    /\ codes' = codes \ {c}
    /\ expired' = expired \cup {c}
    /\ UNCHANGED <<session, pc, user, code, checkoutVars, storeVars,
                   credited, inflow>>

-----------------------------------------------------------------------------
(* Checkout *)

\* get_user_by_id also loads the apps, the cart and the reviews of the user; the
\* request changes none of them except through the rows ReadCart selects: nobody
\* can put an app of his own into the cart, and owned ones are passed over.
StartCheckout(r) ==
    /\ Goto(r, "new", "read_cart")
    /\ UoW!Touch(r, {user[r]}, UoW!Zero)
    /\ UNCHANGED <<user, code, checkoutVars, storeVars, codeVars, inflow>>

\* Selects the cart, its items and (selectinload) the apps of the items.
ReadCart(r) ==
    LET items == cart[user[r]] IN
    /\ items # None
    /\ Goto(r, "read_cart", "check_items")
    /\ UoW!Touch(r, {a \in App : items[a] > 0}, UoW!Zero)
    /\ todo' = [todo EXCEPT ![r] = items]
    /\ UNCHANGED <<user, code, bought, total, earned, unpaid,
                   storeVars, codeVars, inflow>>

RefuseEmptyCart(r) ==
    /\ cart[user[r]] = None
    /\ Reject(r, "read_cart")

\* An app the user already owns is passed over.
SkipPurchased(r, a) ==
    /\ pc[r] = "check_items" /\ todo[r][a] > 0
    /\ purchases[user[r]][a] > 0
    /\ todo' = [todo EXCEPT ![r][a] = @ - 1]
    /\ UNCHANGED <<session, pc, user, code, bought, total, earned, unpaid,
                   storeVars, codeVars, inflow>>

\* Mutant: `=` for `+=` on the earnings of a publisher.
PickItemOverwriting(r, a) ==
    /\ pc[r] = "check_items" /\ todo[r][a] > 0
    /\ purchases[user[r]][a] = 0
    /\ todo' = [todo EXCEPT ![r][a] = @ - 1]
    /\ bought' = [bought EXCEPT ![r][a] = @ + 1]
    /\ total' = [total EXCEPT ![r] = @ + Price[a]]
    /\ earned' = [earned EXCEPT ![r][Publisher[a]] = Price[a]]
    /\ UNCHANGED <<session, pc, user, code, unpaid, storeVars, codeVars, inflow>>

\* The purchases of this very checkout are not flushed yet, so the select does
\* not see them: a second row of the same app is bought again.
PickItem(r, a) ==
    /\ pc[r] = "check_items" /\ todo[r][a] > 0
    /\ purchases[user[r]][a] = 0
    /\ todo' = [todo EXCEPT ![r][a] = @ - 1]
    /\ bought' = [bought EXCEPT ![r][a] = @ + 1]
    /\ total' = [total EXCEPT ![r] = @ + Price[a]]
    /\ earned' = [earned EXCEPT ![r][Publisher[a]] = @ + Price[a]]
    /\ UNCHANGED <<session, pc, user, code, unpaid, storeVars, codeVars, inflow>>

\* Nothing left to buy: the cart is deleted in the session and [] is returned,
\* but the block ends without a commit.
ReturnNothing(r) ==
    /\ todo[r] = None /\ bought[r] = None
    /\ Reject(r, "check_items")

RefuseInsufficientFunds(r) ==
    /\ todo[r] = None /\ bought[r] # None
    /\ base[r][user[r]] < total[r]
    /\ Reject(r, "check_items")

\* What the mutants of Charge share: d is the change of the loaded rows.
ChargeBy(r, d) ==
    /\ todo[r] = None /\ bought[r] # None
    /\ Goto(r, "check_items", "pay_publishers")
    /\ UoW!Touch(r, {}, d)
    /\ unpaid' = [unpaid EXCEPT ![r] = {Publisher[a] : a \in {b \in App : bought[r][b] > 0}}]
    /\ UNCHANGED <<user, code, todo, bought, total, earned,
                   storeVars, codeVars, inflow>>

\* Mutants: no funds check; times_purchased left alone; raised once per app
\* instead of once per item.
ChargeUnchecked(r) ==
    ChargeBy(r, [x \in Row |-> IF x = user[r] THEN -total[r]
                               ELSE IF x \in App THEN bought[r][x] ELSE 0])
ChargeUncounted(r) ==
    /\ base[r][user[r]] >= total[r]
    /\ ChargeBy(r, Plus(user[r], -total[r]))
ChargeCountedPerApp(r) ==
    /\ base[r][user[r]] >= total[r]
    /\ ChargeBy(r, [x \in Row |->
         IF x = user[r] THEN -total[r]
         ELSE IF x \in App /\ bought[r][x] > 0 THEN 1 ELSE 0])

\* The buyer is charged and times_purchased raised, all in memory.
Charge(r) ==
    /\ todo[r] = None /\ bought[r] # None
    /\ base[r][user[r]] >= total[r]
    /\ Goto(r, "check_items", "pay_publishers")
    /\ UoW!Touch(r, {}, [x \in Row |-> IF x = user[r] THEN -total[r]
                                       ELSE IF x \in App THEN bought[r][x] ELSE 0])
    /\ unpaid' = [unpaid EXCEPT ![r] = {Publisher[a] : a \in {b \in App : bought[r][b] > 0}}]
    /\ UNCHANGED <<user, code, todo, bought, total, earned,
                   storeVars, codeVars, inflow>>

\* for_update=True is passed and ignored: an ordinary select.
PayPublisher(r, p) ==
    /\ pc[r] = "pay_publishers" /\ p \in unpaid[r]
    /\ UoW!Touch(r, {p}, Plus(p, earned[r][p]))
    /\ unpaid' = [unpaid EXCEPT ![r] = @ \ {p}]
    /\ UNCHANGED <<pc, user, code, todo, bought, total, earned,
                   storeVars, codeVars, inflow>>

\* The purchase rows and the deletion of the cart, which cascades to every
\* item it has by now.  The Redis key deleted before it holds nothing (Cart).
CommitCheckout(r) ==
    /\ unpaid[r] = {}
    /\ Goto(r, "pay_publishers", "done")
    /\ UoW!Commit(r)
    /\ purchases' = [purchases EXCEPT ![user[r]] =
                        [a \in App |-> @[a] + bought[r][a]]]
    /\ cart' = [cart EXCEPT ![user[r]] = None]
    /\ ForgetCheckout(r)
    /\ UNCHANGED <<user, code, codeVars, inflow>>

-----------------------------------------------------------------------------
\* A database or Redis call of r raises (connection lost, request cancelled,
\* process stopped): __aexit__ rolls back, what was done in Redis stays.
Fail(r) ==
    /\ MayFail
    /\ pc[r] \notin {"new"} \cup Final
    /\ Leave(r, pc[r], IF pc[r] = "commit_code" THEN "code_lost" ELSE "done")

Step(r) ==
    \/ \E n \in Amount : CreateTransferToBalance(r, n) \/ CreateTransferToCard(r, n)
    \/ RefuseTransferToCard(r)
    \/ CommitTransfer(r)
    \/ GetPromoCode(r) \/ RefusePromoCode(r) \/ AddPromoAmount(r)
    \/ DeletePromoCode(r) \/ CommitPromoCode(r)
    \/ StartCheckout(r) \/ ReadCart(r) \/ RefuseEmptyCart(r)
    \/ \E a \in App : SkipPurchased(r, a) \/ PickItem(r, a)
    \/ ReturnNothing(r) \/ RefuseInsufficientFunds(r) \/ Charge(r)
    \/ \E p \in User : PayPublisher(r, p)
    \/ CommitCheckout(r)
    \/ Fail(r)

\* Every request has been answered.
Quiet == (\A r \in Request : pc[r] \in Final) /\ UNCHANGED vars

Next ==
    \/ \E r \in Request : Step(r)
    \/ \E c \in Code : ExpirePromoCode(c)
    \/ Quiet

Spec == Init /\ [][Next]_vars

-----------------------------------------------------------------------------
Stage == {"new", "commit_transfer", "code_user", "code_delete", "commit_code",
          "read_cart", "check_items", "pay_publishers"} \cup Final

TypeOK ==
    /\ UoW!TypeOK
    /\ pc \in [Request -> Stage]
    /\ user \in [Request -> User]
    /\ code \in [Request -> Code]
    /\ todo \in [Request -> [App -> Nat]]
    /\ bought \in [Request -> [App -> Nat]]
    /\ total \in [Request -> Nat]
    /\ earned \in [Request -> [User -> Nat]]
    /\ unpaid \in [Request -> SUBSET User]
    /\ cart \in [User -> [App -> Nat]]
    /\ purchases \in [User -> [App -> Nat]]
    /\ codes \subseteq Code
    /\ expired \subseteq Code
    /\ credited \in [Code -> Nat]
    /\ inflow \in Int

\* Neither a committed balance nor one an open request would write is negative:
\* the CHECK balance_not_negative of the users table is never what stops an
\* overdraft, whatever the interleaving.
NonNegative ==
    /\ \A u \in User : db[u] >= 0
    /\ \A r \in Request, u \in User : base[r][u] + delta[r][u] >= 0

\* Balances and sale counters differ from the transfers, codes and sales
\* committed only where a commit wrote a stale value.
LedgerAgrees == UoW!LedgerAgrees

\* A user never comes to own more copies of an app than the cart held, unless
\* two checkouts wrote the same app row from overlapping reads.
DuplicateOnlyByRace ==
    \A u \in User, a \in App :
        purchases[u][a] > InitialCart[u][a] => a \in raced

\* A promo code that is gone, did not run out and is not being activated was
\* credited to somebody, unless an activation failed between DEL and the commit.
CodeLostOnlyByFailure ==
    \A c \in Code \ (codes \cup expired) :
        \/ credited[c] > 0
        \/ \E r \in Request : code[r] = c /\ pc[r] \in {"commit_code", "code_lost"}

\* A promo code is worth its amount once: activate_promo_code removes it.
CodeCreditedOnce == \A c \in Code : credited[c] <= 1
=============================================================================
