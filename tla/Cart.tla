-------------------------------- MODULE Cart --------------------------------
(***************************************************************************)
(* The cart of one user (services/purchase_service.py): its carts and      *)
(* cart_items rows, the apps the user owns, and the copy of the cart kept  *)
(* in Redis.  Carts of different users share nothing, so one is enough;    *)
(* what matters are the concurrent requests of its owner (two tabs, a      *)
(* double click), cut at their awaits.  Money is in module Wallet: here a  *)
(* checkout may find the funds insufficient at any time.                   *)
(*                                                                         *)
(* missed, filler, excused and late are history variables.                 *)
(***************************************************************************)
EXTENDS Naturals, FiniteSets

CONSTANTS App,
          Request,   \* every request the user ever sends
          Buyable,   \* apps with an archive, published by somebody else
          Seed,      \* id of the rows that exist initially
          NoCart, Miss

ASSUME CartAssumption ==
    /\ Buyable \subseteq App
    /\ Seed \notin Request
    /\ NoCart \notin Request \cup {Seed}

\* A row is named after the request that inserted it: every one inserts at
\* most one cart and one item, with a fresh uuid each.
Id == Request \cup {Seed}
Item == [app : App, row : Id]
View == [cart : Id, items : SUBSET Item]      \* a CartResponse

ASSUME Miss \notin View

VARIABLES cart,     \* id of the user's row in carts
          items,    \* the cart_items rows of that cart
          owned,    \* apps with a row in purchases
          cache,    \* Redis: users:{user_id}:cart
          pc,       \* pc[r]: the await request r stands at
          app,      \* app[r]: the app named in r
          seen,     \* seen[r]: id of the cart r read or created
          held,     \* held[r]: the items r holds
          todo,     \* todo[r]: items of a checkout not yet looked at
          missed,   \* missed[r]: who wrote cart, items or cache while r was open
          filler,   \* who wrote the cached copy
          excused,  \* why the cached copy may be wrong, see Cached and Rewritten
          late      \* some checkout committed when its cart was gone

shared == <<cart, items, owned, cache>>
locals == <<app, seen, held, todo>>
history == <<missed, filler, excused, late>>
vars == <<shared, pc, locals, history>>

Now == [cart |-> cart, items |-> items]

Init ==
    /\ cart \in {NoCart, Seed}
    /\ items \in SUBSET [app : Buyable, row : {Seed}]
    /\ cart = NoCart => items = {}
    /\ owned \in SUBSET Buyable
    /\ \A i \in items : i.app \notin owned
    /\ cache \in {Miss} \cup (IF cart = Seed THEN {Now} ELSE {})
    /\ pc = [r \in Request |-> "new"]
    /\ app \in [Request -> App]
    /\ seen = [r \in Request |-> NoCart]
    /\ held = [r \in Request |-> {}]
    /\ todo = [r \in Request |-> {}]
    /\ missed = [r \in Id |-> {}]
    /\ filler = Seed
    /\ excused = FALSE
    /\ late = FALSE

Goto(r, from, to) == pc[r] = from /\ pc' = [pc EXCEPT ![r] = to]

\* r is answered; what its session and its locals held is gone.
Answer(r, from) ==
    /\ Goto(r, from, "done")
    /\ seen' = [seen EXCEPT ![r] = NoCart]
    /\ held' = [held EXCEPT ![r] = {}]
    /\ todo' = [todo EXCEPT ![r] = {}]
    /\ UNCHANGED app

\* r leaves without having committed.
Reject(r, from) == Answer(r, from) /\ UNCHANGED <<shared, history>>

\* r has written something the others may have read already.
Overtakes(r) ==
    missed' = [q \in Id |->
                 IF q \in Request \ {r} /\ pc[q] \notin {"new", "done"}
                 THEN missed[q] \cup {r} ELSE missed[q]]

\* r commits a change of the cart.  The cached copy is wrong from here on if
\* somebody put it back after r dropped it.
Rewritten(r) ==
    /\ Overtakes(r)
    /\ excused' = (excused \/ (cache # Miss /\ filler \in missed[r]))
    /\ UNCHANGED <<cache, filler>>

\* DEL of the cached copy.
DropKey(r, from, to) ==
    /\ Goto(r, from, to)
    /\ cache' = Miss
    /\ excused' = FALSE
    /\ UNCHANGED <<cart, items, owned, locals, missed, filler, late>>

\* The session selects the cart with its items.
ReadCart(r, from, to) ==
    /\ cart # NoCart
    /\ Goto(r, from, to)
    /\ seen' = [seen EXCEPT ![r] = cart]
    /\ held' = [held EXCEPT ![r] = items]
    /\ UNCHANGED <<shared, app, todo, history>>

\* Mutant: the cart is created without looking.
FindAnyCart(r, from, to) ==
    /\ Goto(r, from, to)
    /\ UNCHANGED <<shared, locals, history>>

\* No cart yet: the row is created in a transaction of its own ...
FindNoCart(r, from, to) ==
    /\ cart = NoCart
    /\ Goto(r, from, to)
    /\ UNCHANGED <<shared, locals, history>>

CreateCart(r, from, to) ==
    /\ cart = NoCart
    /\ Goto(r, from, to)
    /\ cart' = r
    /\ seen' = [seen EXCEPT ![r] = r]
    /\ Rewritten(r)
    /\ UNCHANGED <<items, owned, app, held, todo, late>>

\* ... unless another request was faster: carts.user_id is unique.
CreateCartConflict(r, from) == cart # NoCart /\ Reject(r, from)

-----------------------------------------------------------------------------
(* get_cart_for_user *)

GetCached(r) == cache # Miss /\ Reject(r, "new")

GetMissed(r) ==
    /\ cache = Miss
    /\ Goto(r, "new", "get_read")
    /\ UNCHANGED <<shared, locals, history>>

GetReadCart(r) ==
    \/ ReadCart(r, "get_read", "get_set")
    \/ FindNoCart(r, "get_read", "get_create")

GetCreateCart(r) ==
    \/ CreateCart(r, "get_create", "get_set")
    \/ CreateCartConflict(r, "get_create")

\* What is cached is what was read, however much has happened since.
GetSetKey(r) ==
    /\ Answer(r, "get_set")
    /\ cache' = [cart |-> seen[r], items |-> held[r]]
    /\ filler' = r
    /\ excused' = (missed[r] # {})
    /\ Overtakes(r)
    /\ UNCHANGED <<cart, items, owned, late>>

\* The hour of CACHE_TTL_SECONDS is over.
ExpireKey ==
    /\ cache # Miss
    /\ cache' = Miss
    /\ excused' = FALSE
    /\ UNCHANGED <<cart, items, owned, pc, locals, missed, filler, late>>

-----------------------------------------------------------------------------
(* add_app_to_cart *)

AddReadCart(r) ==
    \/ ReadCart(r, "new", "add_purchased")
    \/ FindNoCart(r, "new", "add_create")

AddCreateCart(r) ==
    \/ CreateCart(r, "add_create", "add_purchased")
    \/ CreateCartConflict(r, "add_create")

\* A purchase is refused only after the next select, which changes nothing.
AddCheckPurchased(r) ==
    \/ /\ app[r] \notin owned
       /\ Goto(r, "add_purchased", "add_item")
       /\ UNCHANGED <<shared, locals, history>>
    \/ app[r] \in owned /\ Reject(r, "add_purchased")

\* Rows for app a in the cart r has seen.
RowsOf(r) == {i \in items : cart = seen[r] /\ i.app = app[r]}

\* Mutant: the lookup of the item is forgotten.
AddCheckItemNever(r) ==
    /\ app[r] \in Buyable
    /\ Goto(r, "add_item", "add_key")
    /\ UNCHANGED <<shared, locals, history>>

AddCheckItem(r) ==
    LET free == RowsOf(r) = {} /\ app[r] \in Buyable IN
    \/ /\ free
       /\ Goto(r, "add_item", "add_key")
       /\ UNCHANGED <<shared, locals, history>>
    \/ ~free /\ Reject(r, "add_item")

AddDropKey(r) == DropKey(r, "add_key", "add_commit")

\* cart_items.cart_id references carts: the insert fails if the cart is gone.
AddCommit(r) ==
    \/ /\ cart = seen[r]
       /\ Answer(r, "add_commit")
       /\ items' = items \cup {[app |-> app[r], row |-> r]}
       /\ Rewritten(r)
       /\ UNCHANGED <<cart, owned, late>>
    \/ cart # seen[r] /\ Reject(r, "add_commit")

-----------------------------------------------------------------------------
(* remove_item_from_cart *)

\* Without a cart `user_cart.id` raises AttributeError.
RemoveReadCart(r) ==
    \/ ReadCart(r, "new", "remove_item")
    \/ cart = NoCart /\ Reject(r, "new")

\* first() of an unordered select: any of the rows.
RemoveFindItem(r) ==
    \/ \E i \in RowsOf(r) :
         /\ Goto(r, "remove_item", "remove_key")
         /\ held' = [held EXCEPT ![r] = {i}]
         /\ UNCHANGED <<shared, app, seen, todo, history>>
    \/ RowsOf(r) = {} /\ Reject(r, "remove_item")

\* Mutant: the cached copy is not dropped.
RemoveKeepKey(r) ==
    /\ Goto(r, "remove_key", "remove_commit")
    /\ UNCHANGED <<shared, locals, history>>

RemoveDropKey(r) == DropKey(r, "remove_key", "remove_commit")

\* Mutant: every row of the cart goes.
RemoveCommitAll(r) ==
    /\ Answer(r, "remove_commit")
    /\ items' = {}
    /\ Rewritten(r)
    /\ UNCHANGED <<cart, owned, late>>

\* Deleting a row that is gone already is a warning, not an error.
RemoveCommit(r) ==
    /\ Answer(r, "remove_commit")
    /\ items' = items \ held[r]
    /\ Rewritten(r)
    /\ UNCHANGED <<cart, owned, late>>

-----------------------------------------------------------------------------
(* delete_cart_by_user *)

ClearReadCart(r) ==
    \/ ReadCart(r, "new", "clear_key")
    \/ cart = NoCart /\ Reject(r, "new")

ClearDropKey(r) == DropKey(r, "clear_key", "clear_commit")

\* The cart r read goes, and by cascade every item it has by now.
DeleteSeenCart(r) ==
    IF cart = seen[r] THEN cart' = NoCart /\ items' = {}
                      ELSE UNCHANGED <<cart, items>>

ClearCommit(r) ==
    /\ Answer(r, "clear_commit")
    /\ DeleteSeenCart(r)
    /\ Rewritten(r)
    /\ UNCHANGED <<owned, late>>

-----------------------------------------------------------------------------
(* purchase_apps_in_cart *)

CheckoutReadCart(r) ==
    \/ /\ cart # NoCart /\ items # {}
       /\ Goto(r, "new", "checkout_items")
       /\ seen' = [seen EXCEPT ![r] = cart]
       /\ todo' = [todo EXCEPT ![r] = items]
       /\ UNCHANGED <<shared, app, held, history>>
    \/ (cart = NoCart \/ items = {}) /\ Reject(r, "new")

\* Items of apps owned by now are passed over, the others will be bought.
CheckoutItem(r, i) ==
    /\ pc[r] = "checkout_items" /\ i \in todo[r]
    /\ todo' = [todo EXCEPT ![r] = @ \ {i}]
    /\ held' = [held EXCEPT ![r] = IF i.app \in owned THEN @ ELSE @ \cup {i}]
    /\ UNCHANGED <<shared, pc, app, seen, history>>

\* [] is returned without a commit: the deleted cart stays.
CheckoutNothing(r) ==
    /\ todo[r] = {} /\ held[r] = {}
    /\ Reject(r, "checkout_items")

CheckoutUnaffordable(r) ==
    /\ todo[r] = {} /\ held[r] # {}
    /\ Reject(r, "checkout_items")

\* Mutant: the cart survives the purchase.
CheckoutCommitKeepsCart(r) ==
    /\ todo[r] = {} /\ held[r] # {}
    /\ Answer(r, "checkout_items")
    /\ owned' = owned \cup {i.app : i \in held[r]}
    /\ late' = (late \/ cart # seen[r])
    /\ Overtakes(r)
    /\ excused' = (excused \/ cache # Miss)
    /\ UNCHANGED <<cart, items, cache, filler>>

\* The purchases and the deletion of the cart.  The key dropped before it is
\* cart_cache:{user.id}, which nobody sets: the cached copy stays.
CheckoutCommit(r) ==
    /\ todo[r] = {} /\ held[r] # {}
    /\ Answer(r, "checkout_items")
    /\ owned' = owned \cup {i.app : i \in held[r]}
    /\ DeleteSeenCart(r)
    /\ late' = (late \/ cart # seen[r])
    /\ Overtakes(r)
    /\ excused' = (excused \/ cache # Miss)
    /\ UNCHANGED <<cache, filler>>

-----------------------------------------------------------------------------
\* A database or Redis call of r raises: rollback, what was done in Redis stays.
Fail(r) == pc[r] \notin {"new", "done"} /\ Reject(r, pc[r])

Step(r) ==
    \/ GetCached(r) \/ GetMissed(r) \/ GetReadCart(r) \/ GetCreateCart(r)
    \/ GetSetKey(r)
    \/ AddReadCart(r) \/ AddCreateCart(r) \/ AddCheckPurchased(r)
    \/ AddCheckItem(r) \/ AddDropKey(r) \/ AddCommit(r)
    \/ RemoveReadCart(r) \/ RemoveFindItem(r) \/ RemoveDropKey(r)
    \/ RemoveCommit(r)
    \/ ClearReadCart(r) \/ ClearDropKey(r) \/ ClearCommit(r)
    \/ CheckoutReadCart(r)
    \/ \E i \in todo[r] : CheckoutItem(r, i)
    \/ CheckoutNothing(r) \/ CheckoutUnaffordable(r) \/ CheckoutCommit(r)
    \/ Fail(r)

\* Every request has been answered.
Quiet == (\A r \in Request : pc[r] = "done") /\ UNCHANGED vars

Next == (\E r \in Request : Step(r)) \/ ExpireKey \/ Quiet

Spec == Init /\ [][Next]_vars

-----------------------------------------------------------------------------
Stage == {"new", "get_read", "get_create", "get_set",
          "add_create", "add_purchased", "add_item", "add_key", "add_commit",
          "remove_item", "remove_key", "remove_commit",
          "clear_key", "clear_commit", "checkout_items", "done"}

TypeOK ==
    /\ cart \in Id \cup {NoCart}
    /\ items \subseteq Item /\ (cart = NoCart => items = {})
    /\ owned \subseteq App
    /\ cache \in {Miss} \cup View
    /\ pc \in [Request -> Stage]
    /\ app \in [Request -> App]
    /\ seen \in [Request -> Id \cup {NoCart}]
    /\ held \in [Request -> SUBSET Item]
    /\ todo \in [Request -> SUBSET Item]
    /\ missed \in [Id -> SUBSET Request]
    /\ filler \in Id
    /\ excused \in BOOLEAN /\ late \in BOOLEAN

\* Two rows for one app are in the cart only if the request that added one was
\* open while the other was added: add_app_to_cart refuses an app that is there,
\* and nothing but its select does.
DuplicateOnlyByOverlap ==
    \A i, j \in items :
        i # j /\ i.app = j.app =>
            i.row \in missed[j.row] \/ j.row \in missed[i.row]

\* The cached copy is the cart, unless it was filled from a read another request
\* overtook, put back between the DEL and the commit of a change, or survived a
\* checkout: each change of the cart drops the copy before it commits.
CacheTrueUnlessExcused == cache \in {Miss, Now} \/ excused

\* An app the user owns lies in the cart only after a checkout that committed
\* when the cart it had read was already gone: the purchase and the deletion of
\* the cart are one transaction, and the foreign key stops late additions.
OwnedNotInCart == (\E i \in items : i.app \in owned) => late

\* The database refuses an insert (a second cart, an item of a cart that is gone)
\* only to a request that another one overtook.
RefusedInsertOnlyByOverlap ==
    \A r \in Request :
        /\ pc[r] = "add_create" /\ cart # NoCart => missed[r] # {}
        /\ pc[r] = "get_create" /\ cart # NoCart => missed[r] # {}
        /\ pc[r] = "add_commit" /\ cart # seen[r] => missed[r] # {}

\* An item leaves the cart by a request that read it or was open when it came,
\* or it is of an app the user owns, which a checkout passes over.
NoItemVanishes ==
    [][\A i \in items \ items' : \E r \in Request :
          /\ pc[r] # "done" /\ pc'[r] = "done"
          /\ i \in held[r] \/ i.row \in missed[r] \/ i.app \in owned]_vars
=============================================================================
