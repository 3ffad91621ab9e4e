----------------------------- MODULE CartProofs -----------------------------
(***************************************************************************)
(* Theorems about Cart, for every set of apps and requests.                *)
(***************************************************************************)
EXTENDS Cart, TLAPS

\* Requests that may still insert a cart: no row is named after them yet.
Early == {"new", "get_read", "get_create", "add_create"}

Fresh ==
    \A q \in Request : pc[q] \in Early =>
        cart # q /\ \A p \in Request : seen[p] # q

EmptyHanded == \A q \in Request : pc[q] \in Early => held[q] = {}

\* A fill, and an addition past its first select, know a cart ...
Anchored ==
    \A q \in Request :
        pc[q] \in {"get_set", "add_purchased", "add_item", "add_key", "add_commit"} =>
            seen[q] # NoCart

\* ... and if the cart of an addition is still there, the app has not been bought meanwhile.
Unowned ==
    \A q \in Request :
        pc[q] \in {"add_item", "add_key", "add_commit"} /\ seen[q] = cart =>
            late \/ app[q] \notin owned

\* A fill nobody overtook holds the cart.
Filling ==
    \A q \in Request : pc[q] = "get_set" /\ missed[q] = {} =>
        cart = seen[q] /\ items = held[q]

\* A copy found after one's own DEL was put there in the meantime.
Changing ==
    \A q \in Request :
        pc[q] \in {"add_commit", "remove_commit", "clear_commit"} /\ cache # Miss =>
            filler \in missed[q]

\* Likewise a copy found when the cart is created: without a cart a copy is
\* wrong, and excused, already.
Creating ==
    \A q \in Request :
        pc[q] \in {"get_create", "add_create"} /\ cache # Miss =>
            excused \/ filler \in missed[q]

IInv ==
    /\ TypeOK
    /\ Fresh /\ EmptyHanded /\ Anchored /\ Unowned /\ OwnedNotInCart
    /\ Filling /\ Changing /\ Creating /\ CacheTrueUnlessExcused

LEMMA InitInv == Init => IInv
<1> SUFFICES ASSUME Init PROVE IInv
  OBVIOUS
<1> USE CartAssumption
<1>1. items \subseteq Item /\ owned \subseteq App
  BY DEF Init, Item, Id
<1>2. cache \in {Miss} \cup View
  BY <1>1 DEF Init, Now, View, Id
<1>3. TypeOK
  BY <1>1, <1>2 DEF Init, TypeOK, Id, Stage
<1>4. Fresh /\ EmptyHanded /\ Anchored /\ Unowned /\ Filling /\ Changing /\ Creating
  BY DEF Init, Fresh, EmptyHanded, Anchored, Unowned, Filling, Changing, Creating
<1>5. OwnedNotInCart /\ CacheTrueUnlessExcused
  BY DEF Init, OwnedNotInCart, CacheTrueUnlessExcused
<1> QED
  BY <1>3, <1>4, <1>5 DEF IInv

-----------------------------------------------------------------------------
(* One lemma for each kind of step the operations are made of. *)

\* A step that only moves r on, and changes what it holds.
LEMMA MoveInv ==
    ASSUME IInv, NEW r \in Request, NEW to \in Stage,
           pc' = [pc EXCEPT ![r] = to],
           to \in Early => pc[r] \in Early /\ held'[r] = held[r],
           seen' \in [Request -> Id \cup {NoCart}],
           \A q \in Request \ {r} : seen'[q] = seen[q] /\ held'[q] = held[q],
           seen'[r] \in {seen[r], cart, NoCart},
           held' \in [Request -> SUBSET Item],
           todo' \in [Request -> SUBSET Item],
           UNCHANGED <<shared, app, history>>,
           to \in {"get_set", "add_purchased", "add_item", "add_key", "add_commit"}
               => seen'[r] # NoCart,
           to \in {"add_item", "add_key", "add_commit"} /\ seen'[r] = cart =>
               late \/ app[r] \notin owned,
           to = "get_set" => seen'[r] = cart /\ held'[r] = items,
           to \in {"add_commit", "remove_commit", "clear_commit"} => cache = Miss,
           to \in {"get_create", "add_create"} => cart = NoCart
    PROVE  IInv'
<1> USE CartAssumption DEF shared, history
<1>1. TypeOK'
  BY DEF IInv, TypeOK
<1>2. Fresh' /\ EmptyHanded'
  BY DEF IInv, TypeOK, Fresh, EmptyHanded
<1>3. Anchored' /\ Unowned' /\ OwnedNotInCart'
  BY DEF IInv, TypeOK, Anchored, Unowned, OwnedNotInCart
<1>4. Filling' /\ Changing'
  BY DEF IInv, TypeOK, Filling, Changing
<1>5. cart = NoCart /\ cache # Miss => excused
  BY DEF IInv, TypeOK, CacheTrueUnlessExcused, View, Id, Now
<1>6. Creating' /\ CacheTrueUnlessExcused'
  BY <1>5 DEF IInv, TypeOK, Creating, CacheTrueUnlessExcused, Now
<1> QED
  BY <1>1, <1>2, <1>3, <1>4, <1>6 DEF IInv

\* r is answered without having written anything.
LEMMA RejectInv ==
    ASSUME IInv, NEW r \in Request, NEW from \in Stage, Reject(r, from)
    PROVE  IInv'
<1>1. /\ pc' = [pc EXCEPT ![r] = "done"]
      /\ UNCHANGED <<shared, app, history>>
  BY DEF Reject, Answer, Goto
<1>2. /\ seen' = [seen EXCEPT ![r] = NoCart]
      /\ held' = [held EXCEPT ![r] = {}]
      /\ todo' = [todo EXCEPT ![r] = {}]
  BY DEF Reject, Answer
<1>3. /\ seen' \in [Request -> Id \cup {NoCart}]
      /\ held' \in [Request -> SUBSET Item]
      /\ todo' \in [Request -> SUBSET Item]
      /\ \A q \in Request \ {r} : seen'[q] = seen[q] /\ held'[q] = held[q]
      /\ seen'[r] = NoCart
  BY <1>2 DEF IInv, TypeOK
<1>4. "done" \in Stage /\ "done" \notin Early
  BY DEF Stage, Early
<1> QED
  BY <1>1, <1>3, <1>4, MoveInv

\* r selects the cart with its items.
LEMMA ReadCartInv ==
    ASSUME IInv, NEW r \in Request, NEW from \in Stage,
           NEW to \in {"get_set", "add_purchased", "remove_item", "clear_key"},
           ReadCart(r, from, to)
    PROVE  IInv'
<1>1. /\ pc' = [pc EXCEPT ![r] = to]
      /\ UNCHANGED <<shared, app, history>>
      /\ todo' \in [Request -> SUBSET Item]
  BY DEF ReadCart, Goto, IInv, TypeOK
<1>2. /\ seen' \in [Request -> Id \cup {NoCart}]
      /\ held' \in [Request -> SUBSET Item]
      /\ \A q \in Request \ {r} : seen'[q] = seen[q] /\ held'[q] = held[q]
      /\ seen'[r] = cart /\ held'[r] = items /\ cart # NoCart
  BY DEF ReadCart, IInv, TypeOK
<1>3. to \in Stage /\ to \notin Early
  BY DEF Stage, Early
<1> QED
  BY <1>1, <1>2, <1>3, MoveInv

\* r finds no cart, and will create one.
LEMMA FindNoCartInv ==
    ASSUME IInv, NEW r \in Request, NEW from \in Early,
           NEW to \in {"get_create", "add_create"}, FindNoCart(r, from, to)
    PROVE  IInv'
<1>1. /\ pc' = [pc EXCEPT ![r] = to] /\ pc[r] = from
      /\ UNCHANGED <<shared, app, history, seen, held, todo>>
      /\ cart = NoCart
  BY DEF FindNoCart, Goto, locals
<1>2. to \in Stage
  BY DEF Stage
<1> QED
  BY <1>1, <1>2, MoveInv DEF IInv, TypeOK

\* r inserts its cart, unless there is one by now.
LEMMA CreateCartInv ==
    ASSUME IInv, NEW r \in Request, NEW from \in {"get_create", "add_create"},
           NEW to \in {"get_set", "add_purchased"},
           CreateCart(r, from, to) \/ CreateCartConflict(r, from)
    PROVE  IInv'
<1>1. CASE CreateCartConflict(r, from)
  BY <1>1, RejectInv DEF CreateCartConflict, Stage
<1>2. CASE CreateCart(r, from, to)
  <2> USE <1>2, CartAssumption DEF CreateCart, Goto, Rewritten, Overtakes
  <2>1. TypeOK'
    BY DEF IInv, TypeOK, Id, Stage
  <2>2. Fresh' /\ EmptyHanded'
    BY DEF IInv, TypeOK, Fresh, EmptyHanded, Early
  <2>3. Anchored' /\ Unowned' /\ OwnedNotInCart'
    BY DEF IInv, TypeOK, Anchored, Unowned, OwnedNotInCart, Fresh, Early
  <2>4. \A q \in Request \ {r} : pc[q] = "get_set" => missed'[q] # {}
    BY DEF IInv, TypeOK, Id
  <2>5. items = {} /\ (to = "get_set" => held'[r] = {})
    BY DEF IInv, TypeOK, EmptyHanded, Early
  <2>6. Filling' /\ Changing'
    BY <2>4, <2>5 DEF IInv, TypeOK, Filling, Changing, Id
  <2>7. Creating' /\ CacheTrueUnlessExcused'
    BY DEF IInv, TypeOK, Creating, CacheTrueUnlessExcused, Id
  <2> QED
    BY <2>1, <2>2, <2>3, <2>6, <2>7 DEF IInv
<1> QED
  BY <1>1, <1>2

\* r drops the cached copy.
LEMMA DropKeyInv ==
    ASSUME IInv, NEW r \in Request,
           NEW from \in {"add_key", "remove_key", "clear_key"},
           NEW to \in {"add_commit", "remove_commit", "clear_commit"},
           from # "add_key" => to # "add_commit",
           DropKey(r, from, to)
    PROVE  IInv'
<1> USE DEF DropKey, Goto, locals
<1>1. TypeOK'
  BY DEF IInv, TypeOK, Stage
<1>2. Fresh' /\ EmptyHanded'
  BY DEF IInv, TypeOK, Fresh, EmptyHanded, Early
<1>3. Anchored' /\ Unowned' /\ OwnedNotInCart'
  BY DEF IInv, TypeOK, Anchored, Unowned, OwnedNotInCart
<1>4. Filling' /\ Changing' /\ Creating' /\ CacheTrueUnlessExcused'
  BY DEF IInv, TypeOK, Filling, Changing, Creating, CacheTrueUnlessExcused
<1> QED
  BY <1>1, <1>2, <1>3, <1>4 DEF IInv

\* r commits a change of the cart after its DEL: an item more, or fewer items,
\* or no cart at all.
LEMMA CommitInv ==
    ASSUME IInv, NEW r \in Request,
           NEW from \in {"add_commit", "remove_commit", "clear_commit"},
           Answer(r, from), Rewritten(r), UNCHANGED <<owned, late>>,
           cart' \in {cart, NoCart}, items' \subseteq Item,
           cart' = NoCart => items' = {},
           \A i \in items' \ items : i.app \notin owned \/ late
    PROVE  IInv'
<1> USE CartAssumption DEF Answer, Goto, Rewritten, Overtakes
<1>1. TypeOK'
  BY DEF IInv, TypeOK, Stage, Id
<1>2. Fresh' /\ EmptyHanded'
  BY DEF IInv, TypeOK, Fresh, EmptyHanded, Early
<1>3. Anchored' /\ Unowned' /\ OwnedNotInCart'
  BY DEF IInv, TypeOK, Anchored, Unowned, OwnedNotInCart
<1>4. \A q \in Request \ {r} : pc[q] = "get_set" => missed'[q] # {}
  BY DEF IInv, TypeOK, Id
<1>5. Filling' /\ Changing' /\ Creating'
  BY <1>4 DEF IInv, TypeOK, Filling, Changing, Creating, Id
<1>6. CacheTrueUnlessExcused'
  BY DEF IInv, TypeOK, Changing, CacheTrueUnlessExcused
<1> QED
  BY <1>1, <1>2, <1>3, <1>5, <1>6 DEF IInv

\* r puts its copy into the cache.
LEMMA SetKeyInv ==
    ASSUME IInv, NEW r \in Request, GetSetKey(r)
    PROVE  IInv'
<1> USE CartAssumption DEF GetSetKey, Answer, Goto, Overtakes
<1>1. seen[r] \in Id /\ held[r] \subseteq Item
  BY DEF IInv, TypeOK, Anchored
<1>2. CacheTrueUnlessExcused'
  BY DEF IInv, Filling, CacheTrueUnlessExcused, Now
<1>3. TypeOK'
  BY <1>1 DEF IInv, TypeOK, Stage, Id, View
<1>4. Fresh' /\ EmptyHanded'
  BY DEF IInv, TypeOK, Fresh, EmptyHanded, Early
<1>5. Anchored' /\ Unowned' /\ OwnedNotInCart'
  BY DEF IInv, TypeOK, Anchored, Unowned, OwnedNotInCart
<1>6. \A q \in Request \ {r} :
         pc[q] \notin {"new", "done"} => r \in missed'[q]
  BY DEF IInv, TypeOK, Id
<1>7. Filling' /\ Changing' /\ Creating'
  BY <1>6 DEF IInv, TypeOK, Filling, Changing, Creating
<1> QED
  BY <1>2, <1>3, <1>4, <1>5, <1>7 DEF IInv

\* r commits its purchases and deletes the cart it read.
LEMMA CheckoutInv ==
    ASSUME IInv, NEW r \in Request, CheckoutCommit(r)
    PROVE  IInv'
<1> USE CartAssumption DEF CheckoutCommit, DeleteSeenCart, Answer, Goto, Overtakes
<1>1. TypeOK'
  BY DEF IInv, TypeOK, Stage, Id, Item
<1>2. Fresh' /\ EmptyHanded'
  BY DEF IInv, TypeOK, Fresh, EmptyHanded, Early
<1>3. Anchored' /\ Unowned' /\ OwnedNotInCart'
  BY DEF IInv, TypeOK, Anchored, Unowned, OwnedNotInCart
<1>4. \A q \in Request \ {r} : pc[q] = "get_set" => missed'[q] # {}
  BY DEF IInv, TypeOK, Id
<1>5. Filling' /\ Changing' /\ Creating' /\ CacheTrueUnlessExcused'
  BY <1>4 DEF IInv, TypeOK, Filling, Changing, Creating,
              CacheTrueUnlessExcused, Id
<1> QED
  BY <1>1, <1>2, <1>3, <1>5 DEF IInv

LEMMA ExpireInv == ASSUME IInv, ExpireKey PROVE IInv'
<1> USE DEF ExpireKey, locals
<1>1. TypeOK' /\ Fresh' /\ EmptyHanded' /\ Anchored' /\ Unowned' /\ OwnedNotInCart'
  BY DEF IInv, TypeOK, Fresh, EmptyHanded, Anchored, Unowned, OwnedNotInCart
<1>2. Filling' /\ Changing' /\ Creating' /\ CacheTrueUnlessExcused'
  BY DEF IInv, Filling, Changing, Creating, CacheTrueUnlessExcused
<1> QED
  BY <1>1, <1>2 DEF IInv

-----------------------------------------------------------------------------
LEMMA StepInv == ASSUME IInv, NEW r \in Request, Step(r) PROVE IInv'
<1> USE DEF Stage, Early
<1>1. CASE GetCached(r) \/ CheckoutNothing(r) \/ CheckoutUnaffordable(r)
  BY <1>1, RejectInv DEF GetCached, CheckoutNothing, CheckoutUnaffordable
<1>2. CASE Fail(r)
  BY <1>2, RejectInv DEF Fail, IInv, TypeOK
<1>3. CASE GetMissed(r)
  BY <1>3, MoveInv DEF GetMissed, Goto, locals, IInv, TypeOK
<1>4. CASE GetReadCart(r)
  BY <1>4, ReadCartInv, FindNoCartInv DEF GetReadCart
<1>5. CASE GetCreateCart(r) \/ AddCreateCart(r)
  BY <1>5, CreateCartInv DEF GetCreateCart, AddCreateCart, CreateCartConflict
<1>6. CASE GetSetKey(r)
  BY <1>6, SetKeyInv
<1>7. CASE AddReadCart(r)
  BY <1>7, ReadCartInv, FindNoCartInv DEF AddReadCart
<1>8. CASE AddCheckPurchased(r)
  <2>1. CASE app[r] \in owned
    BY <1>8, <2>1, RejectInv DEF AddCheckPurchased
  <2>2. CASE app[r] \notin owned
    BY <1>8, <2>2, MoveInv
       DEF AddCheckPurchased, Goto, locals, IInv, TypeOK, Anchored
  <2> QED
    BY <2>1, <2>2
<1>9. CASE AddCheckItem(r)
  <2>1. CASE Reject(r, "add_item")
    BY <2>1, RejectInv
  <2>2. CASE Goto(r, "add_item", "add_key") /\ UNCHANGED <<shared, locals, history>>
    BY <2>2, MoveInv DEF Goto, locals, shared, IInv, TypeOK, Anchored, Unowned
  <2> QED
    BY <1>9, <2>1, <2>2 DEF AddCheckItem
<1>10. CASE AddDropKey(r) \/ RemoveDropKey(r) \/ ClearDropKey(r)
  BY <1>10, DropKeyInv DEF AddDropKey, RemoveDropKey, ClearDropKey
<1>11. CASE AddCommit(r)
  <2>1. CASE Reject(r, "add_commit")
    BY <2>1, RejectInv
  <2>2. CASE cart = seen[r] /\ ~Reject(r, "add_commit")
    <3>1. cart # NoCart /\ app[r] \in App /\ (app[r] \notin owned \/ late)
      BY <1>11, <2>2 DEF AddCommit, Answer, Goto, IInv, TypeOK, Anchored, Unowned
    <3>2. items' \subseteq Item
      BY <1>11, <2>2, <3>1 DEF AddCommit, IInv, TypeOK, Item, Id
    <3> QED
      BY <1>11, <2>2, <3>1, <3>2, CommitInv DEF AddCommit
  <2> QED
    BY <1>11, <2>1, <2>2 DEF AddCommit
<1>12. CASE RemoveReadCart(r)
  BY <1>12, ReadCartInv, RejectInv DEF RemoveReadCart
<1>13. CASE RemoveFindItem(r)
  <2>1. CASE Reject(r, "remove_item")
    BY <2>1, RejectInv
  <2>2. CASE \E i \in RowsOf(r) :
               /\ Goto(r, "remove_item", "remove_key")
               /\ held' = [held EXCEPT ![r] = {i}]
               /\ UNCHANGED <<shared, app, seen, todo, history>>
    <3>1. PICK i \in RowsOf(r) : held' = [held EXCEPT ![r] = {i}]
      BY <2>2
    <3>2. i \in Item
      BY DEF RowsOf, IInv, TypeOK
    <3>3. held' \in [Request -> SUBSET Item]
      BY <3>1, <3>2 DEF IInv, TypeOK
    <3>4. \A q \in Request \ {r} : held'[q] = held[q]
      BY <3>1 DEF IInv, TypeOK
    <3>5. pc' = [pc EXCEPT ![r] = "remove_key"] /\ UNCHANGED <<shared, app, seen, todo, history>>
      BY <2>2 DEF Goto
    <3> QED
      BY <3>3, <3>4, <3>5, MoveInv DEF IInv, TypeOK
  <2> QED
    BY <1>13, <2>1, <2>2 DEF RemoveFindItem
<1>14. CASE RemoveCommit(r)
  BY <1>14, CommitInv DEF RemoveCommit, IInv, TypeOK
<1>15. CASE ClearReadCart(r)
  BY <1>15, ReadCartInv, RejectInv DEF ClearReadCart
<1>16. CASE ClearCommit(r)
  BY <1>16, CommitInv DEF ClearCommit, DeleteSeenCart, IInv, TypeOK
<1>17. CASE CheckoutReadCart(r)
  <2>1. CASE Reject(r, "new")
    BY <2>1, RejectInv
  <2>2. CASE /\ Goto(r, "new", "checkout_items")
             /\ seen' = [seen EXCEPT ![r] = cart]
             /\ todo' = [todo EXCEPT ![r] = items]
             /\ UNCHANGED <<shared, app, held, history>>
    BY <2>2, MoveInv DEF Goto, IInv, TypeOK
  <2> QED
    BY <1>17, <2>1, <2>2 DEF CheckoutReadCart
<1>18. CASE \E i \in todo[r] : CheckoutItem(r, i)
  <2>1. PICK i \in todo[r] : CheckoutItem(r, i)
    BY <1>18
  <2>2. /\ held' \in [Request -> SUBSET Item]
        /\ todo' \in [Request -> SUBSET Item]
        /\ \A q \in Request \ {r} : held'[q] = held[q]
    BY <2>1 DEF CheckoutItem, IInv, TypeOK
  <2>3. pc' = [pc EXCEPT ![r] = "checkout_items"]
    BY <2>1 DEF CheckoutItem, IInv, TypeOK
  <2> QED
    BY <2>1, <2>2, <2>3, MoveInv DEF CheckoutItem, IInv, TypeOK
<1>19. CASE CheckoutCommit(r)
  BY <1>19, CheckoutInv
<1> QED
  BY <1>1, <1>2, <1>3, <1>4, <1>5, <1>6, <1>7, <1>8, <1>9, <1>10, <1>11, <1>12,
     <1>13, <1>14, <1>15, <1>16, <1>17, <1>18, <1>19 DEF Step

LEMMA StutterInv == ASSUME IInv, UNCHANGED vars PROVE IInv'
<1> USE DEF vars, shared, locals, history
<1>1. TypeOK' /\ Fresh' /\ EmptyHanded' /\ Anchored' /\ Unowned' /\ OwnedNotInCart'
  BY DEF IInv, TypeOK, Fresh, EmptyHanded, Anchored, Unowned, OwnedNotInCart
<1>2. Filling' /\ Changing' /\ Creating' /\ CacheTrueUnlessExcused'
  BY DEF IInv, Filling, Changing, Creating, CacheTrueUnlessExcused, Now
<1> QED
  BY <1>1, <1>2 DEF IInv

\* The inductive invariant holds in every behaviour of the cart's requests.
THEOREM CartInvariant == Spec => []IInv
<1>1. IInv /\ [Next]_vars => IInv'
  BY StepInv, ExpireInv, StutterInv DEF Next, Quiet
<1> QED
  BY InitInv, <1>1, PTL DEF Spec

\* Every variable of the cart keeps its type, and no item outlives its cart.
THEOREM CartTypeCorrect == Spec => []TypeOK
<1> QED
  BY CartInvariant, PTL DEF IInv

\* However many requests overlap, an app that add_app_to_cart let into the cart
\* is not owned, unless a checkout committed after its cart had been deleted.
THEOREM OwnedNeverInCart == Spec => []OwnedNotInCart
<1> QED
  BY CartInvariant, PTL DEF IInv

\* The cached cart is wrong only for the reasons excused records: a fill that was
\* overtaken, a refill between a DEL and its commit, or a checkout.
THEOREM CacheTrue == Spec => []CacheTrueUnlessExcused
<1> QED
  BY CartInvariant, PTL DEF IInv

-----------------------------------------------------------------------------
(* Who overlapped whom: what a request finds that it has not read was written *)
(* while it was open.                                                         *)

\* A row for the app r is about to add came after r had looked for one.
Adding ==
    \A q \in Request :
        pc[q] \in {"add_key", "add_commit"} /\ cart = seen[q] =>
            \A i \in items : i.app = app[q] => i.row \in missed[q]

\* The cart r has read, or its absence, has changed since only if r was overtaken.
Opened ==
    \A q \in Request :
        /\ pc[q] \in {"get_create", "add_create"} /\ cart # NoCart => missed[q] # {}
        /\ pc[q] \in {"add_purchased", "add_item", "add_key", "add_commit"}
               /\ cart # seen[q] => missed[q] # {}

\* Of the cart to be cleared, and of the one to be paid, every item is known.
Clearing ==
    \A q \in Request :
        pc[q] \in {"clear_key", "clear_commit"} /\ cart = seen[q] =>
            \A i \in items : i \in held[q] \/ i.row \in missed[q]

Buying ==
    \A q \in Request :
        pc[q] = "checkout_items" /\ cart = seen[q] =>
            \A i \in items : \/ i \in todo[q] \cup held[q]
                             \/ i.app \in owned \/ i.row \in missed[q]

JInv == DuplicateOnlyByOverlap /\ Adding /\ Opened /\ Clearing /\ Buying

LEMMA InitOverlap == Init => JInv
<1> SUFFICES ASSUME Init PROVE JInv
  OBVIOUS
<1>1. Adding /\ Opened /\ Clearing /\ Buying
  BY DEF Init, Adding, Opened, Clearing, Buying
<1>2. \A i, j \in items : i.app = j.app => i = j
  BY DEF Init
<1>3. DuplicateOnlyByOverlap
  BY <1>2 DEF DuplicateOnlyByOverlap
<1> QED
  BY <1>1, <1>3 DEF JInv

\* A step that leaves the cart alone and only moves r.
LEMMA MoveOverlap ==
    ASSUME IInv, JInv, NEW r \in Request, NEW to \in Stage,
           pc' = [pc EXCEPT ![r] = to],
           UNCHANGED <<cart, items, owned, app, missed>>,
           \A q \in Request \ {r} :
               seen'[q] = seen[q] /\ held'[q] = held[q] /\ todo'[q] = todo[q],
           to \in {"add_key", "add_commit"} /\ cart = seen'[r] =>
               \A i \in items : i.app = app[r] => i.row \in missed[r],
           to \in {"get_create", "add_create"} => cart = NoCart,
           to \in {"add_purchased", "add_item", "add_key", "add_commit"}
               /\ cart # seen'[r] => missed[r] # {},
           to \in {"clear_key", "clear_commit"} /\ cart = seen'[r] =>
               \A i \in items : i \in held'[r] \/ i.row \in missed[r],
           to = "checkout_items" /\ cart = seen'[r] =>
               \A i \in items : \/ i \in todo'[r] \cup held'[r]
                                \/ i.app \in owned \/ i.row \in missed[r]
    PROVE  JInv'
<1>1. /\ pc'[r] = to
      /\ \A q \in Request \ {r} : pc'[q] = pc[q]
  BY DEF IInv, TypeOK
<1>2. DuplicateOnlyByOverlap'
  BY DEF JInv, DuplicateOnlyByOverlap
<1>3. Adding' /\ Opened'
  BY <1>1 DEF JInv, Adding, Opened
<1>4. Clearing' /\ Buying'
  BY <1>1 DEF JInv, Clearing, Buying
<1> QED
  BY <1>2, <1>3, <1>4 DEF JInv

\* r writes: it deletes a cart or its items, creates a cart where there is
\* none, or adds its item to the cart it has read.
LEMMA WriteOverlap ==
    ASSUME IInv, IInv', JInv, NEW r \in Request,
           NEW to \in {"done", "get_set", "add_purchased"},
           pc' = [pc EXCEPT ![r] = to], Overtakes(r), app' = app,
           \A q \in Request \ {r} :
               seen'[q] = seen[q] /\ held'[q] = held[q] /\ todo'[q] = todo[q],
           owned \subseteq owned',
           \/ cart' \in {cart, NoCart}
           \/ cart' = r /\ pc[r] \in Early /\ items' = items,
           to = "add_purchased" => cart' = seen'[r],
           items' \subseteq items \cup {[app |-> app[r], row |-> r]},
           ~(items' \subseteq items) => pc[r] = "add_commit" /\ cart = seen[r]
    PROVE  JInv'
<1> DEFINE new == [app |-> app[r], row |-> r]
<1>1. /\ pc'[r] = to
      /\ \A q \in Request \ {r} : pc'[q] = pc[q]
  BY DEF IInv, TypeOK
<1>2. /\ \A q \in Id : missed[q] \subseteq missed'[q]
      /\ \A q \in Request \ {r} :
             pc[q] \notin {"new", "done"} => r \in missed'[q]
  BY DEF Overtakes, IInv, TypeOK, Id
<1>3. \A i \in items \cup items' : i.row \in Id
  BY DEF IInv, TypeOK, Item
<1>4. DuplicateOnlyByOverlap'
  <2> SUFFICES ASSUME NEW i \in items', NEW j \in items', i # j, i.app = j.app
               PROVE  i.row \in missed'[j.row] \/ j.row \in missed'[i.row]
    BY DEF DuplicateOnlyByOverlap
  <2>1. CASE i \in items /\ j \in items
    BY <2>1, <1>2, <1>3 DEF JInv, DuplicateOnlyByOverlap
  <2>2. ASSUME NEW k \in items, k.app = app[r], ~(items' \subseteq items)
        PROVE  k.row \in missed'[r]
    BY <2>2, <1>2 DEF JInv, Adding, Id
  <2>3. CASE i \notin items
    <3>1. i = new /\ j \in items
      BY <2>3
    <3> QED
      BY <3>1, <2>2, <2>3
  <2>4. CASE j \notin items
    <3>1. j = new /\ i \in items
      BY <2>4
    <3> QED
      BY <3>1, <2>2, <2>4
  <2> QED
    BY <2>1, <2>3, <2>4
<1>5. ASSUME NEW q \in Request \ {r}, pc[q] \notin {"new", "done"},
             cart' = seen[q], NEW i \in items'
      PROVE  i.row \in missed'[q] \/ (i \in items /\ cart = seen[q])
  <2>1. cart' # NoCart
    BY DEF IInv, TypeOK
  <2>2. cart' # r \/ cart' = cart
    BY <1>5, CartAssumption DEF IInv, Fresh
  <2>3. cart = seen[q]
    BY <2>1, <2>2, <1>5
  <2>4. i \in items \/ i.row = r
    OBVIOUS
  <2> QED
    BY <2>3, <2>4, <1>2, <1>5
<1>6. Adding'
  BY <1>1, <1>2, <1>5 DEF JInv, Adding, Id
<1>7. Opened'
  BY <1>1, <1>2 DEF JInv, Opened, Id
<1>8. Clearing'
  BY <1>1, <1>2, <1>5 DEF JInv, Clearing, Id
<1>9. Buying'
  BY <1>1, <1>2, <1>5 DEF JInv, Buying, Id
<1> QED
  BY <1>4, <1>6, <1>7, <1>8, <1>9 DEF JInv

\* r is answered without having written anything.
LEMMA RejectOverlap ==
    ASSUME IInv, JInv, NEW r \in Request, NEW from \in Stage, Reject(r, from)
    PROVE  JInv'
<1>1. /\ pc' = [pc EXCEPT ![r] = "done"]
      /\ UNCHANGED <<cart, items, owned, app, missed>>
      /\ \A q \in Request \ {r} :
             seen'[q] = seen[q] /\ held'[q] = held[q] /\ todo'[q] = todo[q]
  BY DEF Reject, Answer, Goto, shared, history, IInv, TypeOK
<1>2. "done" \in Stage
  BY DEF Stage
<1> QED
  BY <1>1, <1>2, MoveOverlap

\* r selects the cart with its items, or goes on without a cart.
LEMMA ReadOverlap ==
    ASSUME IInv, JInv, NEW r \in Request, NEW from \in Stage,
           NEW to \in {"get_set", "add_purchased", "remove_item", "clear_key",
                       "get_create", "add_create"},
           ReadCart(r, from, to) \/ FindNoCart(r, from, to),
           to \in {"get_create", "add_create"} <=> ~ReadCart(r, from, to)
    PROVE  JInv'
<1>1. /\ pc' = [pc EXCEPT ![r] = to]
      /\ UNCHANGED <<cart, items, owned, app, missed>>
      /\ \A q \in Request \ {r} :
             seen'[q] = seen[q] /\ held'[q] = held[q] /\ todo'[q] = todo[q]
  BY DEF ReadCart, FindNoCart, Goto, locals, shared, history, IInv, TypeOK
<1>2. CASE ReadCart(r, from, to)
  <2>1. seen'[r] = cart /\ held'[r] = items
    BY <1>2 DEF ReadCart, IInv, TypeOK
  <2> QED
    BY <1>1, <1>2, <2>1, MoveOverlap DEF Stage
<1>3. CASE ~ReadCart(r, from, to)
  <2>1. cart = NoCart
    BY <1>3 DEF FindNoCart
  <2> QED
    BY <1>1, <1>3, <2>1, MoveOverlap DEF Stage
<1> QED
  BY <1>2, <1>3

\* r drops the cached copy.
LEMMA DropKeyOverlap ==
    ASSUME IInv, JInv, NEW r \in Request,
           \/ DropKey(r, "add_key", "add_commit")
           \/ DropKey(r, "remove_key", "remove_commit")
           \/ DropKey(r, "clear_key", "clear_commit")
    PROVE  JInv'
<1> USE DEF DropKey, Goto, locals, Stage
<1>1. CASE DropKey(r, "add_key", "add_commit")
  BY <1>1, MoveOverlap DEF JInv, Adding, Opened
<1>2. CASE DropKey(r, "remove_key", "remove_commit")
  BY <1>2, MoveOverlap
<1>3. CASE DropKey(r, "clear_key", "clear_commit")
  BY <1>3, MoveOverlap DEF JInv, Clearing
<1> QED
  BY <1>1, <1>2, <1>3

LEMMA StepOverlap ==
    ASSUME IInv, IInv', JInv, NEW r \in Request, Step(r)
    PROVE  JInv'
<1> USE DEF Stage
<1>0. ASSUME NEW from \in Stage, Answer(r, from)
      PROVE  /\ pc[r] = from /\ pc' = [pc EXCEPT ![r] = "done"] /\ app' = app
             /\ \A q \in Request \ {r} :
                    seen'[q] = seen[q] /\ held'[q] = held[q] /\ todo'[q] = todo[q]
  BY <1>0 DEF Answer, Goto, IInv, TypeOK
<1>1. CASE GetCached(r) \/ CheckoutNothing(r) \/ CheckoutUnaffordable(r)
  BY <1>1, RejectOverlap DEF GetCached, CheckoutNothing, CheckoutUnaffordable
<1>2. CASE Fail(r)
  BY <1>2, RejectOverlap DEF Fail, IInv, TypeOK
<1>3. CASE GetMissed(r)
  BY <1>3, MoveOverlap DEF GetMissed, Goto, locals, shared, history
<1>4. CASE GetReadCart(r) \/ AddReadCart(r)
  <2>1. ReadCart(r, "get_read", "get_set") \/ ReadCart(r, "new", "add_purchased")
        => cart # NoCart
    BY DEF ReadCart
  <2>2. FindNoCart(r, "get_read", "get_create") \/ FindNoCart(r, "new", "add_create")
        => cart = NoCart
    BY DEF FindNoCart
  <2>3. ~ReadCart(r, "get_read", "get_create") \/ cart # NoCart
    BY DEF ReadCart
  <2>4. ~ReadCart(r, "new", "add_create") \/ cart # NoCart
    BY DEF ReadCart
  <2> QED
    BY <1>4, <2>1, <2>2, <2>3, <2>4, ReadOverlap DEF GetReadCart, AddReadCart
<1>5. CASE GetCreateCart(r) \/ AddCreateCart(r)
  <2>1. CASE Reject(r, "get_create") \/ Reject(r, "add_create")
    BY <2>1, RejectOverlap
  <2>2. CASE CreateCart(r, "get_create", "get_set")
    BY <2>2, WriteOverlap DEF CreateCart, Goto, Rewritten, Early, IInv, TypeOK
  <2>3. CASE CreateCart(r, "add_create", "add_purchased")
    BY <2>3, WriteOverlap DEF CreateCart, Goto, Rewritten, Early, IInv, TypeOK
  <2> QED
    BY <1>5, <2>1, <2>2, <2>3 DEF GetCreateCart, AddCreateCart, CreateCartConflict
<1>6. CASE GetSetKey(r)
  BY <1>6, <1>0, WriteOverlap DEF GetSetKey
<1>7. CASE AddCheckPurchased(r)
  <2>1. CASE Reject(r, "add_purchased")
    BY <2>1, RejectOverlap
  <2>2. CASE ~Reject(r, "add_purchased")
    BY <1>7, <2>2, MoveOverlap
       DEF AddCheckPurchased, Goto, locals, shared, history, JInv, Opened
  <2> QED
    BY <2>1, <2>2
<1>8. CASE AddCheckItem(r)
  <2>1. CASE Reject(r, "add_item")
    BY <2>1, RejectOverlap
  <2>2. CASE ~Reject(r, "add_item")
    BY <1>8, <2>2, MoveOverlap
       DEF AddCheckItem, RowsOf, Goto, locals, shared, history, JInv, Opened
  <2> QED
    BY <2>1, <2>2
<1>9. CASE AddDropKey(r) \/ RemoveDropKey(r) \/ ClearDropKey(r)
  BY <1>9, DropKeyOverlap DEF AddDropKey, RemoveDropKey, ClearDropKey
<1>10. CASE AddCommit(r)
  <2>1. CASE Reject(r, "add_commit")
    BY <2>1, RejectOverlap
  <2>2. CASE ~Reject(r, "add_commit")
    BY <1>10, <2>2, <1>0, WriteOverlap DEF AddCommit, Rewritten
  <2> QED
    BY <2>1, <2>2
<1>11. CASE RemoveReadCart(r) \/ ClearReadCart(r)
  BY <1>11, RejectOverlap, ReadOverlap DEF RemoveReadCart, ClearReadCart
<1>12. CASE RemoveFindItem(r)
  <2>1. CASE Reject(r, "remove_item")
    BY <2>1, RejectOverlap
  <2>2. CASE ~Reject(r, "remove_item")
    <3>1. PICK i \in RowsOf(r) :
             /\ Goto(r, "remove_item", "remove_key")
             /\ held' = [held EXCEPT ![r] = {i}]
             /\ UNCHANGED <<shared, app, seen, todo, history>>
      BY <1>12, <2>2 DEF RemoveFindItem
    <3>2. \A q \in Request \ {r} : held'[q] = held[q]
      BY <3>1 DEF IInv, TypeOK
    <3> QED
      BY <3>1, <3>2, MoveOverlap DEF Goto, shared, history
  <2> QED
    BY <2>1, <2>2
<1>13. CASE RemoveCommit(r)
  BY <1>13, <1>0, WriteOverlap DEF RemoveCommit, Rewritten
<1>14. CASE ClearCommit(r)
  BY <1>14, <1>0, WriteOverlap DEF ClearCommit, DeleteSeenCart, Rewritten
<1>15. CASE CheckoutReadCart(r)
  <2>1. CASE Reject(r, "new")
    BY <2>1, RejectOverlap
  <2>2. CASE ~Reject(r, "new")
    <3>1. /\ pc' = [pc EXCEPT ![r] = "checkout_items"]
          /\ UNCHANGED <<cart, items, owned, app, held, missed>>
          /\ todo'[r] = items
          /\ \A q \in Request \ {r} : seen'[q] = seen[q] /\ todo'[q] = todo[q]
      BY <1>15, <2>2 DEF CheckoutReadCart, Goto, shared, history, IInv, TypeOK
    <3> QED
      BY <3>1, MoveOverlap
  <2> QED
    BY <2>1, <2>2
<1>16. CASE \E i \in todo[r] : CheckoutItem(r, i)
  <2>1. PICK i \in todo[r] : CheckoutItem(r, i)
    BY <1>16
  <2>2. /\ pc' = [pc EXCEPT ![r] = "checkout_items"]
        /\ UNCHANGED <<cart, items, owned, app, seen, missed>>
        /\ \A q \in Request \ {r} : held'[q] = held[q] /\ todo'[q] = todo[q]
        /\ todo'[r] = todo[r] \ {i}
        /\ held'[r] = IF i.app \in owned THEN held[r] ELSE held[r] \cup {i}
    BY <2>1 DEF CheckoutItem, shared, history, IInv, TypeOK
  <2>3. cart = seen[r] =>
            \A j \in items : \/ j \in todo'[r] \cup held'[r]
                             \/ j.app \in owned \/ j.row \in missed[r]
    BY <2>1, <2>2 DEF CheckoutItem, JInv, Buying
  <2> QED
    BY <2>2, <2>3, MoveOverlap
<1>17. CASE CheckoutCommit(r)
  BY <1>17, <1>0, WriteOverlap DEF CheckoutCommit, DeleteSeenCart
<1> QED
  BY <1>1, <1>2, <1>3, <1>4, <1>5, <1>6, <1>7, <1>8, <1>9, <1>10, <1>11, <1>12,
     <1>13, <1>14, <1>15, <1>16, <1>17 DEF Step

LEMMA StillOverlap ==
    ASSUME JInv, ExpireKey \/ UNCHANGED vars PROVE JInv'
<1> USE DEF ExpireKey, vars, shared, locals, history
<1>1. DuplicateOnlyByOverlap' /\ Adding' /\ Opened'
  BY DEF JInv, DuplicateOnlyByOverlap, Adding, Opened
<1>2. Clearing' /\ Buying'
  BY DEF JInv, Clearing, Buying
<1> QED
  BY <1>1, <1>2 DEF JInv

LEMMA CartOverlaps == Spec => []JInv
<1>1. IInv /\ IInv' /\ JInv /\ [Next]_vars => JInv'
  BY StepOverlap, StillOverlap DEF Next, Quiet
<1> QED
  BY InitOverlap, CartInvariant, <1>1, PTL DEF Spec

\* However many requests overlap, a second row for an app comes only of an
\* addition that was open while the first was added.
THEOREM DuplicatesOverlap == Spec => []DuplicateOnlyByOverlap
<1> QED
  BY CartOverlaps, PTL DEF JInv

\* However many requests overlap, only one that was overtaken meets a constraint
\* of the database.
THEOREM RefusalsOverlap == Spec => []RefusedInsertOnlyByOverlap
<1>1. JInv => RefusedInsertOnlyByOverlap
  BY DEF JInv, Opened, RefusedInsertOnlyByOverlap
<1> QED
  BY CartOverlaps, <1>1, PTL

\* No step of any number of requests takes an item from the cart that the request
\* behind it has neither read nor overlapped, nor passed over as owned.
THEOREM NothingVanishes == Spec => NoItemVanishes
<1> DEFINE Accounted ==
      \A i \in items \ items' : \E r \in Request :
          /\ pc[r] # "done" /\ pc'[r] = "done"
          /\ i \in held[r] \/ i.row \in missed[r] \/ i.app \in owned
<1>1. ASSUME IInv, JInv, [Next]_vars PROVE Accounted
  <2> SUFFICES ASSUME NEW i \in items \ items' PROVE Accounted
    OBVIOUS
  <2>1. PICK r \in Request : Step(r)
    BY <1>1 DEF Next, ExpireKey, Quiet, vars, shared
  <2>2. RemoveCommit(r) \/ ClearCommit(r) \/ CheckoutCommit(r)
    BY <2>1 DEF Step, GetCached, GetMissed, GetReadCart, GetCreateCart, GetSetKey,
       AddReadCart, AddCreateCart, AddCheckPurchased, AddCheckItem, AddDropKey,
       AddCommit, RemoveReadCart, RemoveFindItem, RemoveDropKey, ClearReadCart,
       ClearDropKey, CheckoutReadCart, CheckoutItem, CheckoutNothing,
       CheckoutUnaffordable, Fail, Reject, ReadCart, FindNoCart, CreateCart,
       CreateCartConflict, DropKey, shared
  <2>3. /\ pc[r] \in {"remove_commit", "clear_commit", "checkout_items"}
        /\ pc'[r] = "done"
    BY <1>1, <2>2 DEF RemoveCommit, ClearCommit, CheckoutCommit, Answer, Goto,
       IInv, TypeOK
  <2>4. \A j \in items \ items' :
            j \in held[r] \/ j.row \in missed[r] \/ j.app \in owned
    <3>1. CASE RemoveCommit(r)
      BY <3>1 DEF RemoveCommit
    <3>2. CASE ClearCommit(r)
      BY <1>1, <3>2 DEF ClearCommit, DeleteSeenCart, Answer, Goto, JInv, Clearing
    <3>3. CASE CheckoutCommit(r)
      BY <1>1, <3>3 DEF CheckoutCommit, DeleteSeenCart, Answer, Goto, JInv, Buying
    <3> QED
      BY <2>2, <3>1, <3>2, <3>3
  <2> QED
    BY <2>3, <2>4
<1>2. IInv /\ JInv /\ [Next]_vars => [Accounted]_vars
  BY <1>1
<1> QED
  BY CartInvariant, CartOverlaps, <1>2, PTL DEF Spec, NoItemVanishes

=============================================================================
