---------------------------- MODULE WalletProofs ----------------------------
(***************************************************************************)
(* The session layer loses an update only by a commit computed from a      *)
(* stale read; Wallet implements it; balances are never overdrawn, an app  *)
(* is owned twice only after a race on its row, money is conserved, and    *)
(* without a stale write the wallet is the atomic Bank.                    *)
(***************************************************************************)
EXTENDS WalletAtomic, FiniteSetTheorems, TLAPS

-----------------------------------------------------------------------------
(* The session layer by itself.  LedgerAgrees is not inductive: that a     *)
(* commit adds delta to the value in the database needs SnapshotCurrent.   *)

SessionInv == UoW!TypeOK /\ UoW!SnapshotCurrent /\ UoW!LedgerAgrees

\* A Touch of a set of rows with integer changes is a step of the generic
\* specification: what Touches reads off the step is what Touch was given.
LEMMA TouchIsTouches ==
    ASSUME UoW!TypeOK, NEW r \in Request, NEW S \in SUBSET Row,
           NEW d \in [Row -> Int], UoW!Touch(r, S, d)
    PROVE  UoW!Touches(r)
<1> DEFINE T == loaded'[r] \ loaded[r]
<1> DEFINE e == [x \in Row |-> delta'[r][x] - delta[r][x]]
<1>1. loaded'[r] = loaded[r] \cup S /\ T = S \ loaded[r]
  BY DEF UoW!TypeOK, UoW!Touch
<1>2. \A x \in Row : delta'[r][x] = delta[r][x] + d[x]
  BY DEF UoW!TypeOK, UoW!Touch
<1>3. e = d /\ delta'[r] \in [Row -> Int]
  <2>1. \A x \in Row : e[x] = d[x]
    BY <1>2 DEF UoW!TypeOK
  <2>2. delta'[r] = [x \in Row |-> delta[r][x] + d[x]]
    BY DEF UoW!TypeOK, UoW!Touch
  <2> QED
    BY <2>1, <2>2 DEF UoW!TypeOK
<1>4. loaded' = [loaded EXCEPT ![r] = @ \cup T]
  BY <1>1 DEF UoW!TypeOK, UoW!Touch
<1>5. base' = [base EXCEPT ![r] =
                 [x \in Row |-> IF x \in T \ loaded[r] THEN db[x] ELSE @[x]]]
  BY <1>1 DEF UoW!TypeOK, UoW!Touch
<1>6. \A x \in Row : e[x] # 0 => x \in loaded[r] \cup T
  BY <1>1, <1>3 DEF UoW!Touch
<1>7. loaded'[r] \subseteq Row
  BY <1>1 DEF UoW!TypeOK
<1>8. UoW!Touch(r, T, e)
  BY <1>3, <1>4, <1>5, <1>6 DEF UoW!Touch
<1> QED
  BY <1>3, <1>7, <1>8 DEF UoW!Touches

LEMMA SessionInit == UoW!Init => SessionInv
BY DEF UoW!Init, UoW!Zero, SessionInv, UoW!TypeOK, UoW!SnapshotCurrent, UoW!LedgerAgrees

LEMMA SessionTouches ==
    ASSUME SessionInv, NEW r \in Request, UoW!Touches(r)
    PROVE  SessionInv'
<1> DEFINE T == loaded'[r] \ loaded[r]
<1>1. UoW!TypeOK'
  <2>1. loaded' \in [Request -> SUBSET Row] /\ delta' \in [Request -> [Row -> Int]]
    BY DEF SessionInv, UoW!TypeOK, UoW!Touches, UoW!Touch
  <2>2. base' \in [Request -> [Row -> Int]]
    BY DEF SessionInv, UoW!TypeOK, UoW!Touches, UoW!Touch
  <2> QED
    BY <2>1, <2>2 DEF SessionInv, UoW!TypeOK, UoW!Touches, UoW!Touch
<1>2. UoW!SnapshotCurrent'
  <2> SUFFICES ASSUME NEW q \in Request, NEW x \in loaded'[q] \ stale'[q]
               PROVE  base'[q][x] = db'[x]
    BY DEF UoW!SnapshotCurrent
  <2>1. x \in Row /\ stale' = stale /\ db' = db
    BY <1>1 DEF UoW!TypeOK, UoW!Touches, UoW!Touch
  <2>2. CASE q = r /\ x \notin loaded[r]
    BY <2>1, <2>2 DEF SessionInv, UoW!TypeOK, UoW!Touches, UoW!Touch
  <2>3. CASE q # r \/ x \in loaded[r]
    <3>1. base'[q][x] = base[q][x] /\ x \in loaded[q]
      BY <2>1, <2>3 DEF SessionInv, UoW!TypeOK, UoW!Touches, UoW!Touch
    <3> QED
      BY <2>1, <3>1 DEF SessionInv, UoW!SnapshotCurrent
  <2> QED
    BY <2>2, <2>3
<1>3. UoW!LedgerAgrees'
  BY DEF SessionInv, UoW!LedgerAgrees, UoW!Touches, UoW!Touch
<1> QED
  BY <1>1, <1>2, <1>3 DEF SessionInv

LEMMA SessionCommit ==
    ASSUME SessionInv, NEW r \in Request, UoW!Commit(r)
    PROVE  SessionInv'
<1>1. UoW!Dirty(r) \subseteq Row
  BY DEF SessionInv, UoW!TypeOK, UoW!Dirty
<1>2. UoW!TypeOK'
  BY <1>1 DEF SessionInv, UoW!TypeOK, UoW!Commit, UoW!Close, UoW!Zero
<1>3. UoW!SnapshotCurrent'
  <2> SUFFICES ASSUME NEW q \in Request, NEW x \in loaded'[q] \ stale'[q]
               PROVE  base'[q][x] = db'[x]
    BY DEF UoW!SnapshotCurrent
  <2>1. q # r /\ x \in loaded[q] /\ base'[q] = base[q]
    BY DEF SessionInv, UoW!TypeOK, UoW!Commit, UoW!Close
  <2>2. x \notin stale[q] /\ x \notin UoW!Dirty(r)
    BY <2>1 DEF UoW!Commit
  <2>3. x \in Row
    BY <2>1 DEF SessionInv, UoW!TypeOK
  <2> QED
    BY <2>1, <2>2, <2>3 DEF SessionInv, UoW!SnapshotCurrent, UoW!Commit
<1>4. UoW!LedgerAgrees'
  <2> SUFFICES ASSUME NEW x \in Row, x \notin raced'
               PROVE  db'[x] = ledger'[x]
    BY DEF UoW!LedgerAgrees
  <2>1. x \notin raced /\ (x \in UoW!Dirty(r) => x \notin stale[r])
    BY DEF UoW!Commit
  <2>2. CASE x \in UoW!Dirty(r)
    <3>1. base[r][x] = db[x]
      BY <2>1, <2>2 DEF SessionInv, UoW!SnapshotCurrent, UoW!Dirty
    <3>2. db[x] = ledger[x]
      BY <2>1 DEF SessionInv, UoW!LedgerAgrees
    <3> QED
      BY <2>2, <3>1, <3>2 DEF UoW!Commit
  <2>3. CASE x \notin UoW!Dirty(r)
    BY <2>1, <2>3 DEF SessionInv, UoW!LedgerAgrees, UoW!Commit
  <2> QED
    BY <2>2, <2>3
<1> QED
  BY <1>2, <1>3, <1>4 DEF SessionInv

LEMMA SessionRollback ==
    ASSUME SessionInv, NEW r \in Request, UoW!Rollback(r)
    PROVE  SessionInv'
<1>1. UoW!TypeOK'
  BY DEF SessionInv, UoW!TypeOK, UoW!Rollback, UoW!Close, UoW!Zero
<1>2. UoW!SnapshotCurrent'
  <2> SUFFICES ASSUME NEW q \in Request, NEW x \in loaded'[q] \ stale'[q]
               PROVE  base'[q][x] = db'[x]
    BY DEF UoW!SnapshotCurrent
  <2>1. q # r
    BY DEF SessionInv, UoW!TypeOK, UoW!Rollback, UoW!Close
  <2> QED
    BY <2>1 DEF SessionInv, UoW!TypeOK, UoW!SnapshotCurrent, UoW!Rollback, UoW!Close
<1>3. UoW!LedgerAgrees'
  BY DEF SessionInv, UoW!LedgerAgrees, UoW!Rollback
<1> QED
  BY <1>1, <1>2, <1>3 DEF SessionInv

LEMMA SessionNext == SessionInv /\ [UoW!Next]_(UoW!vars) => SessionInv'
<1> SUFFICES ASSUME SessionInv, [UoW!Next]_(UoW!vars)
             PROVE  SessionInv'
  OBVIOUS
<1>1. CASE UoW!Next
  BY <1>1, SessionTouches, SessionCommit, SessionRollback DEF UoW!Next
<1>2. CASE UNCHANGED UoW!vars
  BY <1>2 DEF UoW!vars, SessionInv, UoW!TypeOK, UoW!SnapshotCurrent, UoW!LedgerAgrees
<1> QED
  BY <1>1, <1>2

THEOREM UnitOfWorkInvariant == UoW!Spec => []SessionInv
<1> QED
  BY SessionInit, SessionNext, PTL DEF UoW!Spec

\* For every set of rows and requests: a column differs from the sum of the
\* committed changes only if some commit wrote it from a stale read.
THEOREM LedgerAgreesAlways == UoW!Spec => []UoW!LedgerAgrees
<1>1. SessionInv => UoW!LedgerAgrees
  BY DEF SessionInv
<1> QED
  BY <1>1, UnitOfWorkInvariant, PTL

-----------------------------------------------------------------------------
(* The wallet *)

\* What a session holds at each await of its request.
Sessions ==
    \A r \in Request :
        /\ \A x \in Row \ loaded[r] : base[r][x] = 0 /\ delta[r][x] = 0
        /\ pc[r] \in {"new", "code_user"} \cup Final => loaded[r] = {}
        /\ pc[r] \in {"read_cart", "check_items"} => \A x \in Row : delta[r][x] = 0

\* What a checkout has picked is in its session, comes from the cart, and is
\* not owned yet unless another request has written the app's row since.
Picks ==
    /\ \A u \in User, a \in App : cart[u][a] <= InitialCart[u][a]
    /\ \A r \in Request, a \in App :
        /\ bought[r][a] + todo[r][a] <= InitialCart[user[r]][a]
        /\ bought[r][a] + todo[r][a] > 0 =>
             a \in loaded[r] /\ pc[r] \in {"check_items", "pay_publishers"}
        /\ bought[r][a] > 0 /\ a \notin stale[r] => purchases[user[r]][a] = 0
        /\ pc[r] = "pay_publishers" => delta[r][a] = bought[r][a]

IInv == TypeOK /\ Sessions /\ NonNegative /\ Picks /\ DuplicateOnlyByRace

-----------------------------------------------------------------------------
(* The session layer, as facts about single requests *)

TouchEffect(r, S, d) ==
    /\ UoW!TypeOK' /\ UoW!Touches(r)
    /\ db' = db /\ stale' = stale /\ raced' = raced
    /\ loaded'[r] = loaded[r] \cup S
    /\ \A x \in Row : d[x] # 0 => x \in loaded'[r]
    /\ \A x \in Row : delta'[r][x] = delta[r][x] + d[x]
    /\ \A x \in Row : base'[r][x] =
         IF x \in S \ loaded[r] THEN db[x] ELSE base[r][x]
    /\ \A q \in Request \ {r} : /\ loaded'[q] = loaded[q]
                                /\ base'[q] = base[q]
                                /\ delta'[q] = delta[q]

LEMMA TouchFacts ==
    ASSUME UoW!TypeOK, NEW r \in Request, NEW S \in SUBSET Row,
           NEW d \in [Row -> Int], UoW!Touch(r, S, d)
    PROVE  TouchEffect(r, S, d)
<1>1. UoW!Touches(r)
  BY TouchIsTouches
<1>2. loaded' \in [Request -> SUBSET Row] /\ delta' \in [Request -> [Row -> Int]]
  BY DEF UoW!TypeOK, UoW!Touch
<1>3. base' \in [Request -> [Row -> Int]]
  BY DEF UoW!TypeOK, UoW!Touch
<1>4. UoW!TypeOK'
  BY <1>2, <1>3 DEF UoW!TypeOK, UoW!Touch
<1> QED
  BY <1>1, <1>4 DEF TouchEffect, UoW!TypeOK, UoW!Touch

CloseEffect(r) ==
    /\ loaded'[r] = {}
    /\ \A x \in Row : base'[r][x] = 0 /\ delta'[r][x] = 0
    /\ \A q \in Request \ {r} : /\ loaded'[q] = loaded[q]
                                /\ base'[q] = base[q]
                                /\ delta'[q] = delta[q]

LEMMA CloseFacts ==
    ASSUME UoW!TypeOK, NEW r \in Request, UoW!Close(r)
    PROVE  CloseEffect(r)
BY DEF CloseEffect, UoW!TypeOK, UoW!Close, UoW!Zero

CommitEffect(r) ==
    /\ UoW!TypeOK' /\ UoW!Close(r) /\ raced \subseteq raced'
    /\ \A x \in Row : db'[x] = db[x] \/ db'[x] = base[r][x] + delta[r][x]
    /\ \A x \in loaded[r] : delta[r][x] # 0 =>
         /\ x \in stale[r] => x \in raced'
         /\ \A q \in Request \ {r} : x \in loaded[q] => x \in stale'[q]
    /\ \A q \in Request \ {r} : stale[q] \subseteq stale'[q]

LEMMA CommitFacts ==
    ASSUME UoW!TypeOK, NEW r \in Request, UoW!Commit(r)
    PROVE  CommitEffect(r)
<1>1. UoW!Dirty(r) \subseteq Row
  BY DEF UoW!TypeOK, UoW!Dirty
<1>2. UoW!TypeOK'
  BY <1>1 DEF UoW!TypeOK, UoW!Commit, UoW!Close, UoW!Zero
<1> QED
  BY <1>1, <1>2 DEF CommitEffect, UoW!TypeOK, UoW!Commit, UoW!Dirty

RollbackEffect(r) ==
    /\ UoW!TypeOK' /\ UoW!Close(r) /\ db' = db /\ raced' = raced
    /\ \A q \in Request \ {r} : stale'[q] = stale[q]

LEMMA RollbackFacts ==
    ASSUME UoW!TypeOK, NEW r \in Request, UoW!Rollback(r)
    PROVE  RollbackEffect(r)
BY DEF RollbackEffect, UoW!TypeOK, UoW!Rollback, UoW!Close, UoW!Zero

LEMMA Rows == /\ User \subseteq Row /\ App \subseteq Row
              /\ \A x \in App : x \notin User
              /\ UoW!Zero \in [Row -> Int]
              /\ \A u \in User, n \in Int : Plus(u, n) \in [Row -> Int]
BY WalletAssumption DEF Row, UoW!Zero, Plus

LEMMA InitInv == Init => IInv
<1> SUFFICES ASSUME Init PROVE IInv
  OBVIOUS
<1>1. db \in [Row -> Int]
  BY WalletAssumption DEF Init, Row
<1>2. TypeOK
  BY <1>1, WalletAssumption DEF Init, TypeOK, Stage, Final, None, NoEarnings,
                                UoW!TypeOK, UoW!Zero
<1>3. Sessions
  BY DEF Init, Sessions, UoW!Zero
<1>4. NonNegative
  BY WalletAssumption, Rows DEF Init, NonNegative, UoW!Zero
<1>5. Picks
  <2>1. \A u \in User, a \in App : InitialCart[u][a] \in Nat
    BY WalletAssumption
  <2>2. \A r \in Request, a \in App : bought[r][a] = 0 /\ todo[r][a] = 0
    BY DEF Init, None
  <2>3. \A r \in Request : user[r] \in User /\ pc[r] = "new"
    BY DEF Init
  <2>4. cart = InitialCart
    BY DEF Init
  <2> QED
    BY <2>1, <2>2, <2>3, <2>4 DEF Picks
<1>6. DuplicateOnlyByRace
  BY WalletAssumption DEF Init, DuplicateOnlyByRace, None
<1> QED
  BY <1>2, <1>3, <1>4, <1>5, <1>6 DEF IInv

-----------------------------------------------------------------------------
(* What is common to the actions that only touch the session of r *)

\* The part of the invariant that a touch of r leaves to be shown.
LEMMA TouchInv ==
    ASSUME IInv, NEW r \in Request, NEW S \in SUBSET Row, NEW d \in [Row -> Int],
           UoW!Touch(r, S, d), pc' \in [Request -> Stage],
           \A q \in Request \ {r} : pc'[q] = pc[q],
           pc'[r] \notin {"new", "code_user"} \cup Final,
           pc'[r] \in {"read_cart", "check_items"} =>
             \A x \in Row : delta[r][x] + d[x] = 0,
           \A u \in User :
             (IF u \in S \ loaded[r] THEN db[u] ELSE base[r][u])
               + delta[r][u] + d[u] >= 0
    PROVE  UoW!TypeOK' /\ Sessions' /\ NonNegative'
<1>1. UoW!TypeOK /\ Sessions /\ NonNegative
  BY DEF IInv, TypeOK
<1>4. TouchEffect(r, S, d)
  BY <1>1, TouchFacts
<1>2. Sessions'
  <2> SUFFICES ASSUME NEW q \in Request
      PROVE  /\ \A x \in Row \ loaded'[q] : base'[q][x] = 0 /\ delta'[q][x] = 0
             /\ pc'[q] \in {"new", "code_user"} \cup Final => loaded'[q] = {}
             /\ pc'[q] \in {"read_cart", "check_items"} =>
                  \A x \in Row : delta'[q][x] = 0
    BY DEF Sessions
  <2>1. CASE q = r
    <3>1. ASSUME NEW x \in Row \ loaded'[r]
          PROVE  base'[r][x] = 0 /\ delta'[r][x] = 0
      <4>1. x \notin S /\ x \notin loaded[r] /\ d[x] = 0
        BY <3>1, <1>4 DEF TouchEffect
      <4>2. base[r][x] = 0 /\ delta[r][x] = 0
        BY <1>1, <4>1 DEF Sessions
      <4> QED
        BY <4>1, <4>2, <1>4 DEF TouchEffect
    <3>2. \A x \in Row : delta'[r][x] = delta[r][x] + d[x]
      BY <1>4 DEF TouchEffect
    <3> QED
      BY <2>1, <3>1, <3>2
  <2>2. CASE q # r
    BY <1>1, <1>4, <2>2 DEF Sessions, TouchEffect
  <2> QED
    BY <2>1, <2>2
<1>3. NonNegative'
  <2>1. db' = db
    BY <1>4 DEF TouchEffect
  <2>2. ASSUME NEW q \in Request, NEW u \in User
        PROVE  base'[q][u] + delta'[q][u] >= 0
    <3>1. CASE q = r
      <4>1. /\ base'[r][u] = IF u \in S \ loaded[r] THEN db[u] ELSE base[r][u]
            /\ delta'[r][u] = delta[r][u] + d[u]
        BY <1>4, Rows DEF TouchEffect
      <4>2. /\ db[u] \in Int /\ base[r][u] \in Int
            /\ delta[r][u] \in Int /\ d[u] \in Int
        BY <1>1, Rows DEF UoW!TypeOK
      <4> QED
        BY <3>1, <4>1, <4>2
    <3>2. CASE q # r
      BY <1>1, <1>4, <3>2 DEF NonNegative, TouchEffect
    <3> QED
      BY <3>1, <3>2
  <2> QED
    BY <1>1, <2>1, <2>2 DEF NonNegative
<1> QED
  BY <1>4, <1>2, <1>3 DEF TouchEffect

\* A request whose session is closed: nothing of it is left behind.
LEMMA CloseInv ==
    ASSUME IInv, NEW r \in Request, NEW final \in Final, UoW!Close(r),
           pc' = [pc EXCEPT ![r] = final],
           \A u \in User : db'[u] = db[u] \/ db'[u] = base[r][u] + delta[r][u]
    PROVE  Sessions' /\ NonNegative'
<1>3. UoW!TypeOK /\ Sessions /\ NonNegative /\ pc \in [Request -> Stage]
  BY DEF IInv, TypeOK
<1>4. CloseEffect(r)
  BY <1>3, CloseFacts
<1>1. Sessions'
  <2> SUFFICES ASSUME NEW q \in Request
      PROVE  /\ \A x \in Row \ loaded'[q] : base'[q][x] = 0 /\ delta'[q][x] = 0
             /\ pc'[q] \in {"new", "code_user"} \cup Final => loaded'[q] = {}
             /\ pc'[q] \in {"read_cart", "check_items"} =>
                  \A x \in Row : delta'[q][x] = 0
    BY DEF Sessions
  <2>1. CASE q = r
    BY <1>3, <1>4, <2>1 DEF CloseEffect, Final
  <2>2. CASE q # r
    BY <1>3, <1>4, <2>2 DEF CloseEffect, Sessions
  <2> QED
    BY <2>1, <2>2
<1>2. NonNegative'
  <2>1. ASSUME NEW u \in User PROVE db'[u] >= 0
    BY <1>3 DEF NonNegative
  <2>2. ASSUME NEW q \in Request, NEW u \in User
        PROVE  base'[q][u] + delta'[q][u] >= 0
    <3>1. u \in Row
      BY Rows
    <3> QED
      BY <1>3, <1>4, <3>1 DEF CloseEffect, NonNegative
  <2> QED
    BY <2>1, <2>2 DEF NonNegative
<1> QED
  BY <1>1, <1>2

\* The checkout part: r forgets its locals, the others keep theirs.
LEMMA ForgetPicks ==
    ASSUME IInv, NEW r \in Request, NEW final \in Final,
           UoW!Close(r), ForgetCheckout(r), UNCHANGED user,
           pc' = [pc EXCEPT ![r] = final],
           \A u \in User, a \in App :
             cart'[u][a] = cart[u][a] \/ cart'[u][a] = 0,
           \A q \in Request \ {r} : stale[q] \subseteq stale'[q],
           \A q \in Request \ {r}, a \in App :
             bought[q][a] > 0 /\ a \notin stale'[q] =>
               purchases'[user[q]][a] = purchases[user[q]][a]
    PROVE  Picks'
<1>4. TypeOK /\ UoW!TypeOK /\ Picks
  BY DEF IInv, TypeOK
<1>5. CloseEffect(r)
  BY <1>4, CloseFacts
<1>1. \A u \in User, a \in App : InitialCart[u][a] \in Nat
  BY WalletAssumption
<1>2. \A u \in User, a \in App : cart'[u][a] <= InitialCart[u][a]
  BY <1>1, <1>4 DEF Picks
<1>3. ASSUME NEW q \in Request, NEW a \in App
      PROVE  /\ bought'[q][a] + todo'[q][a] <= InitialCart[user'[q]][a]
             /\ bought'[q][a] + todo'[q][a] > 0 =>
                  a \in loaded'[q] /\ pc'[q] \in {"check_items", "pay_publishers"}
             /\ bought'[q][a] > 0 /\ a \notin stale'[q] =>
                  purchases'[user'[q]][a] = 0
             /\ pc'[q] = "pay_publishers" => delta'[q][a] = bought'[q][a]
  <2>1. CASE q = r
    <3>1. bought'[r][a] = 0 /\ todo'[r][a] = 0 /\ pc'[r] \in Final
      BY <1>4 DEF ForgetCheckout, None, TypeOK
    <3> QED
      BY <1>1, <1>4, <2>1, <3>1 DEF TypeOK, Final
  <2>2. CASE q # r
    <3>1. /\ bought'[q] = bought[q] /\ todo'[q] = todo[q] /\ pc'[q] = pc[q]
          /\ loaded'[q] = loaded[q] /\ delta'[q] = delta[q] /\ user'[q] = user[q]
      BY <1>4, <1>5, <2>2 DEF ForgetCheckout, CloseEffect, TypeOK
    <3> QED
      BY <1>4, <2>2, <3>1 DEF Picks
  <2> QED
    BY <2>1, <2>2
<1> QED
  BY <1>2, <1>3 DEF Picks

\* What a touch of r leaves of the checkout part, when it moves no item.
LEMMA TouchPicks ==
    ASSUME IInv, NEW r \in Request, NEW S, NEW d, TouchEffect(r, S, d),
           UNCHANGED <<user, todo, bought, cart, purchases>>,
           \A q \in Request \ {r} : pc'[q] = pc[q],
           \A a \in App : bought[r][a] + todo[r][a] > 0 =>
             pc'[r] \in {"check_items", "pay_publishers"},
           pc'[r] = "pay_publishers" =>
             \A a \in App : delta'[r][a] = bought[r][a]
    PROVE  Picks' /\ DuplicateOnlyByRace'
<1>1. Picks /\ DuplicateOnlyByRace /\ stale' = stale /\ raced' = raced
  BY DEF IInv, TouchEffect
<1>2. ASSUME NEW q \in Request, NEW a \in App
      PROVE  /\ bought'[q][a] + todo'[q][a] <= InitialCart[user'[q]][a]
             /\ bought'[q][a] + todo'[q][a] > 0 =>
                  a \in loaded'[q] /\ pc'[q] \in {"check_items", "pay_publishers"}
             /\ bought'[q][a] > 0 /\ a \notin stale'[q] =>
                  purchases'[user'[q]][a] = 0
             /\ pc'[q] = "pay_publishers" => delta'[q][a] = bought'[q][a]
  <2>1. CASE q = r
    BY <1>1, <2>1 DEF Picks, TouchEffect
  <2>2. CASE q # r
    BY <1>1, <2>2 DEF Picks, TouchEffect
  <2> QED
    BY <2>1, <2>2
<1>3. Picks'
  BY <1>1, <1>2 DEF Picks
<1>4. DuplicateOnlyByRace'
  BY <1>1 DEF DuplicateOnlyByRace
<1> QED
  BY <1>3, <1>4

\* A request at its first await, or between two calls of Redis, has an empty
\* session; outside a checkout it has picked nothing.
LEMMA Fresh ==
    ASSUME IInv, NEW r \in Request, pc[r] \in {"new", "code_user"} \cup Final
    PROVE  /\ loaded[r] = {}
           /\ \A x \in Row : base[r][x] = 0 /\ delta[r][x] = 0
BY DEF IInv, Sessions

LEMMA PickedNothing ==
    ASSUME IInv, NEW r \in Request, pc[r] \notin {"check_items", "pay_publishers"}
    PROVE  \A a \in App : ~(bought[r][a] + todo[r][a] > 0)
BY DEF IInv, Picks

-----------------------------------------------------------------------------
(* One lemma per action *)

LEMMA TransferInv ==
    ASSUME IInv, NEW r \in Request, NEW n \in Amount,
           CreateTransferToBalance(r, n) \/ CreateTransferToCard(r, n)
    PROVE  IInv'
<1>1. n \in Nat /\ user[r] \in User
  BY WalletAssumption DEF IInv, TypeOK
<1> DEFINE S == {user[r]}
<1>2. PICK m \in {n, -n} : /\ UoW!Touch(r, S, Plus(user[r], m))
                           /\ db[user[r]] + m >= 0
  <2>1. db[user[r]] \in Int /\ db[user[r]] >= 0
    BY <1>1, Rows DEF IInv, TypeOK, NonNegative, UoW!TypeOK
  <2> QED
    BY <1>1, <2>1 DEF CreateTransferToBalance, CreateTransferToCard
<1> DEFINE d == Plus(user[r], m)
<1>3. d \in [Row -> Int] /\ S \in SUBSET Row
  BY <1>1, Rows
<1>4. /\ pc[r] = "new" /\ pc' = [pc EXCEPT ![r] = "commit_transfer"]
      /\ UNCHANGED <<user, code, checkoutVars, storeVars, codeVars, inflow>>
  BY DEF CreateTransferToBalance, CreateTransferToCard, Goto
<1>5. UoW!TypeOK' /\ Sessions' /\ NonNegative'
  <2>1. ASSUME NEW u \in User
        PROVE  (IF u \in S \ loaded[r] THEN db[u] ELSE base[r][u])
                 + delta[r][u] + d[u] >= 0
    <3>1. /\ loaded[r] = {} /\ base[r][u] = 0 /\ delta[r][u] = 0 /\ u \in Row
      BY <1>4, Fresh, Rows
    <3>2. d[u] = IF u = user[r] THEN m ELSE 0
      BY <3>1 DEF Plus
    <3>3. db[u] \in Int /\ m \in Int
      BY <1>1, <3>1 DEF IInv, TypeOK, UoW!TypeOK
    <3> QED
      BY <1>2, <3>1, <3>2, <3>3
  <2>2. pc' \in [Request -> Stage] /\ pc'[r] = "commit_transfer"
    BY <1>4 DEF IInv, TypeOK, Stage, Final
  <2> HIDE DEF S, d
  <2> QED
    BY <1>2, <1>3, <1>4, <2>1, <2>2, TouchInv DEF d, Final
<1>6. TouchEffect(r, S, d)
  BY <1>2, <1>3, TouchFacts DEF IInv, TypeOK
<1>7. Picks' /\ DuplicateOnlyByRace'
  <2>1. \A a \in App : ~(bought[r][a] + todo[r][a] > 0)
    BY <1>4, PickedNothing
  <2>2. pc'[r] = "commit_transfer" /\ \A q \in Request \ {r} : pc'[q] = pc[q]
    BY <1>4 DEF IInv, TypeOK
  <2> HIDE DEF S, d
  <2> QED
    BY <1>4, <1>6, <2>1, <2>2, TouchPicks DEF checkoutVars, storeVars
<1>8. TypeOK'
  BY <1>4, <1>5 DEF IInv, TypeOK, Stage, Final, checkoutVars, storeVars, codeVars
<1> QED
  BY <1>5, <1>7, <1>8 DEF IInv

LEMMA AddPromoAmountInv ==
    ASSUME IInv, NEW r \in Request, AddPromoAmount(r)
    PROVE  IInv'
<1>1. CodeValue \in Nat /\ user[r] \in User
  BY WalletAssumption DEF IInv, TypeOK
<1> DEFINE S == {user[r]}
<1> DEFINE d == Plus(user[r], CodeValue)
<1>2. UoW!Touch(r, S, d)
  BY DEF AddPromoAmount
<1>3. d \in [Row -> Int] /\ S \in SUBSET Row
  BY <1>1, Rows
<1>4. /\ pc[r] = "code_user" /\ pc' = [pc EXCEPT ![r] = "code_delete"]
      /\ UNCHANGED <<user, code, checkoutVars, storeVars, codeVars, inflow>>
  BY DEF AddPromoAmount, Goto
<1>5. UoW!TypeOK' /\ Sessions' /\ NonNegative'
  <2>1. ASSUME NEW u \in User
        PROVE  (IF u \in S \ loaded[r] THEN db[u] ELSE base[r][u])
                 + delta[r][u] + d[u] >= 0
    <3>1. /\ loaded[r] = {} /\ base[r][u] = 0 /\ delta[r][u] = 0 /\ u \in Row
      BY <1>4, Fresh, Rows
    <3>2. d[u] = IF u = user[r] THEN CodeValue ELSE 0
      BY <3>1 DEF Plus
    <3>3. db[u] \in Int /\ db[u] >= 0
      BY <3>1 DEF IInv, TypeOK, NonNegative, UoW!TypeOK
    <3> QED
      BY <1>1, <3>1, <3>2, <3>3
  <2>2. pc' \in [Request -> Stage] /\ pc'[r] = "code_delete"
    BY <1>4 DEF IInv, TypeOK, Stage, Final
  <2> HIDE DEF S, d
  <2> QED
    BY <1>2, <1>3, <1>4, <2>1, <2>2, TouchInv DEF Final
<1>6. TouchEffect(r, S, d)
  BY <1>2, <1>3, TouchFacts DEF IInv, TypeOK
<1>7. Picks' /\ DuplicateOnlyByRace'
  <2>1. \A a \in App : ~(bought[r][a] + todo[r][a] > 0)
    BY <1>4, PickedNothing
  <2>2. pc'[r] = "code_delete" /\ \A q \in Request \ {r} : pc'[q] = pc[q]
    BY <1>4 DEF IInv, TypeOK
  <2> HIDE DEF S, d
  <2> QED
    BY <1>4, <1>6, <2>1, <2>2, TouchPicks DEF checkoutVars, storeVars
<1>8. TypeOK'
  BY <1>4, <1>5 DEF IInv, TypeOK, Stage, Final, checkoutVars, storeVars, codeVars
<1> QED
  BY <1>5, <1>7, <1>8 DEF IInv

LEMMA StartCheckoutInv ==
    ASSUME IInv, NEW r \in Request, StartCheckout(r)
    PROVE  IInv'
<1> DEFINE S == {user[r]}
<1> DEFINE d == UoW!Zero
<1>2. UoW!Touch(r, S, d)
  BY DEF StartCheckout
<1>3. d \in [Row -> Int] /\ S \in SUBSET Row /\ \A x \in Row : d[x] = 0
  BY Rows DEF IInv, TypeOK, UoW!Zero
<1>4. /\ pc[r] = "new" /\ pc' = [pc EXCEPT ![r] = "read_cart"]
      /\ UNCHANGED <<user, code, checkoutVars, storeVars, codeVars, inflow>>
  BY DEF StartCheckout, Goto
<1>5. UoW!TypeOK' /\ Sessions' /\ NonNegative'
  <2>1. loaded[r] = {} /\ \A x \in Row : base[r][x] = 0 /\ delta[r][x] = 0
    BY <1>4, Fresh
  <2>2. \A u \in User : db[u] \in Int /\ db[u] >= 0
    BY Rows DEF IInv, TypeOK, NonNegative, UoW!TypeOK
  <2>3. \A u \in User : (IF u \in S \ loaded[r] THEN db[u] ELSE base[r][u])
                           + delta[r][u] + d[u] >= 0
    BY <1>3, <2>1, <2>2, Rows
  <2>4. \A x \in Row : delta[r][x] + d[x] = 0
    BY <1>3, <2>1
  <2>5. pc' \in [Request -> Stage] /\ pc'[r] = "read_cart"
    BY <1>4 DEF IInv, TypeOK, Stage, Final
  <2> HIDE DEF S, d
  <2> QED
    BY <1>2, <1>3, <1>4, <2>3, <2>4, <2>5, TouchInv DEF Final
<1>6. TouchEffect(r, S, d)
  BY <1>2, <1>3, TouchFacts DEF IInv, TypeOK
<1>7. Picks' /\ DuplicateOnlyByRace'
  <2>1. \A a \in App : ~(bought[r][a] + todo[r][a] > 0)
    BY <1>4, PickedNothing
  <2>2. pc'[r] = "read_cart" /\ \A q \in Request \ {r} : pc'[q] = pc[q]
    BY <1>4 DEF IInv, TypeOK
  <2> HIDE DEF S, d
  <2> QED
    BY <1>4, <1>6, <2>1, <2>2, TouchPicks DEF checkoutVars, storeVars
<1>8. TypeOK'
  BY <1>4, <1>5 DEF IInv, TypeOK, Stage, Final, checkoutVars, storeVars, codeVars
<1> QED
  BY <1>5, <1>7, <1>8 DEF IInv

LEMMA ReadCartInv ==
    ASSUME IInv, NEW r \in Request, ReadCart(r)
    PROVE  IInv'
<1> DEFINE items == cart[user[r]]
<1> DEFINE S == {a \in App : items[a] > 0}
<1> DEFINE d == UoW!Zero
<1>1. user[r] \in User /\ items \in [App -> Nat]
  BY DEF IInv, TypeOK
<1>2. UoW!Touch(r, S, d)
  BY DEF ReadCart
<1>3. d \in [Row -> Int] /\ S \in SUBSET Row /\ \A x \in Row : d[x] = 0
  BY Rows DEF UoW!Zero
<1>4. /\ pc[r] = "read_cart" /\ pc' = [pc EXCEPT ![r] = "check_items"]
      /\ todo' = [todo EXCEPT ![r] = items]
      /\ UNCHANGED <<user, code, bought, total, earned, unpaid,
                     storeVars, codeVars, inflow>>
  BY DEF ReadCart, Goto
<1>5. UoW!TypeOK' /\ Sessions' /\ NonNegative'
  <2>1. \A x \in Row : delta[r][x] = 0
    BY <1>4 DEF IInv, Sessions
  <2>2. ASSUME NEW u \in User
        PROVE  (IF u \in S \ loaded[r] THEN db[u] ELSE base[r][u])
                 + delta[r][u] + d[u] >= 0
    <3>1. u \in Row /\ u \notin S
      BY Rows
    <3>2. base[r][u] + delta[r][u] >= 0 /\ base[r][u] \in Int
      BY <3>1 DEF IInv, TypeOK, NonNegative, UoW!TypeOK
    <3> QED
      BY <1>3, <2>1, <3>1, <3>2
  <2>3. \A x \in Row : delta[r][x] + d[x] = 0
    BY <1>3, <2>1
  <2>4. pc' \in [Request -> Stage] /\ pc'[r] = "check_items"
    BY <1>4 DEF IInv, TypeOK, Stage, Final
  <2>5. \A q \in Request \ {r} : pc'[q] = pc[q]
    BY <1>4 DEF IInv, TypeOK
  <2> HIDE DEF S, d
  <2> QED
    BY <1>2, <1>3, <2>2, <2>3, <2>4, <2>5, TouchInv DEF Final
<1>6. TouchEffect(r, S, d)
  BY <1>2, <1>3, TouchFacts DEF IInv, TypeOK
<1>7. Picks'
  <2>1. Picks /\ stale' = stale /\ UNCHANGED <<cart, purchases, user, bought>>
    BY <1>4, <1>6 DEF IInv, TouchEffect, storeVars
  <2>2. ASSUME NEW q \in Request, NEW a \in App
        PROVE  /\ bought'[q][a] + todo'[q][a] <= InitialCart[user'[q]][a]
               /\ bought'[q][a] + todo'[q][a] > 0 =>
                    a \in loaded'[q] /\ pc'[q] \in {"check_items", "pay_publishers"}
               /\ bought'[q][a] > 0 /\ a \notin stale'[q] =>
                    purchases'[user'[q]][a] = 0
               /\ pc'[q] = "pay_publishers" => delta'[q][a] = bought'[q][a]
    <3>1. CASE q = r
      <4>1. bought[r][a] = 0
        <5>1. ~(bought[r][a] + todo[r][a] > 0)
          BY <1>4, PickedNothing
        <5>2. bought[r][a] \in Nat /\ todo[r][a] \in Nat
          BY DEF IInv, TypeOK
        <5> QED
          BY <5>1, <5>2
      <4>2. todo'[r][a] = items[a] /\ items[a] \in Nat /\ pc'[r] = "check_items"
        BY <1>1, <1>4 DEF IInv, TypeOK
      <4>3. items[a] <= InitialCart[user[r]][a]
        BY <1>1, <2>1 DEF Picks
      <4>4. items[a] > 0 => a \in loaded'[r]
        BY <1>6 DEF TouchEffect
      <4> QED
        BY <2>1, <3>1, <4>1, <4>2, <4>3, <4>4
    <3>2. CASE q # r
      <4>1. /\ todo'[q] = todo[q] /\ pc'[q] = pc[q]
            /\ loaded'[q] = loaded[q] /\ delta'[q] = delta[q]
        BY <1>4, <1>6, <3>2 DEF IInv, TypeOK, TouchEffect
      <4> QED
        BY <2>1, <4>1 DEF Picks
    <3> QED
      BY <3>1, <3>2
  <2> QED
    BY <2>1, <2>2 DEF Picks
<1>8. TypeOK'
  BY <1>1, <1>4, <1>5 DEF IInv, TypeOK, Stage, Final, storeVars, codeVars
<1>9. DuplicateOnlyByRace'
  BY <1>4, <1>6 DEF IInv, DuplicateOnlyByRace, TouchEffect, storeVars
<1> QED
  BY <1>5, <1>7, <1>8, <1>9 DEF IInv

\* The charge is covered by the balance the session read, so the pending
\* balance of the buyer stays non-negative.
LEMMA ChargeInv ==
    ASSUME IInv, NEW r \in Request, Charge(r)
    PROVE  IInv'
<1> DEFINE d == [x \in Row |-> IF x = user[r] THEN -total[r]
                               ELSE IF x \in App THEN bought[r][x] ELSE 0]
<1>1. /\ user[r] \in User /\ total[r] \in Nat /\ bought[r] \in [App -> Nat]
      /\ base[r][user[r]] >= total[r]
  BY DEF IInv, TypeOK, Charge
<1>2. UoW!Touch(r, {}, d)
  BY DEF Charge
<1>3. d \in [Row -> Int]
  BY <1>1, Rows
<1>4. /\ pc[r] = "check_items" /\ pc' = [pc EXCEPT ![r] = "pay_publishers"]
      /\ unpaid' = [unpaid EXCEPT ![r] =
                      {Publisher[a] : a \in {b \in App : bought[r][b] > 0}}]
      /\ UNCHANGED <<user, code, todo, bought, total, earned,
                     storeVars, codeVars, inflow>>
  BY DEF Charge, Goto
<1>5. \A x \in Row : delta[r][x] = 0
  BY <1>4 DEF IInv, Sessions
<1>6. UoW!TypeOK' /\ Sessions' /\ NonNegative'
  <2>1. ASSUME NEW u \in User
        PROVE  (IF u \in {} \ loaded[r] THEN db[u] ELSE base[r][u])
                 + delta[r][u] + d[u] >= 0
    <3>1. u \in Row /\ u \notin App
      BY Rows
    <3>2. base[r][u] + delta[r][u] >= 0 /\ base[r][u] \in Int
      BY <3>1 DEF IInv, TypeOK, NonNegative, UoW!TypeOK
    <3>3. d[u] = IF u = user[r] THEN -total[r] ELSE 0
      BY <3>1
    <3>4. delta[r][u] = 0
      BY <1>5, <3>1
    <3> HIDE DEF d
    <3> QED
      BY <1>1, <3>2, <3>3, <3>4
  <2>2. pc' \in [Request -> Stage] /\ pc'[r] = "pay_publishers"
    BY <1>4 DEF IInv, TypeOK, Stage, Final
  <2>3. \A q \in Request \ {r} : pc'[q] = pc[q]
    BY <1>4 DEF IInv, TypeOK
  <2> HIDE DEF d
  <2> QED
    BY <1>2, <1>3, <2>1, <2>2, <2>3, TouchInv DEF Final
<1>7. TouchEffect(r, {}, d)
  BY <1>2, <1>3, TouchFacts DEF IInv, TypeOK
<1>8. Picks' /\ DuplicateOnlyByRace'
  <2>1. \A a \in App : delta'[r][a] = bought[r][a]
    <3>1. \A a \in App : a \in Row /\ a # user[r]
      BY <1>1, Rows
    <3>2. \A a \in App : d[a] = bought[r][a]
      BY <3>1
    <3>3. \A a \in App : delta'[r][a] = delta[r][a] + d[a]
      BY <1>7, <3>1 DEF TouchEffect
    <3>4. \A a \in App : delta[r][a] = 0 /\ bought[r][a] \in Nat
      BY <1>1, <1>5, <3>1
    <3> HIDE DEF d
    <3> QED
      BY <3>2, <3>3, <3>4
  <2>2. pc'[r] = "pay_publishers" /\ \A q \in Request \ {r} : pc'[q] = pc[q]
    BY <1>4 DEF IInv, TypeOK
  <2> HIDE DEF d
  <2> QED
    BY <1>4, <1>7, <2>1, <2>2, TouchPicks DEF storeVars
<1>9. TypeOK'
  <2>1. \A a \in App : Publisher[a] \in User
    BY WalletAssumption
  <2>2. unpaid' \in [Request -> SUBSET User]
    BY <1>4, <2>1 DEF IInv, TypeOK
  <2> QED
    BY <1>4, <1>6, <2>2 DEF IInv, TypeOK, Stage, Final, storeVars, codeVars
<1> QED
  BY <1>6, <1>8, <1>9 DEF IInv

LEMMA PayPublisherInv ==
    ASSUME IInv, NEW r \in Request, NEW p \in User, PayPublisher(r, p)
    PROVE  IInv'
<1> DEFINE S == {p}
<1> DEFINE d == Plus(p, earned[r][p])
<1>1. earned[r][p] \in Nat
  BY DEF IInv, TypeOK
<1>2. UoW!Touch(r, S, d)
  BY DEF PayPublisher
<1>3. d \in [Row -> Int] /\ S \in SUBSET Row
  BY <1>1, Rows
<1>4. /\ pc[r] = "pay_publishers" /\ unpaid' = [unpaid EXCEPT ![r] = @ \ {p}]
      /\ UNCHANGED <<pc, user, code, todo, bought, total, earned,
                     storeVars, codeVars, inflow>>
  BY DEF PayPublisher
<1>5. \A u \in Row : d[u] = IF u = p THEN earned[r][p] ELSE 0
  BY DEF Plus
<1>6. UoW!TypeOK' /\ Sessions' /\ NonNegative'
  <2>1. ASSUME NEW u \in User
        PROVE  (IF u \in S \ loaded[r] THEN db[u] ELSE base[r][u])
                 + delta[r][u] + d[u] >= 0
    <3>1. u \in Row
      BY Rows
    <3>2. /\ db[u] \in Int /\ db[u] >= 0
          /\ base[r][u] \in Int /\ delta[r][u] \in Int
          /\ base[r][u] + delta[r][u] >= 0
      BY <3>1 DEF IInv, TypeOK, NonNegative, UoW!TypeOK
    <3>3. u \notin loaded[r] => delta[r][u] = 0
      BY <3>1 DEF IInv, Sessions
    <3>4. d[u] \in Nat
      BY <1>1, <1>5, <3>1
    <3> HIDE DEF d
    <3> QED
      BY <3>2, <3>3, <3>4
  <2>2. pc' \in [Request -> Stage] /\ pc'[r] = "pay_publishers"
    BY <1>4 DEF IInv, TypeOK
  <2> HIDE DEF S, d
  <2> QED
    BY <1>2, <1>3, <1>4, <2>1, <2>2, TouchInv DEF Final
<1>7. TouchEffect(r, S, d)
  BY <1>2, <1>3, TouchFacts DEF IInv, TypeOK
<1>8. Picks' /\ DuplicateOnlyByRace'
  <2>1. \A a \in App : delta'[r][a] = bought[r][a]
    <3>1. \A a \in App : a \in Row /\ a # p
      BY Rows
    <3>2. \A a \in App : d[a] = 0
      BY <1>5, <3>1
    <3>3. \A a \in App : delta'[r][a] = delta[r][a] + d[a]
      BY <1>7, <3>1 DEF TouchEffect
    <3>4. \A a \in App : delta[r][a] = bought[r][a] /\ bought[r][a] \in Nat
      BY <1>4 DEF IInv, TypeOK, Picks
    <3> HIDE DEF d
    <3> QED
      BY <3>2, <3>3, <3>4
  <2> HIDE DEF S, d
  <2> QED
    BY <1>4, <1>7, <2>1, TouchPicks DEF storeVars
<1>9. TypeOK'
  BY <1>4, <1>6 DEF IInv, TypeOK, storeVars, codeVars
<1> QED
  BY <1>6, <1>8, <1>9 DEF IInv

\* The Redis steps of an activation, and expiry, leave every session alone.
LEMMA PromoKeyInv ==
    ASSUME IInv,
           \/ \E r \in Request : GetPromoCode(r) \/ DeletePromoCode(r)
           \/ \E c \in Code : ExpirePromoCode(c)
    PROVE  IInv'
<1>1. UNCHANGED <<session, user, checkoutVars, storeVars>>
  BY DEF GetPromoCode, DeletePromoCode, ExpirePromoCode
<1>2. TypeOK'
  <2>1. UoW!TypeOK'
    BY <1>1 DEF IInv, TypeOK, UoW!TypeOK, session
  <2> QED
    BY <1>1, <2>1 DEF IInv, TypeOK, Stage, Final, GetPromoCode, DeletePromoCode,
         ExpirePromoCode, Goto, checkoutVars, storeVars, codeVars
<1>3. ASSUME NEW q \in Request
      PROVE  \/ pc'[q] = pc[q]
             \/ pc[q] = "new" /\ pc'[q] = "code_user"
             \/ pc[q] = "code_delete" /\ pc'[q] = "commit_code"
  BY DEF IInv, TypeOK, GetPromoCode, DeletePromoCode, ExpirePromoCode, Goto
<1>4. Sessions'
  BY <1>1, <1>3 DEF IInv, Sessions, session, Final
<1>5. NonNegative' /\ DuplicateOnlyByRace'
  BY <1>1 DEF IInv, NonNegative, DuplicateOnlyByRace, session, storeVars
<1>6. Picks'
  BY <1>1, <1>3 DEF IInv, Picks, session, storeVars, checkoutVars
<1> QED
  BY <1>2, <1>4, <1>5, <1>6 DEF IInv

LEMMA SkipPurchasedInv ==
    ASSUME IInv, NEW r \in Request, NEW a \in App, SkipPurchased(r, a)
    PROVE  IInv'
<1>1. /\ UNCHANGED <<session, pc, user, bought, storeVars>>
      /\ todo' = [todo EXCEPT ![r][a] = @ - 1] /\ todo[r][a] > 0
  BY DEF SkipPurchased
<1>2. todo' \in [Request -> [App -> Nat]]
  BY <1>1 DEF IInv, TypeOK
<1>3. TypeOK'
  <2>1. UoW!TypeOK'
    BY <1>1 DEF IInv, TypeOK, UoW!TypeOK, session
  <2> QED
    BY <1>1, <1>2, <2>1 DEF IInv, TypeOK, SkipPurchased, storeVars, codeVars
<1>4. Sessions' /\ NonNegative' /\ DuplicateOnlyByRace'
  BY <1>1 DEF IInv, Sessions, NonNegative, DuplicateOnlyByRace, session, storeVars
<1>5. Picks'
  <2>1. ASSUME NEW q \in Request, NEW b \in App
        PROVE  /\ todo'[q][b] <= todo[q][b]
               /\ todo'[q][b] \in Nat /\ todo[q][b] \in Nat /\ bought[q][b] \in Nat
               /\ InitialCart[user[q]][b] \in Nat
    BY <1>1, <1>2, WalletAssumption DEF IInv, TypeOK
  <2>2. Picks /\ UNCHANGED <<loaded, stale, delta, cart, purchases, pc, user, bought>>
    BY <1>1 DEF IInv, session, storeVars
  <2>3. ASSUME NEW q \in Request, NEW b \in App
        PROVE  /\ bought'[q][b] + todo'[q][b] <= InitialCart[user'[q]][b]
               /\ bought'[q][b] + todo'[q][b] > 0 =>
                    b \in loaded'[q] /\ pc'[q] \in {"check_items", "pay_publishers"}
    <3>1. /\ bought[q][b] + todo[q][b] <= InitialCart[user[q]][b]
          /\ bought[q][b] + todo[q][b] > 0 =>
               b \in loaded[q] /\ pc[q] \in {"check_items", "pay_publishers"}
      BY <2>2 DEF Picks
    <3> QED
      BY <2>1, <2>2, <3>1
  <2> QED
    BY <2>2, <2>3 DEF Picks
<1> QED
  BY <1>3, <1>4, <1>5 DEF IInv

LEMMA PickItemInv ==
    ASSUME IInv, NEW r \in Request, NEW a \in App, PickItem(r, a)
    PROVE  IInv'
<1>1. /\ UNCHANGED <<session, pc, user, storeVars, unpaid>>
      /\ todo' = [todo EXCEPT ![r][a] = @ - 1] /\ todo[r][a] > 0
      /\ bought' = [bought EXCEPT ![r][a] = @ + 1]
      /\ pc[r] = "check_items" /\ purchases[user[r]][a] = 0
  BY DEF PickItem
<1>2. todo' \in [Request -> [App -> Nat]] /\ bought' \in [Request -> [App -> Nat]]
  BY <1>1 DEF IInv, TypeOK
<1>3. TypeOK'
  <2>1. UoW!TypeOK'
    BY <1>1 DEF IInv, TypeOK, UoW!TypeOK, session
  <2>2. Price[a] \in Nat /\ Publisher[a] \in User
    BY WalletAssumption
  <2>3. total' \in [Request -> Nat] /\ earned' \in [Request -> [User -> Nat]]
    BY <2>2 DEF IInv, TypeOK, PickItem
  <2> QED
    BY <1>1, <1>2, <2>1, <2>3 DEF IInv, TypeOK, PickItem, storeVars, codeVars
<1>4. Sessions' /\ NonNegative' /\ DuplicateOnlyByRace'
  BY <1>1 DEF IInv, Sessions, NonNegative, DuplicateOnlyByRace, session, storeVars
<1>5. Picks'
  <2>1. Picks /\ UNCHANGED <<loaded, stale, delta, cart, purchases, pc, user>>
    BY <1>1 DEF IInv, session, storeVars
  <2>2. ASSUME NEW q \in Request, NEW b \in App
        PROVE  /\ bought'[q][b] + todo'[q][b] <= InitialCart[user'[q]][b]
               /\ bought'[q][b] + todo'[q][b] > 0 =>
                    b \in loaded'[q] /\ pc'[q] \in {"check_items", "pay_publishers"}
               /\ bought'[q][b] > 0 /\ b \notin stale'[q] =>
                    purchases'[user'[q]][b] = 0
               /\ pc'[q] = "pay_publishers" => delta'[q][b] = bought'[q][b]
    <3>1. CASE q = r /\ b = a
      <4>1. /\ bought'[r][a] = bought[r][a] + 1 /\ todo'[r][a] = todo[r][a] - 1
            /\ bought[r][a] \in Nat /\ todo[r][a] \in Nat
        BY <1>1 DEF IInv, TypeOK
      <4>2. /\ bought[r][a] + todo[r][a] <= InitialCart[user[r]][a]
            /\ a \in loaded[r]
        <5>1. bought[r][a] + todo[r][a] > 0
          BY <1>1, <4>1
        <5> QED
          BY <2>1, <5>1 DEF Picks
      <4> QED
        BY <1>1, <2>1, <3>1, <4>1, <4>2
    <3>2. CASE ~(q = r /\ b = a)
      <4>1. bought'[q][b] = bought[q][b] /\ todo'[q][b] = todo[q][b]
        BY <1>1, <3>2 DEF IInv, TypeOK
      <4> QED
        BY <2>1, <4>1 DEF Picks
    <3> QED
      BY <3>1, <3>2
  <2> QED
    BY <2>1, <2>2 DEF Picks
<1> QED
  BY <1>3, <1>4, <1>5 DEF IInv

LEMMA LeaveInv ==
    ASSUME IInv, NEW r \in Request, NEW stage, NEW final \in Final,
           Leave(r, stage, final)
    PROVE  IInv'
<1>1. /\ pc' = [pc EXCEPT ![r] = final] /\ UoW!Rollback(r) /\ ForgetCheckout(r)
      /\ UNCHANGED <<user, code, storeVars, codeVars, inflow>>
  BY DEF Leave, Goto
<1>2. RollbackEffect(r)
  BY <1>1, RollbackFacts DEF IInv, TypeOK
<1>3. Sessions' /\ NonNegative'
  BY <1>1, <1>2, CloseInv DEF RollbackEffect
<1>4. Picks'
  <2>1. \A u \in User, a \in App : cart'[u][a] = cart[u][a] \/ cart'[u][a] = 0
    BY <1>1 DEF storeVars
  <2>2. purchases' = purchases /\ UNCHANGED user
    BY <1>1 DEF storeVars
  <2>3. UoW!Close(r) /\ \A q \in Request \ {r} : stale[q] \subseteq stale'[q]
    BY <1>2 DEF RollbackEffect
  <2> QED
    BY <1>1, <2>1, <2>2, <2>3, ForgetPicks
<1>5. DuplicateOnlyByRace'
  BY <1>1, <1>2 DEF IInv, DuplicateOnlyByRace, RollbackEffect, storeVars
<1>6. TypeOK'
  <2>1. UoW!TypeOK'
    BY <1>2 DEF RollbackEffect
  <2> QED
    BY <1>1, <2>1 DEF IInv, TypeOK, Stage, Final, ForgetCheckout, None, NoEarnings,
                      storeVars, codeVars
<1> QED
  BY <1>3, <1>4, <1>5, <1>6 DEF IInv

\* The session layer's part of every committing action.
LEMMA CommitSession ==
    ASSUME IInv, NEW r \in Request, UoW!Commit(r),
           pc' = [pc EXCEPT ![r] = "done"]
    PROVE  CommitEffect(r) /\ Sessions' /\ NonNegative'
<1>1. CommitEffect(r)
  BY CommitFacts DEF IInv, TypeOK
<1>2. UoW!Close(r) /\ \A u \in User : db'[u] = db[u]
                                      \/ db'[u] = base[r][u] + delta[r][u]
  BY <1>1, Rows DEF CommitEffect
<1>3. "done" \in Final
  BY DEF Final
<1> QED
  BY <1>1, <1>2, <1>3, CloseInv

LEMMA CommitMoneyInv ==
    ASSUME IInv, NEW r \in Request, CommitTransfer(r) \/ CommitPromoCode(r)
    PROVE  IInv'
<1>1. /\ pc' = [pc EXCEPT ![r] = "done"] /\ UoW!Commit(r)
      /\ pc[r] \in {"commit_transfer", "commit_code"}
      /\ UNCHANGED <<user, code, checkoutVars, storeVars>>
  BY DEF CommitTransfer, CommitPromoCode, Goto
<1>2. CommitEffect(r) /\ Sessions' /\ NonNegative'
  BY <1>1, CommitSession
<1>3. TypeOK'
  <2>1. UoW!TypeOK'
    BY <1>2 DEF CommitEffect
  <2>2. CodeValue \in Int
    BY WalletAssumption
  <2>3. inflow' \in Int /\ codes' \subseteq Code /\ expired' \subseteq Code
        /\ credited' \in [Code -> Nat]
    <3>1. delta[r][user[r]] \in Int
      BY Rows DEF IInv, TypeOK, UoW!TypeOK
    <3>2. inflow \in Int /\ codes \subseteq Code /\ expired \subseteq Code
          /\ credited \in [Code -> Nat]
      BY DEF IInv, TypeOK
    <3>3. CASE CommitTransfer(r)
      BY <3>1, <3>2, <3>3 DEF CommitTransfer, codeVars
    <3>4. CASE CommitPromoCode(r)
      <4>1. /\ credited' = [credited EXCEPT ![code[r]] = @ + 1]
            /\ inflow' = inflow + CodeValue
            /\ codes' = codes /\ expired' = expired
        BY <3>4 DEF CommitPromoCode
      <4>2. code[r] \in Code /\ credited[code[r]] + 1 \in Nat
        BY <3>2 DEF IInv, TypeOK
      <4>3. credited' \in [Code -> Nat]
        BY <3>2, <4>1, <4>2
      <4> QED
        BY <2>2, <3>2, <4>1, <4>3
    <3> QED
      BY <3>3, <3>4
  <2> QED
    BY <1>1, <2>1, <2>3 DEF IInv, TypeOK, Stage, Final, checkoutVars, storeVars
<1>4. Picks'
  <2>1. \A a \in App : ~(bought[r][a] + todo[r][a] > 0)
    BY <1>1, PickedNothing
  <2>2. ASSUME NEW q \in Request, NEW a \in App
        PROVE  /\ bought'[q][a] + todo'[q][a] <= InitialCart[user'[q]][a]
               /\ bought'[q][a] + todo'[q][a] > 0 =>
                    a \in loaded'[q] /\ pc'[q] \in {"check_items", "pay_publishers"}
               /\ bought'[q][a] > 0 /\ a \notin stale'[q] =>
                    purchases'[user'[q]][a] = 0
               /\ pc'[q] = "pay_publishers" => delta'[q][a] = bought'[q][a]
    <3>1. Picks /\ UNCHANGED <<bought, todo, user, purchases>>
      BY <1>1 DEF IInv, checkoutVars, storeVars
    <3>2. CASE q = r
      <4>1. bought[r][a] \in Nat /\ todo[r][a] \in Nat /\ pc'[r] = "done"
        BY <1>1 DEF IInv, TypeOK
      <4>2. bought[r][a] = 0 /\ todo[r][a] = 0
        BY <2>1, <4>1
      <4> QED
        BY <3>1, <3>2, <4>1, <4>2 DEF Picks
    <3>3. CASE q # r
      <4>1. /\ loaded'[q] = loaded[q] /\ delta'[q] = delta[q] /\ pc'[q] = pc[q]
            /\ stale[q] \subseteq stale'[q]
        BY <1>1, <1>2, <3>3, CloseFacts DEF IInv, TypeOK, CommitEffect, CloseEffect
      <4> QED
        BY <3>1, <4>1 DEF Picks
    <3> QED
      BY <3>2, <3>3
  <2>3. cart' = cart
    BY <1>1 DEF storeVars
  <2> QED
    BY <2>2, <2>3 DEF IInv, Picks
<1>5. DuplicateOnlyByRace'
  BY <1>1, <1>2 DEF IInv, DuplicateOnlyByRace, CommitEffect, storeVars
<1> QED
  BY <1>2, <1>3, <1>4, <1>5 DEF IInv

\* Apps bought by r were not owned when last looked at; if the row of one has
\* been rewritten since, this commit makes it raced.
LEMMA CommitCheckoutInv ==
    ASSUME IInv, NEW r \in Request, CommitCheckout(r)
    PROVE  IInv'
<1>1. /\ pc' = [pc EXCEPT ![r] = "done"] /\ UoW!Commit(r) /\ ForgetCheckout(r)
      /\ pc[r] = "pay_publishers" /\ user' = user
      /\ purchases' = [purchases EXCEPT ![user[r]] =
                         [a \in App |-> @[a] + bought[r][a]]]
      /\ cart' = [cart EXCEPT ![user[r]] = None]
      /\ UNCHANGED <<code, codeVars, inflow>>
  BY DEF CommitCheckout, Goto
<1>2. CommitEffect(r) /\ Sessions' /\ NonNegative'
  BY <1>1, CommitSession
<1>3. user[r] \in User /\ bought[r] \in [App -> Nat] /\ purchases \in [User -> [App -> Nat]]
  BY DEF IInv, TypeOK
<1>4. TypeOK'
  <2>1. UoW!TypeOK'
    BY <1>2 DEF CommitEffect
  <2>2. cart' \in [User -> [App -> Nat]] /\ purchases' \in [User -> [App -> Nat]]
    BY <1>1, <1>3 DEF IInv, TypeOK, None
  <2> QED
    BY <1>1, <2>1, <2>2 DEF IInv, TypeOK, Stage, Final, ForgetCheckout, None, NoEarnings,
                            codeVars
<1>5. ASSUME NEW a \in App, bought[r][a] > 0
      PROVE  /\ a \in stale[r] => a \in raced'
             /\ a \notin stale[r] => purchases[user[r]][a] = 0
             /\ \A q \in Request \ {r} : a \in loaded[q] => a \in stale'[q]
             /\ bought[r][a] <= InitialCart[user[r]][a]
  <2>1. bought[r][a] \in Nat /\ todo[r][a] \in Nat
        /\ InitialCart[user[r]][a] \in Nat
    BY <1>3, WalletAssumption DEF IInv, TypeOK
  <2>2. bought[r][a] + todo[r][a] > 0
    BY <1>5, <2>1
  <2>3. a \in loaded[r] /\ delta[r][a] = bought[r][a]
        /\ bought[r][a] + todo[r][a] <= InitialCart[user[r]][a]
        /\ (a \notin stale[r] => purchases[user[r]][a] = 0)
    BY <1>1, <1>5, <2>2 DEF IInv, Picks
  <2> QED
    BY <1>2, <1>5, <2>1, <2>3 DEF CommitEffect
<1>6. ASSUME NEW u \in User, NEW a \in App
      PROVE  purchases'[u][a] = IF u = user[r] THEN purchases[u][a] + bought[r][a]
                                               ELSE purchases[u][a]
  BY <1>1, <1>3
<1>7. DuplicateOnlyByRace'
  <2> SUFFICES ASSUME NEW u \in User, NEW a \in App,
                      purchases'[u][a] > InitialCart[u][a]
               PROVE  a \in raced'
    BY DEF DuplicateOnlyByRace
  <2>1. raced \subseteq raced'
    BY <1>2 DEF CommitEffect
  <2>2. bought[r][a] \in Nat /\ purchases[u][a] \in Nat /\ InitialCart[u][a] \in Nat
    BY <1>3, WalletAssumption
  <2>3. CASE u = user[r] /\ bought[r][a] > 0
    BY <1>5, <1>6, <2>2, <2>3
  <2>4. CASE ~(u = user[r] /\ bought[r][a] > 0)
    <3>1. purchases'[u][a] = purchases[u][a]
      BY <1>6, <2>2, <2>4
    <3> QED
      BY <2>1, <3>1 DEF IInv, DuplicateOnlyByRace
  <2> QED
    BY <2>3, <2>4
<1>8. Picks'
  <2>1. \A u \in User, a \in App : cart'[u][a] = cart[u][a] \/ cart'[u][a] = 0
    BY <1>1 DEF IInv, TypeOK, None
  <2>2. UoW!Close(r) /\ \A q \in Request \ {r} : stale[q] \subseteq stale'[q]
    BY <1>2 DEF CommitEffect
  <2>3. ASSUME NEW q \in Request \ {r}, NEW a \in App,
               bought[q][a] > 0, a \notin stale'[q]
        PROVE  purchases'[user[q]][a] = purchases[user[q]][a]
    <3>1. /\ bought[q][a] \in Nat /\ todo[q][a] \in Nat /\ user[q] \in User
          /\ bought[r][a] \in Nat /\ purchases[user[q]][a] \in Nat
      BY <1>3 DEF IInv, TypeOK
    <3>2. a \in loaded[q]
      <4>1. bought[q][a] + todo[q][a] > 0
        BY <2>3, <3>1
      <4> QED
        BY <4>1 DEF IInv, Picks
    <3>3. ~(bought[r][a] > 0)
      BY <1>5, <2>3, <3>2
    <3> QED
      BY <1>6, <3>1, <3>3
  <2> QED
    BY <1>1, <2>1, <2>2, <2>3, ForgetPicks DEF Final
<1> QED
  BY <1>2, <1>4, <1>7, <1>8 DEF IInv

-----------------------------------------------------------------------------
LEMMA NextInv == IInv /\ [Next]_vars => IInv'
<1> SUFFICES ASSUME IInv, [Next]_vars
             PROVE  IInv'
  OBVIOUS
<1>1. ASSUME NEW r \in Request, Step(r)
      PROVE  IInv'
  <2>1. CASE \E n \in Amount : CreateTransferToBalance(r, n)
                               \/ CreateTransferToCard(r, n)
    BY <2>1, TransferInv
  <2>2. CASE CommitTransfer(r) \/ CommitPromoCode(r)
    BY <2>2, CommitMoneyInv
  <2>3. CASE GetPromoCode(r) \/ DeletePromoCode(r)
    BY <2>3, PromoKeyInv
  <2>4. CASE AddPromoAmount(r)
    BY <2>4, AddPromoAmountInv
  <2>5. CASE StartCheckout(r)
    BY <2>5, StartCheckoutInv
  <2>6. CASE ReadCart(r)
    BY <2>6, ReadCartInv
  <2>7. CASE \E a \in App : SkipPurchased(r, a) \/ PickItem(r, a)
    BY <2>7, SkipPurchasedInv, PickItemInv
  <2>8. CASE Charge(r)
    BY <2>8, ChargeInv
  <2>9. CASE \E p \in User : PayPublisher(r, p)
    BY <2>9, PayPublisherInv
  <2>10. CASE CommitCheckout(r)
    BY <2>10, CommitCheckoutInv
  <2>11. CASE \/ RefuseTransferToCard(r) \/ RefusePromoCode(r) \/ RefuseEmptyCart(r)
              \/ ReturnNothing(r) \/ RefuseInsufficientFunds(r) \/ Fail(r)
    <3>1. \E stage, final : final \in Final /\ Leave(r, stage, final)
      BY <2>11 DEF RefuseTransferToCard, RefusePromoCode, RefuseEmptyCart,
                   ReturnNothing, RefuseInsufficientFunds, Fail, Reject, Final
    <3> QED
      BY <3>1, LeaveInv
  <2> QED
    BY <1>1, <2>1, <2>2, <2>3, <2>4, <2>5, <2>6, <2>7, <2>8, <2>9, <2>10, <2>11
       DEF Step
<1>2. CASE \E c \in Code : ExpirePromoCode(c)
  BY <1>2, PromoKeyInv
<1>3. CASE UNCHANGED vars
  BY <1>3 DEF vars, session, checkoutVars, storeVars, codeVars, IInv, TypeOK,
       UoW!TypeOK, Sessions, NonNegative, Picks, DuplicateOnlyByRace
<1> QED
  BY <1>1, <1>2, <1>3 DEF Next, Quiet

THEOREM WalletInvariant == Spec => []IInv
<1> QED
  BY InitInv, NextInv, PTL DEF Spec

\* Every variable of the wallet keeps its type.
THEOREM TypeCorrect == Spec => []TypeOK
<1>1. IInv => TypeOK
  BY DEF IInv
<1> QED
  BY <1>1, WalletInvariant, PTL

\* No interleaving of top-ups, withdrawals, activations and checkouts commits a
\* negative balance or is about to: an update may be lost, never overdrawn.
THEOREM NeverOverdrawn == Spec => []NonNegative
<1>1. IInv => NonNegative
  BY DEF IInv
<1> QED
  BY <1>1, WalletInvariant, PTL

\* An app is owned in more copies than the cart held only after two checkouts
\* wrote its row from overlapping reads.
THEOREM DuplicatesNeedARace == Spec => []DuplicateOnlyByRace
<1>1. IInv => DuplicateOnlyByRace
  BY DEF IInv
<1> QED
  BY <1>1, WalletInvariant, PTL

-----------------------------------------------------------------------------
(* The wallet implements the session layer *)

LEMMA InitRefines == Init => UoW!Init
<1> SUFFICES ASSUME Init PROVE UoW!Init
  OBVIOUS
<1>1. db \in [Row -> Int]
  BY WalletAssumption DEF Init, Row
<1> QED
  BY <1>1 DEF Init, UoW!Init

LEMMA StepRefines ==
    ASSUME IInv, [Next]_vars
    PROVE  [UoW!Next]_(UoW!vars)
<1>1. ASSUME NEW r \in Request, Step(r)
      PROVE  [UoW!Next]_(UoW!vars)
  <2> DEFINE Touching == \E S \in SUBSET Row, d \in [Row -> Int] : UoW!Touch(r, S, d)
  <2>1. ASSUME Touching PROVE UoW!Next
    BY <2>1, TouchFacts DEF IInv, TypeOK, TouchEffect, UoW!Next
  <2>2. CASE \E n \in Amount : CreateTransferToBalance(r, n)
                               \/ CreateTransferToCard(r, n)
    <3>1. PICK n \in Amount : CreateTransferToBalance(r, n)
                              \/ CreateTransferToCard(r, n)
      BY <2>2
    <3>2. n \in Int /\ -n \in Int /\ user[r] \in User
      BY WalletAssumption DEF IInv, TypeOK
    <3>3. /\ Plus(user[r], n) \in [Row -> Int] /\ Plus(user[r], -n) \in [Row -> Int]
          /\ {user[r]} \in SUBSET Row
      BY <3>2, Rows
    <3>4. Touching
      BY <3>1, <3>3 DEF CreateTransferToBalance, CreateTransferToCard
    <3> QED
      BY <2>1, <3>4
  <2>3. CASE AddPromoAmount(r)
    <3>1. CodeValue \in Int /\ user[r] \in User
      BY WalletAssumption DEF IInv, TypeOK
    <3>2. Plus(user[r], CodeValue) \in [Row -> Int] /\ {user[r]} \in SUBSET Row
      BY <3>1, Rows
    <3>3. Touching
      BY <2>3, <3>2 DEF AddPromoAmount
    <3> QED
      BY <2>1, <3>3
  <2>4. CASE StartCheckout(r) \/ ReadCart(r)
    <3>1. /\ {user[r]} \in SUBSET Row
          /\ {a \in App : cart[user[r]][a] > 0} \in SUBSET Row
          /\ UoW!Zero \in [Row -> Int]
      BY Rows DEF IInv, TypeOK
    <3>2. Touching
      BY <2>4, <3>1 DEF StartCheckout, ReadCart
    <3> QED
      BY <2>1, <3>2
  <2>5. CASE Charge(r)
    <3>1. total[r] \in Nat /\ bought[r] \in [App -> Nat]
      BY DEF IInv, TypeOK
    <3>2. [x \in Row |-> IF x = user[r] THEN -total[r]
                         ELSE IF x \in App THEN bought[r][x] ELSE 0] \in [Row -> Int]
      BY <3>1
    <3>3. Touching
      BY <2>5, <3>2 DEF Charge
    <3> QED
      BY <2>1, <3>3
  <2>6. CASE \E p \in User : PayPublisher(r, p)
    <3>1. PICK p \in User : PayPublisher(r, p)
      BY <2>6
    <3>2. earned[r][p] \in Int
      BY DEF IInv, TypeOK
    <3>3. Plus(p, earned[r][p]) \in [Row -> Int] /\ {p} \in SUBSET Row
      BY <3>2, Rows
    <3>4. Touching
      BY <3>1, <3>3 DEF PayPublisher
    <3> QED
      BY <2>1, <3>4
  <2>7. CASE CommitTransfer(r) \/ CommitPromoCode(r) \/ CommitCheckout(r)
    BY <2>7 DEF CommitTransfer, CommitPromoCode, CommitCheckout, UoW!Next
  <2>8. CASE \/ RefuseTransferToCard(r) \/ RefusePromoCode(r) \/ RefuseEmptyCart(r)
             \/ ReturnNothing(r) \/ RefuseInsufficientFunds(r) \/ Fail(r)
    BY <2>8 DEF RefuseTransferToCard, RefusePromoCode, RefuseEmptyCart,
         ReturnNothing, RefuseInsufficientFunds, Fail, Reject, Leave, UoW!Next
  <2>9. CASE \/ GetPromoCode(r) \/ DeletePromoCode(r)
             \/ \E a \in App : SkipPurchased(r, a) \/ PickItem(r, a)
    BY <2>9 DEF GetPromoCode, DeletePromoCode, SkipPurchased, PickItem,
                session, UoW!vars
  <2> QED
    BY <1>1, <2>2, <2>3, <2>4, <2>5, <2>6, <2>7, <2>8, <2>9 DEF Step
<1>2. CASE \E c \in Code : ExpirePromoCode(c)
  BY <1>2 DEF ExpirePromoCode, session, UoW!vars
<1>3. CASE UNCHANGED vars
  BY <1>3 DEF vars, session, UoW!vars
<1> QED
  BY <1>1, <1>2, <1>3 DEF Next, Quiet

\* Every step of the wallet is a step of the session layer or leaves it alone.
THEOREM WalletImplementsUnitOfWork == Spec => UoW!Spec
<1> QED
  BY InitRefines, StepRefines, WalletInvariant, PTL DEF Spec, UoW!Spec

\* So a balance or sale counter that is not the sum of the committed changes has
\* been written by a commit from a stale read.
THEOREM WalletLedgerAgrees == Spec => []LedgerAgrees
<1> QED
  BY WalletImplementsUnitOfWork, LedgerAgreesAlways, PTL DEF LedgerAgrees

-----------------------------------------------------------------------------
(* Promo codes: between DEL and the commit the code is in its request's hands. *)

InFlight(c) == \E r \in Request : code[r] = c /\ pc[r] \in {"commit_code", "code_lost"}

\* A step that leaves the codes alone, and lets go of none.
LEMMA KeepsCodes ==
    ASSUME TypeOK, CodeLostOnlyByFailure, NEW r \in Request, NEW to \in Stage,
           UNCHANGED <<codeVars, code>>,
           pc' = pc \/ pc' = [pc EXCEPT ![r] = to],
           pc[r] \in {"commit_code", "code_lost"} =>
               pc' = pc \/ to \in {"commit_code", "code_lost"}
    PROVE  CodeLostOnlyByFailure'
<1>1. \A c \in Code : InFlight(c) => InFlight(c)'
  BY DEF TypeOK, InFlight
<1> QED
  BY <1>1 DEF CodeLostOnlyByFailure, InFlight, codeVars

LEMMA StepLosesNoCode ==
    ASSUME TypeOK, CodeLostOnlyByFailure, NEW r \in Request, Step(r)
    PROVE  CodeLostOnlyByFailure'
<1> USE DEF Stage, Final, Goto
<1>1. ASSUME NEW from \in Stage, NEW to \in Stage, Leave(r, from, to),
             from = "commit_code" => to = "code_lost", from # "code_lost"
      PROVE  CodeLostOnlyByFailure'
  BY <1>1, KeepsCodes DEF Leave
<1>2. CASE \E n \in Amount : CreateTransferToBalance(r, n) \/ CreateTransferToCard(r, n)
  BY <1>2, KeepsCodes DEF CreateTransferToBalance, CreateTransferToCard
<1>3. CASE \/ RefuseTransferToCard(r) \/ RefusePromoCode(r) \/ RefuseEmptyCart(r)
           \/ ReturnNothing(r) \/ RefuseInsufficientFunds(r)
  BY <1>3, <1>1 DEF RefuseTransferToCard, RefusePromoCode, RefuseEmptyCart,
     ReturnNothing, RefuseInsufficientFunds, Reject
<1>4. CASE CommitTransfer(r) \/ GetPromoCode(r) \/ AddPromoAmount(r) \/ StartCheckout(r)
  BY <1>4, KeepsCodes DEF CommitTransfer, GetPromoCode, AddPromoAmount, StartCheckout
<1>5. CASE DeletePromoCode(r)
  <2>1. \A c \in Code : InFlight(c) \/ c = code[r] => InFlight(c)'
    BY <1>5 DEF DeletePromoCode, TypeOK, InFlight
  <2> QED
    BY <1>5, <2>1 DEF DeletePromoCode, CodeLostOnlyByFailure, InFlight
<1>6. CASE CommitPromoCode(r)
  <2>1. \A c \in Code : InFlight(c) => InFlight(c)' \/ c = code[r]
    BY <1>6 DEF CommitPromoCode, TypeOK, InFlight
  <2>2. \A c \in Code : credited[c] > 0 \/ c = code[r] => credited'[c] > 0
    BY <1>6 DEF CommitPromoCode, TypeOK
  <2> QED
    BY <1>6, <2>1, <2>2 DEF CommitPromoCode, CodeLostOnlyByFailure, InFlight
<1>7. CASE ReadCart(r) \/ Charge(r)
  BY <1>7, KeepsCodes DEF ReadCart, Charge
<1>8. CASE \/ \E a \in App : SkipPurchased(r, a) \/ PickItem(r, a)
           \/ \E p \in User : PayPublisher(r, p)
  BY <1>8, KeepsCodes DEF SkipPurchased, PickItem, PayPublisher
<1>9. CASE CommitCheckout(r)
  BY <1>9, KeepsCodes DEF CommitCheckout
<1>10. CASE Fail(r)
  BY <1>10, <1>1 DEF Fail, TypeOK
<1> QED
  BY <1>2, <1>3, <1>4, <1>5, <1>6, <1>7, <1>8, <1>9, <1>10 DEF Step

\* However many activations race, and whatever fails, a code that is gone before
\* its time was credited, or its activation failed after the key was deleted.
THEOREM CodesLostOnlyByFailure == Spec => []CodeLostOnlyByFailure
<1>1. Init => CodeLostOnlyByFailure
  BY DEF Init, CodeLostOnlyByFailure
<1>2. ASSUME TypeOK, CodeLostOnlyByFailure, [Next]_vars
      PROVE  CodeLostOnlyByFailure'
  <2>1. CASE \E r \in Request : Step(r)
    BY <1>2, <2>1, StepLosesNoCode
  <2>2. CASE \E c \in Code : ExpirePromoCode(c)
    BY <1>2, <2>2 DEF ExpirePromoCode, CodeLostOnlyByFailure
  <2>3. CASE UNCHANGED vars
    BY <1>2, <2>3 DEF vars, codeVars, CodeLostOnlyByFailure
  <2> QED
    BY <1>2, <2>1, <2>2, <2>3 DEF Next, Quiet
<1>3. TypeOK /\ CodeLostOnlyByFailure /\ [Next]_vars => CodeLostOnlyByFailure'
  BY <1>2
<1> QED
  BY <1>1, <1>3, TypeCorrect, PTL DEF Spec

-----------------------------------------------------------------------------
(* What is needed of SumFunctionOnSet, the sum of the values of a function *)
(* over a finite set.  The community module defines it by a recursive      *)
(* function, to the provers a CHOOSE; that the function chosen satisfies   *)
(* its recursion, and everything after it, is by induction over the        *)
(* subsets of a finite set.                                                *)

\* The element a fold takes from S first.
Chosen(S) == CHOOSE x \in S : TRUE

Less(S) == S \ {Chosen(S)}

\* g gives the sum of f over every subset of S.
SumsOver(f, S, g) ==
    g = [s \in SUBSET S |-> IF s = {} THEN 0 ELSE f[Chosen(s)] + g[Less(s)]]

\* The finite subsets are well founded: what holds of a set when it holds of its
\* proper subsets holds of every subset.
LEMMA SubsetInduction ==
    ASSUME NEW S, IsFiniteSet(S), NEW G,
           \A T \in SUBSET S : (\A U \in SUBSET T : U # T => U \in G) => T \in G
    PROVE  SUBSET S \subseteq G
<1> DEFINE R == StrictSubsetOrdering(S)
<1> DEFINE B == (SUBSET S) \ G
<1>1. FiniteSubsetsOf(S) = SUBSET S
  BY FS_Subset DEF FiniteSubsetsOf
<1>2. IsWellFoundedOn(R, SUBSET S)
  BY <1>1, FS_StrictSubsetOrderingWellFounded
<1>3. SUFFICES ASSUME B # {} PROVE FALSE
  OBVIOUS
<1>4. \E T \in B : \A U \in B : ~ (<<U, T>> \in R)
  <2>1. B \subseteq SUBSET S
    OBVIOUS
  <2> HIDE DEF B, R
  <2> QED
    BY <1>2, <1>3, <2>1, WFMin
<1>5. PICK T \in B : \A U \in B : ~ (<<U, T>> \in R)
  BY <1>4
<1>6. \A U \in SUBSET T : U # T => U \in G
  BY <1>5 DEF StrictSubsetOrdering
<1> QED
  BY <1>5, <1>6

LEMMA LessIsLess ==
    ASSUME NEW S, S # {}
    PROVE  Chosen(S) \in S /\ Less(S) \subseteq S /\ Less(S) # S /\ Chosen(S) \notin Less(S)
BY DEF Chosen, Less

LEMMA SumsUnique ==
    ASSUME NEW f, NEW S, NEW T, IsFiniteSet(T), T \subseteq S,
           NEW g, NEW h, SumsOver(f, S, g), SumsOver(f, T, h)
    PROVE  \A s \in SUBSET T : g[s] = h[s]
<1> DEFINE G == {s \in SUBSET T : g[s] = h[s]}
<1>1. ASSUME NEW s \in SUBSET T, \A U \in SUBSET s : U # s => U \in G
      PROVE  s \in G
  <2>1. CASE s = {}
    <3>1. g[s] = 0 /\ h[s] = 0
      BY <2>1 DEF SumsOver
    <3> QED
      BY <3>1
  <2>2. CASE s # {}
    <3>1. g[Less(s)] = h[Less(s)]
      BY <1>1, <2>2, LessIsLess
    <3>2. g[s] = f[Chosen(s)] + g[Less(s)]
      BY <2>2 DEF SumsOver
    <3>3. h[s] = f[Chosen(s)] + h[Less(s)]
      BY <2>2 DEF SumsOver
    <3> QED
      BY <3>1, <3>2, <3>3
  <2> QED
    BY <2>1, <2>2
<1>2. SUBSET T \subseteq G
  <2> HIDE DEF G
  <2> QED
    BY <1>1, SubsetInduction
<1> QED
  BY <1>2

LEMMA SumsExist ==
    ASSUME NEW f, NEW S, IsFiniteSet(S)
    PROVE  \E g : SumsOver(f, S, g)
<1> DEFINE G == {T \in SUBSET S : \E g : SumsOver(f, T, g)}
<1> DEFINE H(T) == CHOOSE g : SumsOver(f, T, g)
<1>1. ASSUME NEW T \in SUBSET S, \A U \in SUBSET T : U # T => U \in G
      PROVE  T \in G
  <2> DEFINE g == [s \in SUBSET T |-> IF s = {} THEN 0
                                      ELSE f[Chosen(s)] + H(Less(s))[Less(s)]]
  <2>1. ASSUME NEW s \in SUBSET T, s # {}
        PROVE  g[Less(s)] = H(Less(s))[Less(s)]
    <3> DEFINE U == Less(s)
    <3>1. U \in SUBSET T /\ U # T
      BY <2>1, LessIsLess
    <3>2. SumsOver(f, U, H(U))
      BY <1>1, <3>1
    <3>3. CASE U = {}
      <4>1. H(U)[U] = 0
        BY <3>2, <3>3 DEF SumsOver
      <4> QED
        BY <3>3, <4>1
    <3>4. CASE U # {}
      <4> DEFINE V == Less(U)
      <4>1. V \in SUBSET U /\ V \in SUBSET T /\ V # T
        BY <3>1, <3>4, LessIsLess
      <4>2. SumsOver(f, V, H(V)) /\ IsFiniteSet(V)
        BY <1>1, <4>1, FS_Subset
      <4>3. H(U)[V] = H(V)[V]
        <5> HIDE DEF H, U, V
        <5> QED
          BY <3>2, <4>1, <4>2, SumsUnique
      <4>4. H(U)[U] = f[Chosen(U)] + H(U)[V]
        <5> HIDE DEF H
        <5> QED
          BY <3>2, <3>4 DEF SumsOver
      <4>5. g[U] = f[Chosen(U)] + H(V)[V]
        <5> HIDE DEF H
        <5> QED
          BY <3>1, <3>4
      <4> QED
        BY <4>3, <4>4, <4>5
    <3> QED
      BY <3>3, <3>4
  <2>2. SumsOver(f, T, g)
    <3> HIDE DEF H
    <3> QED
      BY <2>1 DEF SumsOver
  <2> QED
    BY <2>2
<1>2. SUBSET S \subseteq G
  <2> HIDE DEF G
  <2> QED
    BY <1>1, SubsetInduction
<1> QED
  BY <1>2

LEMMA SumIsChosen ==
    ASSUME NEW f, NEW S
    PROVE  SumFunctionOnSet(f, S) = (CHOOSE g : SumsOver(f, S, g))[S]
BY DEF SumFunctionOnSet, FoldFunctionOnSet, MapThenFoldSet, SumsOver, Chosen, Less

LEMMA SumEmpty == ASSUME NEW f PROVE SumFunctionOnSet(f, {}) = 0
<1> DEFINE h == CHOOSE g : SumsOver(f, {}, g)
<1>1. SumsOver(f, {}, h)
  BY SumsExist, FS_EmptySet
<1>2. h[{}] = 0
  <2> HIDE DEF h
  <2> QED
    BY <1>1 DEF SumsOver
<1> QED
  BY <1>2, SumIsChosen

LEMMA SumStep ==
    ASSUME NEW f, NEW S, IsFiniteSet(S), S # {}
    PROVE  SumFunctionOnSet(f, S) = f[Chosen(S)] + SumFunctionOnSet(f, Less(S))
<1> DEFINE H(T) == CHOOSE g : SumsOver(f, T, g)
<1> DEFINE U == Less(S)
<1>1. U \subseteq S /\ IsFiniteSet(U)
  BY LessIsLess, FS_Subset
<1>2. SumsOver(f, S, H(S)) /\ SumsOver(f, U, H(U))
  BY <1>1, SumsExist
<1>3. H(S)[U] = H(U)[U]
  <2> HIDE DEF H, U
  <2> QED
    BY <1>1, <1>2, SumsUnique
<1>4. H(S)[S] = f[Chosen(S)] + H(S)[U]
  <2> HIDE DEF H
  <2> QED
    BY <1>2 DEF SumsOver
<1> QED
  BY <1>3, <1>4, SumIsChosen

-----------------------------------------------------------------------------
(* The laws of sums *)

\* Sums of integers are integers.
LEMMA SumInt ==
    ASSUME NEW S, IsFiniteSet(S), NEW f, \A x \in S : f[x] \in Int
    PROVE  SumFunctionOnSet(f, S) \in Int
<1> DEFINE G == {T \in SUBSET S : SumFunctionOnSet(f, T) \in Int}
<1>1. ASSUME NEW T \in SUBSET S, \A U \in SUBSET T : U # T => U \in G
      PROVE  T \in G
  <2>1. CASE T = {}
    BY <2>1, SumEmpty
  <2>2. CASE T # {}
    <3>1. Less(T) \in G /\ Chosen(T) \in S
      BY <1>1, <2>2, LessIsLess
    <3>2. IsFiniteSet(T)
      BY FS_Subset
    <3>3. SumFunctionOnSet(f, T) = f[Chosen(T)] + SumFunctionOnSet(f, Less(T))
      BY <2>2, <3>2, SumStep
    <3> QED
      BY <3>1, <3>3
  <2> QED
    BY <2>1, <2>2
<1>2. SUBSET S \subseteq G
  <2> HIDE DEF G
  <2> QED
    BY <1>1, SubsetInduction
<1> QED
  BY <1>2

\* Sums of naturals are naturals.
LEMMA SumNat ==
    ASSUME NEW S, IsFiniteSet(S), NEW f, \A x \in S : f[x] \in Nat
    PROVE  SumFunctionOnSet(f, S) \in Nat
<1> DEFINE G == {T \in SUBSET S : SumFunctionOnSet(f, T) \in Nat}
<1>1. ASSUME NEW T \in SUBSET S, \A U \in SUBSET T : U # T => U \in G
      PROVE  T \in G
  <2>1. CASE T = {}
    BY <2>1, SumEmpty
  <2>2. CASE T # {}
    <3>1. Less(T) \in G /\ Chosen(T) \in S
      BY <1>1, <2>2, LessIsLess
    <3>2. IsFiniteSet(T)
      BY FS_Subset
    <3>3. SumFunctionOnSet(f, T) = f[Chosen(T)] + SumFunctionOnSet(f, Less(T))
      BY <2>2, <3>2, SumStep
    <3> QED
      BY <3>1, <3>3
  <2> QED
    BY <2>1, <2>2
<1>2. SUBSET S \subseteq G
  <2> HIDE DEF G
  <2> QED
    BY <1>1, SubsetInduction
<1> QED
  BY <1>2

\* The sum of a pointwise sum.
LEMMA SumPlus ==
    ASSUME NEW S, IsFiniteSet(S), NEW f, NEW g, NEW h,
           \A x \in S : f[x] \in Int /\ g[x] \in Int /\ h[x] = f[x] + g[x]
    PROVE  SumFunctionOnSet(h, S) = SumFunctionOnSet(f, S) + SumFunctionOnSet(g, S)
<1> DEFINE G == {T \in SUBSET S :
                   SumFunctionOnSet(h, T) = SumFunctionOnSet(f, T) + SumFunctionOnSet(g, T)}
<1>1. ASSUME NEW T \in SUBSET S, \A U \in SUBSET T : U # T => U \in G
      PROVE  T \in G
  <2>1. CASE T = {}
    BY <2>1, SumEmpty
  <2>2. CASE T # {}
    <3>1. Less(T) \in G /\ Chosen(T) \in S /\ Less(T) \subseteq S
      BY <1>1, <2>2, LessIsLess
    <3>2. IsFiniteSet(T) /\ IsFiniteSet(Less(T))
      BY <3>1, FS_Subset
    <3>3. SumFunctionOnSet(f, Less(T)) \in Int /\ SumFunctionOnSet(g, Less(T)) \in Int
      BY <3>1, <3>2, SumInt
    <3>4. /\ SumFunctionOnSet(f, T) = f[Chosen(T)] + SumFunctionOnSet(f, Less(T))
          /\ SumFunctionOnSet(g, T) = g[Chosen(T)] + SumFunctionOnSet(g, Less(T))
          /\ SumFunctionOnSet(h, T) = h[Chosen(T)] + SumFunctionOnSet(h, Less(T))
      BY <2>2, <3>2, SumStep
    <3> QED
      BY <3>1, <3>3, <3>4
  <2> QED
    BY <2>1, <2>2
<1>2. SUBSET S \subseteq G
  <2> HIDE DEF G
  <2> QED
    BY <1>1, SubsetInduction
<1> QED
  BY <1>2

\* The sum of a function that is zero but at e.
LEMMA SumSingle ==
    ASSUME NEW S, IsFiniteSet(S), NEW e, NEW n \in Int, NEW f,
           \A x \in S : f[x] = IF x = e THEN n ELSE 0
    PROVE  SumFunctionOnSet(f, S) = IF e \in S THEN n ELSE 0
<1> DEFINE G == {T \in SUBSET S : SumFunctionOnSet(f, T) = IF e \in T THEN n ELSE 0}
<1>1. ASSUME NEW T \in SUBSET S, \A U \in SUBSET T : U # T => U \in G
      PROVE  T \in G
  <2>1. CASE T = {}
    BY <2>1, SumEmpty
  <2>2. CASE T # {}
    <3>1. Less(T) \in G /\ Chosen(T) \in S /\ Less(T) = T \ {Chosen(T)} /\ Chosen(T) \in T
      BY <1>1, <2>2, LessIsLess DEF Less
    <3>2. IsFiniteSet(T)
      BY FS_Subset
    <3>3. SumFunctionOnSet(f, T) = f[Chosen(T)] + SumFunctionOnSet(f, Less(T))
      BY <2>2, <3>2, SumStep
    <3>4. CASE Chosen(T) = e
      BY <3>1, <3>3, <3>4
    <3>5. CASE Chosen(T) # e
      BY <3>1, <3>3, <3>5
    <3> QED
      BY <3>4, <3>5
  <2> QED
    BY <2>1, <2>2
<1>2. SUBSET S \subseteq G
  <2> HIDE DEF G
  <2> QED
    BY <1>1, SubsetInduction
<1> QED
  BY <1>2

\* The sum of a function that is zero.
LEMMA SumZero ==
    ASSUME NEW S, IsFiniteSet(S), NEW f, \A x \in S : f[x] = 0
    PROVE  SumFunctionOnSet(f, S) = 0
<1>1. \A x \in S : f[x] = IF x = {} THEN 0 ELSE 0
  OBVIOUS
<1>2. SumFunctionOnSet(f, S) = IF {} \in S THEN 0 ELSE 0
  BY ONLY IsFiniteSet(S), <1>1, SumSingle
<1> QED
  BY <1>2

\* The sum depends on the values over S only.
LEMMA SumSame ==
    ASSUME NEW S, IsFiniteSet(S), NEW f, NEW g,
           \A x \in S : f[x] \in Int /\ g[x] = f[x]
    PROVE  SumFunctionOnSet(g, S) = SumFunctionOnSet(f, S)
<1> DEFINE z == [x \in S |-> 0]
<1>1. SumFunctionOnSet(g, S) = SumFunctionOnSet(f, S) + SumFunctionOnSet(z, S)
  BY SumPlus
<1>2. SumFunctionOnSet(z, S) = 0
  BY SumZero
<1>3. SumFunctionOnSet(f, S) \in Int
  BY SumInt
<1> QED
  BY <1>1, <1>2, <1>3

\* Adding n to the value at e adds n to the sum.
LEMMA SumUpdate ==
    ASSUME NEW S, IsFiniteSet(S), NEW e \in S, NEW n \in Int, NEW f, NEW g,
           \A x \in S : f[x] \in Int /\ g[x] = IF x = e THEN f[x] + n ELSE f[x]
    PROVE  SumFunctionOnSet(g, S) = SumFunctionOnSet(f, S) + n
<1> DEFINE d == [x \in S |-> IF x = e THEN n ELSE 0]
<1>1. \A x \in S : d[x] \in Int /\ g[x] = f[x] + d[x]
  OBVIOUS
<1>2. SumFunctionOnSet(d, S) = n
  <2>1. \A x \in S : d[x] = IF x = e THEN n ELSE 0
    OBVIOUS
  <2> HIDE DEF d
  <2> QED
    BY <2>1, SumSingle
<1> HIDE DEF d
<1> QED
  BY <1>1, <1>2, SumPlus

-----------------------------------------------------------------------------
(* Money and sales *)

\* What the session of r will add to each row, at each await before its commit.
DeltasOf(r) ==
    /\ pc[r] = "commit_transfer" =>
         \E n \in Amount : \E m \in {n, -n} : \A x \in Row :
            delta[r][x] = IF x = user[r] THEN m ELSE 0
    /\ pc[r] \in {"code_delete", "commit_code"} =>
         \A x \in Row : delta[r][x] = IF x = user[r] THEN CodeValue ELSE 0
    /\ pc[r] \in {"read_cart", "check_items", "pay_publishers"} => user[r] \in loaded[r]
    /\ pc[r] = "pay_publishers" =>
         /\ base[r][user[r]] >= total[r]
         /\ \A u \in User :
              delta[r][u] = (IF u \in unpaid[r] THEN 0 ELSE earned[r][u])
                              - (IF u = user[r] THEN total[r] ELSE 0)

\* The total of r is the cost of what it picked, and the earnings are its parts.
BillOf(r) ==
    /\ total[r] = Atomic!Cost(bought[r])
    /\ total[r] = SumFunctionOnSet(earned[r], User)
    /\ \A p \in User :
         /\ earned[r][p] = Atomic!Income(bought[r], p)
         /\ earned[r][p] > 0 => \E a \in App : Publisher[a] = p /\ bought[r][a] > 0

\* Every committed sale has its row, whatever the counter of the app says.
AllSales == \A a \in App : ledger[a] = Sales(a)

MoneyInv ==
    /\ \A r \in Request : DeltasOf(r) /\ BillOf(r)
    /\ AllSales
    /\ MoneyConserved

\* The sums of Bank are the sums of this module.
LEMMA BankSums ==
    ASSUME NEW bag
    PROVE  /\ Atomic!Cost(bag) = SumFunctionOnSet(Atomic!Prices(bag), App)
           /\ \A p : Atomic!Income(bag, p) =
                SumFunctionOnSet(Atomic!Prices(bag), {a \in App : Publisher[a] = p})
<1>1. ASSUME NEW f, NEW S
      PROVE  Atomic!SumFunctionOnSet(f, S) = SumFunctionOnSet(f, S)
  BY DEF Atomic!SumFunctionOnSet, Atomic!FoldFunctionOnSet, Atomic!MapThenFoldSet,
         SumFunctionOnSet, FoldFunctionOnSet, MapThenFoldSet
<1>2. DOMAIN Atomic!Prices(bag) = App
  BY DEF Atomic!Prices
<1> QED
  BY <1>1, <1>2 DEF Atomic!Cost, Atomic!Income, Atomic!SumFunction

LEMMA SalesIs ==
    ASSUME NEW a
    PROVE  Sales(a) = SumFunctionOnSet([u \in User |-> purchases[u][a]], User)
BY DEF Sales, SumFunction

\* Nothing picked costs nothing.
LEMMA NothingIsFree ==
    /\ Atomic!Cost(None) = 0
    /\ SumFunctionOnSet(NoEarnings, User) = 0
    /\ \A p : Atomic!Income(None, p) = 0
<1>1. \A a \in App : Atomic!Prices(None)[a] = 0
  BY WalletAssumption DEF Atomic!Prices, None
<1>2. Atomic!Cost(None) = 0
  BY <1>1, FiniteStore, SumZero, BankSums
<1>3. SumFunctionOnSet(NoEarnings, User) = 0
  BY FiniteStore, SumZero DEF NoEarnings
<1>4. ASSUME NEW p PROVE Atomic!Income(None, p) = 0
  <2> DEFINE Of == {a \in App : Publisher[a] = p}
  <2>1. IsFiniteSet(Of) /\ \A a \in Of : Atomic!Prices(None)[a] = 0
    BY <1>1, FiniteStore, FS_Subset
  <2> HIDE DEF Of
  <2>2. SumFunctionOnSet(Atomic!Prices(None), Of) = 0
    BY <2>1, SumZero
  <2> QED
    BY <2>2, BankSums DEF Of
<1> QED
  BY <1>2, <1>3, <1>4

\* One more app costs its price, and earns its publisher that.
LEMMA OneMore ==
    ASSUME NEW bag \in [App -> Nat], NEW more \in [App -> Nat], NEW a \in App,
           \A b \in App : more[b] = IF b = a THEN bag[b] + 1 ELSE bag[b]
    PROVE  /\ Atomic!Cost(more) = Atomic!Cost(bag) + Price[a]
           /\ \A p \in User : Atomic!Income(more, p) =
                Atomic!Income(bag, p) + (IF p = Publisher[a] THEN Price[a] ELSE 0)
<1> DEFINE f == Atomic!Prices(bag)
<1> DEFINE g == Atomic!Prices(more)
<1>1. Price[a] \in Int
  BY WalletAssumption
<1>2. ASSUME NEW b \in App
      PROVE  f[b] \in Int /\ g[b] = IF b = a THEN f[b] + Price[a] ELSE f[b]
  <2>1. Price[b] \in Nat /\ bag[b] \in Nat
    BY WalletAssumption
  <2>2. f[b] = Price[b] * bag[b] /\ g[b] = Price[b] * more[b]
    BY DEF Atomic!Prices
  <2>3. Price[b] * (bag[b] + 1) = Price[b] * bag[b] + Price[b] /\ Price[b] * bag[b] \in Int
    BY <2>1
  <2> HIDE DEF f, g
  <2> QED
    BY <2>2, <2>3
<1> HIDE DEF f, g
<1>3. SumFunctionOnSet(g, App) = SumFunctionOnSet(f, App) + Price[a]
  BY <1>1, <1>2, FiniteStore, SumUpdate
<1>4. ASSUME NEW p \in User
      PROVE  Atomic!Income(more, p) =
                Atomic!Income(bag, p) + (IF p = Publisher[a] THEN Price[a] ELSE 0)
  <2> DEFINE Of == {b \in App : Publisher[b] = p}
  <2>1. IsFiniteSet(Of)
    BY FiniteStore, FS_Subset
  <2>2. Atomic!Income(more, p) = SumFunctionOnSet(g, Of)
        /\ Atomic!Income(bag, p) = SumFunctionOnSet(f, Of)
    BY BankSums DEF f, g
  <2>3. CASE p = Publisher[a]
    <3>1. a \in Of /\ \A b \in Of :
             f[b] \in Int /\ g[b] = IF b = a THEN f[b] + Price[a] ELSE f[b]
      BY <1>2, <2>3
    <3> HIDE DEF Of
    <3>2. SumFunctionOnSet(g, Of) = SumFunctionOnSet(f, Of) + Price[a]
      BY <1>1, <2>1, <3>1, SumUpdate
    <3> QED
      BY <2>2, <2>3, <3>2
  <2>4. CASE p # Publisher[a]
    <3>1. \A b \in Of : f[b] \in Int /\ g[b] = f[b]
      BY <1>2, <2>4
    <3> HIDE DEF Of
    <3>2. SumFunctionOnSet(g, Of) = SumFunctionOnSet(f, Of) /\ SumFunctionOnSet(f, Of) \in Int
      BY <2>1, <3>1, SumSame, SumInt
    <3> QED
      BY <2>2, <2>4, <3>2
  <2> QED
    BY <2>3, <2>4
<1> QED
  BY <1>3, <1>4, BankSums DEF f, g

LEMMA MoneyInit == Init => MoneyInv
<1> SUFFICES ASSUME Init PROVE MoneyInv
  OBVIOUS
<1>1. ASSUME NEW r \in Request PROVE DeltasOf(r) /\ BillOf(r)
  <2>1. DeltasOf(r)
    BY <1>1 DEF Init, DeltasOf
  <2>2. bought[r] = None /\ total[r] = 0 /\ earned[r] = NoEarnings
    BY DEF Init
  <2>3. \A p \in User : earned[r][p] = 0
    BY <2>2 DEF NoEarnings
  <2> QED
    BY <2>1, <2>2, <2>3, NothingIsFree DEF BillOf
<1>2. AllSales
  <2> SUFFICES ASSUME NEW a \in App PROVE ledger[a] = Sales(a)
    BY DEF AllSales
  <2>1. \A u \in User : [v \in User |-> purchases[v][a]][u] = 0
    BY DEF Init, None
  <2>2. Sales(a) = 0
    BY <2>1, FiniteStore, SumZero, SalesIs
  <2>3. ledger[a] = 0
    BY Rows DEF Init
  <2> QED
    BY <2>2, <2>3
<1>3. MoneyConserved
  <2>1. \A u \in User : InitialBalance[u] \in Int /\ ledger[u] = InitialBalance[u]
    BY WalletAssumption, Rows DEF Init
  <2>2. SumFunctionOnSet(ledger, User) = SumFunctionOnSet(InitialBalance, User)
    BY <2>1, FiniteStore, SumSame
  <2>3. SumFunctionOnSet(InitialBalance, User) \in Int /\ inflow = 0
    BY <2>1, FiniteStore, SumInt DEF Init
  <2> QED
    BY <2>2, <2>3 DEF MoneyConserved
<1> QED
  BY <1>1, <1>2, <1>3 DEF MoneyInv

-----------------------------------------------------------------------------
\* Nothing of request q has changed that its deltas and its bill are about.
Same(q) ==
    /\ pc'[q] = pc[q] /\ user'[q] = user[q]
    /\ loaded'[q] = loaded[q] /\ base'[q] = base[q] /\ delta'[q] = delta[q]
    /\ bought'[q] = bought[q] /\ total'[q] = total[q]
    /\ earned'[q] = earned[q] /\ unpaid'[q] = unpaid[q]

LEMMA SameKeeps ==
    ASSUME NEW q, Same(q), DeltasOf(q), BillOf(q)
    PROVE  DeltasOf(q)' /\ BillOf(q)'
<1>1. DeltasOf(q)'
  BY DEF Same, DeltasOf
<1>2. BillOf(q)'
  BY DEF Same, BillOf
<1> QED
  BY <1>1, <1>2

LEMMA OthersSame ==
    ASSUME MoneyInv, NEW r \in Request, \A q \in Request \ {r} : Same(q),
           DeltasOf(r)', BillOf(r)', AllSales', MoneyConserved'
    PROVE  MoneyInv'
<1>1. ASSUME NEW q \in Request PROVE DeltasOf(q)' /\ BillOf(q)'
  BY SameKeeps DEF MoneyInv
<1> QED
  BY <1>1 DEF MoneyInv

\* Nothing is committed.
LEMMA NoCommit ==
    ASSUME MoneyInv, UNCHANGED <<ledger, purchases, inflow>>
    PROVE  AllSales' /\ MoneyConserved'
<1>1. \A a \in App : Sales(a)' = Sales(a)
  BY DEF Sales
<1> QED
  BY <1>1 DEF MoneyInv, AllSales, MoneyConserved

\* A touch of r leaves to be shown what its own deltas have become.
LEMMA MoneyTouch ==
    ASSUME MoneyInv, NEW r \in Request, NEW S, NEW d, TouchEffect(r, S, d),
           UNCHANGED <<ledger, user, bought, total, earned, purchases, inflow>>,
           \A q \in Request \ {r} : pc'[q] = pc[q] /\ unpaid'[q] = unpaid[q],
           DeltasOf(r)'
    PROVE  MoneyInv'
<1>1. \A q \in Request \ {r} : Same(q)
  BY DEF Same, TouchEffect
<1>2. BillOf(r)'
  BY DEF MoneyInv, BillOf
<1>3. AllSales' /\ MoneyConserved'
  BY NoCommit
<1> QED
  BY <1>1, <1>2, <1>3, OthersSame

LEMMA TransferMoney ==
    ASSUME IInv, MoneyInv, NEW r \in Request, NEW n \in Amount,
           CreateTransferToBalance(r, n) \/ CreateTransferToCard(r, n)
    PROVE  MoneyInv'
<1>1. n \in Nat /\ user[r] \in User
  BY WalletAssumption DEF IInv, TypeOK
<1>2. PICK m \in {n, -n} : UoW!Touch(r, {user[r]}, Plus(user[r], m))
  BY DEF CreateTransferToBalance, CreateTransferToCard
<1>3. /\ pc[r] = "new" /\ pc' = [pc EXCEPT ![r] = "commit_transfer"]
      /\ UNCHANGED <<user, checkoutVars, storeVars, inflow>>
  BY DEF CreateTransferToBalance, CreateTransferToCard, Goto
<1> DEFINE S == {user[r]}
<1> DEFINE d == Plus(user[r], m)
<1>4. TouchEffect(r, S, d)
  <2>1. S \in SUBSET Row /\ d \in [Row -> Int]
    BY <1>1, Rows
  <2> QED
    BY <1>2, <2>1, TouchFacts DEF IInv, TypeOK
<1>5. DeltasOf(r)'
  <2>1. pc'[r] = "commit_transfer" /\ user'[r] = user[r]
    BY <1>3 DEF IInv, TypeOK
  <2>2. \A x \in Row : delta'[r][x] = IF x = user[r] THEN m ELSE 0
    <3>1. \A x \in Row : delta[r][x] = 0
      BY <1>3, Fresh
    <3>2. \A x \in Row : d[x] = IF x = user[r] THEN m ELSE 0
      BY DEF Plus
    <3>3. m \in Int
      BY <1>1
    <3> HIDE DEF d
    <3> QED
      BY <1>4, <3>1, <3>2, <3>3 DEF TouchEffect
  <2> QED
    BY <2>1, <2>2 DEF DeltasOf
<1>6. \A q \in Request \ {r} : pc'[q] = pc[q] /\ unpaid'[q] = unpaid[q]
  BY <1>3 DEF IInv, TypeOK, checkoutVars
<1>7. ledger' = ledger
  BY <1>2 DEF UoW!Touch
<1> HIDE DEF S, d
<1> QED
  BY <1>3, <1>4, <1>5, <1>6, <1>7, MoneyTouch DEF checkoutVars, storeVars

LEMMA PromoMoney ==
    ASSUME IInv, MoneyInv, NEW r \in Request, AddPromoAmount(r)
    PROVE  MoneyInv'
<1> DEFINE S == {user[r]}
<1> DEFINE d == Plus(user[r], CodeValue)
<1>1. CodeValue \in Int /\ user[r] \in User
  BY WalletAssumption DEF IInv, TypeOK
<1>2. UoW!Touch(r, S, d)
  BY DEF AddPromoAmount
<1>3. /\ pc[r] = "code_user" /\ pc' = [pc EXCEPT ![r] = "code_delete"]
      /\ UNCHANGED <<user, checkoutVars, storeVars, inflow>>
  BY DEF AddPromoAmount, Goto
<1>4. TouchEffect(r, S, d)
  <2>1. S \in SUBSET Row /\ d \in [Row -> Int]
    BY <1>1, Rows
  <2> QED
    BY <1>2, <2>1, TouchFacts DEF IInv, TypeOK
<1>5. DeltasOf(r)'
  <2>1. pc'[r] = "code_delete" /\ user'[r] = user[r]
    BY <1>3 DEF IInv, TypeOK
  <2>2. \A x \in Row : delta'[r][x] = IF x = user[r] THEN CodeValue ELSE 0
    <3>1. \A x \in Row : delta[r][x] = 0
      BY <1>3, Fresh
    <3>2. \A x \in Row : d[x] = IF x = user[r] THEN CodeValue ELSE 0
      BY DEF Plus
    <3> HIDE DEF d
    <3> QED
      BY <1>1, <1>4, <3>1, <3>2 DEF TouchEffect
  <2> QED
    BY <2>1, <2>2 DEF DeltasOf
<1>6. \A q \in Request \ {r} : pc'[q] = pc[q] /\ unpaid'[q] = unpaid[q]
  BY <1>3 DEF IInv, TypeOK, checkoutVars
<1>7. ledger' = ledger
  BY <1>2 DEF UoW!Touch
<1> HIDE DEF S, d
<1> QED
  BY <1>3, <1>4, <1>5, <1>6, <1>7, MoneyTouch DEF checkoutVars, storeVars

LEMMA StartMoney ==
    ASSUME IInv, MoneyInv, NEW r \in Request, StartCheckout(r)
    PROVE  MoneyInv'
<1> DEFINE S == {user[r]}
<1>1. TouchEffect(r, S, UoW!Zero) /\ ledger' = ledger
  <2>1. UoW!Touch(r, S, UoW!Zero) /\ S \in SUBSET Row
    BY Rows DEF StartCheckout, IInv, TypeOK
  <2> QED
    BY <2>1, Rows, TouchFacts DEF IInv, TypeOK, UoW!Touch
<1>2. /\ pc' = [pc EXCEPT ![r] = "read_cart"]
      /\ UNCHANGED <<user, checkoutVars, storeVars, inflow>>
  BY DEF StartCheckout, Goto
<1>3. DeltasOf(r)'
  <2>1. pc'[r] = "read_cart" /\ user[r] \in loaded'[r]
    BY <1>1, <1>2 DEF IInv, TypeOK, TouchEffect
  <2> QED
    BY <1>2, <2>1 DEF DeltasOf
<1>4. \A q \in Request \ {r} : pc'[q] = pc[q] /\ unpaid'[q] = unpaid[q]
  BY <1>2 DEF IInv, TypeOK, checkoutVars
<1> HIDE DEF S
<1> QED
  BY <1>1, <1>2, <1>3, <1>4, MoneyTouch DEF checkoutVars, storeVars

LEMMA ReadCartMoney ==
    ASSUME IInv, MoneyInv, NEW r \in Request, ReadCart(r)
    PROVE  MoneyInv'
<1> DEFINE S == {a \in App : cart[user[r]][a] > 0}
<1>1. TouchEffect(r, S, UoW!Zero) /\ ledger' = ledger
  <2>1. UoW!Touch(r, S, UoW!Zero) /\ S \in SUBSET Row
    BY Rows DEF ReadCart
  <2> QED
    BY <2>1, Rows, TouchFacts DEF IInv, TypeOK, UoW!Touch
<1>2. /\ pc[r] = "read_cart" /\ pc' = [pc EXCEPT ![r] = "check_items"]
      /\ UNCHANGED <<user, bought, total, earned, unpaid, storeVars, inflow>>
  BY DEF ReadCart, Goto
<1>3. DeltasOf(r)'
  <2>1. pc'[r] = "check_items"
    BY <1>2 DEF IInv, TypeOK
  <2>2. user[r] \in loaded'[r]
    BY <1>1, <1>2 DEF MoneyInv, DeltasOf, TouchEffect
  <2> QED
    BY <1>2, <2>1, <2>2 DEF DeltasOf
<1>4. \A q \in Request \ {r} : pc'[q] = pc[q] /\ unpaid'[q] = unpaid[q]
  BY <1>2 DEF IInv, TypeOK
<1> HIDE DEF S
<1> QED
  BY <1>1, <1>2, <1>3, <1>4, MoneyTouch DEF storeVars

LEMMA ChargeMoney ==
    ASSUME IInv, MoneyInv, NEW r \in Request, Charge(r)
    PROVE  MoneyInv'
<1> DEFINE d == [x \in Row |-> IF x = user[r] THEN -total[r]
                               ELSE IF x \in App THEN bought[r][x] ELSE 0]
<1>1. /\ user[r] \in User /\ total[r] \in Nat /\ bought[r] \in [App -> Nat]
      /\ earned[r] \in [User -> Nat]
  BY DEF IInv, TypeOK
<1>2. /\ pc[r] = "check_items" /\ pc' = [pc EXCEPT ![r] = "pay_publishers"]
      /\ unpaid' = [unpaid EXCEPT ![r] =
                      {Publisher[a] : a \in {b \in App : bought[r][b] > 0}}]
      /\ UNCHANGED <<user, bought, total, earned, storeVars, inflow>>
      /\ UoW!Touch(r, {}, d) /\ base[r][user[r]] >= total[r]
  BY DEF Charge, Goto
<1>3. TouchEffect(r, {}, d) /\ ledger' = ledger
  <2>1. d \in [Row -> Int]
    BY <1>1
  <2> HIDE DEF d
  <2> QED
    BY <1>2, <2>1, TouchFacts DEF IInv, TypeOK, UoW!Touch
<1>4. DeltasOf(r)'
  <2>1. pc'[r] = "pay_publishers" /\ user' = user /\ total' = total /\ earned' = earned
    BY <1>2 DEF IInv, TypeOK
  <2>2. user[r] \in loaded'[r] /\ base'[r][user[r]] >= total[r]
    <3>1. user[r] \in loaded[r] /\ user[r] \in Row
      BY <1>1, <1>2, Rows DEF MoneyInv, DeltasOf
    <3> HIDE DEF d
    <3> QED
      BY <1>2, <1>3, <3>1 DEF TouchEffect
  <2>3. ASSUME NEW u \in User
        PROVE  delta'[r][u] = (IF u \in unpaid'[r] THEN 0 ELSE earned[r][u])
                                - (IF u = user[r] THEN total[r] ELSE 0)
    <3>1. u \in Row /\ u \notin App
      BY Rows
    <3>2. d[u] = IF u = user[r] THEN -total[r] ELSE 0
      BY <3>1
    <3>3. delta[r][u] = 0
      BY <1>2, <3>1 DEF IInv, Sessions
    <3> HIDE DEF d
    <3>4. delta'[r][u] = d[u]
      BY <1>1, <1>3, <3>1, <3>2, <3>3 DEF TouchEffect
    <3>5. u \notin unpaid'[r] => earned[r][u] = 0
      <4>1. unpaid'[r] = {Publisher[a] : a \in {b \in App : bought[r][b] > 0}}
        BY <1>2 DEF IInv, TypeOK
      <4>2. earned[r][u] > 0 => u \in unpaid'[r]
        BY <4>1 DEF MoneyInv, BillOf
      <4> QED
        BY <1>1, <4>2
    <3> QED
      BY <1>1, <3>2, <3>4, <3>5
  <2> HIDE DEF d
  <2> QED
    BY <2>1, <2>2, <2>3 DEF DeltasOf
<1>5. \A q \in Request \ {r} : pc'[q] = pc[q] /\ unpaid'[q] = unpaid[q]
  BY <1>2 DEF IInv, TypeOK
<1> HIDE DEF d
<1> QED
  BY <1>2, <1>3, <1>4, <1>5, MoneyTouch DEF storeVars

LEMMA PayMoney ==
    ASSUME IInv, MoneyInv, NEW r \in Request, NEW p \in User, PayPublisher(r, p)
    PROVE  MoneyInv'
<1> DEFINE S == {p}
<1> DEFINE d == Plus(p, earned[r][p])
<1>1. /\ user[r] \in User /\ total[r] \in Nat /\ earned[r] \in [User -> Nat]
      /\ unpaid[r] \in SUBSET User
  BY DEF IInv, TypeOK
<1>2. /\ pc[r] = "pay_publishers" /\ p \in unpaid[r]
      /\ unpaid' = [unpaid EXCEPT ![r] = @ \ {p}]
      /\ UNCHANGED <<pc, user, bought, total, earned, storeVars, inflow>>
      /\ UoW!Touch(r, S, d)
  BY DEF PayPublisher
<1>3. TouchEffect(r, S, d) /\ ledger' = ledger
  <2>1. d \in [Row -> Int] /\ S \in SUBSET Row
    BY <1>1, Rows
  <2> HIDE DEF d, S
  <2> QED
    BY <1>2, <2>1, TouchFacts DEF IInv, TypeOK, UoW!Touch
<1>4. DeltasOf(r)'
  <2>1. pc'[r] = "pay_publishers" /\ user' = user /\ total' = total /\ earned' = earned
        /\ unpaid'[r] = unpaid[r] \ {p}
    BY <1>2 DEF IInv, TypeOK
  <2>2. user[r] \in loaded'[r] /\ base'[r][user[r]] >= total[r]
    <3>1. user[r] \in loaded[r] /\ user[r] \in Row /\ base[r][user[r]] >= total[r]
      BY <1>1, <1>2, Rows DEF MoneyInv, DeltasOf
    <3> HIDE DEF d
    <3> QED
      BY <1>3, <3>1 DEF TouchEffect
  <2>3. ASSUME NEW u \in User
        PROVE  delta'[r][u] = (IF u \in unpaid'[r] THEN 0 ELSE earned[r][u])
                                - (IF u = user[r] THEN total[r] ELSE 0)
    <3>1. delta'[r][u] = delta[r][u] + d[u]
      BY <1>3, Rows DEF TouchEffect
    <3>2. d[u] = IF u = p THEN earned[r][p] ELSE 0
      BY Rows DEF Plus
    <3>3. delta[r][u] = (IF u \in unpaid[r] THEN 0 ELSE earned[r][u])
                          - (IF u = user[r] THEN total[r] ELSE 0)
      BY <1>2 DEF MoneyInv, DeltasOf
    <3> HIDE DEF d
    <3> QED
      BY <1>1, <1>2, <2>1, <3>1, <3>2, <3>3
  <2> HIDE DEF d
  <2> QED
    BY <2>1, <2>2, <2>3 DEF DeltasOf
<1>5. \A q \in Request \ {r} : pc'[q] = pc[q] /\ unpaid'[q] = unpaid[q]
  BY <1>2 DEF IInv, TypeOK
<1> HIDE DEF d, S
<1> QED
  BY <1>2, <1>3, <1>4, <1>5, MoneyTouch DEF storeVars

\* Nothing of the session and the bill changes.
LEMMA StageMoney ==
    ASSUME IInv, MoneyInv, NEW r \in Request,
           GetPromoCode(r) \/ DeletePromoCode(r) \/ \E a \in App : SkipPurchased(r, a)
    PROVE  MoneyInv'
<1>1. UNCHANGED <<session, user, bought, total, earned, unpaid, storeVars, inflow>>
  BY DEF GetPromoCode, DeletePromoCode, SkipPurchased, checkoutVars
<1>2. \A q \in Request \ {r} : pc'[q] = pc[q]
  BY DEF IInv, TypeOK, GetPromoCode, DeletePromoCode, SkipPurchased, Goto
<1>3. \A q \in Request \ {r} : Same(q)
  BY <1>1, <1>2 DEF Same, session
<1>4. \/ pc'[r] = "code_user"
      \/ pc[r] = "code_delete" /\ pc'[r] = "commit_code"
      \/ pc'[r] = pc[r]
  BY DEF IInv, TypeOK, GetPromoCode, DeletePromoCode, SkipPurchased, Goto
<1>5. DeltasOf(r)'
  <2>1. DeltasOf(r)
    BY DEF MoneyInv
  <2> QED
    BY <1>1, <1>4, <2>1 DEF DeltasOf, session
<1>6. BillOf(r)'
  BY <1>1 DEF MoneyInv, BillOf
<1>7. AllSales' /\ MoneyConserved'
  BY <1>1, NoCommit DEF session, storeVars
<1> QED
  BY <1>3, <1>5, <1>6, <1>7, OthersSame

LEMMA PickMoney ==
    ASSUME IInv, MoneyInv, NEW r \in Request, NEW a \in App, PickItem(r, a)
    PROVE  MoneyInv'
<1>1. /\ pc[r] = "check_items"
      /\ bought' = [bought EXCEPT ![r][a] = @ + 1]
      /\ total' = [total EXCEPT ![r] = @ + Price[a]]
      /\ earned' = [earned EXCEPT ![r][Publisher[a]] = @ + Price[a]]
      /\ UNCHANGED <<session, pc, user, unpaid, storeVars, inflow>>
  BY DEF PickItem
<1>2. /\ bought \in [Request -> [App -> Nat]] /\ total \in [Request -> Nat]
      /\ earned \in [Request -> [User -> Nat]]
      /\ Price[a] \in Nat /\ Publisher \in [App -> User]
  BY WalletAssumption DEF IInv, TypeOK
<1>3. \A q \in Request \ {r} : Same(q)
  BY <1>1, <1>2 DEF Same, session
<1>4. DeltasOf(r)'
  BY <1>1 DEF MoneyInv, DeltasOf, session
<1> DEFINE bag == bought[r]
<1> DEFINE more == bought'[r]
<1>5. /\ bag \in [App -> Nat] /\ more \in [App -> Nat]
      /\ \A b \in App : more[b] = IF b = a THEN bag[b] + 1 ELSE bag[b]
  BY <1>1, <1>2
<1>6. /\ total'[r] = total[r] + Price[a]
      /\ \A p \in User : earned'[r][p] = IF p = Publisher[a] THEN earned[r][p] + Price[a]
                                         ELSE earned[r][p]
  BY <1>1, <1>2
<1>7. BillOf(r)
  BY DEF MoneyInv
<1>8. BillOf(r)'
  <2> HIDE DEF bag, more
  <2>1. /\ Atomic!Cost(more) = Atomic!Cost(bag) + Price[a]
        /\ \A p \in User : Atomic!Income(more, p) =
             Atomic!Income(bag, p) + (IF p = Publisher[a] THEN Price[a] ELSE 0)
    BY <1>5, OneMore
  <2>2. total'[r] = Atomic!Cost(more)
    BY <1>6, <1>7, <2>1 DEF BillOf, bag
  <2>3. total'[r] = SumFunctionOnSet(earned'[r], User)
    <3>1. SumFunctionOnSet(earned'[r], User) = SumFunctionOnSet(earned[r], User) + Price[a]
      <4>1. /\ Publisher[a] \in User /\ Price[a] \in Int
            /\ \A p \in User : /\ earned[r][p] \in Int
                               /\ earned'[r][p] = IF p = Publisher[a]
                                                  THEN earned[r][p] + Price[a]
                                                  ELSE earned[r][p]
        BY <1>2, <1>6
      <4> QED
        BY <4>1, FiniteStore, SumUpdate
    <3> QED
      BY <1>6, <1>7, <3>1 DEF BillOf
  <2>4. ASSUME NEW p \in User
        PROVE  /\ earned'[r][p] = Atomic!Income(more, p)
               /\ earned'[r][p] > 0 => \E b \in App : Publisher[b] = p /\ more[b] > 0
    <3>1. earned[r][p] = Atomic!Income(bag, p) /\ earned[r][p] \in Nat
      BY <1>2, <1>7 DEF BillOf, bag
    <3>2. earned[r][p] > 0 => \E b \in App : Publisher[b] = p /\ bag[b] > 0
      BY <1>7 DEF BillOf, bag
    <3>3. \A b \in App : bag[b] > 0 => more[b] > 0
      BY <1>5
    <3>4. more[a] > 0
      BY <1>5
    <3>5. CASE p = Publisher[a]
      BY <1>2, <1>6, <2>1, <3>1, <3>4, <3>5
    <3>6. CASE p # Publisher[a]
      BY <1>2, <1>6, <2>1, <3>1, <3>2, <3>3, <3>6
    <3> QED
      BY <3>5, <3>6
  <2> QED
    BY <2>2, <2>3, <2>4 DEF BillOf, more
<1>9. AllSales' /\ MoneyConserved'
  BY <1>1, NoCommit DEF session, storeVars
<1> QED
  BY <1>3, <1>4, <1>8, <1>9, OthersSame

\* The request is answered: its session and its bill are gone.
LEMMA ClosedMoney ==
    ASSUME IInv, MoneyInv, NEW r \in Request, NEW to \in Final,
           UoW!Close(r), ForgetCheckout(r), UNCHANGED user,
           pc' = [pc EXCEPT ![r] = to]
    PROVE  /\ \A q \in Request \ {r} : Same(q)
           /\ DeltasOf(r)' /\ BillOf(r)'
<1>1. CloseEffect(r)
  BY CloseFacts DEF IInv, TypeOK
<1>2. \A q \in Request \ {r} : Same(q)
  BY <1>1 DEF Same, CloseEffect, ForgetCheckout, IInv, TypeOK
<1>3. DeltasOf(r)'
  BY DEF DeltasOf, IInv, TypeOK, Final
<1>4. bought'[r] = None /\ total'[r] = 0 /\ earned'[r] = NoEarnings
  BY DEF ForgetCheckout, IInv, TypeOK
<1>5. \A p \in User : earned'[r][p] = 0
  BY <1>4 DEF NoEarnings
<1>6. BillOf(r)'
  BY <1>4, <1>5, NothingIsFree DEF BillOf
<1> QED
  BY <1>2, <1>3, <1>6

LEMMA LeaveMoney ==
    ASSUME IInv, MoneyInv, NEW r \in Request, NEW stage, NEW final \in Final,
           Leave(r, stage, final)
    PROVE  MoneyInv'
<1>1. /\ UoW!Close(r) /\ ForgetCheckout(r) /\ pc' = [pc EXCEPT ![r] = final]
      /\ UNCHANGED <<ledger, user, storeVars, inflow>>
  BY DEF Leave, Goto, UoW!Rollback
<1>2. AllSales' /\ MoneyConserved'
  BY <1>1, NoCommit DEF storeVars
<1> QED
  BY <1>1, <1>2, ClosedMoney, OthersSame

-----------------------------------------------------------------------------
\* A commit moves the ledger by the changes of its session.
LEMMA LedgerMoves ==
    ASSUME IInv, NEW r \in Request, UoW!Commit(r)
    PROVE  /\ \A x \in Row : ledger'[x] = ledger[x] + delta[r][x]
           /\ \A x \in Row : ledger[x] \in Int /\ delta[r][x] \in Int
<1>1. \A x \in Row : ledger[x] \in Int /\ delta[r][x] \in Int
  BY DEF IInv, TypeOK, UoW!TypeOK
<1>2. \A x \in Row \ loaded[r] : delta[r][x] = 0
  BY DEF IInv, Sessions
<1>3. \A x \in Row : x \notin UoW!Dirty(r) => delta[r][x] = 0
  BY <1>2 DEF UoW!Dirty
<1> QED
  BY <1>1, <1>3 DEF UoW!Commit

\* A commit that sells nothing keeps the books if the inflow moves with it.
LEMMA CommitBooks ==
    ASSUME IInv, MoneyInv, NEW r \in Request, UoW!Commit(r),
           inflow' = inflow + SumFunctionOnSet(delta[r], User)
    PROVE  MoneyConserved'
<1>1. /\ \A u \in User : ledger'[u] = ledger[u] + delta[r][u]
      /\ \A u \in User : ledger[u] \in Int /\ delta[r][u] \in Int
  BY LedgerMoves, Rows
<1>2. /\ SumFunctionOnSet(ledger', User) =
           SumFunctionOnSet(ledger, User) + SumFunctionOnSet(delta[r], User)
      /\ SumFunctionOnSet(delta[r], User) \in Int
      /\ SumFunctionOnSet(ledger, User) \in Int
  BY <1>1, FiniteStore, SumPlus, SumInt
<1>3. SumFunctionOnSet(ledger, User) = SumFunctionOnSet(InitialBalance, User) + inflow
  BY DEF MoneyInv, MoneyConserved
<1>4. SumFunctionOnSet(InitialBalance, User) \in Int /\ inflow \in Int
  <2>1. \A u \in User : InitialBalance[u] \in Int
    BY WalletAssumption
  <2> QED
    BY <2>1, FiniteStore, SumInt DEF IInv, TypeOK
<1> QED
  BY <1>2, <1>3, <1>4 DEF MoneyConserved

\* A transfer or an activation commits the change of one balance.
LEMMA CommitMoney ==
    ASSUME IInv, MoneyInv, NEW r \in Request, CommitTransfer(r) \/ CommitPromoCode(r)
    PROVE  MoneyInv'
<1>1. /\ pc' = [pc EXCEPT ![r] = "done"] /\ UoW!Commit(r)
      /\ UNCHANGED <<user, checkoutVars, storeVars>>
  BY DEF CommitTransfer, CommitPromoCode, Goto
<1>2. UoW!Close(r) /\ user[r] \in User
  BY <1>1 DEF UoW!Commit, IInv, TypeOK
<1>3. PICK n \in Int : /\ \A x \in Row : delta[r][x] = IF x = user[r] THEN n ELSE 0
                       /\ inflow' = inflow + n
  <2>1. CASE CommitTransfer(r)
    <3>1. pc[r] = "commit_transfer" /\ inflow' = inflow + delta[r][user[r]]
      BY <2>1 DEF CommitTransfer, Goto
    <3>2. PICK n \in Amount : \E m \in {n, -n} : \A x \in Row :
            delta[r][x] = IF x = user[r] THEN m ELSE 0
      BY <3>1 DEF MoneyInv, DeltasOf
    <3>3. n \in Int /\ -n \in Int
      BY WalletAssumption
    <3>4. PICK m \in {n, -n} : \A x \in Row : delta[r][x] = IF x = user[r] THEN m ELSE 0
      BY <3>2
    <3> QED
      BY <1>2, <3>1, <3>3, <3>4, Rows
  <2>2. CASE CommitPromoCode(r)
    BY <2>2, WalletAssumption DEF CommitPromoCode, Goto, MoneyInv, DeltasOf
  <2> QED
    BY <1>1, <2>1, <2>2
<1>4. SumFunctionOnSet(delta[r], User) = n
  <2>1. \A u \in User : delta[r][u] = IF u = user[r] THEN n ELSE 0
    BY <1>3, Rows
  <2> QED
    BY <1>2, <2>1, FiniteStore, SumSingle
<1>5. MoneyConserved'
  BY <1>1, <1>3, <1>4, CommitBooks
<1>6. AllSales'
  <2>1. \A a \in App : ledger'[a] = ledger[a] + delta[r][a] /\ ledger[a] \in Int
                       /\ delta[r][a] = 0 /\ Sales(a)' = Sales(a)
    BY <1>1, <1>2, <1>3, LedgerMoves, Rows DEF Sales, storeVars
  <2> QED
    BY <2>1 DEF MoneyInv, AllSales
<1>7. \A q \in Request \ {r} : Same(q)
  <2>1. CloseEffect(r)
    BY <1>2, CloseFacts DEF IInv, TypeOK
  <2> QED
    BY <1>1, <2>1 DEF Same, CloseEffect, checkoutVars, IInv, TypeOK
<1>8. DeltasOf(r)' /\ BillOf(r)'
  <2>1. pc'[r] = "done"
    BY <1>1 DEF IInv, TypeOK
  <2> QED
    BY <1>1, <2>1 DEF DeltasOf, MoneyInv, BillOf, checkoutVars
<1> QED
  BY <1>5, <1>6, <1>7, <1>8, OthersSame

\* A checkout charges the sum of what it credits, and writes a row for every
\* sale it counts.
LEMMA CheckoutMoney ==
    ASSUME IInv, MoneyInv, NEW r \in Request, CommitCheckout(r)
    PROVE  MoneyInv'
<1>1. /\ pc[r] = "pay_publishers" /\ unpaid[r] = {}
      /\ pc' = [pc EXCEPT ![r] = "done"] /\ UoW!Commit(r) /\ ForgetCheckout(r)
      /\ purchases' = [purchases EXCEPT ![user[r]] =
                         [a \in App |-> @[a] + bought[r][a]]]
      /\ UNCHANGED <<user, inflow>>
  BY DEF CommitCheckout, Goto
<1>2. /\ user[r] \in User /\ total[r] \in Nat /\ earned[r] \in [User -> Nat]
      /\ bought[r] \in [App -> Nat] /\ purchases \in [User -> [App -> Nat]]
      /\ inflow \in Int
  BY DEF IInv, TypeOK
<1>3. SumFunctionOnSet(delta[r], User) = 0
  <2> DEFINE z == [u \in User |-> IF u = user[r] THEN -total[r] ELSE 0]
  <2>1. -total[r] \in Int /\ \A u \in User : z[u] = IF u = user[r] THEN -total[r] ELSE 0
    BY <1>2
  <2>2. \A u \in User : /\ earned[r][u] \in Int /\ z[u] \in Int
                        /\ delta[r][u] = earned[r][u] + z[u]
    BY <1>1, <1>2, <2>1 DEF MoneyInv, DeltasOf
  <2> HIDE DEF z
  <2>3. SumFunctionOnSet(delta[r], User)
          = SumFunctionOnSet(earned[r], User) + SumFunctionOnSet(z, User)
    BY <2>2, FiniteStore, SumPlus
  <2>4. SumFunctionOnSet(z, User) = -total[r]
    BY <1>2, <2>1, FiniteStore, SumSingle
  <2> QED
    BY <1>2, <2>3, <2>4 DEF MoneyInv, BillOf
<1>4. MoneyConserved'
  <2>1. inflow' = inflow + SumFunctionOnSet(delta[r], User)
    BY <1>1, <1>2, <1>3
  <2> QED
    BY <1>1, <2>1, CommitBooks
<1>5. AllSales'
  <2> SUFFICES ASSUME NEW a \in App PROVE ledger'[a] = Sales(a)'
    BY DEF AllSales
  <2> DEFINE f == [u \in User |-> purchases[u][a]]
  <2> DEFINE g == [u \in User |-> purchases'[u][a]]
  <2>1. /\ bought[r][a] \in Int
        /\ \A u \in User : /\ f[u] \in Int
                           /\ g[u] = IF u = user[r] THEN f[u] + bought[r][a] ELSE f[u]
    BY <1>1, <1>2
  <2>2. Sales(a) = SumFunctionOnSet(f, User)
    BY SalesIs
  <2>3. Sales(a)' = SumFunctionOnSet(g, User)
    BY DEF Sales, SumFunction
  <2>4. SumFunctionOnSet(g, User) = SumFunctionOnSet(f, User) + bought[r][a]
    <3> DEFINE n == bought[r][a]
    <3> DEFINE e == user[r]
    <3>1. e \in User /\ n \in Int
          /\ \A u \in User : f[u] \in Int /\ g[u] = IF u = e THEN f[u] + n ELSE f[u]
      BY <1>2, <2>1
    <3> HIDE DEF f, g, n, e
    <3>2. SumFunctionOnSet(g, User) = SumFunctionOnSet(f, User) + n
      BY <3>1, FiniteStore, SumUpdate
    <3> QED
      BY <3>2 DEF n
  <2> HIDE DEF f, g
  <2>5. ledger'[a] = ledger[a] + delta[r][a] /\ delta[r][a] = bought[r][a]
    BY <1>1, LedgerMoves, Rows DEF IInv, Picks
  <2> QED
    BY <2>2, <2>3, <2>4, <2>5 DEF MoneyInv, AllSales
<1>6. /\ \A q \in Request \ {r} : Same(q)
      /\ DeltasOf(r)' /\ BillOf(r)'
  BY <1>1, ClosedMoney DEF UoW!Commit, Final
<1> QED
  BY <1>4, <1>5, <1>6, OthersSame

LEMMA MoneyNext == IInv /\ MoneyInv /\ [Next]_vars => MoneyInv'
<1> SUFFICES ASSUME IInv, MoneyInv, [Next]_vars
             PROVE  MoneyInv'
  OBVIOUS
<1>1. ASSUME NEW r \in Request, Step(r)
      PROVE  MoneyInv'
  <2>1. CASE \E n \in Amount : CreateTransferToBalance(r, n)
                               \/ CreateTransferToCard(r, n)
    BY <2>1, TransferMoney
  <2>2. CASE CommitTransfer(r) \/ CommitPromoCode(r)
    BY <2>2, CommitMoney
  <2>3. CASE \/ GetPromoCode(r) \/ DeletePromoCode(r)
             \/ \E a \in App : SkipPurchased(r, a)
    BY <2>3, StageMoney
  <2>4. CASE AddPromoAmount(r)
    BY <2>4, PromoMoney
  <2>5. CASE StartCheckout(r)
    BY <2>5, StartMoney
  <2>6. CASE ReadCart(r)
    BY <2>6, ReadCartMoney
  <2>7. CASE \E a \in App : PickItem(r, a)
    BY <2>7, PickMoney
  <2>8. CASE Charge(r)
    BY <2>8, ChargeMoney
  <2>9. CASE \E p \in User : PayPublisher(r, p)
    BY <2>9, PayMoney
  <2>10. CASE CommitCheckout(r)
    BY <2>10, CheckoutMoney
  <2>11. CASE \/ RefuseTransferToCard(r) \/ RefusePromoCode(r) \/ RefuseEmptyCart(r)
              \/ ReturnNothing(r) \/ RefuseInsufficientFunds(r) \/ Fail(r)
    <3>1. \E stage, final : final \in Final /\ Leave(r, stage, final)
      BY <2>11 DEF RefuseTransferToCard, RefusePromoCode, RefuseEmptyCart,
                   ReturnNothing, RefuseInsufficientFunds, Fail, Reject, Final
    <3> QED
      BY <3>1, LeaveMoney
  <2> QED
    BY <1>1, <2>1, <2>2, <2>3, <2>4, <2>5, <2>6, <2>7, <2>8, <2>9, <2>10, <2>11
       DEF Step
<1>2. ASSUME UNCHANGED <<session, pc, user, checkoutVars, storeVars, inflow>>
      PROVE  MoneyInv'
  <2>1. AllSales' /\ MoneyConserved'
    BY <1>2, NoCommit DEF session, storeVars
  <2>2. ASSUME NEW q \in Request PROVE DeltasOf(q)' /\ BillOf(q)'
    <3>1. Same(q)
      BY <1>2 DEF Same, session, checkoutVars
    <3> QED
      BY <3>1, SameKeeps DEF MoneyInv
  <2> QED
    BY <2>1, <2>2 DEF MoneyInv
<1>3. CASE \E c \in Code : ExpirePromoCode(c)
  BY <1>2, <1>3 DEF ExpirePromoCode
<1>4. CASE UNCHANGED vars
  BY <1>2, <1>4 DEF vars
<1> QED
  BY <1>1, <1>3, <1>4 DEF Next, Quiet

THEOREM MoneyInvariant == Spec => []MoneyInv
<1> QED
  BY MoneyInit, MoneyNext, WalletInvariant, PTL DEF Spec

\* For every set of users, apps and requests: what the committed changes of all
\* balances add up to is what transfers and codes brought in, so a checkout
\* charges exactly what it credits.
THEOREM MoneyConservedAlways == Spec => []MoneyConserved
<1>1. MoneyInv => MoneyConserved
  BY DEF MoneyInv
<1> QED
  BY <1>1, MoneyInvariant, PTL

\* The sale counter of an app nobody raced on is the number of its purchase rows.
THEOREM SalesCountedAlways == Spec => []SalesCounted
<1>1. MoneyInv /\ LedgerAgrees => SalesCounted
  BY Rows DEF MoneyInv, AllSales, LedgerAgrees, UoW!LedgerAgrees, SalesCounted
<1> QED
  BY <1>1, MoneyInvariant, WalletLedgerAgrees, PTL

-----------------------------------------------------------------------------
(* Without a stale write the wallet is the atomic Bank *)

\* A commit that overwrites nothing adds to what the database holds.
LEMMA CurrentMoves ==
    ASSUME IInv, SessionInv, NEW r \in Request, UoW!Commit(r), raced' = {}
    PROVE  \A x \in Row : /\ db'[x] = db[x] + delta[r][x]
                          /\ db[x] \in Int /\ delta[r][x] \in Int
                          /\ delta[r][x] # 0 => x \notin stale[r] /\ base[r][x] = db[x]
<1> SUFFICES ASSUME NEW x \in Row
             PROVE  /\ db'[x] = db[x] + delta[r][x]
                    /\ db[x] \in Int /\ delta[r][x] \in Int
                    /\ delta[r][x] # 0 => x \notin stale[r] /\ base[r][x] = db[x]
  OBVIOUS
<1>1. db[x] \in Int /\ delta[r][x] \in Int /\ base[r][x] \in Int
  BY DEF IInv, TypeOK, UoW!TypeOK
<1>2. CASE delta[r][x] = 0
  BY <1>1, <1>2 DEF UoW!Commit, UoW!Dirty
<1>3. CASE delta[r][x] # 0
  <2>1. x \in loaded[r] /\ x \in UoW!Dirty(r)
    BY <1>3 DEF IInv, Sessions, UoW!Dirty
  <2>2. x \notin stale[r]
    BY <2>1 DEF UoW!Commit
  <2>3. base[r][x] = db[x]
    BY <2>1, <2>2 DEF SessionInv, UoW!SnapshotCurrent
  <2> QED
    BY <1>1, <2>1, <2>2, <2>3 DEF UoW!Commit
<1> QED
  BY <1>2, <1>3

\* The commit of one changed balance is a deposit or a withdrawal.
LEMMA MoneyBanked ==
    ASSUME IInv, SessionInv, MoneyInv, NEW r \in Request, raced' = {},
           CommitTransfer(r) \/ CommitPromoCode(r)
    PROVE  Atomic!Next
<1>1. UoW!Commit(r) /\ purchases' = purchases
  BY DEF CommitTransfer, CommitPromoCode, storeVars
<1> DEFINE u == user[r]
<1>2. u \in User
  BY DEF IInv, TypeOK
<1>3. PICK n \in Amount \cup {CodeValue} :
        \E m \in {n, -n} : /\ m = -n => n \in Amount
                           /\ \A x \in Row : delta[r][x] = IF x = u THEN m ELSE 0
  <2>1. CASE CommitTransfer(r)
    <3>1. pc[r] = "commit_transfer"
      BY <2>1 DEF CommitTransfer, Goto
    <3>2. \E n \in Amount : \E m \in {n, -n} :
            \A x \in Row : delta[r][x] = IF x = u THEN m ELSE 0
      BY <3>1 DEF MoneyInv, DeltasOf
    <3> QED
      BY <3>2
  <2>2. CASE CommitPromoCode(r)
    <3>1. pc[r] = "commit_code"
      BY <2>2 DEF CommitPromoCode, Goto
    <3>2. \A x \in Row : delta[r][x] = IF x = u THEN CodeValue ELSE 0
      BY <3>1 DEF MoneyInv, DeltasOf
    <3>3. CodeValue # -CodeValue
      BY WalletAssumption
    <3> WITNESS CodeValue \in Amount \cup {CodeValue}
    <3> WITNESS CodeValue \in {CodeValue, -CodeValue}
    <3> QED
      BY <3>2, <3>3
  <2> QED
    BY <2>1, <2>2
<1>4. n \in Nat /\ n > 0
  BY WalletAssumption
<1>5. PICK m \in {n, -n} : /\ m = -n => n \in Amount
                           /\ \A x \in Row : delta[r][x] = IF x = u THEN m ELSE 0
  BY <1>3
<1>6. \A v \in User : db[v] \in Int /\ db'[v] = IF v = u THEN db[v] + m ELSE db[v]
  BY <1>1, <1>5, CurrentMoves, Rows
<1>7. CASE m = n
  <2>1. Atomic!Deposit(u, n)
    BY <1>1, <1>2, <1>6, <1>7 DEF Atomic!Deposit
  <2> QED
    BY <1>2, <2>1 DEF Atomic!Next
<1>8. CASE m = -n
  <2>1. n \in Amount
    BY <1>5, <1>8
  <2>2. db[u] >= n
    <3>1. delta[r][u] = -n /\ delta[r][u] # 0
      BY <1>2, <1>4, <1>5, <1>8, Rows
    <3>2. base[r][u] = db[u] /\ base[r][u] + delta[r][u] >= 0
      BY <1>1, <1>2, <3>1, CurrentMoves, Rows DEF IInv, NonNegative
    <3> QED
      BY <1>2, <1>4, <1>6, <3>1, <3>2
  <2>3. \A v \in User : db'[v] = IF v = u THEN db[v] - n ELSE db[v]
    BY <1>4, <1>6, <1>8
  <2>4. Atomic!Withdraw(u, n)
    BY <1>1, <1>2, <2>2, <2>3 DEF Atomic!Withdraw
  <2> QED
    BY <1>2, <2>1, <2>4 DEF Atomic!Next
<1> QED
  BY <1>5, <1>7, <1>8

\* The commit of a checkout is a purchase.  The buyer can afford it by the
\* balance of this moment: either the row is written, then it is current, or
\* charge and earnings cancel, and nobody sells to himself.
LEMMA CheckoutBanked ==
    ASSUME IInv, SessionInv, MoneyInv, NEW r \in Request, raced' = {},
           CommitCheckout(r)
    PROVE  Atomic!Next
<1>0. PICK u \in User : u = user[r]
  BY DEF IInv, TypeOK
<1>1. /\ pc[r] = "pay_publishers" /\ unpaid[r] = {} /\ UoW!Commit(r)
      /\ purchases' = [purchases EXCEPT ![u] = [a \in App |-> @[a] + bought[r][a]]]
  BY <1>0 DEF CommitCheckout, Goto
<1>2. /\ bought[r] \in [App -> Nat] /\ purchases \in [User -> [App -> Nat]]
      /\ todo[r] \in [App -> Nat] /\ total[r] \in Nat /\ earned[r] \in [User -> Nat]
  BY DEF IInv, TypeOK
<1> DEFINE bag == [a \in App |-> purchases'[u][a] - purchases[u][a]]
<1>3. bag = bought[r]
  <2>1. \A a \in App : purchases'[u][a] = purchases[u][a] + bought[r][a]
    BY <1>1, <1>2
  <2>2. \A a \in App : bag[a] = bought[r][a]
    BY <1>2, <2>1
  <2> QED
    BY <1>2, <2>2
<1>4. ASSUME NEW a \in App
      PROVE  bag[a] >= 0 /\ (bag[a] > 0 => purchases[u][a] = 0)
  <2>1. bought[r][a] \in Nat
    BY <1>2
  <2>2. bought[r][a] > 0 => purchases[u][a] = 0
    <3>1. delta[r][a] = bought[r][a]
          /\ (bought[r][a] > 0 /\ a \notin stale[r] => purchases[u][a] = 0)
      BY <1>0, <1>1 DEF IInv, Picks
    <3>2. delta[r][a] # 0 => a \notin stale[r]
      BY <1>1, CurrentMoves, Rows
    <3> QED
      BY <2>1, <3>1, <3>2
  <2> QED
    BY <1>3, <2>1, <2>2
<1>5. purchases' = [purchases EXCEPT ![u] = purchases'[u]]
  BY <1>1, <1>2
<1>6. \A v \in User : /\ delta[r][v] = earned[r][v] - (IF v = u THEN total[r] ELSE 0)
                      /\ earned[r][v] = Atomic!Income(bag, v)
  BY <1>0, <1>1, <1>2, <1>3 DEF MoneyInv, DeltasOf, BillOf
<1>7. total[r] = Atomic!Cost(bag)
  BY <1>3 DEF MoneyInv, BillOf
<1>8. db[u] >= total[r]
  <2>1. CASE delta[r][u] # 0
    <3>1. base[r][u] = db[u] /\ base[r][u] >= total[r]
      BY <1>0, <1>1, <2>1, CurrentMoves, Rows DEF MoneyInv, DeltasOf
    <3> QED
      BY <3>1
  <2>2. CASE delta[r][u] = 0
    <3>1. ~(earned[r][u] > 0)
      <4> SUFFICES ASSUME earned[r][u] > 0 PROVE FALSE
        OBVIOUS
      <4>1. PICK a \in App : Publisher[a] = u /\ bought[r][a] > 0
        BY <1>2 DEF MoneyInv, BillOf
      <4>2. InitialCart[u][a] = 0
        BY <4>1, NoOwnApps
      <4>3. bought[r][a] + todo[r][a] <= InitialCart[u][a]
        BY <1>0 DEF IInv, Picks
      <4> QED
        BY <1>2, <4>1, <4>2, <4>3
    <3>2. earned[r][u] \in Nat /\ delta[r][u] = earned[r][u] - total[r]
      BY <1>2, <1>6
    <3>3. total[r] = 0
      BY <1>2, <2>2, <3>1, <3>2
    <3> QED
      BY <1>2, <3>3 DEF IInv, NonNegative
  <2> QED
    BY <2>1, <2>2
<1>9. \A v \in User : db'[v] = db[v] + Atomic!Income(bag, v)
                                 - (IF v = u THEN Atomic!Cost(bag) ELSE 0)
  <2> SUFFICES ASSUME NEW v \in User
               PROVE  db'[v] = db[v] + Atomic!Income(bag, v)
                                 - (IF v = u THEN Atomic!Cost(bag) ELSE 0)
    OBVIOUS
  <2>1. db[v] \in Int /\ db'[v] = db[v] + delta[r][v]
    BY <1>1, CurrentMoves, Rows
  <2> HIDE DEF bag
  <2> QED
    BY <1>2, <1>6, <1>7, <2>1
<1>10. Atomic!Purchase(u)
  <2>1. [v \in User |-> db[v]][u] >= Atomic!Cost(bag)
    BY <1>2, <1>7, <1>8
  <2>2. [v \in User |-> db'[v]] =
          [v \in User |-> [w \in User |-> db[w]][v] + Atomic!Income(bag, v)
                            - (IF v = u THEN Atomic!Cost(bag) ELSE 0)]
    BY <1>9
  <2> QED
    BY <1>4, <1>5, <2>1, <2>2 DEF Atomic!Purchase
<1> QED
  BY <1>10 DEF Atomic!Next

LEMMA StepBanked ==
    ASSUME IInv, SessionInv, MoneyInv, [Next]_vars, raced' = {}
    PROVE  Atomic!Next \/ UNCHANGED Atomic!vars
<1>1. ASSUME UNCHANGED <<db, purchases>>
      PROVE  UNCHANGED Atomic!vars
  BY <1>1 DEF Atomic!vars
<1>2. ASSUME NEW r \in Request, Step(r)
      PROVE  Atomic!Next \/ UNCHANGED Atomic!vars
  <2>1. CASE CommitTransfer(r) \/ CommitPromoCode(r)
    BY <2>1, MoneyBanked
  <2>2. CASE CommitCheckout(r)
    BY <2>2, CheckoutBanked
  <2>3. CASE \/ \E n \in Amount : CreateTransferToBalance(r, n)
                                  \/ CreateTransferToCard(r, n)
             \/ AddPromoAmount(r) \/ StartCheckout(r) \/ ReadCart(r) \/ Charge(r)
             \/ \E p \in User : PayPublisher(r, p)
    BY <1>1, <2>3 DEF CreateTransferToBalance, CreateTransferToCard, AddPromoAmount,
       StartCheckout, ReadCart, Charge, PayPublisher, UoW!Touch, storeVars
  <2>4. CASE \/ RefuseTransferToCard(r) \/ RefusePromoCode(r) \/ RefuseEmptyCart(r)
             \/ ReturnNothing(r) \/ RefuseInsufficientFunds(r) \/ Fail(r)
    BY <1>1, <2>4 DEF RefuseTransferToCard, RefusePromoCode, RefuseEmptyCart,
       ReturnNothing, RefuseInsufficientFunds, Fail, Reject, Leave, UoW!Rollback,
       storeVars
  <2>5. CASE \/ GetPromoCode(r) \/ DeletePromoCode(r)
             \/ \E a \in App : SkipPurchased(r, a) \/ PickItem(r, a)
    BY <1>1, <2>5 DEF GetPromoCode, DeletePromoCode, SkipPurchased, PickItem,
       session, storeVars
  <2> QED
    BY <1>2, <2>1, <2>2, <2>3, <2>4, <2>5 DEF Step
<1>3. CASE \E c \in Code : ExpirePromoCode(c)
  BY <1>1, <1>3 DEF ExpirePromoCode, session, storeVars
<1>4. CASE UNCHANGED vars
  BY <1>1, <1>4 DEF vars, session, storeVars
<1> QED
  BY <1>2, <1>3, <1>4 DEF Next, Quiet

LEMMA SessionAlways == Spec => []SessionInv
<1> QED
  BY WalletImplementsUnitOfWork, UnitOfWorkInvariant, PTL

\* Stale writes are the only thing between the code and atomic operations: a step
\* that none preceded or is part of is a whole deposit, withdrawal or purchase,
\* or changes neither a balance nor a purchase.
THEOREM AtomicUnlessRaced == Spec => BankUnlessRaced
<1>1. IInv /\ SessionInv /\ MoneyInv /\ [Next]_vars
        => [raced' = {} => Atomic!Next \/ UNCHANGED Atomic!vars]_vars
  BY StepBanked
<1> QED
  BY <1>1, WalletInvariant, SessionAlways, MoneyInvariant, PTL DEF Spec, BankUnlessRaced

\* So a run of the store in which no commit ever writes a stale value is a run of
\* the atomic Bank.
THEOREM RacelessIsAtomic == Spec /\ [](raced = {}) => Atomic!Spec
<1> DEFINE Raceless == raced = {}
<1>1. Init => Atomic!Init
  <2> SUFFICES ASSUME Init PROVE Atomic!Init
    OBVIOUS
  <2>1. \A u \in User : db[u] \in Int /\ db[u] >= 0
    BY WalletAssumption, Rows DEF Init
  <2>2. purchases = [u \in User |-> [a \in App |-> 0]]
    BY DEF Init, None
  <2> QED
    BY <2>1, <2>2 DEF Atomic!Init
<1>2. IInv /\ SessionInv /\ MoneyInv /\ [Next]_vars /\ Raceless'
        => [Atomic!Next]_(Atomic!vars)
  BY StepBanked
<1> HIDE DEF Raceless
<1>3. Spec /\ []Raceless => Atomic!Spec
  BY <1>1, <1>2, WalletInvariant, SessionAlways, MoneyInvariant, PTL
     DEF Spec, Atomic!Spec
<1> QED
  BY <1>3 DEF Raceless
=============================================================================
