---------------------------- MODULE ServerProofs ----------------------------
(***************************************************************************)
(* Theorems about what every request stands on.  The dependencies of       *)
(* api/deps.py: the connection pool, for any number of connections and     *)
(* requests, and the rate limiter, for every window, limit and delay.  The *)
(* database: the revisions of its schema, for any tables that the          *)
(* application fills.                                                      *)
(***************************************************************************)
EXTENDS Pool, RateLimiter, Migrations, FiniteSetTheorems, WellFoundedInduction, TLAPS

-----------------------------------------------------------------------------
(* Pool.  Where a request stands tells which connections it may hold       *)
(* (PlacedInv); everything said about a stand-still and about leaks        *)
(* follows from that alone.                                                *)

\* The awaits at which a request may hold a connection of a part.
StageOf ==
    [part \in Part |->
        CASE part = "session" -> {"reading", "ask_uow", "in_uow", "open",
                                  "ask_message", "in_message", "leaving"}
          [] part = "uow" -> {"in_uow", "in_cart", "in_app", "in_message"}
          [] part = "orphan" -> {"ask_cart", "in_cart", "ask_app", "in_app",
                                 "leaving", "done"}]

Placed ==
    \A c \in Connection, r \in Request, part \in Part :
        owner[c] = <<r, part>> => pc[r] \in StageOf[part]

\* A request has at most one connection of each part.
Single ==
    \A c, d \in Connection, r \in Request, part \in Part :
        owner[c] = <<r, part>> /\ owner[d] = <<r, part>> => c = d

\* Whoever nests units of work holds no session of the dependency.
Apart ==
    \A c, d \in Connection, r \in Request :
        ~ (owner[c] = <<r, "session">> /\ owner[d] = <<r, "orphan">>)

PlacedInv == TypeOK /\ Placed /\ Single /\ Apart

\* From one await to the next, r may keep what it holds, but for some parts.
Keeps(from, to, parts) ==
    \A p \in Part \ parts : from \in StageOf[p] => to \in StageOf[p]

-----------------------------------------------------------------------------
\* What StageOf says of each part, for the provers.
LEMMA StageOfParts ==
    /\ StageOf["session"] = {"reading", "ask_uow", "in_uow", "open",
                             "ask_message", "in_message", "leaving"}
    /\ StageOf["uow"] = {"in_uow", "in_cart", "in_app", "in_message"}
    /\ StageOf["orphan"] = {"ask_cart", "in_cart", "ask_app", "in_app",
                            "leaving", "done"}
    /\ Part = {"session", "uow", "orphan"}
  BY DEF StageOf, Part

\* A step that moves r on without touching the pool.
LEMMA GotoInv ==
    ASSUME PlacedInv, NEW r \in Request, NEW from, NEW to \in Stage,
           Goto(r, from, to), UNCHANGED owner,
           Keeps(from, to, {})
    PROVE  PlacedInv'
  BY DEF PlacedInv, TypeOK, Placed, Single, Apart, Goto, Keeps

\* A step that takes a connection for a part r does not hold.
LEMMA TakeInv ==
    ASSUME PlacedInv, NEW r \in Request, NEW from, NEW to \in Stage,
           NEW part \in {"session", "uow"},
           Take(r, part, from, to),
           from \notin StageOf[part], to \in StageOf[part],
           part = "session" => from \notin StageOf["orphan"],
           Keeps(from, to, {})
    PROVE  PlacedInv'
  <1> USE DEF Part, Keeps
  <1>1. PICK k \in Free : owner' = [owner EXCEPT ![k] = <<r, part>>]
    BY DEF Take
  <1>2. /\ k \in Connection /\ owner[k] = None
        /\ pc[r] = from /\ pc' = [pc EXCEPT ![r] = to]
    BY <1>1 DEF Take, Goto, Free
  <1>3. TypeOK'
    BY <1>1, <1>2 DEF PlacedInv, TypeOK
  <1>4. \A c \in Connection : owner[c] # <<r, part>>
    BY <1>2 DEF PlacedInv, Placed
  <1>5. \A c \in Connection, q \in Request, p \in Part :
           owner'[c] = <<q, p>> <=> \/ owner[c] = <<q, p>> /\ c # k
                                    \/ c = k /\ q = r /\ p = part
    BY <1>1, <1>2 DEF PlacedInv, TypeOK
  <1>6. Placed'
    BY <1>2, <1>5 DEF PlacedInv, TypeOK, Placed
  <1>7. Single'
    BY <1>4, <1>5 DEF PlacedInv, Single
  <1>8. Apart'
    <2>1. part = "session" => \A c \in Connection : owner[c] # <<r, "orphan">>
      BY <1>2 DEF PlacedInv, Placed
    <2> QED BY <1>5, <2>1 DEF PlacedInv, Apart
  <1> QED BY <1>3, <1>6, <1>7, <1>8 DEF PlacedInv

\* What is still held after a release was held before, by another request or
\* for another part.
LEMMA ReleasedOnly ==
    ASSUME TypeOK, NEW r \in Request, NEW parts \in SUBSET Part,
           owner' = Released(r, parts)
    PROVE  /\ owner' \in [Connection -> (Request \X Part) \cup {None}]
           /\ \A c \in Connection, q \in Request, p \in Part :
                owner'[c] = <<q, p>> =>
                    owner[c] = <<q, p>> /\ ~ (q = r /\ p \in parts)
  <1>1. owner' \in [Connection -> (Request \X Part) \cup {None}]
    BY DEF TypeOK, Released
  <1>2. ASSUME NEW c \in Connection, NEW q \in Request, NEW p \in Part,
               owner'[c] = <<q, p>>
        PROVE  owner[c] = <<q, p>> /\ ~ (q = r /\ p \in parts)
    <2>1. owner'[c] # None
      BY <1>2, PoolAssumption
    <2>2. owner'[c] = owner[c] /\ owner[c] \notin {r} \X parts
      BY <2>1 DEF Released
    <2> QED BY <1>2, <2>2
  <1> QED BY <1>1, <1>2

\* A step that gives back the connections of some parts.
LEMMA ReturnInv ==
    ASSUME PlacedInv, NEW r \in Request, NEW from, NEW to \in Stage,
           NEW parts \in SUBSET Part,
           Return(r, parts, from, to),
           Keeps(from, to, parts)
    PROVE  PlacedInv'
  <1> USE DEF Keeps
  <1>1. /\ pc[r] = from /\ pc' = [pc EXCEPT ![r] = to]
        /\ owner' = Released(r, parts) /\ TypeOK
    BY DEF Return, Goto, PlacedInv
  <1>2. /\ owner' \in [Connection -> (Request \X Part) \cup {None}]
        /\ \A c \in Connection, q \in Request, p \in Part :
             owner'[c] = <<q, p>> =>
                 owner[c] = <<q, p>> /\ ~ (q = r /\ p \in parts)
    BY <1>1, ReleasedOnly
  <1>3. TypeOK'
    BY <1>1, <1>2 DEF TypeOK
  <1>4. Placed'
    BY <1>1, <1>2 DEF PlacedInv, Placed, TypeOK
  <1>5. Single'
    BY <1>2 DEF PlacedInv, Single
  <1>6. Apart'
    BY <1>2 DEF PlacedInv, Apart, Part
  <1> QED BY <1>3, <1>4, <1>5, <1>6 DEF PlacedInv

\* The nested unit of work turns the connection of the outer one into an orphan.
LEMMA EnterUowAgainInv ==
    ASSUME PlacedInv, NEW r \in Request, EnterUowAgain(r)
    PROVE  PlacedInv'
  <1> USE DEF Part
  <1>1. /\ pc[r] = "in_uow" /\ pc' = [pc EXCEPT ![r] = "ask_cart"]
        /\ \A c \in Connection : owner[c] # <<r, "session">>
        /\ \A c \in Connection : owner'[c] = IF owner[c] = <<r, "uow">>
                                             THEN <<r, "orphan">> ELSE owner[c]
    BY DEF EnterUowAgain, Goto
  <1>2. TypeOK'
    BY DEF PlacedInv, TypeOK, EnterUowAgain, Goto, Stage, Asking
  <1>3. \A c \in Connection : owner[c] # <<r, "orphan">>
    BY <1>1, StageOfParts DEF PlacedInv, Placed
  <1>4. \A c \in Connection, q \in Request, p \in Part :
           owner'[c] = <<q, p>> =>
               \/ q # r /\ owner[c] = <<q, p>>
               \/ q = r /\ p = "orphan" /\ owner[c] = <<r, "uow">>
    <2> SUFFICES ASSUME NEW c \in Connection, NEW q \in Request, NEW p \in Part,
                        owner'[c] = <<q, p>>
                 PROVE  \/ q # r /\ owner[c] = <<q, p>>
                        \/ q = r /\ p = "orphan" /\ owner[c] = <<r, "uow">>
      OBVIOUS
    <2>1. CASE owner[c] = <<r, "uow">>
      BY <1>1, <2>1
    <2>2. CASE owner[c] # <<r, "uow">>
      BY <1>1, <1>3, <2>2
    <2> QED BY <2>1, <2>2
  <1>5. Placed'
    BY <1>1, <1>4, StageOfParts DEF PlacedInv, Placed, TypeOK
  <1>6. Single'
    BY <1>4 DEF PlacedInv, Single
  <1>7. Apart'
    BY <1>4 DEF PlacedInv, Apart
  <1> QED BY <1>2, <1>5, <1>6, <1>7 DEF PlacedInv

\* The collector gives back what no request uses any more.
LEMMA CollectInv ==
    ASSUME PlacedInv, NEW r \in Request, Collect(r)
    PROVE  PlacedInv'
  <1>1. /\ owner' = Released(r, {"orphan"}) /\ pc' = pc /\ TypeOK
        /\ {"orphan"} \in SUBSET Part
    BY DEF Collect, PlacedInv, Part
  <1>2. /\ owner' \in [Connection -> (Request \X Part) \cup {None}]
        /\ \A c \in Connection, q \in Request, p \in Part :
             owner'[c] = <<q, p>> => owner[c] = <<q, p>>
    BY <1>1, ReleasedOnly
  <1> QED BY <1>1, <1>2 DEF PlacedInv, TypeOK, Placed, Single, Apart, Part

-----------------------------------------------------------------------------
LEMMA InitInv == Init => PlacedInv
  BY PoolAssumption DEF Init, PlacedInv, TypeOK, Placed, Single, Apart, Stage, Part

\* A request that ends by an exception takes only an orphan along.
LEMMA EndKeeps ==
    \A from : Keeps(from, "done", {"session", "uow"}) /\ {"session", "uow"} \in SUBSET Part
  BY StageOfParts DEF Keeps

\* What the process does by itself.
LEMMA ServeInv ==
    ASSUME PlacedInv, NEW r \in Request, Serve(r)
    PROVE  PlacedInv'
  <1> USE DEF Stage, Asking
  <1>1. CASE Read(r)
    <2>1. /\ Keeps("ask_session", "reading", {}) /\ "reading" \in StageOf["session"]
          /\ \A p \in Part : "ask_session" \notin StageOf[p]
      BY StageOfParts DEF Keeps
    <2> QED BY <1>1, <2>1, TakeInv DEF Read, Part
  <1>2. CASE Respond(r) \/ EnterUow(r) \/ Open(r)
    <2>1. /\ Keeps("reading", "leaving", {}) /\ Keeps("reading", "ask_uow", {})
          /\ Keeps("reading", "open", {})
      BY StageOfParts DEF Keeps
    <2> QED BY <1>2, <2>1, GotoInv DEF Respond, EnterUow, Open
  <1>3. CASE Work(r)
    <2>1. /\ Keeps("ask_uow", "in_uow", {}) /\ "in_uow" \in StageOf["uow"]
          /\ "ask_uow" \notin StageOf["uow"]
      BY StageOfParts DEF Keeps
    <2> QED BY <1>3, <2>1, TakeInv DEF Work
  <1>4. CASE CloseUow(r)
    <2>1. PICK from \in {"in_uow", "in_app"} : Return(r, {"uow"}, from, "leaving")
      BY <1>4 DEF CloseUow
    <2>2. Keeps(from, "leaving", {"uow"}) /\ {"uow"} \in SUBSET Part
      BY StageOfParts DEF Keeps
    <2> QED BY <2>1, <2>2, ReturnInv
  <1>5. CASE EnterUowAgain(r)
    BY <1>5, EnterUowAgainInv
  <1>6. CASE CreateCart(r)
    <2>1. /\ Keeps("ask_cart", "in_cart", {}) /\ "in_cart" \in StageOf["uow"]
          /\ "ask_cart" \notin StageOf["uow"]
      BY StageOfParts DEF Keeps
    <2> QED BY <1>6, <2>1, TakeInv DEF CreateCart
  <1>7. CASE CommitCart(r)
    <2>1. Keeps("in_cart", "ask_app", {"uow"}) /\ {"uow"} \in SUBSET Part
      BY StageOfParts DEF Keeps
    <2> QED BY <1>7, <2>1, ReturnInv DEF CommitCart
  <1>8. CASE AddApp(r)
    <2>1. /\ Keeps("ask_app", "in_app", {}) /\ "in_app" \in StageOf["uow"]
          /\ "ask_app" \notin StageOf["uow"]
      BY StageOfParts DEF Keeps
    <2> QED BY <1>8, <2>1, TakeInv DEF AddApp
  <1>9. CASE CreateMessage(r)
    <2>1. /\ Keeps("ask_message", "in_message", {}) /\ "in_message" \in StageOf["uow"]
          /\ "ask_message" \notin StageOf["uow"]
      BY StageOfParts DEF Keeps
    <2> QED BY <1>9, <2>1, TakeInv DEF CreateMessage
  <1>10. CASE MessageCreated(r)
    <2>1. Keeps("in_message", "open", {"uow"}) /\ {"uow"} \in SUBSET Part
      BY StageOfParts DEF Keeps
    <2> QED BY <1>10, <2>1, ReturnInv DEF MessageCreated
  <1>11. CASE Leave(r)
    <2>1. Keeps("leaving", "done", {"session"}) /\ {"session"} \in SUBSET Part
      BY StageOfParts DEF Keeps
    <2> QED BY <1>11, <2>1, ReturnInv DEF Leave
  <1>12. CASE Timeout(r)
    <2>1. Return(r, {"session", "uow"}, pc[r], "done")
      BY <1>12 DEF Timeout
    <2> QED BY <2>1, EndKeeps, ReturnInv
  <1> QED
    BY <1>1, <1>2, <1>3, <1>4, <1>5, <1>6, <1>7, <1>8, <1>9, <1>10, <1>11, <1>12
    DEF Serve

LEMMA NextInv == PlacedInv /\ [Next]_vars => PlacedInv'
  <1> SUFFICES ASSUME PlacedInv, [Next]_vars
               PROVE  PlacedInv'
    OBVIOUS
  <1> USE DEF Stage, Asking
  <1>1. ASSUME NEW r \in Request, StartReading(r) \/ StartWriting(r)
        PROVE  PlacedInv'
    <2>1. Keeps("new", "ask_session", {}) /\ Keeps("new", "ask_uow", {})
      BY StageOfParts DEF Keeps
    <2> QED BY <1>1, <2>1, GotoInv DEF StartReading, StartWriting
  <1>2. ASSUME NEW r \in Request, Serve(r)
        PROVE  PlacedInv'
    BY <1>2, ServeInv
  <1>3. ASSUME NEW r \in Request, ReceiveMessage(r) \/ Disconnect(r)
        PROVE  PlacedInv'
    <2>1. Keeps("open", "ask_message", {}) /\ Keeps("open", "leaving", {})
      BY StageOfParts DEF Keeps
    <2> QED BY <1>3, <2>1, GotoInv DEF ReceiveMessage, Disconnect
  <1>4. ASSUME NEW r \in Request, Collect(r)
        PROVE  PlacedInv'
    BY <1>4, CollectInv
  <1>5. ASSUME NEW r \in Request, Fail(r)
        PROVE  PlacedInv'
    <2>1. Return(r, {"session", "uow"}, pc[r], "done")
      BY <1>5 DEF Fail
    <2> QED BY <2>1, EndKeeps, ReturnInv
  <1>6. CASE UNCHANGED vars
    BY <1>6 DEF vars, PlacedInv, TypeOK, Placed, Single, Apart
  <1> QED
    BY <1>1, <1>2, <1>3, <1>4, <1>5, <1>6 DEF Next, Quiet

LEMMA PlacedAlways == Spec => []PlacedInv
  BY InitInv, NextInv, PTL DEF Spec

-----------------------------------------------------------------------------
\* Type correctness of the pool and of the requests that draw on it.
THEOREM TypeCorrect == Spec => []TypeOK
  <1>1. PlacedInv => TypeOK
    BY DEF PlacedInv
  <1> QED BY <1>1, PlacedAlways, PTL

\* In the state PlacedInv describes, only holders that cannot go on by
\* themselves bring the process to a stand.
LEMMA PlacedStuck == PlacedInv => StuckOnlyByHolders
  <1> SUFFICES ASSUME PlacedInv, Stuck
               PROVE  /\ \A c \in Connection : \E r \in Request :
                           \/ owner[c] = <<r, "session">>
                              /\ pc[r] \in {"ask_uow", "ask_message", "open"}
                           \/ owner[c] = <<r, "orphan">>
                              /\ pc[r] \in {"ask_cart", "ask_app", "done"}
                      /\ \A r \in Request : \A c, d \in Held(r) : c = d
    BY DEF StuckOnlyByHolders
  <1>1. ASSUME NEW c \in Connection, NEW r \in Request, NEW p \in Part,
               owner[c] = <<r, p>>
        PROVE  \/ p = "session" /\ pc[r] \in {"ask_uow", "ask_message", "open"}
               \/ p = "orphan" /\ pc[r] \in {"ask_cart", "ask_app", "done"}
    <2>1. pc[r] \in Asking \cup {"open", "done"}
      BY <1>1 DEF Stuck, Held
    <2>2. pc[r] \in StageOf[p]
      BY <1>1 DEF PlacedInv, Placed
    <2> QED BY <2>1, <2>2, StageOfParts DEF Asking
  <1>2. \A c \in Connection : \E r \in Request, p \in Part : owner[c] = <<r, p>>
    BY DEF Stuck, Free, PlacedInv, TypeOK
  <1>3. ASSUME NEW r \in Request, NEW c \in Held(r), NEW d \in Held(r)
        PROVE  c = d
    <2>1. PICK p \in Part : owner[c] = <<r, p>>
      BY DEF Held
    <2>2. PICK q \in Part : owner[d] = <<r, q>>
      BY DEF Held
    <2>3. p \in {"session", "orphan"} /\ q \in {"session", "orphan"}
      BY <1>1, <2>1, <2>2 DEF Held
    <2>4. p = q
      BY <2>1, <2>2, <2>3 DEF PlacedInv, Apart, Held
    <2> QED BY <2>1, <2>2, <2>4 DEF PlacedInv, Single, Held
  <1>4. ASSUME NEW c \in Connection
        PROVE  \E r \in Request :
                 \/ owner[c] = <<r, "session">>
                    /\ pc[r] \in {"ask_uow", "ask_message", "open"}
                 \/ owner[c] = <<r, "orphan">>
                    /\ pc[r] \in {"ask_cart", "ask_app", "done"}
    <2>1. PICK r \in Request, p \in Part : owner[c] = <<r, p>>
      BY <1>2
    <2> QED BY <1>1, <2>1
  <1> QED BY <1>3, <1>4

\* However large the pool and the load, only requests that hold one connection
\* and wait for another, open sockets and lost sessions exhaust it.
THEOREM StuckByHolders == Spec => []StuckOnlyByHolders
  BY PlacedStuck, PlacedAlways, PTL

LEMMA PlacedLeaks == PlacedInv => OnlyNestedUowLeaks
  <1> SUFFICES ASSUME PlacedInv, NEW r \in Request, pc[r] = "done",
                      NEW c \in Held(r), NEW d \in Held(r)
               PROVE  owner[c] = <<r, "orphan">> /\ c = d
    BY DEF OnlyNestedUowLeaks
  <1>1. ASSUME NEW k \in Held(r)
        PROVE  k \in Connection /\ owner[k] = <<r, "orphan">>
    <2>1. PICK p \in Part : k \in Connection /\ owner[k] = <<r, p>>
      BY <1>1 DEF Held
    <2>2. "done" \in StageOf[p]
      BY <2>1 DEF PlacedInv, Placed
    <2> QED BY <2>1, <2>2, StageOfParts
  <1> QED BY <1>1 DEF PlacedInv, Single, Part

\* A request that is over holds at most the one session its nested unit of work
\* replaced.
THEOREM LeaksByNesting == Spec => []OnlyNestedUowLeaks
  BY PlacedLeaks, PlacedAlways, PTL

-----------------------------------------------------------------------------
(* RateLimiter. *)

\* A stamp is never in the future, and a script never later than Delay.
Timely ==
    \A r \in Call :
        /\ stamp[r] <= clock
        /\ at[r] = "stamped" => clock <= stamp[r] + Delay

\* The sorted set holds granted requests only, as many as the limit at most.
Recorded == zset \subseteq Granted /\ Cardinality(zset) <= Limit

\* A granted request the set has lost is older than the window ...
Forgotten == \A q \in Granted \ zset : stamp[q] <= clock - Window

\* ... and so is every member by the time the key expires.
Outlived == \A q \in zset : stamp[q] <= expires - Window

Span(t) == {r \in Granted : t - (Window - Delay) < stamp[r] /\ stamp[r] <= t}

Windows == \A t \in Int : Cardinality(Span(t)) <= Limit

LimiterIInv == LimiterTypeOK /\ Timely /\ Recorded /\ Forgotten /\ Outlived /\ Windows

LEMMA FiniteSubset ==
    ASSUME NEW S \in SUBSET Call
    PROVE  IsFiniteSet(S) /\ Cardinality(S) \in Nat
<1> QED
  BY FS_Subset, FS_CardinalityType, RateLimiterAssumption

LEMMA SmallerSubset ==
    ASSUME NEW S \in SUBSET Call, NEW T \in SUBSET S
    PROVE  Cardinality(T) <= Cardinality(S)
<1> QED
  BY FiniteSubset, FS_Subset

LEMMA LimiterInitInv == LimiterInit => LimiterIInv
<1> SUFFICES ASSUME LimiterInit PROVE LimiterIInv
  OBVIOUS
<1> USE RateLimiterAssumption DEF LimiterInit
<1>1. Granted = {} /\ \A t \in Int : Span(t) = {}
  BY DEF Granted, Span
<1>2. Cardinality({}) = 0
  BY FS_EmptySet
<1>3. LimiterTypeOK /\ Timely
  BY DEF LimiterTypeOK, Timely
<1>4. Cardinality(zset) = 0 /\ \A t \in Int : Cardinality(Span(t)) = 0
  BY <1>1, <1>2
<1>5. Recorded /\ Windows
  BY <1>1, <1>4 DEF Recorded, Windows
<1>6. Forgotten /\ Outlived
  BY <1>1 DEF Forgotten, Outlived
<1> QED
  BY <1>3, <1>5, <1>6 DEF LimiterIInv

\* A step that neither grants nor trims leaves the counts alone.
LEMMA SameGranted ==
    ASSUME Granted' = Granted, UNCHANGED stamp, Windows
    PROVE  Windows'
<1>1. \A t \in Int : Span(t)' = Span(t)
  BY DEF Span
<1> QED
  BY <1>1 DEF Windows

LEMMA StampInv == ASSUME LimiterIInv, NEW r \in Call, Stamp(r) PROVE LimiterIInv'
<1> USE RateLimiterAssumption DEF Stamp
<1>1. Granted' = Granted /\ r \notin Granted
  BY DEF LimiterIInv, LimiterTypeOK, Granted
<1>2. LimiterTypeOK' /\ Timely'
  BY DEF LimiterIInv, LimiterTypeOK, Timely
<1>3. \A q \in Granted : stamp'[q] = stamp[q]
  BY <1>1 DEF LimiterIInv, LimiterTypeOK, Granted
<1>4. Recorded' /\ Forgotten' /\ Outlived'
  BY <1>1, <1>3 DEF LimiterIInv, Recorded, Forgotten, Outlived
<1>5. \A t \in Int : Span(t)' = Span(t)
  BY <1>1, <1>3 DEF Span
<1>6. Windows'
  BY <1>5 DEF LimiterIInv, Windows
<1> QED
  BY <1>2, <1>4, <1>6 DEF LimiterIInv

LEMMA GrantInv == ASSUME LimiterIInv, NEW r \in Call, ScriptGrants(r) PROVE LimiterIInv'
<1> USE RateLimiterAssumption
<1>1. /\ at[r] = "stamped" /\ at' = [at EXCEPT ![r] = "granted"]
      /\ Cardinality(Kept(r)) < Limit
      /\ zset' = Kept(r) \cup {r}
      /\ expires' = clock + Window
      /\ remaining' = [remaining EXCEPT ![r] = Limit - Cardinality(Kept(r)) - 1]
      /\ UNCHANGED <<clock, stamp>>
  BY DEF ScriptGrants, Grant
<1>2. Kept(r) \subseteq zset /\ zset \subseteq Granted /\ Granted \subseteq Call
  BY DEF Kept, LimiterIInv, Recorded, Granted
<1>3. IsFiniteSet(Kept(r)) /\ Cardinality(Kept(r)) \in Nat
  BY <1>2, FiniteSubset
<1>4. Granted' = Granted \cup {r} /\ r \notin Granted
  BY <1>1 DEF Granted, LimiterIInv, LimiterTypeOK
<1>5. Cardinality(zset') <= Limit
  <2>1. Cardinality(zset') = Cardinality(Kept(r)) + 1
    BY <1>1, <1>2, <1>3, <1>4, FS_AddElement
  <2> QED
    BY <1>1, <1>3, <2>1
<1>6. LimiterTypeOK'
  BY <1>1, <1>2, <1>3 DEF LimiterIInv, LimiterTypeOK
<1>7. Timely'
  BY <1>1 DEF LimiterIInv, LimiterTypeOK, Timely
<1>8. Recorded'
  BY <1>1, <1>2, <1>4, <1>5 DEF Recorded
<1>9. Forgotten'
  BY <1>1, <1>4 DEF LimiterIInv, LimiterTypeOK, Forgotten, Timely, Kept, Granted
<1>10. Outlived'
  BY <1>1, <1>2 DEF LimiterIInv, LimiterTypeOK, Outlived, Timely, Granted
<1>11. ASSUME NEW t \in Int PROVE Cardinality(Span(t)') <= Limit
  <2>1. CASE t - (Window - Delay) < stamp[r] /\ stamp[r] <= t
    \* Whoever shares a span with r is younger than the window: not forgotten,
    \* and not trimmed by r's script either.
    <3>1. ASSUME NEW q \in Span(t)' PROVE q \in zset'
      <4>1. CASE q = r
        BY <4>1, <1>1
      <4>2. CASE q # r
        <5>1. q \in Granted /\ t - (Window - Delay) < stamp[q]
          BY <4>2, <1>1, <1>4 DEF Span
        <5>2. /\ stamp[q] \in Nat /\ stamp[r] \in Nat /\ clock \in Nat
              /\ clock <= stamp[r] + Delay
          BY <1>1, <5>1 DEF LimiterIInv, LimiterTypeOK, Timely, Granted
        <5>3. stamp[q] > stamp[r] - Window /\ stamp[q] > clock - Window
          BY <2>1, <5>1, <5>2
        <5>4. q \in zset
          BY <5>1, <5>2, <5>3 DEF LimiterIInv, Forgotten
        <5> QED
          BY <5>3, <5>4, <1>1 DEF Kept
      <4> QED
        BY <4>1, <4>2
    <3>2. zset' \in SUBSET Call
      BY <1>6 DEF LimiterTypeOK
    <3>3. Cardinality(Span(t)') <= Cardinality(zset')
      BY <3>1, <3>2, SmallerSubset
    <3>4. Cardinality(Span(t)') \in Nat /\ Cardinality(zset') \in Nat
      BY <3>1, <3>2, FiniteSubset
    <3> QED
      BY <3>3, <3>4, <1>5
  <2>2. CASE ~(t - (Window - Delay) < stamp[r] /\ stamp[r] <= t)
    <3>1. Span(t)' = Span(t)
      BY <2>2, <1>1, <1>4 DEF Span
    <3> QED
      BY <3>1 DEF LimiterIInv, Windows
  <2> QED
    BY <2>1, <2>2
<1> QED
  BY <1>6, <1>7, <1>8, <1>9, <1>10, <1>11 DEF LimiterIInv, Windows

LEMMA RefuseInv == ASSUME LimiterIInv, NEW r \in Call, ScriptRefuses(r) PROVE LimiterIInv'
<1> USE RateLimiterAssumption DEF ScriptRefuses
<1>1. Granted' = Granted
  BY DEF Granted, LimiterIInv, LimiterTypeOK
<1>2. Kept(r) \subseteq zset /\ zset \subseteq Call
  BY DEF Kept, LimiterIInv, LimiterTypeOK
<1>3. LimiterTypeOK' /\ Timely'
  BY <1>2 DEF LimiterIInv, LimiterTypeOK, Timely
<1>4. Cardinality(Kept(r)) <= Limit
  <2>1. Cardinality(Kept(r)) \in Nat /\ Cardinality(zset) \in Nat
    BY <1>2, FiniteSubset
  <2>2. Cardinality(Kept(r)) <= Cardinality(zset)
    BY <1>2, SmallerSubset
  <2> QED
    BY <2>1, <2>2 DEF LimiterIInv, Recorded
<1>5. Recorded'
  BY <1>1, <1>2, <1>4 DEF LimiterIInv, Recorded
<1>6. Forgotten'
  BY <1>1 DEF LimiterIInv, LimiterTypeOK, Forgotten, Timely, Kept, Granted
<1>7. Outlived'
  BY <1>2 DEF LimiterIInv, Outlived
<1>8. Windows'
  BY <1>1, SameGranted DEF LimiterIInv
<1> QED
  BY <1>3, <1>5, <1>6, <1>7, <1>8 DEF LimiterIInv

LEMMA LoseInv == ASSUME LimiterIInv, NEW r \in Call, Lose(r) PROVE LimiterIInv'
<1> USE DEF Lose
<1>1. Granted' = Granted
  BY DEF Granted, LimiterIInv, LimiterTypeOK
<1>2. LimiterTypeOK' /\ Timely'
  BY DEF LimiterIInv, LimiterTypeOK, Timely
<1>3. Recorded' /\ Forgotten' /\ Outlived'
  BY <1>1 DEF LimiterIInv, Recorded, Forgotten, Outlived
<1>4. Windows'
  BY <1>1, SameGranted DEF LimiterIInv
<1> QED
  BY <1>2, <1>3, <1>4 DEF LimiterIInv

LEMMA TickInv == ASSUME LimiterIInv, Tick PROVE LimiterIInv'
<1> USE RateLimiterAssumption DEF Tick
<1>1. Granted' = Granted
  BY DEF Granted
<1>2. LimiterTypeOK' /\ Timely'
  BY DEF LimiterIInv, LimiterTypeOK, Timely
<1>3. Recorded'
  <2>1. Cardinality({}) <= Limit
    BY FS_EmptySet
  <2> QED
    BY <1>1, <2>1 DEF LimiterIInv, Recorded
<1>4. Forgotten' /\ Outlived'
  BY <1>1 DEF LimiterIInv, LimiterTypeOK, Forgotten, Outlived, Granted
<1>5. Windows'
  BY <1>1, SameGranted DEF LimiterIInv
<1> QED
  BY <1>2, <1>3, <1>4, <1>5 DEF LimiterIInv

LEMMA StutterInv == ASSUME LimiterIInv, UNCHANGED limiterVars PROVE LimiterIInv'
<1> USE DEF limiterVars
<1>1. Granted' = Granted
  BY DEF Granted
<1>2. LimiterTypeOK' /\ Timely' /\ Recorded' /\ Forgotten' /\ Outlived'
  BY <1>1 DEF LimiterIInv, LimiterTypeOK, Timely, Recorded, Forgotten, Outlived
<1>3. Windows'
  BY <1>1, SameGranted DEF LimiterIInv
<1> QED
  BY <1>2, <1>3 DEF LimiterIInv

LEMMA LimiterNextInv == LimiterIInv /\ [LimiterNext]_limiterVars => LimiterIInv'
<1> QED
  BY StampInv, GrantInv, RefuseInv, LoseInv, TickInv, StutterInv DEF LimiterNext, LimiterQuiet

\* The inductive invariant of the limiter.
THEOREM LimiterInvariant == LimiterSpec => []LimiterIInv
<1> QED
  BY LimiterInitInv, LimiterNextInv, PTL DEF LimiterSpec

\* Every variable of the limiter keeps its type; remaining is never negative.
THEOREM LimiterTypeCorrect == LimiterSpec => []LimiterTypeOK
<1> QED
  BY LimiterInvariant, PTL DEF LimiterIInv

\* For every window, limit and delay: scripts that run at most Delay after their
\* stamps, in any order, grant at most Limit requests per Window - Delay.
THEOREM WindowCapHolds == LimiterSpec => []WindowCap
<1>1. LimiterIInv => WindowCap
  BY DEF LimiterIInv, LimiterTypeOK, Windows, WindowCap, Span
<1> QED
  BY LimiterInvariant, <1>1, PTL

\* A refusal means that the client was granted its limit within the window.
THEOREM RefusalsJustified == LimiterSpec => RefusalJustified
<1>1. ASSUME LimiterIInv, [LimiterNext]_limiterVars, NEW r \in Call,
             at[r] = "stamped", at'[r] = "refused"
      PROVE  Cardinality({q \in Granted : stamp[q] > stamp[r] - Window}) >= Limit
  <2>1. ScriptRefuses(r)
    BY <1>1 DEF LimiterNext, Stamp, ScriptGrants, Grant, ScriptRefuses, Lose, Tick,
                LimiterQuiet, limiterVars, LimiterIInv, LimiterTypeOK
  <2> DEFINE S == {q \in Granted : stamp[q] > stamp[r] - Window}
  <2>2. Kept(r) \subseteq S /\ S \subseteq Call
    BY <1>1 DEF Kept, LimiterIInv, Recorded, Granted
  <2>3. Cardinality(Kept(r)) <= Cardinality(S)
    BY <2>2, SmallerSubset
  <2>4. Cardinality(Kept(r)) \in Nat /\ Cardinality(S) \in Nat
    BY <2>2, FiniteSubset
  <2> QED
    BY <2>1, <2>3, <2>4, RateLimiterAssumption DEF ScriptRefuses
<1>2. LimiterIInv /\ [LimiterNext]_limiterVars =>
        [\A r \in Call : at[r] = "stamped" /\ at'[r] = "refused" =>
            Cardinality({q \in Granted : stamp[q] > stamp[r] - Window}) >= Limit]_limiterVars
  BY <1>1
<1> QED
  BY LimiterInvariant, <1>2, PTL DEF LimiterSpec, RefusalJustified

-----------------------------------------------------------------------------
(* Migrations.  Every operation that is accepted leaves references whole,  *)
(* so every script does, whatever is in it and whatever rows there are.    *)

\* A database: its fields, and what the type invariant says of them.
Sound(d) ==
    /\ d = [tables |-> d.tables, fks |-> d.fks, rules |-> d.rules, types |-> d.types,
            rows |-> d.rows, odd |-> d.odd, ok |-> d.ok]
    /\ d.ok \in BOOLEAN
    /\ \A k \in d.fks : /\ {k.table, k.to} \subseteq DOMAIN d.tables
                        /\ k.column \in Columns(d, k.table)
    /\ d.rows \subseteq DOMAIN d.tables
    /\ \A k \in d.fks : k.table \in d.rows => k.to \in d.rows
    /\ \A x \in d.rules \cup d.odd : x[1] \in DOMAIN d.tables

LEMMA EffectSound ==
  ASSUME NEW d, NEW o, Sound(d), Accepts(d, o)
  PROVE  Sound(Effect(d, o))
  <1> DEFINE e == Effect(d, o)
  <1>1. CASE o.op = "create"
    <2>1. e = [tables |-> With(d.tables, o.table, o.columns), fks |-> d.fks,
               rules |-> d.rules, types |-> d.types, rows |-> d.rows, odd |-> d.odd,
               ok |-> d.ok]
      BY <1>1 DEF Effect, Sound
    <2>2. o.table \notin DOMAIN d.tables
      BY <1>1 DEF Accepts
    <2> QED BY <2>1, <2>2 DEF Sound, With, Columns
  <1>2. CASE o.op = "drop table"
    <2>1. e = [tables |-> Without(d.tables, o.table),
               fks |-> {k \in d.fks : k.table # o.table},
               rules |-> {x \in d.rules : x[1] # o.table}, types |-> d.types,
               rows |-> d.rows \ {o.table}, odd |-> {x \in d.odd : x[1] # o.table},
               ok |-> d.ok]
      BY <1>2 DEF Effect, Sound
    <2>2. \A k \in d.fks : k.to = o.table => k.table = o.table
      BY <1>2 DEF Accepts
    <2> QED BY <2>1, <2>2 DEF Sound, Without, Columns
  <1>3. CASE o.op \in {"add", "alter"}
    <2>1. e = [tables |-> [d.tables EXCEPT ![o.table] = With(@, o.column, o.form)],
               fks |-> d.fks, rules |-> d.rules, types |-> d.types, rows |-> d.rows,
               odd |-> d.odd, ok |-> d.ok]
      BY <1>3 DEF Effect, Sound
    <2>2. /\ DOMAIN e.tables = DOMAIN d.tables
          /\ \A t \in DOMAIN d.tables : Columns(d, t) \subseteq Columns(e, t)
      BY <2>1 DEF With, Columns
    <2> QED BY <2>1, <2>2 DEF Sound
  <1>4. CASE o.op = "drop"
    <2>1. e = [tables |-> [d.tables EXCEPT ![o.table] = Without(@, o.column)],
               fks |-> {k \in d.fks : k.table # o.table \/ k.column # o.column},
               rules |-> d.rules, types |-> d.types, rows |-> d.rows, odd |-> d.odd,
               ok |-> d.ok]
      BY <1>4 DEF Effect, Sound
    <2>2. /\ DOMAIN e.tables = DOMAIN d.tables
          /\ \A t \in DOMAIN d.tables : \A c \in Columns(d, t) :
                t # o.table \/ c # o.column => c \in Columns(e, t)
      BY <2>1 DEF Without, Columns
    <2> QED BY <2>1, <2>2 DEF Sound
  <1>5. CASE o.op = "refer"
    <2>1. e = [tables |-> d.tables, fks |-> d.fks \cup {o.fk}, rules |-> d.rules,
               types |-> d.types, rows |-> d.rows, odd |-> d.odd, ok |-> d.ok]
      BY <1>5 DEF Effect, Sound
    <2>2. /\ {o.fk.table, o.fk.to} \subseteq DOMAIN d.tables
          /\ o.fk.column \in Columns(d, o.fk.table)
          /\ o.fk.table \in d.rows => o.fk.to \in d.rows
      BY <1>5 DEF Accepts
    <2> QED BY <2>1, <2>2 DEF Sound, Columns
  <1>6. CASE o.op = "drop fkey"
    <2>1. e = [tables |-> d.tables,
               fks |-> {k \in d.fks : k.table # o.table \/ k.column # o.column},
               rules |-> d.rules, types |-> d.types, rows |-> d.rows, odd |-> d.odd,
               ok |-> d.ok]
      BY <1>6 DEF Effect, Sound
    <2> QED BY <2>1 DEF Sound, Columns
  <1>7. CASE o.op = "rule"
    <2>1. e = [tables |-> d.tables, fks |-> d.fks,
               rules |-> d.rules \cup {<<o.table, o.what>>}, types |-> d.types,
               rows |-> d.rows, odd |-> d.odd, ok |-> d.ok]
      BY <1>7 DEF Effect, Sound
    <2>2. o.table \in DOMAIN d.tables
      BY <1>7 DEF Accepts
    <2> QED BY <2>1, <2>2 DEF Sound, Columns
  <1>8. CASE o.op = "drop rule"
    <2>1. e = [tables |-> d.tables, fks |-> d.fks,
               rules |-> d.rules \ {<<o.table, o.what>>}, types |-> d.types,
               rows |-> d.rows, odd |-> d.odd, ok |-> d.ok]
      BY <1>8 DEF Effect, Sound
    <2> QED BY <2>1 DEF Sound, Columns
  <1>9. CASE o.op \in {"type", "drop type", "sync"}
    <2>1. \E T : e = [tables |-> d.tables, fks |-> d.fks, rules |-> d.rules, types |-> T,
                      rows |-> d.rows, odd |-> d.odd, ok |-> d.ok]
      BY <1>9 DEF Effect, Sound
    <2> QED BY <2>1 DEF Sound, Columns
  <1>10. o.op \in {"create", "drop table", "add", "alter", "drop", "refer", "drop fkey",
                   "rule", "drop rule", "type", "drop type", "sync"}
    BY DEF Accepts
  <1> QED BY <1>1, <1>2, <1>3, <1>4, <1>5, <1>6, <1>7, <1>8, <1>9, <1>10

LEMMA NaturalSteps ==
  ASSUME NEW G, 0 \in G, \A n \in Nat : n \in G => n + 1 \in G
  PROVE  Nat \subseteq G
  <1> DEFINE B == Nat \ G
  <1>1. SUFFICES ASSUME B # {} PROVE FALSE
    OBVIOUS
  <1>2. B \subseteq Nat
    OBVIOUS
  <1>3. \E n \in B : \A m \in B : ~ (<<m, n>> \in OpToRel(<, Nat))
    <2> HIDE DEF B
    <2> QED BY <1>1, <1>2, NatLessThanWellFounded, WFMin
  <1>4. PICK n \in B : \A m \in B : ~ (<<m, n>> \in OpToRel(<, Nat))
    BY <1>3
  <1>5. n # 0 /\ n - 1 \in Nat /\ n - 1 < n
    OBVIOUS
  <1>6. <<n - 1, n>> \in OpToRel(<, Nat)
    BY <1>5 DEF OpToRel
  <1>7. n - 1 \in G
    BY <1>4, <1>5, <1>6
  <1>8. (n - 1) + 1 \in G /\ (n - 1) + 1 = n
    BY <1>5, <1>7
  <1> QED BY <1>4, <1>8

\* How many operations the scripts have.
LEMMA UpLengths == Len(Up) = 24 /\ \A i \in 1..24 : Len(Up[i]) \in Nat
  <1>1. /\ Len(Up_6e49) \in Nat
       /\ Len(Up_b5a1) \in Nat
       /\ Len(Up_027f) \in Nat
       /\ Len(Up_a85c) \in Nat
       /\ Len(Up_6d33) \in Nat
       /\ Len(Up_1a55) \in Nat
    BY DEF Up_6e49, Up_b5a1, Up_027f, Up_a85c, Up_6d33, Up_1a55
  <1>2. /\ Len(Up_026e) \in Nat
       /\ Len(Up_51ad) \in Nat
       /\ Len(Up_c5b2) \in Nat
       /\ Len(Up_4535) \in Nat
       /\ Len(Up_f77d) \in Nat
       /\ Len(Up_d67f) \in Nat
    BY DEF Up_026e, Up_51ad, Up_c5b2, Up_4535, Up_f77d, Up_d67f
  <1>3. /\ Len(Up_35b5) \in Nat
       /\ Len(Up_8da9) \in Nat
       /\ Len(Up_a036) \in Nat
       /\ Len(Up_7c58) \in Nat
       /\ Len(Up_815c) \in Nat
       /\ Len(Up_fe0b) \in Nat
    BY DEF Up_35b5, Up_8da9, Up_a036, Up_7c58, Up_815c, Up_fe0b
  <1>4. /\ Len(Up_e388) \in Nat
       /\ Len(Up_7fd0) \in Nat
       /\ Len(Up_6b47) \in Nat
       /\ Len(Up_6e0c) \in Nat
       /\ Len(Up_ae18) \in Nat
       /\ Len(Up_9970) \in Nat
    BY DEF Up_e388, Up_7fd0, Up_6b47, Up_6e0c, Up_ae18, Up_9970
  <1>5. Len(Up) = 24
    BY DEF Up
  <1>6. ASSUME NEW i \in 1..24
        PROVE  Up[i] \in
            {Up_6e49, Up_b5a1, Up_027f, Up_a85c, Up_6d33, Up_1a55, Up_026e,
             Up_51ad, Up_c5b2, Up_4535, Up_f77d, Up_d67f, Up_35b5, Up_8da9,
             Up_a036, Up_7c58, Up_815c, Up_fe0b, Up_e388, Up_7fd0, Up_6b47,
             Up_6e0c, Up_ae18, Up_9970}
    BY DEF Up
  <1> QED BY <1>1, <1>2, <1>3, <1>4, <1>5, <1>6

LEMMA DownLengths == Len(Down) = 24 /\ \A i \in 1..24 : Len(Down[i]) \in Nat
  <1>1. /\ Len(Down_6e49) \in Nat
       /\ Len(Down_b5a1) \in Nat
       /\ Len(Down_027f) \in Nat
       /\ Len(Down_a85c) \in Nat
       /\ Len(Down_6d33) \in Nat
       /\ Len(Down_1a55) \in Nat
    BY DEF Down_6e49, Down_b5a1, Down_027f, Down_a85c, Down_6d33, Down_1a55
  <1>2. /\ Len(Down_026e) \in Nat
       /\ Len(Down_51ad) \in Nat
       /\ Len(Down_c5b2) \in Nat
       /\ Len(Down_4535) \in Nat
       /\ Len(Down_f77d) \in Nat
       /\ Len(Down_d67f) \in Nat
    BY DEF Down_026e, Down_51ad, Down_c5b2, Down_4535, Down_f77d, Down_d67f
  <1>3. /\ Len(Down_35b5) \in Nat
       /\ Len(Down_8da9) \in Nat
       /\ Len(Down_a036) \in Nat
       /\ Len(Down_7c58) \in Nat
       /\ Len(Down_815c) \in Nat
       /\ Len(Down_fe0b) \in Nat
    BY DEF Down_35b5, Down_8da9, Down_a036, Down_7c58, Down_815c, Down_fe0b
  <1>4. /\ Len(Down_e388) \in Nat
       /\ Len(Down_7fd0) \in Nat
       /\ Len(Down_6b47) \in Nat
       /\ Len(Down_6e0c) \in Nat
       /\ Len(Down_ae18) \in Nat
       /\ Len(Down_9970) \in Nat
    BY DEF Down_e388, Down_7fd0, Down_6b47, Down_6e0c, Down_ae18, Down_9970
  <1>5. Len(Down) = 24
    BY DEF Down
  <1>6. ASSUME NEW i \in 1..24
        PROVE  Down[i] \in
            {Down_6e49, Down_b5a1, Down_027f, Down_a85c, Down_6d33, Down_1a55,
             Down_026e, Down_51ad, Down_c5b2, Down_4535, Down_f77d, Down_d67f,
             Down_35b5, Down_8da9, Down_a036, Down_7c58, Down_815c, Down_fe0b,
             Down_e388, Down_7fd0, Down_6b47, Down_6e0c, Down_ae18, Down_9970}
    BY DEF Down
  <1> QED BY <1>1, <1>2, <1>3, <1>4, <1>5, <1>6

\* Apply is Effect or a refusal; both leave a database of that kind.
LEMMA ApplySound ==
  ASSUME NEW d, NEW o, Sound(d)
  PROVE  /\ Sound(Apply(d, o))
         /\ Apply(d, o).ok => d.ok /\ Accepts(d, o) /\ Apply(d, o) = Effect(d, o)
  <1>1. CASE d.ok /\ Accepts(d, o)
    BY <1>1, EffectSound DEF Apply
  <1>2. CASE ~ (d.ok /\ Accepts(d, o))
    <2>1. Apply(d, o) = [tables |-> d.tables, fks |-> d.fks, rules |-> d.rules,
                         types |-> d.types, rows |-> d.rows, odd |-> d.odd, ok |-> FALSE]
      BY <1>2 DEF Apply, Refused, Sound
    <2> QED BY <2>1 DEF Sound, Columns
  <1> QED BY <1>1, <1>2

\* f[i] is the database after i operations.
OpsDone(d, ops, f) ==
    f = [i \in 0..Len(ops) |-> IF i = 0 THEN d ELSE Apply(f[i - 1], ops[i])]

LEMMA RunSteps ==
  ASSUME NEW d, NEW ops, Len(ops) \in Nat, d.ok
  PROVE  \E f : OpsDone(d, ops, f) /\ Run(d, ops) = f[Len(ops)]
  <1> DEFINE Upto(n, f) == f = [i \in 0..n |-> IF i = 0 THEN d ELSE Apply(f[i - 1], ops[i])]
             G == {n \in Nat : \E f : Upto(n, f)}
  <1>1. 0 \in G
    <2> DEFINE f == [i \in 0..0 |-> d]
    <2>1. Upto(0, f)
      OBVIOUS
    <2> QED BY <2>1
  <1>2. ASSUME NEW n \in Nat, n \in G PROVE n + 1 \in G
    <2>1. PICK f : Upto(n, f)
      BY <1>2
    <2> DEFINE g == [i \in 0..(n + 1) |->
                  IF i = n + 1 THEN Apply(f[n], ops[n + 1]) ELSE f[i]]
    <2>2. ASSUME NEW i \in 0..(n + 1)
          PROVE  g[i] = IF i = 0 THEN d ELSE Apply(g[i - 1], ops[i])
      <3>1. CASE i = n + 1
        BY <3>1
      <3>2. CASE i \in 0..n
        <4>1. g[i] = f[i] /\ (i > 0 => i - 1 \in 0..n /\ g[i - 1] = f[i - 1])
          BY <3>2
        <4>2. f[i] = IF i = 0 THEN d ELSE Apply(f[i - 1], ops[i])
          BY <2>1, <3>2
        <4> QED BY <4>1, <4>2, <3>2
      <3> QED BY <3>1, <3>2
    <2>3. Upto(n + 1, g)
      BY <2>2
    <2>4. \E h : Upto(n + 1, h)
      <3> HIDE DEF g, Upto
      <3> QED BY <2>3
    <2> QED BY <2>4
  <1>3. Nat \subseteq G
    <2> HIDE DEF G
    <2> QED BY <1>1, <1>2, NaturalSteps
  <1>4. \E f : OpsDone(d, ops, f)
    BY <1>3 DEF OpsDone
  <1> DEFINE c == CHOOSE f : OpsDone(d, ops, f)
  <1>5. OpsDone(d, ops, c)
    BY <1>4
  <1>6. Run(d, ops) = c[Len(ops)]
    BY DEF Run, OpsDone
  <1> QED BY <1>5, <1>6

\* Whatever holds of the first database and is kept by every operation.
LEMMA RunSound ==
  ASSUME NEW d, NEW ops, Len(ops) \in Nat, Sound(d)
  PROVE  Sound(Run(d, ops)) /\ (Run(d, ops).ok => d.ok)
  <1>1. CASE ~ d.ok
    BY <1>1 DEF Run
  <1>2. CASE d.ok
    <2>1. PICK f : OpsDone(d, ops, f) /\ Run(d, ops) = f[Len(ops)]
      BY <1>2, RunSteps
    <2> DEFINE G == {n \in Nat : n <= Len(ops) => Sound(f[n])}
    <2>2. 0 \in G
      BY <2>1 DEF OpsDone
    <2>3. ASSUME NEW n \in Nat, n \in G PROVE n + 1 \in G
      <3>1. SUFFICES ASSUME n + 1 <= Len(ops) PROVE Sound(f[n + 1])
        OBVIOUS
      <3>2. Sound(f[n]) /\ f[n + 1] = Apply(f[n], ops[n + 1])
        BY <2>1, <2>3, <3>1 DEF OpsDone
      <3> QED BY <3>2, ApplySound
    <2>4. Nat \subseteq G
      <3> HIDE DEF G
      <3> QED BY <2>2, <2>3, NaturalSteps
    <2> QED BY <1>2, <2>1, <2>4
  <1> QED BY <1>1, <1>2

-----------------------------------------------------------------------------
(* What a script that gets through does to the schema, it does without     *)
(* rows too: rows only refuse.                                             *)

Bare(d) == Unfilled(Schema(d))

LEMMA BareSchema ==
  ASSUME NEW d
  PROVE  /\ Schema(Bare(d)) = Schema(d) /\ Bare(d).ok = TRUE
         /\ Bare(Bare(d)) = Bare(d) /\ Bare(d) = Unfilled(Schema(d))
  BY DEF Bare, Unfilled, Schema

LEMMA EffectBare ==
  ASSUME NEW d, NEW o, Sound(d), d.ok, Accepts(d, o)
  PROVE  Accepts(Bare(d), o) /\ Effect(Bare(d), o) = Bare(Effect(d, o))
  <1> DEFINE b == Bare(d)
  <1>1. b = [tables |-> d.tables, fks |-> d.fks, rules |-> d.rules,
             types |-> d.types, rows |-> {}, odd |-> {}, ok |-> TRUE]
    BY DEF Bare, Unfilled, Schema
  <1>2. /\ b.tables = d.tables /\ b.fks = d.fks /\ b.rules = d.rules
        /\ b.types = d.types /\ b.rows = {} /\ b.odd = {}
    BY <1>1
  <1>3. d = [tables |-> d.tables, fks |-> d.fks, rules |-> d.rules, types |-> d.types,
             rows |-> d.rows, odd |-> d.odd, ok |-> d.ok]
    BY DEF Sound
  <1>4. CASE o.op = "create"
    <2>1. Accepts(b, o)
      <3> HIDE DEF b
      <3> QED BY <1>2, <1>4 DEF Accepts, Columns
    <2>2. Effect(Bare(d), o) = Bare(Effect(d, o))
      BY <1>1, <1>3, <1>4 DEF Effect, Bare, Unfilled, Schema
    <2> QED BY <2>1, <2>2
  <1>5. CASE o.op = "drop table"
    <2>1. Accepts(b, o)
      <3> HIDE DEF b
      <3> QED BY <1>2, <1>5 DEF Accepts, Columns
    <2>2. Effect(Bare(d), o) = Bare(Effect(d, o))
      BY <1>1, <1>3, <1>5 DEF Effect, Bare, Unfilled, Schema
    <2> QED BY <2>1, <2>2
  <1>6. CASE o.op \in {"add", "alter"}
    <2>1. Accepts(b, o)
      <3> HIDE DEF b
      <3> QED BY <1>2, <1>6 DEF Accepts, Columns
    <2>2. Effect(Bare(d), o) = Bare(Effect(d, o))
      BY <1>1, <1>3, <1>6 DEF Effect, Bare, Unfilled, Schema
    <2> QED BY <2>1, <2>2
  <1>7. CASE o.op = "drop"
    <2>1. Accepts(b, o)
      <3> HIDE DEF b
      <3> QED BY <1>2, <1>7 DEF Accepts, Columns
    <2>2. Effect(Bare(d), o) = Bare(Effect(d, o))
      BY <1>1, <1>3, <1>7 DEF Effect, Bare, Unfilled, Schema
    <2> QED BY <2>1, <2>2
  <1>8. CASE o.op = "refer"
    <2>1. Accepts(b, o)
      <3> HIDE DEF b
      <3> QED BY <1>2, <1>8 DEF Accepts, Columns
    <2>2. Effect(Bare(d), o) = Bare(Effect(d, o))
      BY <1>1, <1>3, <1>8 DEF Effect, Bare, Unfilled, Schema
    <2> QED BY <2>1, <2>2
  <1>9. CASE o.op = "drop fkey"
    <2>1. Accepts(b, o)
      <3> HIDE DEF b
      <3> QED BY <1>2, <1>9 DEF Accepts, Columns
    <2>2. Effect(Bare(d), o) = Bare(Effect(d, o))
      BY <1>1, <1>3, <1>9 DEF Effect, Bare, Unfilled, Schema
    <2> QED BY <2>1, <2>2
  <1>10. CASE o.op = "rule"
    <2>1. Accepts(b, o)
      <3> HIDE DEF b
      <3> QED BY <1>2, <1>10 DEF Accepts, Columns
    <2>2. Effect(Bare(d), o) = Bare(Effect(d, o))
      BY <1>1, <1>3, <1>10 DEF Effect, Bare, Unfilled, Schema
    <2> QED BY <2>1, <2>2
  <1>11. CASE o.op = "drop rule"
    <2>1. Accepts(b, o)
      <3> HIDE DEF b
      <3> QED BY <1>2, <1>11 DEF Accepts, Columns
    <2>2. Effect(Bare(d), o) = Bare(Effect(d, o))
      BY <1>1, <1>3, <1>11 DEF Effect, Bare, Unfilled, Schema
    <2> QED BY <2>1, <2>2
  <1>12. CASE o.op \in {"type", "drop type", "sync"}
    <2>1. Accepts(b, o)
      <3> HIDE DEF b
      <3> QED BY <1>2, <1>12 DEF Accepts, Columns
    <2>2. Effect(Bare(d), o) = Bare(Effect(d, o))
      BY <1>1, <1>3, <1>12 DEF Effect, Bare, Unfilled, Schema
    <2> QED BY <2>1, <2>2
  <1>13. o.op \in {"create", "drop table", "add", "alter", "drop", "refer", "drop fkey",
                   "rule", "drop rule", "type", "drop type", "sync"}
    BY DEF Accepts
  <1> QED BY <1>4, <1>5, <1>6, <1>7, <1>8, <1>9, <1>10, <1>11, <1>12, <1>13

LEMMA RunBare ==
  ASSUME NEW d, NEW ops, Len(ops) \in Nat, Sound(d), Run(d, ops).ok
  PROVE  Run(Bare(d), ops) = Bare(Run(d, ops))
  <1>1. d.ok /\ Bare(d).ok
    BY RunSound, BareSchema
  <1>2. PICK f : OpsDone(d, ops, f) /\ Run(d, ops) = f[Len(ops)]
    BY <1>1, RunSteps
  <1>3. PICK g : OpsDone(Bare(d), ops, g) /\ Run(Bare(d), ops) = g[Len(ops)]
    BY <1>1, RunSteps
  <1> DEFINE G == {n \in Nat : n <= Len(ops) =>
                      Sound(f[n]) /\ (f[n].ok => g[n] = Bare(f[n]))}
  <1>4. 0 \in G
    BY <1>2, <1>3 DEF OpsDone
  <1>5. ASSUME NEW n \in Nat, n \in G PROVE n + 1 \in G
    <2>1. SUFFICES ASSUME n + 1 <= Len(ops)
                   PROVE  /\ Sound(f[n + 1])
                          /\ f[n + 1].ok => g[n + 1] = Bare(f[n + 1])
      OBVIOUS
    <2>2. Sound(f[n]) /\ (f[n].ok => g[n] = Bare(f[n]))
      BY <1>5, <2>1
    <2>3. /\ f[n + 1] = Apply(f[n], ops[n + 1])
          /\ g[n + 1] = Apply(g[n], ops[n + 1])
      BY <1>2, <1>3, <2>1 DEF OpsDone
    <2>4. Sound(f[n + 1])
      BY <2>2, <2>3, ApplySound
    <2>5. ASSUME f[n + 1].ok PROVE g[n + 1] = Bare(f[n + 1])
      <3>1. f[n].ok /\ Accepts(f[n], ops[n + 1]) /\ f[n + 1] = Effect(f[n], ops[n + 1])
        BY <2>2, <2>3, <2>5, ApplySound
      <3>2. /\ Accepts(Bare(f[n]), ops[n + 1])
            /\ Effect(Bare(f[n]), ops[n + 1]) = Bare(f[n + 1])
        BY <2>2, <3>1, EffectBare
      <3>3. Apply(Bare(f[n]), ops[n + 1]) = Bare(f[n + 1])
        BY <3>2, BareSchema DEF Apply
      <3> QED BY <2>2, <2>3, <3>1, <3>3
    <2> QED BY <2>4, <2>5
  <1>6. Nat \subseteq G
    <2> HIDE DEF G
    <2> QED BY <1>4, <1>5, NaturalSteps
  <1> QED BY <1>2, <1>3, <1>6

\* g[i] is the database after the revisions up to i.
RevisionsDone(d, m, n, g) ==
    g = [i \in m..n |-> IF i = m THEN d ELSE Run(g[i - 1], Up[i])]

LEMMA UpgradedSteps ==
  ASSUME NEW d, NEW m \in Nat, NEW n \in Nat, m <= n
  PROVE  \E g : RevisionsDone(d, m, n, g) /\ Upgraded(d, m, n) = g[n]
  <1> DEFINE G == {k \in Nat : \E g : RevisionsDone(d, m, m + k, g)}
  <1>1. 0 \in G
    <2> DEFINE g == [i \in m..m |-> d]
    <2>1. RevisionsDone(d, m, m + 0, g)
      BY DEF RevisionsDone
    <2>2. \E h : RevisionsDone(d, m, m + 0, h)
      BY <2>1
    <2> QED BY <2>2
  <1>2. ASSUME NEW k \in Nat, k \in G PROVE k + 1 \in G
    <2>1. PICK f : RevisionsDone(d, m, m + k, f)
      BY <1>2
    <2> DEFINE l == m + (k + 1)
               g == [i \in m..l |-> IF i = l THEN Run(f[l - 1], Up[l]) ELSE f[i]]
    <2>2. ASSUME NEW i \in m..l
          PROVE  g[i] = IF i = m THEN d ELSE Run(g[i - 1], Up[i])
      <3>1. CASE i = l
        BY <3>1
      <3>2. CASE i \in m..(m + k)
        <4>1. g[i] = f[i] /\ (i > m => i - 1 \in m..(m + k) /\ g[i - 1] = f[i - 1])
          BY <3>2
        <4>2. f[i] = IF i = m THEN d ELSE Run(f[i - 1], Up[i])
          BY <2>1, <3>2 DEF RevisionsDone
        <4> QED BY <4>1, <4>2, <3>2
      <3> QED BY <3>1, <3>2
    <2>3. RevisionsDone(d, m, l, g)
      BY <2>2 DEF RevisionsDone
    <2>4. \E h : RevisionsDone(d, m, l, h)
      <3> HIDE DEF g, l
      <3> QED BY <2>3
    <2> QED BY <2>4
  <1>3. Nat \subseteq G
    <2> HIDE DEF G
    <2> QED BY <1>1, <1>2, NaturalSteps
  <1>4. \E g : RevisionsDone(d, m, n, g)
    <2>1. n - m \in Nat /\ m + (n - m) = n
      OBVIOUS
    <2> QED BY <1>3, <2>1
  <1> DEFINE c == CHOOSE g : RevisionsDone(d, m, n, g)
  <1>5. RevisionsDone(d, m, n, c)
    BY <1>4
  <1>6. Upgraded(d, m, n) = c[n]
    BY DEF Upgraded, RevisionsDone
  <1> QED BY <1>5, <1>6

LEMMA UpgradedStep ==
  ASSUME NEW d, NEW m \in Nat, NEW n \in Nat, m <= n
  PROVE  /\ Upgraded(d, m, m) = d
         /\ Upgraded(d, m, n + 1) = Run(Upgraded(d, m, n), Up[n + 1])
  <1>1. Upgraded(d, m, m) = d
    <2>1. PICK g : RevisionsDone(d, m, m, g) /\ Upgraded(d, m, m) = g[m]
      BY UpgradedSteps
    <2> QED BY <2>1 DEF RevisionsDone
  <1>2. PICK f : RevisionsDone(d, m, n, f) /\ Upgraded(d, m, n) = f[n]
    BY UpgradedSteps
  <1>3. PICK g : RevisionsDone(d, m, n + 1, g) /\ Upgraded(d, m, n + 1) = g[n + 1]
    BY UpgradedSteps
  <1> DEFINE G == {k \in Nat : m + k <= n => g[m + k] = f[m + k]}
  <1>4. 0 \in G
    BY <1>2, <1>3 DEF RevisionsDone
  <1>5. ASSUME NEW k \in Nat, k \in G PROVE k + 1 \in G
    <2>1. SUFFICES ASSUME m + (k + 1) <= n PROVE g[m + (k + 1)] = f[m + (k + 1)]
      OBVIOUS
    <2> DEFINE l == m + (k + 1)
    <2>2. l \in m..n /\ l \in m..(n + 1) /\ l # m /\ l - 1 = m + k
      BY <2>1
    <2>3. f[l] = Run(f[l - 1], Up[l]) /\ g[l] = Run(g[l - 1], Up[l])
      BY <1>2, <1>3, <2>2 DEF RevisionsDone
    <2> QED BY <1>5, <2>1, <2>2, <2>3
  <1>6. Nat \subseteq G
    <2> HIDE DEF G
    <2> QED BY <1>4, <1>5, NaturalSteps
  <1>7. g[n] = f[n]
    <2>1. n - m \in Nat /\ m + (n - m) = n
      OBVIOUS
    <2> QED BY <1>6, <2>1
  <1>8. n + 1 \in m..(n + 1) /\ n + 1 # m /\ (n + 1) - 1 = n
    OBVIOUS
  <1>9. g[n + 1] = Run(g[n], Up[n + 1])
    BY <1>3, <1>8 DEF RevisionsDone
  <1> QED BY <1>1, <1>2, <1>3, <1>7, <1>9

LEMMA UpgradedSound ==
  ASSUME NEW d, Sound(d), NEW m \in Nat, NEW n \in Nat, m <= n, n <= 24
  PROVE  Sound(Upgraded(d, m, n)) /\ (Upgraded(d, m, n).ok => d.ok)
  <1> DEFINE Good(u) == Sound(u) /\ (u.ok => d.ok)
             G == {k \in Nat : m + k <= 24 => Good(Upgraded(d, m, m + k))}
  <1>1. 0 \in G
    <2>1. Upgraded(d, m, m + 0) = d
      BY UpgradedStep
    <2> QED BY <2>1
  <1>2. ASSUME NEW k \in Nat, k \in G PROVE k + 1 \in G
    <2>1. SUFFICES ASSUME m + (k + 1) <= 24 PROVE Good(Upgraded(d, m, m + (k + 1)))
      OBVIOUS
    <2> DEFINE l == m + k
               u == Upgraded(d, m, l)
    <2>2. l \in Nat /\ m <= l /\ l + 1 = m + (k + 1) /\ l + 1 \in 1..24
      BY <2>1
    <2>3. Good(u)
      BY <1>2, <2>1
    <2> HIDE DEF l
    <2>4. Upgraded(d, m, l + 1) = Run(u, Up[l + 1])
      BY <2>2, UpgradedStep
    <2>5. Len(Up[l + 1]) \in Nat
      BY <2>2, UpLengths
    <2>6. Good(Run(u, Up[l + 1]))
      <3> HIDE DEF u
      <3> QED BY <2>3, <2>5, RunSound
    <2> QED BY <2>2, <2>4, <2>6
  <1>3. Nat \subseteq G
    <2> HIDE DEF G
    <2> QED BY <1>1, <1>2, NaturalSteps
  <1>4. n - m \in Nat /\ m + (n - m) = n /\ m + (n - m) <= 24
    OBVIOUS
  <1>5. Good(Upgraded(d, m, m + (n - m)))
    <2> HIDE DEF Good
    <2> QED BY <1>3, <1>4
  <1> QED BY <1>4, <1>5

-----------------------------------------------------------------------------
(* Every step of a walk keeps a whole database.                            *)

SchemaInv == revision \in 0..24 /\ Sound(db) /\ db.ok

LEMMA EmptySound == Sound(Empty) /\ Empty.ok /\ Bare(Empty) = Empty
  BY DEF Empty, Sound, Bare, Unfilled, Schema

LEMMA CommandSound ==
  ASSUME SchemaInv, NEW d, NEW to \in 0..24, Sound(d), Command(d, to)
  PROVE  SchemaInv'
  BY DEF SchemaInv, Command, schemaVars

LEMMA InsertSound ==
  ASSUME SchemaInv, NEW t, NEW odd, Insert(t, odd)
  PROVE  SchemaInv' /\ Bare(db') = Bare(db)
  <1>1. db = [tables |-> db.tables, fks |-> db.fks, rules |-> db.rules,
              types |-> db.types, rows |-> db.rows, odd |-> db.odd, ok |-> db.ok]
    BY DEF SchemaInv, Sound
  <1>2. db' = [tables |-> db.tables, fks |-> db.fks, rules |-> db.rules,
               types |-> db.types, rows |-> db.rows \cup {t}, odd |-> db.odd \cup odd,
               ok |-> db.ok]
    BY <1>1 DEF Insert
  <1>3. \A x \in odd : x[1] = t
    <2>1. odd \subseteq Oddities(t)
      BY DEF Insert
    <2>2. \A x \in Oddities(t) : \E y : x = <<t, y>>
      BY DEF Oddities
    <2> QED BY <2>1, <2>2
  <1>4. /\ t \in DOMAIN db.tables /\ revision' = revision
        /\ \A k \in db.fks : k.table = t => k.to \in db.rows \cup {t}
    BY DEF Insert
  <1>5. Sound(db')
    BY <1>2, <1>3, <1>4 DEF SchemaInv, Sound, Columns
  <1> QED BY <1>2, <1>4, <1>5 DEF SchemaInv, Bare, Unfilled, Schema

LEMMA DeleteSound ==
  ASSUME SchemaInv, NEW t, Delete(t)
  PROVE  SchemaInv' /\ Bare(db') = Bare(db)
  <1>1. db = [tables |-> db.tables, fks |-> db.fks, rules |-> db.rules,
              types |-> db.types, rows |-> db.rows, odd |-> db.odd, ok |-> db.ok]
    BY DEF SchemaInv, Sound
  <1>2. db' = [tables |-> db.tables, fks |-> db.fks, rules |-> db.rules,
               types |-> db.types, rows |-> db.rows \ {t},
               odd |-> {x \in db.odd : x[1] # t}, ok |-> db.ok]
    BY <1>1 DEF Delete
  <1>3. /\ revision' = revision
        /\ \A k \in db.fks : k.to = t => k.table = t \/ k.table \notin db.rows
    BY DEF Delete
  <1>4. Sound(db')
    BY <1>2, <1>3 DEF SchemaInv, Sound, Columns
  <1> QED BY <1>2, <1>3, <1>4 DEF SchemaInv, Bare, Unfilled, Schema

LEMMA NewestIs == Newest = 24
  BY UpLengths DEF Newest

\* What the three commands run, and where they lead.
LEMMA CommandsSound ==
  ASSUME SchemaInv
  PROVE  /\ UpgradeHead => revision < 24 /\ Sound(Upgraded(db, revision, 24))
         /\ Upgrade => revision < 24 /\ Sound(Run(db, Up[revision + 1]))
         /\ Downgrade => revision > 0 /\ Sound(Run(db, Down[revision]))
  <1>1. ASSUME UpgradeHead
        PROVE  revision < 24 /\ Sound(Upgraded(db, revision, 24))
    <2>1. revision < 24 /\ revision \in Nat /\ revision <= 24
      BY <1>1, NewestIs DEF UpgradeHead, SchemaInv
    <2> QED BY <2>1, UpgradedSound DEF SchemaInv
  <1>2. ASSUME Upgrade PROVE revision < 24 /\ Sound(Run(db, Up[revision + 1]))
    <2>1. revision < 24 /\ revision + 1 \in 1..24
      BY <1>2, NewestIs DEF Upgrade, SchemaInv
    <2>2. Len(Up[revision + 1]) \in Nat
      BY <2>1, UpLengths
    <2> QED BY <2>1, <2>2, RunSound DEF SchemaInv
  <1>3. ASSUME Downgrade PROVE revision > 0 /\ Sound(Run(db, Down[revision]))
    <2>1. revision > 0 /\ revision \in 1..24
      BY <1>3 DEF Downgrade, SchemaInv
    <2>2. Len(Down[revision]) \in Nat
      BY <2>1, DownLengths
    <2> QED BY <2>1, <2>2, RunSound DEF SchemaInv
  <1> QED BY <1>1, <1>2, <1>3

LEMMA SchemaStep ==
  ASSUME SchemaInv, [SchemaNext]_schemaVars
  PROVE  SchemaInv'
  <1>1. CASE UpgradeHead
    BY <1>1, CommandsSound, CommandSound, NewestIs DEF UpgradeHead
  <1>2. CASE Upgrade
    <2>1. revision + 1 \in 0..24
      BY <1>2, CommandsSound DEF SchemaInv
    <2> QED BY <1>2, <2>1, CommandsSound, CommandSound DEF Upgrade
  <1>3. CASE Downgrade
    <2>1. revision - 1 \in 0..24
      BY <1>3, CommandsSound DEF SchemaInv
    <2> QED BY <1>3, <2>1, CommandsSound, CommandSound DEF Downgrade
  <1>4. ASSUME NEW t, NEW odd, Insert(t, odd) PROVE SchemaInv'
    BY <1>4, InsertSound
  <1>5. ASSUME NEW t, Delete(t) PROVE SchemaInv'
    BY <1>5, DeleteSound
  <1>6. CASE UNCHANGED schemaVars
    BY <1>6 DEF schemaVars, SchemaInv
  <1> QED BY <1>1, <1>2, <1>3, <1>4, <1>5, <1>6 DEF SchemaNext

-----------------------------------------------------------------------------
(* A schema is that of its revision: what TLC evaluates of the scripts on  *)
(* databases without rows decides it for all of them.                      *)

New(n) == Upgraded(Empty, 0, n)

\* Of revision n, or what the first downgrade() leaves of it.
Known(n, d) ==
    \/ Bare(d) = New(n)
    \/ n = 0 /\ New(1).ok /\ Bare(d) = Run(New(1), Down[1])

LEMMA NewStep ==
  ASSUME NEW n \in 0..23
  PROVE  /\ Len(Up[n + 1]) \in Nat
         /\ New(n + 1) = Run(New(n), Up[n + 1])
         /\ Sound(New(n)) /\ (New(n + 1).ok => New(n).ok)
  <1>1. n \in Nat /\ 0 <= n /\ n <= 24 /\ n + 1 \in 1..24
    OBVIOUS
  <1>2. New(n + 1) = Run(New(n), Up[n + 1])
    BY <1>1, UpgradedStep DEF New
  <1>3. Sound(New(n))
    BY <1>1, EmptySound, UpgradedSound DEF New
  <1> QED BY <1>1, <1>2, <1>3, UpLengths, RunSound

LEMMA NewUnfilled ==
  ASSUME NEW n \in 0..24, New(n).ok
  PROVE  New(n) = Unfilled(Fresh[n]) /\ Schema(New(n)) = Fresh[n]
  <1> DEFINE G == {k \in Nat : k <= 24 /\ New(k).ok => New(k) = Bare(New(k))}
  <1>1. 0 \in G
    <2>1. New(0) = Empty
      BY UpgradedStep DEF New
    <2> QED BY <2>1, EmptySound
  <1>2. ASSUME NEW k \in Nat, k \in G PROVE k + 1 \in G
    <2>1. SUFFICES ASSUME k + 1 <= 24, New(k + 1).ok PROVE New(k + 1) = Bare(New(k + 1))
      OBVIOUS
    <2>2. k \in 0..23
      BY <2>1
    <2>3. /\ Len(Up[k + 1]) \in Nat /\ New(k + 1) = Run(New(k), Up[k + 1])
          /\ Sound(New(k)) /\ New(k).ok
      BY <2>1, <2>2, NewStep
    <2>4. New(k) = Bare(New(k))
      BY <1>2, <2>2, <2>3
    <2>5. Run(Bare(New(k)), Up[k + 1]) = Bare(New(k + 1))
      BY <2>1, <2>3, RunBare
    <2> QED BY <2>3, <2>4, <2>5
  <1>3. Nat \subseteq G
    <2> HIDE DEF G
    <2> QED BY <1>1, <1>2, NaturalSteps
  <1>4. New(n) = Bare(New(n))
    BY <1>3
  <1>5. Fresh[n] = Schema(New(n))
    BY NewestIs DEF Fresh, New
  <1> QED BY <1>4, <1>5 DEF Bare

LEMMA UpKnown ==
  ASSUME NEW n \in 0..23, NEW d, Sound(d), Known(n, d), Run(d, Up[n + 1]).ok, Inverts(1)
  PROVE  Known(n + 1, Run(d, Up[n + 1]))
  <1>1. Run(Bare(d), Up[n + 1]) = Bare(Run(d, Up[n + 1]))
    BY NewStep, RunBare
  <1>2. CASE Bare(d) = New(n)
    BY <1>1, <1>2, NewStep DEF Known
  <1>3. CASE n = 0 /\ New(1).ok /\ Bare(d) = Run(New(1), Down[1])
    <2> DEFINE back == Run(Unfilled(Fresh[1]), Down[1])
    <2>1. Bare(d) = back
      BY <1>3, NewUnfilled
    <2>2. back.ok
      BY <2>1, BareSchema
    <2>3. ~ Run(back, Up[1]).ok
      BY <2>2 DEF Inverts
    <2>4. Run(back, Up[1]).ok
      <3> HIDE DEF back
      <3>1. Run(back, Up[1]) = Bare(Run(d, Up[1]))
        BY <1>1, <1>3, <2>1
      <3> QED BY <3>1, BareSchema
    <2> QED BY <2>3, <2>4
  <1> QED BY <1>2, <1>3 DEF Known

LEMMA DownKnown ==
  ASSUME NEW n \in 1..24, NEW d, Sound(d), Known(n, d), Run(d, Down[n]).ok, Inverts(n)
  PROVE  Known(n - 1, Run(d, Down[n]))
  <1> DEFINE new == Run(d, Down[n])
             back == Run(Unfilled(Fresh[n]), Down[n])
  <1>1. Run(Bare(d), Down[n]) = Bare(new)
    BY DownLengths, RunBare
  <1>2. Bare(d) = New(n)
    BY DEF Known
  <1>3. New(n).ok
    BY <1>2, BareSchema
  <1>4. back = Bare(new)
    <2>1. New(n) = Unfilled(Fresh[n])
      BY <1>3, NewUnfilled
    <2> QED BY <1>1, <1>2, <2>1
  <1>5. back.ok
    <2> HIDE DEF new, back
    <2> QED BY <1>4, BareSchema
  <1>6. CASE n = 1
    BY <1>1, <1>2, <1>3, <1>6 DEF Known
  <1>7. CASE n > 1
    <2>1. Schema(back) = Fresh[n - 1]
      BY <1>5, <1>7 DEF Inverts
    <2>2. n - 1 \in 0..23 /\ (n - 1) + 1 = n
      OBVIOUS
    <2>3. New(n - 1).ok
      BY <1>3, <2>2, NewStep
    <2>4. New(n - 1) = Unfilled(Fresh[n - 1])
      BY <2>2, <2>3, NewUnfilled
    <2>5. Bare(new) = Unfilled(Fresh[n - 1])
      <3> HIDE DEF new, back
      <3> QED BY <1>4, <2>1, BareSchema
    <2> QED BY <2>4, <2>5 DEF Known
  <1> QED BY <1>6, <1>7

LEMMA HeadKnown ==
  ASSUME NEW n \in 0..24, NEW d, Sound(d), Known(n, d), Upgraded(d, n, 24).ok, Inverts(1)
  PROVE  Known(24, Upgraded(d, n, 24))
  <1> DEFINE Good(k) == Upgraded(d, n, n + k).ok => Known(n + k, Upgraded(d, n, n + k))
             G == {k \in Nat : n + k <= 24 => Good(k)}
  <1>1. 0 \in G
    <2>1. Upgraded(d, n, n + 0) = d /\ n + 0 = n
      BY UpgradedStep
    <2> QED BY <2>1
  <1>2. ASSUME NEW k \in Nat, k \in G PROVE k + 1 \in G
    <2>1. SUFFICES ASSUME n + (k + 1) <= 24 PROVE Good(k + 1)
      OBVIOUS
    <2> DEFINE l == n + k
               u == Upgraded(d, n, l)
    <2>2. n \in Nat /\ l \in Nat /\ l \in 0..23 /\ n <= l /\ l + 1 = n + (k + 1)
      BY <2>1
    <2>3. u.ok => Known(l, u)
      BY <1>2, <2>1
    <2> HIDE DEF l
    <2>4. Upgraded(d, n, l + 1) = Run(u, Up[l + 1])
      BY <2>2, UpgradedStep
    <2>5. Sound(u)
      BY <2>2, UpgradedSound
    <2> HIDE DEF u
    <2>6. Run(u, Up[l + 1]).ok => u.ok
      BY <2>2, <2>5, NewStep, RunSound
    <2>7. Run(u, Up[l + 1]).ok => Known(l + 1, Run(u, Up[l + 1]))
      BY <2>2, <2>3, <2>5, <2>6, UpKnown
    <2> QED BY <2>2, <2>4, <2>7
  <1>3. Nat \subseteq G
    <2> HIDE DEF G
    <2> QED BY <1>1, <1>2, NaturalSteps
  <1>4. 24 - n \in Nat /\ n + (24 - n) = 24
    OBVIOUS
  <1>5. Good(24 - n)
    <2> HIDE DEF Good
    <2> QED BY <1>3, <1>4
  <1> QED BY <1>4, <1>5

LEMMA KnownStep ==
  ASSUME \A n \in 0..Newest : Inverts(n), SchemaInv, Known(revision, db),
         [SchemaNext]_schemaVars
  PROVE  Known(revision, db)'
  <1>1. ASSUME NEW d, NEW to, Command(d, to), d.ok => Known(to, d)
        PROVE  Known(revision, db)'
    BY <1>1 DEF Command, schemaVars
  <1>2. Inverts(1) /\ (revision > 0 => Inverts(revision))
    BY NewestIs DEF SchemaInv
  <1>3. CASE UpgradeHead
    <2>1. Upgraded(db, revision, 24).ok => Known(24, Upgraded(db, revision, 24))
      BY <1>2, HeadKnown DEF SchemaInv
    <2> QED BY <1>1, <1>3, <2>1, NewestIs DEF UpgradeHead
  <1>4. CASE Upgrade
    <2> DEFINE new == Run(db, Up[revision + 1])
    <2>1. new.ok => Known(revision + 1, new)
      BY <1>2, <1>4, CommandsSound, UpKnown DEF SchemaInv
    <2> QED BY <1>1, <1>4, <2>1 DEF Upgrade
  <1>5. CASE Downgrade
    <2> DEFINE new == Run(db, Down[revision])
    <2>1. new.ok => Known(revision - 1, new)
      BY <1>2, <1>5, CommandsSound, DownKnown DEF SchemaInv
    <2> QED BY <1>1, <1>5, <2>1 DEF Downgrade
  <1>6. ASSUME NEW t, NEW odd, Insert(t, odd) PROVE Known(revision, db)'
    BY <1>6, InsertSound DEF Insert, Known
  <1>7. ASSUME NEW t, Delete(t) PROVE Known(revision, db)'
    BY <1>7, DeleteSound DEF Delete, Known
  <1>8. CASE UNCHANGED schemaVars
    BY <1>8 DEF schemaVars, Known
  <1> QED BY <1>3, <1>4, <1>5, <1>6, <1>7, <1>8 DEF SchemaNext

\* If every revision's scripts undo one another without rows, which TLC evaluates
\* for each of the 24 (ScriptsAgree), then whatever rows the application puts in
\* whichever tables, a revision names one schema however it was reached, and that
\* of head is the one the application declares, but for the six columns of Declared
\* (migrations/versions/).
THEOREM SchemaFollowsRevision ==
  ASSUME \A n \in 0..Newest : Inverts(n)
  PROVE  SchemaSpec => []SchemaOfRevision
  <1> DEFINE Inv == SchemaInv /\ Known(revision, db)
  <1>1. SchemaInit => Inv
    <2>1. New(0) = Empty
      BY UpgradedStep DEF New
    <2> QED BY <2>1, EmptySound DEF SchemaInit, SchemaInv, Known
  <1>2. Inv /\ [SchemaNext]_schemaVars => Inv'
    BY SchemaStep, KnownStep
  <1>3. Inv => SchemaOfRevision
    <2> SUFFICES ASSUME SchemaInv, Known(revision, db) PROVE SchemaOfRevision
      OBVIOUS
    <2>1. revision \in 0..24 /\ Inverts(1) /\ Inverts(24) /\ Newest = 24
      BY NewestIs DEF SchemaInv
    <2>2. CASE Bare(db) = New(revision)
      <3>1. Schema(db) = Fresh[revision]
        BY <2>1, <2>2, BareSchema, NewUnfilled
      <3>2. revision = 0 => [Schema(db) EXCEPT !.types = <<>>] = Fresh[0]
        <4>1. New(0) = Empty
          BY UpgradedStep DEF New
        <4>2. revision = 0 => Schema(db) = Schema(Empty)
          BY <2>2, <4>1, BareSchema
        <4>3. [Schema(Empty) EXCEPT !.types = <<>>] = Schema(Empty)
          BY DEF Schema, Empty
        <4> QED BY <3>1, <4>2, <4>3
      <3>3. HeadServesModels
        BY <2>1, <3>1 DEF HeadServesModels, Inverts
      <3> QED BY <2>1, <3>1, <3>2, <3>3 DEF SchemaOfRevision
    <2>3. CASE revision = 0 /\ New(1).ok /\ Bare(db) = Run(New(1), Down[1])
      <3> DEFINE back == Run(Unfilled(Fresh[1]), Down[1])
      <3>1. New(1) = Unfilled(Fresh[1])
        BY <2>3, NewUnfilled
      <3>2. Bare(db) = back
        BY <2>3, <3>1
      <3>3. back.ok
        <4> HIDE DEF back
        <4> QED BY <3>2, BareSchema
      <3>4. [Schema(back) EXCEPT !.types = <<>>] = Fresh[0]
        BY <2>1, <3>3 DEF Inverts
      <3>5. Schema(back) = Schema(db)
        <4> HIDE DEF back
        <4> QED BY <3>2, BareSchema
      <3> QED BY <2>1, <2>3, <3>4, <3>5 DEF SchemaOfRevision, HeadServesModels
    <2> QED BY <2>2, <2>3 DEF Known
  <1> QED BY <1>1, <1>2, <1>3, PTL DEF SchemaSpec

-----------------------------------------------------------------------------
(* When an upgrade succeeds.  Rows refuse only a required column and a     *)
(* unique name: what else they could refuse is not in the scripts.         *)

\* Values that an upgrade has no trouble with.
Eased(odd) == \A x \in odd : x[2] \in {"title", "username", "genre"}

\* What an accepted operation does to the rows.
LEMMA EffectRows ==
  ASSUME NEW d, NEW o, Sound(d), Accepts(d, o)
  PROVE  /\ Effect(d, o).rows \subseteq d.rows /\ Effect(d, o).odd \subseteq d.odd
         /\ o.op = "create" => o.table \notin Effect(d, o).rows
         /\ \A x \in d.rows \ Effect(d, o).rows : o.op = "drop table" /\ o.table = x
  <1>1. d = [tables |-> d.tables, fks |-> d.fks, rules |-> d.rules, types |-> d.types,
             rows |-> d.rows, odd |-> d.odd, ok |-> d.ok]
    BY DEF Sound
  <1>2. CASE o.op = "create"
    <2>1. Effect(d, o) = [tables |-> With(d.tables, o.table, o.columns), fks |-> d.fks,
                          rules |-> d.rules, types |-> d.types, rows |-> d.rows,
                          odd |-> d.odd, ok |-> d.ok]
      BY <1>1, <1>2 DEF Effect
    <2>2. o.table \notin d.rows
      BY <1>2 DEF Accepts, Sound
    <2> QED BY <1>2, <2>1, <2>2
  <1>3. CASE o.op = "drop table"
    <2>1. Effect(d, o).rows = d.rows \ {o.table} /\ Effect(d, o).odd \subseteq d.odd
      BY <1>1, <1>3 DEF Effect
    <2> QED BY <1>3, <2>1
  <1>4. CASE o.op \in {"add", "alter", "drop", "refer", "drop fkey", "rule", "drop rule",
                       "type", "drop type", "sync"}
    <2>1. Effect(d, o).rows = d.rows /\ Effect(d, o).odd = d.odd
      BY <1>1, <1>4 DEF Effect
    <2> QED BY <1>4, <2>1
  <1>5. o.op \in {"create", "drop table", "add", "alter", "drop", "refer", "drop fkey",
                  "rule", "drop rule", "type", "drop type", "sync"}
    BY DEF Accepts
  <1> QED BY <1>2, <1>3, <1>4, <1>5

LEMMA EffectOk ==
  ASSUME NEW d, NEW o, Sound(d), Accepts(d, o)
  PROVE  Effect(d, o).ok = d.ok
  <1>1. d = [tables |-> d.tables, fks |-> d.fks, rules |-> d.rules, types |-> d.types,
             rows |-> d.rows, odd |-> d.odd, ok |-> d.ok]
    BY DEF Sound
  <1>2. o.op \in {"create", "drop table", "add", "alter", "drop", "refer", "drop fkey",
                  "rule", "drop rule", "type", "drop type", "sync"}
    BY DEF Accepts
  <1> QED BY <1>1, <1>2 DEF Effect

\* An operation accepted without rows, with what rows could refuse of it.
LEMMA AcceptsFilled ==
  ASSUME NEW d, NEW o, Accepts(Bare(d), o), Eased(d.odd),
         o.op = "add" /\ Mandatory(o.form) /\ ~o.default => o.table \notin d.rows,
         o.op = "alter" => o.form # "short",
         o.op = "sync" => o.values # "old",
         o.op = "rule" => o.what \notin {"title", "username", "genre"},
         o.op = "refer" => (o.fk.table \in d.rows => o.fk.to \in d.rows)
  PROVE  Accepts(d, o)
  <1> DEFINE b == Bare(d)
  <1>1. b.tables = d.tables /\ b.fks = d.fks /\ b.rules = d.rules /\ b.types = d.types
    BY DEF Bare, Unfilled, Schema
  <1>2. Accepts(b, o)
    OBVIOUS
  <1> HIDE DEF b
  <1>3. CASE o.op = "add"
    BY <1>1, <1>2, <1>3 DEF Accepts, Columns
  <1>4. CASE o.op \in {"alter", "sync"}
    BY <1>1, <1>2, <1>4 DEF Accepts, Columns
  <1>5. CASE o.op = "rule"
    <2>1. o.table \in DOMAIN d.tables /\ <<o.table, o.what>> \notin d.rules
      BY <1>1, <1>2, <1>5 DEF Accepts
    <2>2. <<o.table, o.what>>[2] = o.what
      OBVIOUS
    <2>3. <<o.table, o.what>> \notin d.odd
      BY <1>5, <2>2 DEF Eased
    <2> QED BY <1>5, <2>1, <2>3 DEF Accepts
  <1>6. CASE o.op = "refer"
    BY <1>1, <1>2, <1>6 DEF Accepts, Columns
  <1>7. CASE o.op \in {"create", "drop table"}
    BY <1>1, <1>2, <1>7 DEF Accepts, Columns
  <1>8. CASE o.op = "drop"
    BY <1>1, <1>2, <1>8 DEF Accepts, Columns
  <1>9. CASE o.op = "drop fkey"
    BY <1>1, <1>2, <1>9 DEF Accepts, Columns
  <1>10. CASE o.op = "drop rule"
    BY <1>1, <1>2, <1>10 DEF Accepts, Columns
  <1>11. CASE o.op \in {"type", "drop type"}
    BY <1>1, <1>2, <1>11 DEF Accepts, Columns
  <1>12. o.op \in {"create", "drop table", "add", "alter", "drop", "refer", "drop fkey",
                   "rule", "drop rule", "type", "drop type", "sync"}
    BY <1>2 DEF Accepts
  <1> QED BY <1>3, <1>4, <1>5, <1>6, <1>7, <1>8, <1>9, <1>10, <1>11, <1>12

\* A script that gets through was not refused on the way.
LEMMA OpsOk ==
  ASSUME NEW d, NEW ops, Len(ops) \in Nat, Sound(d), NEW f, OpsDone(d, ops, f),
         f[Len(ops)].ok, NEW i \in 0..Len(ops)
  PROVE  f[i].ok /\ Sound(f[i])
  <1> DEFINE G == {n \in Nat : n <= Len(ops) => Sound(f[n])}
             H == {n \in Nat : n <= Len(ops) => f[Len(ops) - n].ok}
  <1>1. \A n \in Nat : n + 1 <= Len(ops) => f[n + 1] = Apply(f[n], ops[n + 1])
    BY DEF OpsDone
  <1>2. Nat \subseteq G
    <2>1. 0 \in G
      BY DEF OpsDone
    <2>2. ASSUME NEW n \in Nat, n \in G PROVE n + 1 \in G
      BY <1>1, <2>2, ApplySound
    <2> HIDE DEF G
    <2> QED BY <2>1, <2>2, NaturalSteps
  <1>3. Nat \subseteq H
    <2>1. 0 \in H
      OBVIOUS
    <2>2. ASSUME NEW n \in Nat, n \in H PROVE n + 1 \in H
      <3>1. SUFFICES ASSUME n + 1 <= Len(ops) PROVE f[Len(ops) - (n + 1)].ok
        OBVIOUS
      <3> DEFINE l == Len(ops) - (n + 1)
      <3>2. l \in Nat /\ l + 1 <= Len(ops) /\ l + 1 = Len(ops) - n /\ l <= Len(ops)
        BY <3>1
      <3>3. f[l + 1].ok
        BY <2>2, <3>1, <3>2
      <3> HIDE DEF l
      <3>4. f[l + 1] = Apply(f[l], ops[l + 1]) /\ Sound(f[l])
        BY <1>1, <1>2, <3>2
      <3>5. f[l].ok
        BY <3>3, <3>4, ApplySound
      <3> QED BY <3>5 DEF l
    <2> HIDE DEF H
    <2> QED BY <2>1, <2>2, NaturalSteps
  <1>4. Len(ops) - i \in Nat /\ Len(ops) - i <= Len(ops) /\ Len(ops) - (Len(ops) - i) = i
    OBVIOUS
  <1> QED BY <1>2, <1>3, <1>4

\* The upgrade() of revision n, on a database of the revision before it.
LEMMA UpAccepted ==
  ASSUME NEW n \in 1..24, NEW d, Sound(d), d.ok, Bare(d) = New(n - 1), Accommodates(n),
         Eased(d.odd), d.rows \cap Grown(n) = {}
  PROVE  LET u == Run(d, Up[n])
         IN  u.ok /\ u.rows \subseteq d.rows /\ u.odd \subseteq d.odd
  <1> DEFINE ops == Up[n]
             last == Len(ops)
             Script(j) == /\ ops[j].op = "alter" => ops[j].form # "short"
                          /\ ops[j].op = "sync" => ops[j].values # "old"
                          /\ ops[j].op = "rule" =>
                                ops[j].what \notin {"title", "username", "genre"}
                          /\ ops[j].op = "refer" => Backed(n, j)
  <1>1. last \in Nat
    BY UpLengths
  <1>2. New(n).ok /\ \A j \in 1..last : Script(j)
    BY DEF Accommodates, New
  <1>3. New(n) = Run(Bare(d), ops)
    <2>1. n - 1 \in 0..23 /\ (n - 1) + 1 = n
      OBVIOUS
    <2> QED BY <2>1, NewStep
  <1>4. Sound(Bare(d)) /\ Bare(d).ok
    <2>1. n - 1 \in 0..23
      OBVIOUS
    <2> QED BY <2>1, NewStep, BareSchema
  <1> HIDE DEF ops
  <1>5. PICK f : OpsDone(d, ops, f) /\ Run(d, ops) = f[last]
    BY <1>1, RunSteps
  <1>6. PICK g : OpsDone(Bare(d), ops, g) /\ Run(Bare(d), ops) = g[last]
    BY <1>1, <1>4, RunSteps
  <1>7. \A i \in 0..last : g[i].ok
    BY <1>1, <1>2, <1>3, <1>4, <1>6, OpsOk
  <1> DEFINE Good(i) == /\ f[i].ok /\ Sound(f[i]) /\ g[i] = Bare(f[i])
                        /\ f[i].rows \subseteq d.rows /\ f[i].odd \subseteq d.odd
                        /\ \A k \in 1..i :
                              ops[k].op = "create" => ops[k].table \notin f[i].rows
                        /\ \A x \in d.rows \ f[i].rows :
                              \E k \in 1..i : ops[k].op = "drop table" /\ ops[k].table = x
             G == {i \in Nat : i <= last => Good(i)}
  <1>8. 0 \in G
    <2>1. f[0] = d /\ g[0] = Bare(d)
      BY <1>1, <1>5, <1>6 DEF OpsDone
    <2>2. Good(0)
      BY <2>1
    <2> HIDE DEF Good
    <2> QED BY <2>2
  <1>9. ASSUME NEW i \in Nat, i \in G PROVE i + 1 \in G
    <2> HIDE DEF Good
    <2>1. SUFFICES ASSUME i + 1 <= last PROVE Good(i + 1)
      OBVIOUS
    <2>2. Good(i)
      BY <1>1, <1>9, <2>1
    <2>3. f[i].ok /\ Sound(f[i]) /\ g[i] = Bare(f[i])
      BY <2>2 DEF Good
    <2> USE DEF Good
    <2>4. Good(i)
      BY <2>2
    <2> DEFINE j == i + 1
               o == ops[j]
    <2>5. /\ f[j] = Apply(f[i], o) /\ g[j] = Apply(g[i], o)
          /\ j \in 1..last /\ j \in 0..last /\ i \in 0..last /\ j - 1 = i
      BY <1>1, <1>5, <1>6, <2>1 DEF OpsDone
    <2> HIDE DEF j
    <2>6. Accepts(Bare(f[i]), o)
      <3>1. g[j].ok /\ g[j] = Apply(g[i], o)
        BY <1>7, <2>5
      <3>2. Apply(g[i], o).ok => Accepts(g[i], o)
        BY BareSchema, <2>4 DEF Apply, Refused, Bare, Unfilled
      <3> QED BY <2>4, <3>1, <3>2
    <2>7. Eased(f[i].odd)
      BY <2>4 DEF Eased
    <2>8. Script(j)
      BY <1>2, <2>5
    <2>9. o.op = "add" /\ Mandatory(o.form) /\ ~o.default => o.table \notin f[i].rows
      <3>1. ASSUME o.op = "add", Mandatory(o.form), ~o.default PROVE o.table \in Grown(n)
        BY <2>5, <3>1 DEF Grown, ops
      <3> QED BY <2>4, <3>1
    <2>10. ASSUME o.op = "refer", o.fk.table \in f[i].rows PROVE o.fk.to \in f[i].rows
      <3> DEFINE k == o.fk
      <3>1. Backed(n, j)
        BY <2>8, <2>10
      <3>2. \/ \E h \in 1..i : ops[h].op = "create" /\ ops[h].table = k.table
            \/ k.table \in Grown(n)
            \/ /\ \E x \in Fresh[n - 1].fks : x.table = k.table /\ x.to = k.to
               /\ ~ \E h \in 1..i : ops[h].op = "drop table" /\ ops[h].table = k.to
        BY <2>5, <3>1 DEF Backed, ops
      <3>3. k.table \in d.rows /\ k.table \notin Grown(n)
        BY <2>4, <2>10
      <3>4. ~ \E h \in 1..i : ops[h].op = "create" /\ ops[h].table = k.table
        BY <2>4, <2>10
      <3>5. Fresh[n - 1].fks = d.fks
        <4>1. n - 1 \in 0..24 /\ New(n - 1).ok
          BY <1>4
        <4>2. Schema(d) = Fresh[n - 1]
          BY <4>1, BareSchema, NewUnfilled
        <4> QED BY <4>2 DEF Schema
      <3>6. PICK x \in d.fks : x.table = k.table /\ x.to = k.to
        BY <3>2, <3>3, <3>4, <3>5
      <3>7. k.to \in d.rows
        BY <3>3, <3>6 DEF Sound
      <3> QED BY <2>4, <3>2, <3>3, <3>4, <3>7
    <2>11. Accepts(f[i], o)
      <3> HIDE DEF o
      <3> QED BY <2>6, <2>7, <2>8, <2>9, <2>10, AcceptsFilled DEF o
    <2> HIDE DEF o, Good
    <2>12. f[j] = Effect(f[i], o) /\ g[j] = Bare(f[j]) /\ Sound(f[j]) /\ f[j].ok
      <3>1. f[j] = Effect(f[i], o)
        BY <2>3, <2>5, <2>11 DEF Apply
      <3>2. g[j] = Effect(Bare(f[i]), o)
        BY <2>3, <2>5, <2>6, BareSchema DEF Apply
      <3>3. g[j] = Bare(f[j])
        BY <2>3, <2>11, <3>1, <3>2, EffectBare
      <3>4. Sound(f[j]) /\ f[j].ok
        BY <2>3, <2>11, <3>1, EffectSound, EffectOk
      <3> QED BY <3>1, <3>3, <3>4
    <2>13. /\ f[j].rows \subseteq f[i].rows /\ f[j].odd \subseteq f[i].odd
           /\ o.op = "create" => o.table \notin f[j].rows
           /\ \A x \in f[i].rows \ f[j].rows : o.op = "drop table" /\ o.table = x
      <3> DEFINE e == Effect(f[i], o)
      <3>1. /\ e.rows \subseteq f[i].rows /\ e.odd \subseteq f[i].odd
            /\ o.op = "create" => o.table \notin e.rows
            /\ \A x \in f[i].rows \ e.rows : o.op = "drop table" /\ o.table = x
        BY <2>3, <2>11, EffectRows
      <3>2. f[j] = e
        BY <2>12
      <3> HIDE DEF e
      <3> QED BY <3>1, <3>2
    <2> USE DEF o, Good
    <2>14. \A k \in 1..j : ops[k].op = "create" => ops[k].table \notin f[j].rows
      <3>1. \A k \in 1..j : k \in 1..i \/ k = j
        BY DEF j
      <3> QED BY <2>4, <2>13, <3>1
    <2>15. \A x \in d.rows \ f[j].rows :
              \E k \in 1..j : ops[k].op = "drop table" /\ ops[k].table = x
      <3>1. 1..i \subseteq 1..j /\ j \in 1..j
        BY DEF j
      <3> QED BY <2>4, <2>13, <3>1
    <2>16. Good(j)
      BY <2>4, <2>12, <2>13, <2>14, <2>15
    <2> QED BY <2>16 DEF j
  <1>10. Nat \subseteq G
    <2> HIDE DEF G
    <2> QED BY <1>8, <1>9, NaturalSteps
  <1>11. Good(last)
    <2> HIDE DEF Good
    <2> QED BY <1>1, <1>10
  <1> QED BY <1>5, <1>11 DEF ops

\* The application keeps odd values where Oddities finds them.
OddInv == \A x \in db.odd : \/ x[2] \in {"title", "username", "genre"}
                            \/ x \in {<<"user", "unique username">>,
                                      <<"user", "unique email">>}

LEMMA RunOdd ==
  ASSUME NEW d, NEW ops, Len(ops) \in Nat, Sound(d), Run(d, ops).ok
  PROVE  Run(d, ops).odd \subseteq d.odd
  <1>1. d.ok
    BY RunSound
  <1>2. PICK f : OpsDone(d, ops, f) /\ Run(d, ops) = f[Len(ops)]
    BY <1>1, RunSteps
  <1>3. \A i \in 0..Len(ops) : f[i].ok /\ Sound(f[i])
    BY <1>2, OpsOk
  <1> DEFINE G == {n \in Nat : n <= Len(ops) => f[n].odd \subseteq d.odd}
  <1>4. 0 \in G
    BY <1>2 DEF OpsDone
  <1>5. ASSUME NEW n \in Nat, n \in G PROVE n + 1 \in G
    <2>1. SUFFICES ASSUME n + 1 <= Len(ops) PROVE f[n + 1].odd \subseteq d.odd
      OBVIOUS
    <2>2. f[n + 1] = Apply(f[n], ops[n + 1]) /\ Sound(f[n]) /\ f[n + 1].ok
      BY <1>2, <1>3, <2>1 DEF OpsDone
    <2>3. Accepts(f[n], ops[n + 1]) /\ f[n + 1] = Effect(f[n], ops[n + 1])
      BY <2>2, ApplySound
    <2>4. Effect(f[n], ops[n + 1]).odd \subseteq f[n].odd
      BY <2>2, <2>3, EffectRows
    <2>5. f[n].odd \subseteq d.odd
      BY <1>5, <2>1
    <2> QED BY <2>3, <2>4, <2>5
  <1>6. Nat \subseteq G
    <2> HIDE DEF G
    <2> QED BY <1>4, <1>5, NaturalSteps
  <1> QED BY <1>2, <1>6

LEMMA UpgradedOdd ==
  ASSUME NEW d, Sound(d), NEW m \in Nat, NEW n \in Nat, m <= n, n <= 24,
         Upgraded(d, m, n).ok
  PROVE  Upgraded(d, m, n).odd \subseteq d.odd
  <1> DEFINE Good(u) == u.ok => u.odd \subseteq d.odd
             G == {k \in Nat : m + k <= 24 => Good(Upgraded(d, m, m + k))}
  <1>1. 0 \in G
    <2>1. Upgraded(d, m, m + 0) = d
      BY UpgradedStep
    <2> QED BY <2>1
  <1>2. ASSUME NEW k \in Nat, k \in G PROVE k + 1 \in G
    <2>1. SUFFICES ASSUME m + (k + 1) <= 24 PROVE Good(Upgraded(d, m, m + (k + 1)))
      OBVIOUS
    <2> DEFINE l == m + k
               u == Upgraded(d, m, l)
    <2>2. l \in Nat /\ m <= l /\ l <= 24 /\ l + 1 = m + (k + 1) /\ l + 1 \in 1..24
      BY <2>1
    <2>3. Good(u)
      BY <1>2, <2>1
    <2> HIDE DEF l
    <2>4. Upgraded(d, m, l + 1) = Run(u, Up[l + 1])
      BY <2>2, UpgradedStep
    <2>5. Sound(u) /\ Len(Up[l + 1]) \in Nat
      BY <2>2, UpgradedSound, UpLengths
    <2>6. Good(Run(u, Up[l + 1]))
      <3> HIDE DEF u
      <3> QED BY <2>3, <2>5, RunSound, RunOdd
    <2> QED BY <2>2, <2>4, <2>6
  <1>3. Nat \subseteq G
    <2> HIDE DEF G
    <2> QED BY <1>1, <1>2, NaturalSteps
  <1>4. n - m \in Nat /\ m + (n - m) = n /\ m + (n - m) <= 24
    OBVIOUS
  <1>5. Good(Upgraded(d, m, m + (n - m)))
    <2> HIDE DEF Good
    <2> QED BY <1>3, <1>4
  <1> QED BY <1>4, <1>5

LEMMA OddStep ==
  ASSUME SchemaInv, OddInv, [SchemaNext]_schemaVars
  PROVE  OddInv'
  <1>1. ASSUME NEW d, NEW to, Command(d, to), d.ok => d.odd \subseteq db.odd
        PROVE  OddInv'
    BY <1>1 DEF Command, schemaVars, OddInv
  <1>2. CASE UpgradeHead
    <2>1. Upgraded(db, revision, 24).ok => Upgraded(db, revision, 24).odd \subseteq db.odd
      <3>1. revision \in Nat /\ revision <= 24
        BY DEF SchemaInv
      <3> QED BY <3>1, UpgradedOdd DEF SchemaInv
    <2> QED BY <1>1, <1>2, <2>1, NewestIs DEF UpgradeHead
  <1>3. CASE Upgrade
    <2> DEFINE new == Run(db, Up[revision + 1])
    <2>1. new.ok => new.odd \subseteq db.odd
      <3>1. revision + 1 \in 1..24
        BY <1>3, CommandsSound DEF SchemaInv
      <3>2. Len(Up[revision + 1]) \in Nat
        BY <3>1, UpLengths
      <3> QED BY <3>2, RunOdd DEF SchemaInv
    <2> QED BY <1>1, <1>3, <2>1 DEF Upgrade
  <1>4. CASE Downgrade
    <2> DEFINE new == Run(db, Down[revision])
    <2>1. new.ok => new.odd \subseteq db.odd
      <3>1. revision \in 1..24
        BY <1>4, CommandsSound DEF SchemaInv
      <3>2. Len(Down[revision]) \in Nat
        BY <3>1, DownLengths
      <3> QED BY <3>2, RunOdd DEF SchemaInv
    <2> QED BY <1>1, <1>4, <2>1 DEF Downgrade
  <1>5. ASSUME NEW t, NEW odd, Insert(t, odd) PROVE OddInv'
    <2>1. odd \subseteq Oddities(t)
      BY <1>5 DEF Insert
    <2>2. \A x \in odd : \/ x[2] \in {"title", "username", "genre"}
                         \/ x \in {<<"user", "unique username">>,
                                   <<"user", "unique email">>}
      <3>1. ASSUME NEW x \in odd
            PROVE  \/ x = <<t, "title">> \/ x = <<t, "username">> \/ x = <<t, "genre">>
                   \/ /\ x = <<t, "unique username">> \/ x = <<t, "unique email">>
                      /\ t = "user"
        <4>1. x \in Oddities(t)
          BY <2>1
        <4> QED BY <4>1 DEF Oddities
      <3>2. ASSUME NEW x \in odd, NEW y, x = <<t, y>> PROVE x[2] = y
        BY <3>2
      <3>3. ASSUME NEW x \in odd, x \notin {<<"user", "unique username">>,
                                          <<"user", "unique email">>}
            PROVE  x[2] \in {"title", "username", "genre"}
        <4>1. x = <<t, "title">> \/ x = <<t, "username">> \/ x = <<t, "genre">>
          BY <3>1, <3>3
        <4> QED BY <3>2, <4>1
      <3> QED BY <3>3
    <2>3. db'.odd = db.odd \cup odd
      BY <1>5 DEF Insert, SchemaInv, Sound
    <2> QED BY <2>2, <2>3 DEF OddInv
  <1>6. ASSUME NEW t, Delete(t) PROVE OddInv'
    <2>1. db'.odd \subseteq db.odd
      BY <1>6 DEF Delete, SchemaInv, Sound
    <2> QED BY <2>1 DEF OddInv
  <1>7. CASE UNCHANGED schemaVars
    BY <1>7 DEF schemaVars, OddInv
  <1> QED BY <1>2, <1>3, <1>4, <1>5, <1>6, <1>7 DEF SchemaNext

\* From revision m on every upgrade() succeeds.
LEMMA HeadAccepted ==
  ASSUME \A n \in 0..Newest : Accommodates(n), NEW d, Sound(d), d.ok, NEW m \in 0..24,
         Bare(d) = New(m), Eased(d.odd),
         \A n \in (m + 1)..24 : d.rows \cap Grown(n) = {}
  PROVE  Upgraded(d, m, 24).ok
  <1> DEFINE Good(n, u) == /\ u.ok /\ Sound(u) /\ Bare(u) = New(n)
                           /\ u.rows \subseteq d.rows /\ u.odd \subseteq d.odd
             G == {k \in Nat : m + k <= 24 => Good(m + k, Upgraded(d, m, m + k))}
  <1>1. 0 \in G
    <2>1. Upgraded(d, m, m + 0) = d /\ m + 0 = m
      BY UpgradedStep
    <2> QED BY <2>1
  <1>2. ASSUME NEW k \in Nat, k \in G PROVE k + 1 \in G
    <2> HIDE DEF Good
    <2>1. SUFFICES ASSUME m + (k + 1) <= 24
                   PROVE  Good(m + (k + 1), Upgraded(d, m, m + (k + 1)))
      OBVIOUS
    <2> DEFINE l == m + k
               u == Upgraded(d, m, l)
               new == Run(u, Up[l + 1])
    <2>2. /\ m \in Nat /\ l \in Nat /\ m <= l /\ l + 1 = m + (k + 1) /\ (l + 1) - 1 = l
          /\ l \in 0..23 /\ l + 1 \in 1..24 /\ l + 1 \in (m + 1)..24 /\ l + 1 \in 0..Newest
      BY <2>1, NewestIs
    <2>3. Good(l, u)
      BY <1>2, <2>1
    <2> HIDE DEF l
    <2>4. Upgraded(d, m, l + 1) = new
      BY <2>2, UpgradedStep
    <2> HIDE DEF u
    <2>5. u.ok /\ Sound(u) /\ Bare(u) = New((l + 1) - 1)
      BY <2>2, <2>3 DEF Good
    <2>6. Eased(u.odd) /\ u.rows \cap Grown(l + 1) = {}
      BY <2>2, <2>3 DEF Good, Eased
    <2>7. Accommodates(l + 1) /\ Len(Up[l + 1]) \in Nat
      BY <2>2, UpLengths
    <2>8. new.ok /\ new.rows \subseteq u.rows /\ new.odd \subseteq u.odd
      BY <2>2, <2>5, <2>6, <2>7, UpAccepted
    <2>9. Sound(new) /\ Run(Bare(u), Up[l + 1]) = Bare(new)
      BY <2>5, <2>7, <2>8, RunSound, RunBare
    <2>10. Bare(new) = New(l + 1)
      BY <2>2, <2>5, <2>9, NewStep
    <2>11. Good(l + 1, new)
      <3> HIDE DEF new
      <3> QED BY <2>3, <2>8, <2>9, <2>10 DEF Good
    <2> QED BY <2>2, <2>4, <2>11
  <1>3. Nat \subseteq G
    <2> HIDE DEF G
    <2> QED BY <1>1, <1>2, NaturalSteps
  <1>4. 24 - m \in Nat /\ m + (24 - m) = 24
    OBVIOUS
  <1>5. Good(24, Upgraded(d, m, 24))
    <2> HIDE DEF Good
    <2> QED BY <1>3, <1>4
  <1> QED BY <1>5

\* What TLC evaluates of each revision's scripts without rows (ScriptsAgree) decides
\* with them too, whatever they are and in whichever tables, when `alembic upgrade
\* head` of README.md:113 succeeds: unless the database is back at base, a table
\* that has rows is to grow a required column, or names are not unique.
THEOREM UpgradesSucceed ==
  ASSUME \A n \in 0..Newest : Inverts(n) /\ Accommodates(n)
  PROVE  SchemaSpec => []UpgradeSucceeds
  <1> DEFINE Inv == SchemaInv /\ Known(revision, db) /\ OddInv
  <1>1. SchemaInit => Inv
    <2>1. New(0) = Empty
      BY UpgradedStep DEF New
    <2>2. Empty.odd = {}
      BY DEF Empty
    <2>3. SchemaInit => OddInv
      BY <2>2 DEF SchemaInit, OddInv
    <2> QED BY <2>1, <2>3, EmptySound DEF SchemaInit, SchemaInv, Known
  <1>2. Inv /\ [SchemaNext]_schemaVars => Inv'
    BY SchemaStep, KnownStep, OddStep
  <1>3. Inv => UpgradeSucceeds
    <2> SUFFICES ASSUME SchemaInv, Known(revision, db), OddInv, revision > 0,
                        db.rows \cap Growing = {},
                        db.odd \cap {<<"user", "unique username">>,
                                     <<"user", "unique email">>} = {}
                 PROVE  Upgraded(db, revision, 24).ok
      BY NewestIs DEF UpgradeSucceeds
    <2>1. Sound(db) /\ db.ok /\ revision \in 0..24
      BY DEF SchemaInv
    <2>2. Bare(db) = New(revision)
      <3>1. revision \in 0..24 /\ revision > 0
        BY <2>1
      <3>2. revision # 0
        BY ONLY <3>1
      <3> QED BY <3>2 DEF Known
    <2>3. Eased(db.odd)
      BY DEF OddInv, Eased
    <2>4. \A n \in (revision + 1)..24 : db.rows \cap Grown(n) = {}
      BY NewestIs DEF Growing
    <2> QED BY <2>1, <2>2, <2>3, <2>4, HeadAccepted
  <1> QED BY <1>1, <1>2, <1>3, PTL DEF SchemaSpec

-----------------------------------------------------------------------------
(* An upgrade keeps the rows of the tables that are there at head: of the  *)
(* 24 upgrade() none drops one.                                            *)

Spares(o) == o.op = "drop table" => o.table \notin DOMAIN Models.tables

SparesAll(ops) == \A j \in 1..Len(ops) : Spares(ops[j])

LEMMA HeadTables ==
  DOMAIN Models.tables =
    {"users", "apps", "app_covers", "carts", "cart_items", "purchases", "reviews",
     "discussions", "messages", "transfers"}
  BY DEF Models

LEMMA OperationsSpare ==
  \A t, c, x, e :
    /\ Spares(Create(t, c)) /\ Spares(Add(t, c, x)) /\ Spares(AddNow(t, c))
    /\ Spares(Drop(t, c)) /\ Spares(Alter(t, c, x)) /\ Spares(Refer(t, c, x, e))
    /\ Spares(DropFkey(t, c)) /\ Spares(Rule(t, c)) /\ Spares(DropRule(t, c))
    /\ Spares(Type(t, c)) /\ Spares(Sync(t, c, x, e))
    /\ t \notin DOMAIN Models.tables => Spares(DropTable(t))
  BY DEF Spares, Create, Add, AddNow, Drop, Alter, Refer, DropFkey, Rule, DropRule,
         Type, Sync, DropTable

\* What the scripts say, operation by operation.
LEMMA UpSpares == \A i \in 1..24 : SparesAll(Up[i])
  <1>1. /\ Spares(DropTable("app")) /\ Spares(DropTable("app_archives"))
        /\ Spares(DropTable("app_thumbnails")) /\ Spares(DropTable("apppurchase"))
        /\ Spares(DropTable("cart")) /\ Spares(DropTable("cartapp"))
        /\ Spares(DropTable("cartitem")) /\ Spares(DropTable("purchase"))
        /\ Spares(DropTable("review")) /\ Spares(DropTable("user"))
        /\ Spares(DropTable("user_profile_pictures"))
    BY OperationsSpare, HeadTables
  <1>2. SparesAll(Up_6e49)
    <2>1. Len(Up_6e49) = 9
      BY DEF Up_6e49
    <2>2. /\ Spares(Up_6e49[1]) /\ Spares(Up_6e49[2]) /\ Spares(Up_6e49[3])
          /\ Spares(Up_6e49[4]) /\ Spares(Up_6e49[5]) /\ Spares(Up_6e49[6])
          /\ Spares(Up_6e49[7]) /\ Spares(Up_6e49[8]) /\ Spares(Up_6e49[9])
      BY <1>1, OperationsSpare DEF Up_6e49
    <2> QED BY <2>1, <2>2 DEF SparesAll
  <1>3. SparesAll(Up_b5a1)
    <2>1. Len(Up_b5a1) = 9
      BY DEF Up_b5a1
    <2>2. /\ Spares(Up_b5a1[1]) /\ Spares(Up_b5a1[2]) /\ Spares(Up_b5a1[3])
          /\ Spares(Up_b5a1[4]) /\ Spares(Up_b5a1[5]) /\ Spares(Up_b5a1[6])
          /\ Spares(Up_b5a1[7]) /\ Spares(Up_b5a1[8]) /\ Spares(Up_b5a1[9])
      BY <1>1, OperationsSpare DEF Up_b5a1
    <2> QED BY <2>1, <2>2 DEF SparesAll
  <1>4. SparesAll(Up_027f)
    <2>1. Len(Up_027f) = 6
      BY DEF Up_027f
    <2>2. /\ Spares(Up_027f[1]) /\ Spares(Up_027f[2]) /\ Spares(Up_027f[3])
          /\ Spares(Up_027f[4]) /\ Spares(Up_027f[5]) /\ Spares(Up_027f[6])
      BY <1>1, OperationsSpare DEF Up_027f
    <2> QED BY <2>1, <2>2 DEF SparesAll
  <1>5. SparesAll(Up_a85c)
    <2>1. Len(Up_a85c) = 13
      BY DEF Up_a85c
    <2>2. /\ Spares(Up_a85c[1]) /\ Spares(Up_a85c[2]) /\ Spares(Up_a85c[3])
          /\ Spares(Up_a85c[4]) /\ Spares(Up_a85c[5]) /\ Spares(Up_a85c[6])
          /\ Spares(Up_a85c[7]) /\ Spares(Up_a85c[8]) /\ Spares(Up_a85c[9])
          /\ Spares(Up_a85c[10]) /\ Spares(Up_a85c[11]) /\ Spares(Up_a85c[12])
          /\ Spares(Up_a85c[13])
      BY <1>1, OperationsSpare DEF Up_a85c
    <2> QED BY <2>1, <2>2 DEF SparesAll
  <1>6. SparesAll(Up_6d33)
    <2>1. Len(Up_6d33) = 2
      BY DEF Up_6d33
    <2>2. Spares(Up_6d33[1]) /\ Spares(Up_6d33[2])
      BY <1>1, OperationsSpare DEF Up_6d33
    <2> QED BY <2>1, <2>2 DEF SparesAll
  <1>7. SparesAll(Up_1a55)
    <2>1. Len(Up_1a55) = 1
      BY DEF Up_1a55
    <2>2. Spares(Up_1a55[1])
      BY <1>1, OperationsSpare DEF Up_1a55
    <2> QED BY <2>1, <2>2 DEF SparesAll
  <1>8. SparesAll(Up_026e)
    <2>1. Len(Up_026e) = 33
      BY DEF Up_026e
    <2>2. /\ Spares(Up_026e[1]) /\ Spares(Up_026e[2]) /\ Spares(Up_026e[3])
          /\ Spares(Up_026e[4]) /\ Spares(Up_026e[5]) /\ Spares(Up_026e[6])
          /\ Spares(Up_026e[7]) /\ Spares(Up_026e[8]) /\ Spares(Up_026e[9])
          /\ Spares(Up_026e[10]) /\ Spares(Up_026e[11]) /\ Spares(Up_026e[12])
          /\ Spares(Up_026e[13]) /\ Spares(Up_026e[14]) /\ Spares(Up_026e[15])
          /\ Spares(Up_026e[16]) /\ Spares(Up_026e[17]) /\ Spares(Up_026e[18])
          /\ Spares(Up_026e[19]) /\ Spares(Up_026e[20]) /\ Spares(Up_026e[21])
          /\ Spares(Up_026e[22]) /\ Spares(Up_026e[23]) /\ Spares(Up_026e[24])
          /\ Spares(Up_026e[25]) /\ Spares(Up_026e[26]) /\ Spares(Up_026e[27])
          /\ Spares(Up_026e[28]) /\ Spares(Up_026e[29]) /\ Spares(Up_026e[30])
          /\ Spares(Up_026e[31]) /\ Spares(Up_026e[32]) /\ Spares(Up_026e[33])
      BY <1>1, OperationsSpare DEF Up_026e
    <2> QED BY <2>1, <2>2 DEF SparesAll
  <1>9. SparesAll(Up_51ad)
    <2>1. Len(Up_51ad) = 1
      BY DEF Up_51ad
    <2>2. Spares(Up_51ad[1])
      BY <1>1, OperationsSpare DEF Up_51ad
    <2> QED BY <2>1, <2>2 DEF SparesAll
  <1>10. SparesAll(Up_c5b2)
    <2>1. Len(Up_c5b2) = 11
      BY DEF Up_c5b2
    <2>2. /\ Spares(Up_c5b2[1]) /\ Spares(Up_c5b2[2]) /\ Spares(Up_c5b2[3])
          /\ Spares(Up_c5b2[4]) /\ Spares(Up_c5b2[5]) /\ Spares(Up_c5b2[6])
          /\ Spares(Up_c5b2[7]) /\ Spares(Up_c5b2[8]) /\ Spares(Up_c5b2[9])
          /\ Spares(Up_c5b2[10]) /\ Spares(Up_c5b2[11])
      BY <1>1, OperationsSpare DEF Up_c5b2
    <2> QED BY <2>1, <2>2 DEF SparesAll
  <1>11. SparesAll(Up_4535)
    <2>1. Len(Up_4535) = 2
      BY DEF Up_4535
    <2>2. Spares(Up_4535[1]) /\ Spares(Up_4535[2])
      BY <1>1, OperationsSpare DEF Up_4535
    <2> QED BY <2>1, <2>2 DEF SparesAll
  <1>12. SparesAll(Up_f77d)
    <2>1. Len(Up_f77d) = 2
      BY DEF Up_f77d
    <2>2. Spares(Up_f77d[1]) /\ Spares(Up_f77d[2])
      BY <1>1, OperationsSpare DEF Up_f77d
    <2> QED BY <2>1, <2>2 DEF SparesAll
  <1>13. SparesAll(Up_d67f)
    <2>1. Len(Up_d67f) = 2
      BY DEF Up_d67f
    <2>2. Spares(Up_d67f[1]) /\ Spares(Up_d67f[2])
      BY <1>1, OperationsSpare DEF Up_d67f
    <2> QED BY <2>1, <2>2 DEF SparesAll
  <1>14. SparesAll(Up_35b5)
    <2>1. Len(Up_35b5) = 6
      BY DEF Up_35b5
    <2>2. /\ Spares(Up_35b5[1]) /\ Spares(Up_35b5[2]) /\ Spares(Up_35b5[3])
          /\ Spares(Up_35b5[4]) /\ Spares(Up_35b5[5]) /\ Spares(Up_35b5[6])
      BY <1>1, OperationsSpare DEF Up_35b5
    <2> QED BY <2>1, <2>2 DEF SparesAll
  <1>15. SparesAll(Up_8da9)
    <2>1. Len(Up_8da9) = 2
      BY DEF Up_8da9
    <2>2. Spares(Up_8da9[1]) /\ Spares(Up_8da9[2])
      BY <1>1, OperationsSpare DEF Up_8da9
    <2> QED BY <2>1, <2>2 DEF SparesAll
  <1>16. SparesAll(Up_a036)
    <2>1. Len(Up_a036) = 1
      BY DEF Up_a036
    <2>2. Spares(Up_a036[1])
      BY <1>1, OperationsSpare DEF Up_a036
    <2> QED BY <2>1, <2>2 DEF SparesAll
  <1>17. SparesAll(Up_7c58)
    <2>1. Len(Up_7c58) = 17
      BY DEF Up_7c58
    <2>2. /\ Spares(Up_7c58[1]) /\ Spares(Up_7c58[2]) /\ Spares(Up_7c58[3])
          /\ Spares(Up_7c58[4]) /\ Spares(Up_7c58[5]) /\ Spares(Up_7c58[6])
          /\ Spares(Up_7c58[7]) /\ Spares(Up_7c58[8]) /\ Spares(Up_7c58[9])
          /\ Spares(Up_7c58[10]) /\ Spares(Up_7c58[11]) /\ Spares(Up_7c58[12])
          /\ Spares(Up_7c58[13]) /\ Spares(Up_7c58[14]) /\ Spares(Up_7c58[15])
          /\ Spares(Up_7c58[16]) /\ Spares(Up_7c58[17])
      BY <1>1, OperationsSpare DEF Up_7c58
    <2> QED BY <2>1, <2>2 DEF SparesAll
  <1>18. SparesAll(Up_815c)
    <2>1. Len(Up_815c) = 6
      BY DEF Up_815c
    <2>2. /\ Spares(Up_815c[1]) /\ Spares(Up_815c[2]) /\ Spares(Up_815c[3])
          /\ Spares(Up_815c[4]) /\ Spares(Up_815c[5]) /\ Spares(Up_815c[6])
      BY <1>1, OperationsSpare DEF Up_815c
    <2> QED BY <2>1, <2>2 DEF SparesAll
  <1>19. SparesAll(Up_fe0b)
    <2>1. Len(Up_fe0b) = 6
      BY DEF Up_fe0b
    <2>2. /\ Spares(Up_fe0b[1]) /\ Spares(Up_fe0b[2]) /\ Spares(Up_fe0b[3])
          /\ Spares(Up_fe0b[4]) /\ Spares(Up_fe0b[5]) /\ Spares(Up_fe0b[6])
      BY <1>1, OperationsSpare DEF Up_fe0b
    <2> QED BY <2>1, <2>2 DEF SparesAll
  <1>20. SparesAll(Up_e388)
    <2>1. Len(Up_e388) = 12
      BY DEF Up_e388
    <2>2. /\ Spares(Up_e388[1]) /\ Spares(Up_e388[2]) /\ Spares(Up_e388[3])
          /\ Spares(Up_e388[4]) /\ Spares(Up_e388[5]) /\ Spares(Up_e388[6])
          /\ Spares(Up_e388[7]) /\ Spares(Up_e388[8]) /\ Spares(Up_e388[9])
          /\ Spares(Up_e388[10]) /\ Spares(Up_e388[11]) /\ Spares(Up_e388[12])
      BY <1>1, OperationsSpare DEF Up_e388
    <2> QED BY <2>1, <2>2 DEF SparesAll
  <1>21. SparesAll(Up_7fd0)
    <2>1. Len(Up_7fd0) = 1
      BY DEF Up_7fd0
    <2>2. Spares(Up_7fd0[1])
      BY <1>1, OperationsSpare DEF Up_7fd0
    <2> QED BY <2>1, <2>2 DEF SparesAll
  <1>22. SparesAll(Up_6b47)
    <2>1. Len(Up_6b47) = 1
      BY DEF Up_6b47
    <2>2. Spares(Up_6b47[1])
      BY <1>1, OperationsSpare DEF Up_6b47
    <2> QED BY <2>1, <2>2 DEF SparesAll
  <1>23. SparesAll(Up_6e0c)
    <2>1. Len(Up_6e0c) = 1
      BY DEF Up_6e0c
    <2>2. Spares(Up_6e0c[1])
      BY <1>1, OperationsSpare DEF Up_6e0c
    <2> QED BY <2>1, <2>2 DEF SparesAll
  <1>24. SparesAll(Up_ae18)
    <2>1. Len(Up_ae18) = 4
      BY DEF Up_ae18
    <2>2. /\ Spares(Up_ae18[1]) /\ Spares(Up_ae18[2]) /\ Spares(Up_ae18[3])
          /\ Spares(Up_ae18[4])
      BY <1>1, OperationsSpare DEF Up_ae18
    <2> QED BY <2>1, <2>2 DEF SparesAll
  <1>25. SparesAll(Up_9970)
    <2>1. Len(Up_9970) = 4
      BY DEF Up_9970
    <2>2. /\ Spares(Up_9970[1]) /\ Spares(Up_9970[2]) /\ Spares(Up_9970[3])
          /\ Spares(Up_9970[4])
      BY <1>1, OperationsSpare DEF Up_9970
    <2> QED BY <2>1, <2>2 DEF SparesAll
  <1>26. ASSUME NEW i \in 1..24
         PROVE  Up[i] \in
            {Up_6e49, Up_b5a1, Up_027f, Up_a85c, Up_6d33, Up_1a55, Up_026e,
             Up_51ad, Up_c5b2, Up_4535, Up_f77d, Up_d67f, Up_35b5, Up_8da9,
             Up_a036, Up_7c58, Up_815c, Up_fe0b, Up_e388, Up_7fd0, Up_6b47,
             Up_6e0c, Up_ae18, Up_9970}
    BY DEF Up
  <1> QED
    BY <1>2, <1>3, <1>4, <1>5, <1>6, <1>7, <1>8, <1>9, <1>10, <1>11, <1>12, <1>13,
       <1>14, <1>15, <1>16, <1>17, <1>18, <1>19, <1>20, <1>21, <1>22, <1>23, <1>24,
       <1>25, <1>26

LEMMA RunKeeps ==
  ASSUME NEW d, NEW ops, Len(ops) \in Nat, Sound(d), SparesAll(ops), Run(d, ops).ok
  PROVE  d.rows \cap DOMAIN Models.tables \subseteq Run(d, ops).rows
  <1> DEFINE K == d.rows \cap DOMAIN Models.tables
  <1>1. d.ok
    BY RunSound
  <1>2. PICK f : OpsDone(d, ops, f) /\ Run(d, ops) = f[Len(ops)]
    BY <1>1, RunSteps
  <1>3. \A i \in 0..Len(ops) : f[i].ok /\ Sound(f[i])
    BY <1>2, OpsOk
  <1> DEFINE G == {i \in Nat : i <= Len(ops) => K \subseteq f[i].rows}
  <1>4. 0 \in G
    BY <1>2 DEF OpsDone
  <1>5. ASSUME NEW i \in Nat, i \in G PROVE i + 1 \in G
    <2>1. SUFFICES ASSUME i + 1 <= Len(ops) PROVE K \subseteq f[i + 1].rows
      OBVIOUS
    <2> DEFINE o == ops[i + 1]
    <2>2. K \subseteq f[i].rows /\ Sound(f[i]) /\ f[i + 1].ok
      BY <1>3, <1>5, <2>1
    <2>3. f[i + 1] = Apply(f[i], o)
      BY <1>2, <2>1 DEF OpsDone
    <2>4. Accepts(f[i], o) /\ f[i + 1] = Effect(f[i], o)
      BY <2>2, <2>3, ApplySound
    <2>5. \A x \in f[i].rows \ f[i + 1].rows : o.op = "drop table" /\ o.table = x
      <3>1. Sound(f[i]) /\ Accepts(f[i], o) /\ f[i + 1] = Effect(f[i], o)
        BY <2>2, <2>4
      <3> HIDE DEF o, K
      <3>2. \A x \in f[i].rows \ Effect(f[i], o).rows : o.op = "drop table" /\ o.table = x
        BY <3>1, EffectRows
      <3> QED BY <3>1, <3>2
    <2>6. Spares(ops[i + 1])
      <3>1. i + 1 \in Nat /\ 1 <= i + 1 /\ i + 1 <= Len(ops)
        BY <2>1
      <3>2. i + 1 \in 1..Len(ops)
        BY <3>1
      <3> QED BY <3>2 DEF SparesAll
    <2>7. o.op = "drop table" => o.table \notin DOMAIN Models.tables
      BY <2>6 DEF Spares
    <2> QED BY <2>2, <2>5, <2>7
  <1>6. Nat \subseteq G
    <2> HIDE DEF G
    <2> QED BY <1>4, <1>5, NaturalSteps
  <1> QED BY <1>2, <1>6

LEMMA UpgradedKeeps ==
  ASSUME NEW d, Sound(d), NEW m \in Nat, NEW n \in Nat, m <= n, n <= 24,
         Upgraded(d, m, n).ok
  PROVE  d.rows \cap DOMAIN Models.tables \subseteq Upgraded(d, m, n).rows
  <1> DEFINE K == d.rows \cap DOMAIN Models.tables
             Good(u) == u.ok => K \subseteq u.rows
             G == {k \in Nat : m + k <= 24 => Good(Upgraded(d, m, m + k))}
  <1>1. 0 \in G
    <2>1. Upgraded(d, m, m + 0) = d
      BY UpgradedStep
    <2> QED BY <2>1
  <1>2. ASSUME NEW k \in Nat, k \in G PROVE k + 1 \in G
    <2>1. SUFFICES ASSUME m + (k + 1) <= 24 PROVE Good(Upgraded(d, m, m + (k + 1)))
      OBVIOUS
    <2> DEFINE l == m + k
               u == Upgraded(d, m, l)
    <2>2. l \in Nat /\ m <= l /\ l <= 24 /\ l + 1 = m + (k + 1) /\ l + 1 \in 1..24
      BY <2>1
    <2>3. Good(u)
      BY <1>2, <2>1
    <2> HIDE DEF l
    <2>4. Upgraded(d, m, l + 1) = Run(u, Up[l + 1])
      BY <2>2, UpgradedStep
    <2>5. Len(Up[l + 1]) \in Nat /\ SparesAll(Up[l + 1]) /\ Sound(u)
      BY <2>2, UpLengths, UpSpares, UpgradedSound
    <2>6. Good(Run(u, Up[l + 1]))
      <3> HIDE DEF u
      <3>1. SUFFICES ASSUME Run(u, Up[l + 1]).ok PROVE K \subseteq Run(u, Up[l + 1]).rows
        OBVIOUS
      <3>2. u.ok
        BY <2>5, <3>1, RunSound
      <3>3. K \subseteq u.rows
        BY <2>3, <3>2
      <3>4. u.rows \cap DOMAIN Models.tables \subseteq Run(u, Up[l + 1]).rows
        BY <2>5, <3>1, RunKeeps
      <3> QED BY <3>3, <3>4
    <2> QED BY <2>2, <2>4, <2>6
  <1>3. Nat \subseteq G
    <2> HIDE DEF G
    <2> QED BY <1>1, <1>2, NaturalSteps
  <1>4. n - m \in Nat /\ m + (n - m) = n /\ m + (n - m) <= 24
    OBVIOUS
  <1>5. Good(Upgraded(d, m, m + (n - m)))
    <2> HIDE DEF Good
    <2> QED BY <1>3, <1>4
  <1> QED BY <1>4, <1>5

\* Whatever rows the application puts in whichever tables and however a walk
\* went: no upgrade, of one revision or to head, loses a row of a table that the
\* application has at head (upgrade() in migrations/versions/).
THEOREM UpgradesKeepAllRows == SchemaSpec => UpgradesKeepRows
  <1>1. SchemaInit => SchemaInv
    BY EmptySound DEF SchemaInit, SchemaInv
  <1>2. SchemaInv /\ [SchemaNext]_schemaVars => SchemaInv'
    BY SchemaStep
  <1>3. ASSUME SchemaInv, SchemaNext, revision' > revision
        PROVE  db.rows \cap DOMAIN Models.tables \subseteq db'.rows
    <2>1. CASE UpgradeHead
      <3> DEFINE u == Upgraded(db, revision, 24)
      <3>1. revision \in Nat /\ revision <= 24 /\ Sound(db)
        BY <1>3 DEF SchemaInv
      <3>2. u.ok /\ db' = u
        BY <1>3, <2>1, NewestIs, <3>1 DEF UpgradeHead, Command, schemaVars
      <3>3. db.rows \cap DOMAIN Models.tables \subseteq u.rows
        BY <3>1, <3>2, UpgradedKeeps
      <3> QED BY <3>2, <3>3
    <2>2. CASE Upgrade
      <3> DEFINE u == Run(db, Up[revision + 1])
      <3>1. revision + 1 \in 1..24 /\ Sound(db)
        BY <1>3, <2>2, CommandsSound DEF SchemaInv
      <3>2. u.ok /\ db' = u
        BY <1>3, <2>2 DEF Upgrade, Command, schemaVars, SchemaInv
      <3>3. Len(Up[revision + 1]) \in Nat /\ SparesAll(Up[revision + 1])
        BY <3>1, UpLengths, UpSpares
      <3> HIDE DEF u
      <3>4. db.rows \cap DOMAIN Models.tables \subseteq u.rows
        BY <3>1, <3>2, <3>3, RunKeeps DEF u
      <3> QED BY <3>2, <3>4
    <2>3. CASE Downgrade
      BY <1>3, <2>3 DEF Downgrade, Command, schemaVars, SchemaInv
    <2>4. ASSUME NEW t, NEW odd, Insert(t, odd) PROVE FALSE
      BY <1>3, <2>4 DEF Insert, SchemaInv
    <2>5. ASSUME NEW t, Delete(t) PROVE FALSE
      BY <1>3, <2>5 DEF Delete, SchemaInv
    <2> QED BY <1>3, <2>1, <2>2, <2>3, <2>4, <2>5 DEF SchemaNext
  <1>4. SchemaInv /\ [SchemaNext]_schemaVars =>
          [revision' > revision =>
              db.rows \cap DOMAIN Models.tables \subseteq db'.rows]_schemaVars
    BY <1>3
  <1> QED BY <1>1, <1>2, <1>4, PTL DEF SchemaSpec, UpgradesKeepRows

=============================================================================
