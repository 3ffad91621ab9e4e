--------------------------- MODULE CatalogueProofs ---------------------------
(***************************************************************************)
(* Theorems about Catalogue, for any number of apps, keys and requests.    *)
(*                                                                         *)
(* What a request that is open has read and deleted is told by where it    *)
(* stands (Placed).  What it relies on is true or has been overtaken by a  *)
(* request it has missed (Relies): the others only do what World allows    *)
(* them, r itself relies only on what it has just seen or done.  From what *)
(* the committing request relies on follows what holds of rows and files.  *)
(***************************************************************************)
EXTENDS Catalogue, FiniteSetTheorems, TLAPS

-----------------------------------------------------------------------------
(* The kinds of step. *)

\* A commit that leaves the covers alone.
PlainCommit(r) ==
    \/ \E a \in App : \/ CreateApp(r, a) \/ Purchase(r, a)
                      \/ \E by \in {"publisher", "other"} :
                            CreateDiscussion(r, a, by)
    \/ \E d \in discussions : DeleteDiscussion(r, d)

Puts(r) == \E k \in Key, s \in {"small", "large"} : PutObject(r, k, s)

ConfirmsCover(r) == pc[r] = "insert" /\ held[r].at \in Live /\ ConfirmCoverCommit(r)

Selects(r) ==
    /\ \A c \in covers : c.key \notin held[r].keys
    /\ Hold(r, "select", "insert", held[r])

Reads(r) ==
    \/ \E a \in App : DeleteAppLoad(r, a) \/ \E k \in Key : ConfirmCoverSize(r, a, k)
    \/ \E c \in covers : DeleteCoverLoad(r, c)
    \/ Selects(r) \/ DeleteUserLoad(r) \/ DeleteAppCovers(r)

Refused(r) == Open(r) /\ Refuse(r, pc[r])

Deletes(r) ==
    \/ ConfirmCoverTooLarge(r) \/ DeleteCoverUnlink(r)
    \/ \E k \in Key : DeleteAppCoverObject(r, k)

Takes(r) == DeleteCoverCommit(r) \/ CommitDeletion(r)

Acts(r) ==
    \/ PlainCommit(r) \/ Puts(r) \/ Reads(r) \/ Refused(r)
    \/ ConfirmsCover(r) \/ Deletes(r) \/ Takes(r)
    \/ DeleteAvatar(r) \/ \E a \in App : DeleteFiles(r, a)

LEMMA StepCases ==
    ASSUME [Next]_vars
    PROVE  (\E r \in Request : Acts(r)) \/ UNCHANGED vars
<1>1. ASSUME NEW r \in Request, ConfirmCoverSelect(r)
      PROVE  Reads(r) \/ Refused(r)
  BY <1>1 DEF ConfirmCoverSelect, Reads, Selects, Refused, Refuse, Step, Open
<1>2. ASSUME NEW r \in Request, ConfirmCoverCommit(r)
      PROVE  ConfirmsCover(r) \/ Refused(r)
  <2>1. CASE held[r].at \in Live
    BY <1>2, <2>1 DEF ConfirmCoverCommit, ConfirmsCover, Committed, Step
  <2>2. CASE held[r].at \notin Live
    BY <1>2, <2>2 DEF ConfirmCoverCommit, Refused, Refuse, Step, Open
  <2> QED
    BY <2>1, <2>2
<1>3. ASSUME NEW r \in Request, CommitRefused(r) \/ Fail(r)
      PROVE  Refused(r)
  BY <1>3 DEF CommitRefused, Fail, Refused, Ready, Open
<1>4. CASE Next
  BY <1>1, <1>2, <1>3, <1>4
     DEF Next, Done, Acts, PlainCommit, Puts, Reads, Deletes, Takes
<1> QED
  BY <1>4

-----------------------------------------------------------------------------
(* Types. *)

File == App \cup Key \cup {Avatar}

\* The step takes r to the await p, with the locals h and the removals x; the
\* others stay where they are.
Becomes(r, p, h, x) ==
    /\ pc' \in [Request -> Stage] /\ pc'[r] = p
    /\ held' \in [Request -> Locals] /\ held'[r] = h
    /\ removed' \in [Request -> SUBSET File] /\ removed'[r] = x
    /\ \A q \in Request \ {r} :
          pc'[q] = pc[q] /\ held'[q] = held[q] /\ removed'[q] = removed[q]

LEMMA Counts ==
    Cardinality(Request) \in Nat /\ Idle \in Locals
<1>1. Cardinality(Request) \in Nat
  BY CatalogueAssumption, FS_CardinalityType
<1> QED
  BY <1>1 DEF Idle, Locals

LEMMA HoldBecomes ==
    ASSUME TypeOK, NEW r \in Request, NEW from, NEW to \in Stage,
           NEW h \in Locals, Hold(r, from, to, h)
    PROVE  /\ Becomes(r, to, h, removed[r])
           /\ pc[r] = from /\ UNCHANGED <<rows, store, history>>
BY DEF TypeOK, Hold, Step, Becomes, File, history

LEMMA RefuseBecomes ==
    ASSUME TypeOK, NEW r \in Request, NEW from, Refuse(r, from)
    PROVE  Becomes(r, "done", Idle, {}) /\ pc[r] = from
BY Counts DEF TypeOK, Refuse, Step, Becomes, File, Stage

LEMMA CommitBecomes ==
    ASSUME TypeOK, NEW r \in Request, NEW from, Committed(r, from)
    PROVE  Becomes(r, "done", Idle, {}) /\ pc[r] = from
BY Counts DEF TypeOK, Committed, Step, Becomes, File, Stage

LEMMA PutBecomes ==
    ASSUME TypeOK, NEW r \in Request, NEW k, NEW size, PutObject(r, k, size)
    PROVE  Becomes(r, "done", held[r], removed[r]) /\ pc[r] = "new"
BY DEF TypeOK, PutObject, Step, Becomes, File, Stage

LEMMA DeleteBecomes ==
    ASSUME TypeOK, NEW r \in Request, NEW k \in Key, NEW from, NEW to \in Stage,
           NEW h \in Locals, DeleteCoverObject(r, k, from, to, h)
    PROVE  Becomes(r, to, h, removed[r] \cup {k}) /\ pc[r] = from
BY DEF TypeOK, DeleteCoverObject, Step, Becomes, File

\* Whatever changes overtakes the requests that are open.
LEMMA Overtaken ==
    ASSUME TypeOK, NEW r \in Request, Overtakes(r)
    PROVE  /\ missed' \in [Id -> SUBSET Request]
           /\ \A q \in Id : missed[q] \subseteq missed'[q]
           /\ \A q \in Request \ {r} : Open(q) => r \in missed'[q]
           /\ missed'[r] = missed[r]
BY DEF TypeOK, Overtakes, Id

LEMMA MoreGone ==
    ASSUME NEW h \in Locals, NEW C \in SUBSET Cover
    PROVE  [h EXCEPT !.gone = @ \cup C] \in Locals
BY DEF Locals

\* The locals of the requests that have read, and what a read leaves alone.
AppLoaded(a) ==
    [Idle EXCEPT !.kind = "app", !.todo = {a}, !.bought = purchases]
UserLoaded ==
    [Idle EXCEPT !.kind = "user", !.todo = Live, !.bought = purchases]
SizeChecked(a, k) == [Idle EXCEPT !.kind = "confirm", !.at = a, !.keys = {k}]
CoverLoaded(c) == [Idle EXCEPT !.kind = "cover", !.gone = {c}]
BulkDeleted(r) ==
    [held[r] EXCEPT !.gone = @ \cup {c \in covers : c.app = held[r].at}]

Goes(r, from, to, h) ==
    /\ Becomes(r, to, h, removed[r])
    /\ pc[r] = from /\ UNCHANGED <<rows, store, history>>

LEMMA ReadsGo ==
    ASSUME TypeOK, NEW r \in Request
    PROVE  /\ \A a \in App : DeleteAppLoad(r, a) =>
                 Goes(r, "new", "next", AppLoaded(a))
           /\ \A a \in App, k \in Key : ConfirmCoverSize(r, a, k) =>
                 \/ object[k] = "large" /\ Goes(r, "new", "too_large", SizeChecked(a, k))
                 \/ object[k] # None /\ Goes(r, "new", "select", SizeChecked(a, k))
           /\ \A c \in covers : DeleteCoverLoad(r, c) =>
                 Goes(r, "new", "object", CoverLoaded(c))
           /\ Selects(r) => Goes(r, "select", "insert", held[r])
           /\ DeleteUserLoad(r) => Goes(r, "new", "next", UserLoaded)
           /\ DeleteAppCovers(r) =>
                 \/ held[r].keys = {} /\ Goes(r, "bulk", "next", BulkDeleted(r))
                 \/ held[r].keys # {} /\ Goes(r, "bulk", "unlink", BulkDeleted(r))
<1>1. \A from, to, h : to \in Stage /\ h \in Locals /\ Hold(r, from, to, h)
                          => Goes(r, from, to, h)
  BY HoldBecomes DEF Goes
<1>2. \A a \in App : AppLoaded(a) \in Locals
  BY Counts DEF TypeOK, Locals, AppLoaded
<1>3. \A a \in App, k \in Key : SizeChecked(a, k) \in Locals
  BY Counts DEF Locals, SizeChecked
<1>4. \A c \in covers : CoverLoaded(c) \in Locals
  BY Counts DEF TypeOK, Locals, CoverLoaded
<1>5. UserLoaded \in Locals
  BY Counts DEF TypeOK, Locals, Live, UserLoaded
<1>6. held[r] \in Locals /\ {c \in covers : c.app = held[r].at} \in SUBSET Cover
  BY DEF TypeOK
<1>7. BulkDeleted(r) \in Locals
  BY <1>6, MoreGone DEF BulkDeleted
<1>8. {"next", "too_large", "select", "object", "insert", "unlink"} \subseteq Stage
  BY DEF Stage
<1>9. ASSUME NEW a \in App, DeleteAppLoad(r, a)
      PROVE  Goes(r, "new", "next", AppLoaded(a))
  BY <1>1, <1>2, <1>8, <1>9 DEF DeleteAppLoad, AppLoaded
<1>10. ASSUME NEW a \in App, NEW k \in Key, ConfirmCoverSize(r, a, k)
       PROVE  \/ object[k] = "large" /\ Goes(r, "new", "too_large", SizeChecked(a, k))
              \/ object[k] # None /\ Goes(r, "new", "select", SizeChecked(a, k))
  BY <1>1, <1>3, <1>8, <1>10 DEF ConfirmCoverSize, SizeChecked
<1>11. ASSUME NEW c \in covers, DeleteCoverLoad(r, c)
       PROVE  Goes(r, "new", "object", CoverLoaded(c))
  BY <1>1, <1>4, <1>8, <1>11 DEF DeleteCoverLoad, CoverLoaded
<1>12. ASSUME Selects(r)
       PROVE  Goes(r, "select", "insert", held[r])
  BY <1>1, <1>6, <1>8, <1>12 DEF Selects
<1>13. ASSUME DeleteUserLoad(r)
       PROVE  Goes(r, "new", "next", UserLoaded)
  BY <1>1, <1>5, <1>8, <1>13 DEF DeleteUserLoad, UserLoaded
<1>14. ASSUME DeleteAppCovers(r)
       PROVE  \/ held[r].keys = {} /\ Goes(r, "bulk", "next", BulkDeleted(r))
              \/ held[r].keys # {} /\ Goes(r, "bulk", "unlink", BulkDeleted(r))
  BY <1>1, <1>7, <1>8, <1>14 DEF DeleteAppCovers, BulkDeleted
<1> QED
  BY <1>9, <1>10, <1>11, <1>12, <1>13, <1>14

LEMMA Reading ==
    ASSUME TypeOK, NEW r \in Request, Reads(r)
    PROVE  \E from, to, h : Goes(r, from, to, h) /\ from # "done"
BY ReadsGo DEF Reads

\* Likewise for the requests that delete the object under k.
Unlinks(r, k, from, to, h) ==
    /\ Becomes(r, to, h, removed[r] \cup {k})
    /\ pc[r] = from /\ DeleteCoverObject(r, k, from, to, h)

KeysLeft(r, k) == [held[r] EXCEPT !.keys = @ \ {k}]
After(r, k) == IF held[r].keys \ {k} = {} THEN "next" ELSE "unlink"

LEMMA DeletesGo ==
    ASSUME TypeOK, NEW r \in Request
    PROVE  /\ ConfirmCoverTooLarge(r) =>
                 \E k \in held[r].keys : Unlinks(r, k, "too_large", "refuse", held[r])
           /\ DeleteCoverUnlink(r) =>
                 \E c \in held[r].gone : Unlinks(r, c.key, "object", "delete", held[r])
           /\ \A k \in Key : DeleteAppCoverObject(r, k) =>
                 /\ k \in held[r].keys
                 /\ Unlinks(r, k, "unlink", After(r, k), KeysLeft(r, k))
<1>0. held[r] \in Locals /\ held[r].keys \subseteq Key /\ held[r].gone \subseteq Cover
  BY DEF TypeOK, Locals
<1>1. \A k \in Key : \A from, to, h :
         to \in Stage /\ h \in Locals /\ DeleteCoverObject(r, k, from, to, h)
            => Unlinks(r, k, from, to, h)
  BY DeleteBecomes DEF Unlinks
<1>2. {"refuse", "delete", "next", "unlink"} \subseteq Stage
  BY DEF Stage
<1>3. ASSUME ConfirmCoverTooLarge(r)
      PROVE  \E k \in held[r].keys : Unlinks(r, k, "too_large", "refuse", held[r])
  BY <1>0, <1>1, <1>2, <1>3 DEF ConfirmCoverTooLarge
<1>4. ASSUME DeleteCoverUnlink(r)
      PROVE  \E c \in held[r].gone : Unlinks(r, c.key, "object", "delete", held[r])
  <2>1. \A c \in held[r].gone : c.key \in Key
    BY <1>0 DEF Cover
  <2> QED
    BY <1>0, <1>1, <1>2, <1>4, <2>1 DEF DeleteCoverUnlink
<1>5. ASSUME NEW k \in Key, DeleteAppCoverObject(r, k)
      PROVE  /\ k \in held[r].keys
             /\ Unlinks(r, k, "unlink", After(r, k), KeysLeft(r, k))
  <2>1. held[r].keys \ {k} \in SUBSET Key
    BY <1>0
  <2>2. KeysLeft(r, k) \in Locals /\ After(r, k) \in Stage
    BY <1>0, <1>2, <2>1 DEF Locals, KeysLeft, After
  <2>3. /\ k \in held[r].keys
        /\ DeleteCoverObject(r, k, "unlink", After(r, k), KeysLeft(r, k))
    BY <1>5 DEF DeleteAppCoverObject, KeysLeft, After
  <2> QED
    BY <1>1, <2>2, <2>3
<1> QED
  BY <1>3, <1>4, <1>5

LEMMA Deleting ==
    ASSUME TypeOK, NEW r \in Request, Deletes(r)
    PROVE  \E k \in Key : \E from, to, h :
              Unlinks(r, k, from, to, h) /\ from # "done"
<1>1. held[r].keys \subseteq Key /\ \A c \in held[r].gone : c.key \in Key
  BY DEF TypeOK, Locals, Cover
<1>2. CASE ConfirmCoverTooLarge(r)
  BY <1>1, <1>2, DeletesGo
<1>3. CASE DeleteCoverUnlink(r)
  BY <1>1, <1>3, DeletesGo
<1>4. ASSUME NEW k \in Key, DeleteAppCoverObject(r, k)
      PROVE  \E from, to, h : Unlinks(r, k, from, to, h) /\ from # "done"
  BY <1>4, DeletesGo
<1> QED
  BY <1>2, <1>3, <1>4 DEF Deletes

\* The locals of a request that has deleted the files of a.
Clearing(r, a) ==
    [held[r] EXCEPT !.todo = @ \ {a}, !.at = a, !.doomed = @ \cup {a},
                    !.keys = {c.key : c \in {d \in covers : d.app = a}}]

LEMMA FilesBecome ==
    ASSUME TypeOK, NEW r \in Request, NEW a \in App, DeleteFiles(r, a)
    PROVE  /\ Becomes(r, "bulk", Clearing(r, a), removed[r] \cup {a})
           /\ pc[r] = "next"
<1> DEFINE K == {c.key : c \in {d \in covers : d.app = a}}
<1>1. held[r] \in Locals /\ K \in SUBSET Key
  BY DEF TypeOK, Cover
<1> HIDE DEF K
<1>2. Clearing(r, a) = [held[r] EXCEPT !.todo = @ \ {a}, !.at = a,
                                       !.doomed = @ \cup {a}, !.keys = K]
  BY DEF Clearing, K
<1>3. Clearing(r, a) \in Locals
  <2>1. /\ held[r].todo \ {a} \in SUBSET App
        /\ held[r].doomed \cup {a} \in SUBSET App
    BY <1>1 DEF Locals
  <2> QED
    BY <1>1, <1>2, <2>1 DEF Locals
<1>4. held' = [held EXCEPT ![r] = Clearing(r, a)]
  BY DEF DeleteFiles, Clearing
<1>5. /\ Step(r, "next", "bulk")
      /\ removed' = [removed EXCEPT ![r] = @ \cup {a}]
  BY DEF DeleteFiles
<1> QED
  BY <1>3, <1>4, <1>5 DEF TypeOK, Step, Becomes, File, Stage

LEMMA AvatarBecomes ==
    ASSUME TypeOK, NEW r \in Request, DeleteAvatar(r)
    PROVE  LET D == {d \in discussions : d.by = "publisher"} IN
           /\ Becomes(r, "commit", [held[r] EXCEPT !.own = D],
                      removed[r] \cup {Avatar})
           /\ pc[r] = "next"
<1> DEFINE D == {d \in discussions : d.by = "publisher"}
           h == [held[r] EXCEPT !.own = D]
<1>1. held[r] \in Locals /\ D \in SUBSET Discussion
  BY DEF TypeOK
<1>2. held' = [held EXCEPT ![r].own = D]
  BY DEF DeleteAvatar
<1> HIDE DEF D
<1>3. h \in Locals
  BY <1>1 DEF Locals
<1>4. held' = [held EXCEPT ![r] = h]
  BY <1>1, <1>2 DEF TypeOK, Locals
<1>5. Becomes(r, "commit", h, removed[r] \cup {Avatar}) /\ pc[r] = "next"
  <2>1. /\ Step(r, "next", "commit")
        /\ removed' = [removed EXCEPT ![r] = @ \cup {Avatar}]
    BY DEF DeleteAvatar
  <2> QED
    BY <1>3, <1>4, <2>1 DEF TypeOK, Step, Becomes, File, Stage
<1> QED
  BY <1>5 DEF D

\* Every request that is answered has bought at most once.
Answered == {r \in Request : pc[r] = "done"}

Bounded == \A a \in App : purchases[a] <= Cardinality(Answered) + 1

LEMMA AnsweredGrows ==
    ASSUME TypeOK, NEW r \in Request, NEW p, NEW h, NEW x,
           Becomes(r, p, h, x), pc[r] # "done"
    PROVE  /\ Cardinality(Answered) \in Nat /\ Cardinality(Answered') \in Nat
           /\ Cardinality(Request) \in Nat
           /\ Cardinality(Answered') <= Cardinality(Request)
           /\ p # "done" => Cardinality(Answered') = Cardinality(Answered)
           /\ p = "done" => Cardinality(Answered') = Cardinality(Answered) + 1
<1>1. /\ Answered \subseteq Request /\ Answered' \subseteq Request
      /\ r \notin Answered
      /\ Answered' = IF p = "done" THEN Answered \cup {r} ELSE Answered
  BY DEF Answered, Becomes
<1>2. /\ IsFiniteSet(Answered) /\ IsFiniteSet(Answered')
      /\ Cardinality(Answered') <= Cardinality(Request)
  BY <1>1, CatalogueAssumption, FS_Subset
<1>3. /\ Cardinality(Answered) \in Nat /\ Cardinality(Answered') \in Nat
      /\ Cardinality(Request) \in Nat
  BY <1>2, CatalogueAssumption, FS_CardinalityType
<1>4. Cardinality(Answered \cup {r}) = Cardinality(Answered) + 1
  BY <1>1, <1>2, FS_AddElement
<1> QED
  BY <1>1, <1>2, <1>3, <1>4

\* What a step does to the rows of purchases; only an answer may add one.
Buys(p) ==
    /\ purchases' \in [App -> Nat]
    /\ \A a \in App :
          \/ purchases'[a] \in {0, purchases[a]}
          \/ p = "done" /\ purchases'[a] = purchases[a] + 1

LEMMA StillBounded ==
    ASSUME TypeOK, Bounded, NEW r \in Request, NEW p, NEW h, NEW x,
           Becomes(r, p, h, x), pc[r] # "done", Buys(p)
    PROVE  Bounded' /\ purchases' \in [App -> 0..Cardinality(Request) + 1]
<1>1. ASSUME NEW a \in App
      PROVE  /\ purchases'[a] <= Cardinality(Answered') + 1
             /\ purchases'[a] \in 0..Cardinality(Request) + 1
  <2>1. purchases[a] \in Nat /\ purchases[a] <= Cardinality(Answered) + 1
    BY Counts DEF TypeOK, Bounded
  <2>2. /\ Cardinality(Answered) \in Nat /\ Cardinality(Answered') \in Nat
        /\ Cardinality(Request) \in Nat
        /\ Cardinality(Answered') <= Cardinality(Request)
        /\ p # "done" => Cardinality(Answered') = Cardinality(Answered)
        /\ p = "done" => Cardinality(Answered') = Cardinality(Answered) + 1
    BY AnsweredGrows
  <2> QED
    BY <2>1, <2>2 DEF Buys
<1> QED
  BY <1>1 DEF Bounded, Buys

\* Nothing of the rest but the history of a step has a type worth a word.
LEMMA TypeNext ==
    ASSUME TypeOK, Bounded, [Next]_vars
    PROVE  TypeOK' /\ Bounded'
<1> USE DEF rows, store, blame, history
<1>1. ASSUME NEW r \in Request, PlainCommit(r)
      PROVE  TypeOK' /\ Bounded'
  <2>1. /\ Committed(r, "new") /\ KeepCovers
        /\ account' = account
        /\ app' \in [App -> {"unborn", "live", "gone"}]
        /\ discussions' \subseteq Discussion
        /\ \/ purchases' = purchases
           \/ \E a \in App : purchases' = [purchases EXCEPT ![a] = @ + 1]
    BY <1>1 DEF PlainCommit, CreateApp, CreateDiscussion, DeleteDiscussion,
                Purchase, TypeOK, Discussion, Live
  <2>2. Becomes(r, "done", Idle, {}) /\ pc[r] = "new"
    BY <2>1, CommitBecomes
  <2>3. missed' \in [Id -> SUBSET Request]
    BY <2>1, Overtaken DEF Committed
  <2>4. Bounded' /\ purchases' \in [App -> 0..Cardinality(Request) + 1]
    <3>1. Buys("done")
      BY <2>1, Counts DEF TypeOK, Buys
    <3> QED
      BY <2>2, <3>1, StillBounded
  <2> QED
    BY <2>1, <2>2, <2>3, <2>4 DEF TypeOK, Committed, KeepCovers, Becomes, File
<1>2. ASSUME NEW r \in Request, NEW p, NEW h, NEW x, Becomes(r, p, h, x),
             pc[r] # "done", UNCHANGED rows,
             files' \subseteq files, spoiled' \subseteq File,
             twins' \subseteq Key, rewritten' \subseteq Key,
             object' \in [Key -> {"small", "large", None}],
             remover' \in [Key -> Request \cup {None}],
             maker' \in [Key -> Id], breaker' \in [Key -> Request \cup {None}],
             missed' \in [Id -> SUBSET Request]
      PROVE  TypeOK' /\ Bounded'
  <2>1. Buys(p)
    BY <1>2, Counts DEF TypeOK, Buys
  <2>2. Bounded' /\ purchases' \in [App -> 0..Cardinality(Request) + 1]
    BY <1>2, <2>1, StillBounded
  <2> QED
    BY <1>2, <2>2 DEF TypeOK, Becomes, File
<1>3. ASSUME NEW r \in Request, Puts(r)
      PROVE  TypeOK' /\ Bounded'
  <2>1. PICK k \in Key, size \in {"small", "large"} : PutObject(r, k, size)
    BY <1>3 DEF Puts
  <2>2. Becomes(r, "done", held[r], removed[r]) /\ pc[r] = "new"
    BY <2>1, PutBecomes
  <2>3. missed' \in [Id -> SUBSET Request]
    BY <2>1, Overtaken DEF PutObject
  <2>4. rewritten' \subseteq Key /\ object' \in [Key -> {"small", "large", None}]
    BY <2>1 DEF PutObject, TypeOK
  <2> QED
    BY <1>2, <2>1, <2>2, <2>3, <2>4 DEF PutObject, TypeOK, File
<1>4. ASSUME NEW r \in Request, Reads(r)
      PROVE  TypeOK' /\ Bounded'
  <2>1. PICK from, to, h : Goes(r, from, to, h) /\ from # "done"
    BY <1>4, Reading
  <2> QED
    BY <1>2, <2>1 DEF TypeOK, File, Goes
<1>5. ASSUME NEW r \in Request, Refused(r)
      PROVE  TypeOK' /\ Bounded'
  <2>1. Becomes(r, "done", Idle, {}) /\ pc[r] # "done"
    BY <1>5, RefuseBecomes DEF Refused, Open
  <2>2. spoiled' \subseteq File
    BY <1>5 DEF Refused, Refuse, TypeOK, File
  <2> QED
    BY <1>2, <1>5, <2>1, <2>2 DEF Refused, Refuse, TypeOK
<1>6. ASSUME NEW r \in Request, Deletes(r)
      PROVE  TypeOK' /\ Bounded'
  <2>1. PICK k, from, to, h :
            k \in Key /\ Unlinks(r, k, from, to, h) /\ from # "done"
    BY <1>6, Deleting
  <2>4. missed' \in [Id -> SUBSET Request]
    BY <2>1, Overtaken DEF Unlinks, DeleteCoverObject
  <2>5. /\ rewritten' \subseteq Key /\ object' \in [Key -> {"small", "large", None}]
        /\ remover' \in [Key -> Request \cup {None}]
    BY <2>1 DEF Unlinks, DeleteCoverObject, TypeOK
  <2> QED
    BY <1>2, <2>1, <2>4, <2>5
       DEF Unlinks, DeleteCoverObject, TypeOK, File
<1>7. ASSUME NEW r \in Request, DeleteAvatar(r)
      PROVE  TypeOK' /\ Bounded'
  <2>1. /\ \E h, x : Becomes(r, "commit", h, x)
        /\ pc[r] = "next"
    BY <1>7, AvatarBecomes
  <2>2. missed' \in [Id -> SUBSET Request]
    BY <1>7, Overtaken DEF DeleteAvatar
  <2> QED
    BY <1>2, <1>7, <2>1, <2>2 DEF DeleteAvatar, TypeOK, File
<1>8. ASSUME NEW r \in Request, NEW a \in App, DeleteFiles(r, a)
      PROVE  TypeOK' /\ Bounded'
  <2>1. /\ \E h, x : Becomes(r, "bulk", h, x)
        /\ pc[r] = "next"
    BY <1>8, FilesBecome
  <2>2. missed' \in [Id -> SUBSET Request]
    BY <1>8, Overtaken DEF DeleteFiles
  <2> QED
    BY <1>2, <1>8, <2>1, <2>2 DEF DeleteFiles, TypeOK, File
<1>9. ASSUME NEW r \in Request, NEW C \in SUBSET Cover, SetCovers(r, C)
      PROVE  covers' \subseteq Cover /\ breaker' \in [Key -> Request \cup {None}]
  BY <1>9 DEF SetCovers, TypeOK
<1>10. ASSUME NEW r \in Request, ConfirmsCover(r)
       PROVE  TypeOK' /\ Bounded'
  <2>1. PICK k \in held[r].keys :
            /\ SetCovers(r, covers \cup
                               {[id |-> r, app |-> held[r].at, key |-> k]})
            /\ maker' = [maker EXCEPT ![k] = r]
            /\ rewritten' = rewritten \ {k}
            /\ twins' = IF \E c \in covers : c.key = k THEN twins \cup {k}
                                                       ELSE twins
    BY <1>10 DEF ConfirmsCover, ConfirmCoverCommit
  <2>2. Committed(r, "insert") /\ UNCHANGED <<account, app, purchases, discussions>>
    BY <1>10 DEF ConfirmsCover, ConfirmCoverCommit
  <2>3. Becomes(r, "done", Idle, {}) /\ pc[r] = "insert"
    BY <2>2, CommitBecomes
  <2>4. k \in Key /\ held[r].at \in App
    BY <1>10 DEF TypeOK, Locals, ConfirmsCover, Live
  <2>5. missed' \in [Id -> SUBSET Request]
    BY <2>2, Overtaken DEF Committed
  <2>6. covers' \subseteq Cover /\ breaker' \in [Key -> Request \cup {None}]
    <3>1. covers \cup {[id |-> r, app |-> held[r].at, key |-> k]} \in SUBSET Cover
      BY <2>4 DEF Cover, Id, TypeOK
    <3> QED
      BY <1>9, <2>1, <3>1
  <2>7. /\ maker' \in [Key -> Id] /\ rewritten' \subseteq Key /\ twins' \subseteq Key
    BY <2>1, <2>4 DEF TypeOK, Id
  <2>8. Bounded' /\ purchases' \in [App -> 0..Cardinality(Request) + 1]
    <3>1. Buys("done")
      BY <2>2, Counts DEF TypeOK, Buys
    <3> QED
      BY <2>3, <3>1, StillBounded
  <2> QED
    BY <2>2, <2>3, <2>5, <2>6, <2>7, <2>8 DEF TypeOK, Committed, Becomes, File
<1>11. ASSUME NEW r \in Request, Takes(r)
       PROVE  TypeOK' /\ Bounded'
  <2>1. PICK C \in SUBSET covers : SetCovers(r, C)
    BY <1>11 DEF Takes, DeleteCoverCommit, CommitDeletion
  <2>2. /\ Committed(r, pc[r]) /\ pc[r] # "done"
        /\ UNCHANGED <<twins, maker, rewritten>>
    BY <1>11 DEF Takes, DeleteCoverCommit, CommitDeletion, Ready
  <2>3. Becomes(r, "done", Idle, {})
    BY <2>2, CommitBecomes
  <2>4. missed' \in [Id -> SUBSET Request]
    BY <2>2, Overtaken DEF Committed
  <2>5. covers' \subseteq Cover /\ breaker' \in [Key -> Request \cup {None}]
    BY <1>9, <2>1 DEF TypeOK
  <2>6. /\ account' \in BOOLEAN
        /\ app' \in [App -> {"unborn", "live", "gone"}]
        /\ discussions' \subseteq discussions
    BY <1>11 DEF Takes, DeleteCoverCommit, CommitDeletion, TypeOK
  <2>7. Bounded' /\ purchases' \in [App -> 0..Cardinality(Request) + 1]
    <3>1. \/ purchases' = purchases
          \/ purchases' = [a \in App |-> IF a \in Doomed(r) THEN 0 ELSE purchases[a]]
      BY <1>11 DEF Takes, DeleteCoverCommit, CommitDeletion
    <3>2. Buys("done")
      BY <3>1, Counts DEF TypeOK, Buys
    <3> QED
      BY <2>2, <2>3, <3>2, StillBounded
  <2> QED
    BY <2>2, <2>3, <2>4, <2>5, <2>6, <2>7 DEF TypeOK, Committed, Becomes, File
<1>12. CASE UNCHANGED vars
  BY <1>12 DEF vars, TypeOK, Bounded, Answered
<1> QED
  BY <1>1, <1>3, <1>4, <1>5, <1>6, <1>7, <1>8, <1>10, <1>11, <1>12, StepCases DEF Acts
-----------------------------------------------------------------------------
(* The inductive invariant.  First, what a request holds where it stands:  *)
(* p is its await, h its locals, x the objects it has deleted.             *)

Confirming == {"too_large", "refuse", "select", "insert"}
Uncovering == {"object", "delete"}
Sweeping == {"next", "bulk", "unlink", "commit"}

Placed(p, h, x) ==
    /\ p \in {"new", "done"} => h = Idle /\ x = {}
    /\ p \in Confirming =>
          /\ h.kind = "confirm" /\ h.at \in App
          /\ \E k \in Key : h.keys = {k} /\ (p # "refuse" => x = {})
    /\ p \in Uncovering =>
          /\ h.kind = "cover"
          /\ \E c \in Cover : h.gone = {c} /\ (IF p = "object" THEN x = {}
                                               ELSE x = {c.key})
    /\ p \in Sweeping => h.kind \in {"app", "user"}
    /\ p \notin Sweeping => h.doomed = {} /\ Avatar \notin x /\ x \cap App = {}
    /\ x \cap App \subseteq h.doomed
    /\ Avatar \in x \/ p = "commit" => h.kind = "user" /\ h.todo = {} /\ p = "commit"
    /\ p \in {"next", "commit"} => h.keys = {}
    /\ p \in {"bulk", "unlink"} => h.at \in h.doomed
    /\ p \in Sweeping => \A c \in h.gone : c.app \in h.doomed

AllPlaced == \A r \in Request : Placed(pc[r], held[r], removed[r])

LEMMA PlacedNext ==
    ASSUME TypeOK, AllPlaced, [Next]_vars
    PROVE  AllPlaced'
<1>1. ASSUME NEW r \in Request, NEW p, NEW h, NEW x, Becomes(r, p, h, x),
             Placed(p, h, x)
      PROVE  AllPlaced'
  BY <1>1 DEF Becomes, AllPlaced
<1>2. Placed("done", Idle, {})
  BY DEF Placed, Idle, Confirming, Uncovering, Sweeping
<1>3. ASSUME NEW r \in Request, PlainCommit(r) \/ ConfirmsCover(r) \/ Takes(r)
      PROVE  AllPlaced'
  <2>1. \E from : Committed(r, from)
    BY <1>3 DEF PlainCommit, CreateApp, Purchase, CreateDiscussion, DeleteDiscussion,
                ConfirmsCover, ConfirmCoverCommit, Refuse, Takes, DeleteCoverCommit,
                CommitDeletion
  <2> QED
    BY <1>1, <1>2, <2>1, CommitBecomes
<1>4. ASSUME NEW r \in Request, Refused(r)
      PROVE  AllPlaced'
  BY <1>1, <1>2, <1>4, RefuseBecomes DEF Refused
<1>5. ASSUME NEW r \in Request, Puts(r)
      PROVE  AllPlaced'
  <2>1. Becomes(r, "done", held[r], removed[r]) /\ pc[r] = "new"
    BY <1>5, PutBecomes DEF Puts
  <2>2. held[r] = Idle /\ removed[r] = {}
    BY <2>1 DEF AllPlaced, Placed
  <2> QED
    BY <1>1, <1>2, <2>1, <2>2
<1>6. ASSUME NEW r \in Request, Reads(r)
      PROVE  AllPlaced'
  <2>0. /\ held[r] \in Locals /\ Placed(pc[r], held[r], removed[r])
        /\ \A c \in covers : c \in Cover
    BY DEF TypeOK, AllPlaced
  <2>1. ASSUME NEW from, NEW to, NEW h, Goes(r, from, to, h),
               Placed(to, h, removed[r])
        PROVE  AllPlaced'
    BY <1>1, <2>1 DEF Goes
  <2>2. pc[r] = "new" => held[r] = Idle /\ removed[r] = {}
    BY <2>0 DEF Placed
  <2> USE DEF Placed, Idle, Confirming, Uncovering, Sweeping
  <2>3. ASSUME NEW a \in App, DeleteAppLoad(r, a)
        PROVE  AllPlaced'
    <3>1. Goes(r, "new", "next", AppLoaded(a))
      BY <2>3, ReadsGo
    <3>2. removed[r] = {}
      BY <2>2, <3>1 DEF Goes
    <3>3. Placed("next", AppLoaded(a), {})
      BY DEF AppLoaded
    <3> HIDE DEF Placed
    <3> QED
      BY <2>1, <3>1, <3>2, <3>3
  <2>4. ASSUME NEW a \in App, NEW k \in Key, ConfirmCoverSize(r, a, k)
        PROVE  AllPlaced'
    <3>1. PICK to \in {"too_large", "select"} :
              Goes(r, "new", to, SizeChecked(a, k))
      BY <2>4, ReadsGo
    <3>2. removed[r] = {}
      BY <2>2, <3>1 DEF Goes
    <3>3. Placed(to, SizeChecked(a, k), {})
      BY DEF SizeChecked
    <3> HIDE DEF Placed
    <3> QED
      BY <2>1, <3>1, <3>2, <3>3
  <2>5. ASSUME NEW c \in covers, DeleteCoverLoad(r, c)
        PROVE  AllPlaced'
    <3>1. Goes(r, "new", "object", CoverLoaded(c))
      BY <2>5, ReadsGo
    <3>2. removed[r] = {}
      BY <2>2, <3>1 DEF Goes
    <3>3. Placed("object", CoverLoaded(c), {})
      BY <2>0 DEF CoverLoaded
    <3> HIDE DEF Placed
    <3> QED
      BY <2>1, <3>1, <3>2, <3>3
  <2>6. CASE Selects(r)
    <3>1. Goes(r, "select", "insert", held[r])
      BY <2>6, ReadsGo
    <3>2. pc[r] = "select"
      BY <3>1 DEF Goes
    <3>3. Placed("insert", held[r], removed[r])
      BY <2>0, <3>2
    <3> HIDE DEF Placed
    <3> QED
      BY <2>1, <3>1, <3>3
  <2>7. CASE DeleteUserLoad(r)
    <3>1. Goes(r, "new", "next", UserLoaded)
      BY <2>7, ReadsGo
    <3>2. removed[r] = {}
      BY <2>2, <3>1 DEF Goes
    <3>3. Placed("next", UserLoaded, {})
      BY DEF UserLoaded
    <3> HIDE DEF Placed
    <3> QED
      BY <2>1, <3>1, <3>2, <3>3
  <2>8. CASE DeleteAppCovers(r)
    <3>1. PICK to \in {"next", "unlink"} :
              /\ Goes(r, "bulk", to, BulkDeleted(r))
              /\ to = "next" => held[r].keys = {}
      BY <2>8, ReadsGo
    <3>2. pc[r] = "bulk"
      BY <3>1 DEF Goes
    <3> DEFINE C == {c \in covers : c.app = held[r].at}
    <3>3. /\ \A c \in C : c.app = held[r].at
          /\ BulkDeleted(r) = [held[r] EXCEPT !.gone = @ \cup C]
      BY DEF BulkDeleted
    <3> HIDE DEF C
    <3>4. Placed(to, BulkDeleted(r), removed[r])
      BY <2>0, <3>1, <3>2, <3>3 DEF Locals
    <3> HIDE DEF Placed
    <3> QED
      BY <2>1, <3>1, <3>4
  <2> QED
    BY <1>6, <2>3, <2>4, <2>5, <2>6, <2>7, <2>8 DEF Reads
<1>7. ASSUME NEW r \in Request, Deletes(r)
      PROVE  AllPlaced'
  <2>0. /\ held[r] \in Locals /\ Placed(pc[r], held[r], removed[r])
        /\ held[r].keys \subseteq Key /\ held[r].gone \subseteq Cover
        /\ \A c \in held[r].gone : c.key \in Key
        /\ \A k \in Key : k # Avatar /\ k \notin App
    BY CatalogueAssumption DEF TypeOK, AllPlaced, Locals, Cover
  <2>1. ASSUME NEW k, NEW from, NEW to, NEW h, Unlinks(r, k, from, to, h),
               Placed(to, h, removed[r] \cup {k})
        PROVE  AllPlaced'
    BY <1>1, <2>1 DEF Unlinks
  <2> USE DEF Placed, Idle, Confirming, Uncovering, Sweeping
  <2>2. CASE ConfirmCoverTooLarge(r)
    <3>1. PICK k \in held[r].keys : Unlinks(r, k, "too_large", "refuse", held[r])
      BY <2>2, DeletesGo
    <3>2. pc[r] = "too_large"
      BY <3>1 DEF Unlinks
    <3>3. Placed("refuse", held[r], removed[r] \cup {k})
      BY <2>0, <3>2
    <3> HIDE DEF Placed
    <3> QED
      BY <2>1, <3>1, <3>3
  <2>3. CASE DeleteCoverUnlink(r)
    <3>1. PICK c \in held[r].gone : Unlinks(r, c.key, "object", "delete", held[r])
      BY <2>3, DeletesGo
    <3>2. pc[r] = "object"
      BY <3>1 DEF Unlinks
    <3>3. Placed("delete", held[r], removed[r] \cup {c.key})
      BY <2>0, <3>2
    <3> HIDE DEF Placed
    <3> QED
      BY <2>1, <3>1, <3>3
  <2>4. ASSUME NEW k \in Key, DeleteAppCoverObject(r, k)
        PROVE  AllPlaced'
    <3>1. Unlinks(r, k, "unlink", After(r, k), KeysLeft(r, k))
      BY <2>4, DeletesGo
    <3>2. pc[r] = "unlink"
      BY <3>1 DEF Unlinks
    <3>3. Placed(After(r, k), KeysLeft(r, k), removed[r] \cup {k})
      BY <2>0, <3>2 DEF After, KeysLeft, Locals
    <3> HIDE DEF Placed
    <3> QED
      BY <2>1, <3>1, <3>3
  <2> QED
    BY <1>7, <2>2, <2>3, <2>4 DEF Deletes
<1>8. ASSUME NEW r \in Request, NEW a \in App, DeleteFiles(r, a)
      PROVE  AllPlaced'
  <2>1. /\ Becomes(r, "bulk", Clearing(r, a), removed[r] \cup {a})
        /\ pc[r] = "next"
    BY <1>8, FilesBecome
  <2>2. /\ held[r] \in Locals /\ Placed("next", held[r], removed[r])
    BY <2>1 DEF TypeOK, AllPlaced
  <2> DEFINE K == {c.key : c \in {d \in covers : d.app = a}}
  <2>3. Clearing(r, a) = [held[r] EXCEPT !.todo = @ \ {a}, !.at = a,
                                         !.doomed = @ \cup {a}, !.keys = K]
    BY DEF Clearing
  <2> HIDE DEF K
  <2>4. a # Avatar
    BY CatalogueAssumption
  <2>5. Placed("bulk", Clearing(r, a), removed[r] \cup {a})
    BY <2>2, <2>3, <2>4 DEF Placed, Idle, Confirming, Uncovering, Sweeping, Locals
  <2> QED
    BY <1>1, <2>1, <2>5
<1>9. ASSUME NEW r \in Request, DeleteAvatar(r)
      PROVE  AllPlaced'
  <2> DEFINE D == {d \in discussions : d.by = "publisher"}
             h == [held[r] EXCEPT !.own = D]
  <2>1. Becomes(r, "commit", h, removed[r] \cup {Avatar}) /\ pc[r] = "next"
    BY <1>9, AvatarBecomes
  <2>2. /\ held[r] \in Locals /\ Placed("next", held[r], removed[r])
        /\ held[r].kind = "user" /\ held[r].todo = {}
    BY <1>9, <2>1 DEF TypeOK, AllPlaced, DeleteAvatar
  <2> HIDE DEF D
  <2>3. Placed("commit", h, removed[r] \cup {Avatar})
    BY <2>2, CatalogueAssumption
       DEF Placed, Idle, Confirming, Uncovering, Sweeping, Locals
  <2> QED
    BY <1>1, <2>1, <2>3
<1>10. CASE UNCHANGED vars
  BY <1>10 DEF vars, history, AllPlaced
<1> QED
  BY <1>3, <1>4, <1>5, <1>6, <1>7, <1>8, <1>9, <1>10, StepCases DEF Acts
-----------------------------------------------------------------------------
(* What a request may rely on while others go on.                          *)

\* A row with the key k was made while r was open.
Unseen(r, k) == maker[k] \in missed[r]

\* A confirmation passed the size check only of an object that was there.
Confirms(r) ==
    pc[r] \in {"select", "insert"} =>
        \A k \in held[r].keys : object[k] = None => remover[k] \in missed[r]

\* What r has deleted is gone, unless written again or confirmed meanwhile.
Removes(r) ==
    \A k \in removed[r] \cap Key :
        /\ remover[k] # None
        /\ object[k] = None \/ k \in rewritten \/ Unseen(r, k)

\* The row r is about to delete is the only one with its key.
Uncovers(r) ==
    pc[r] \in Uncovering =>
        \A c \in held[r].gone, d \in covers :
            d.key = c.key => c \in covers \/ c.key \in twins \/ Unseen(r, c.key)

\* The objects r deletes are those of the rows that go with its apps.
Sweeps(r) ==
    pc[r] \in Sweeping =>
        \A c \in covers :
           /\ c.key \in held[r].keys \cup removed[r] =>
                 c.app \in held[r].doomed \/ c.key \in twins \/ Unseen(r, c.key)
           /\ c.app \in held[r].doomed =>
                 c.key \in held[r].keys \cup removed[r] \/ Unseen(r, c.key)
           /\ held[r].kind = "user" =>
                 c.app \in held[r].todo \cup held[r].doomed \/ Unseen(r, c.key)

\* The files of the apps begun are gone; of an account all apps are begun.
Clears(r) ==
    /\ held[r].doomed \cap files = {}
    /\ pc[r] = "commit" => Avatar \notin files
    /\ held[r].kind = "user" =>
          First \cap Live \subseteq held[r].todo \cup held[r].doomed

Relies(r) == Confirms(r) /\ Removes(r) /\ Uncovers(r) /\ Sweeps(r) /\ Clears(r)

\* What a step of another request may do to the world of q.
World(q) ==
    /\ files' \subseteq files
    /\ First \cap Live' \subseteq Live
    /\ twins \subseteq twins'
    /\ missed[q] \subseteq missed'[q]
    /\ \A k \in Key :
          /\ maker'[k] = maker[k] \/ maker'[k] \in missed'[q]
          /\ object'[k] = None =>
                \/ object[k] = None /\ remover'[k] = remover[k]
                \/ remover'[k] \in missed'[q]
          /\ remover[k] # None =>
                /\ remover'[k] # None
                /\ object[k] = None \/ k \in rewritten =>
                      \/ object'[k] = None \/ k \in rewritten'
                      \/ maker'[k] \in missed'[q]
    /\ \A c \in covers' : c \in covers \/ maker'[c.key] \in missed'[q]
    /\ \A c \in covers, d \in covers' :
          c.key = d.key => c \in covers' \/ c.key \in twins'

Stays(q) == pc'[q] = pc[q] /\ held'[q] = held[q] /\ removed'[q] = removed[q]

\* The step of another leaves q what it relies on.
LEMMA StillRelies ==
    ASSUME TypeOK, TypeOK', NEW q \in Request, Relies(q), Stays(q), World(q)
    PROVE  Relies(q)'
<1>0. /\ held[q].keys \subseteq Key /\ held[q].gone \subseteq Cover
      /\ \A c \in held[q].gone : c.key \in Key
      /\ \A c \in covers \cup covers' : c.key \in Key
  BY DEF TypeOK, Locals, Cover
<1>1. \A k \in Key : Unseen(q, k) => Unseen(q, k)'
  BY DEF World, Unseen
<1>2. Confirms(q)'
  BY <1>0 DEF Relies, Confirms, Stays, World
<1>3. Removes(q)'
  BY <1>1 DEF Relies, Removes, Stays, World, Unseen
<1>4. Uncovers(q)'
  <2> SUFFICES ASSUME pc[q] \in Uncovering,
                      NEW c \in held[q].gone, NEW d \in covers', d.key = c.key
               PROVE  c \in covers' \/ c.key \in twins' \/ Unseen(q, c.key)'
    BY DEF Uncovers, Stays
  <2>1. CASE d \notin covers
    BY <2>1 DEF World, Unseen
  <2>2. CASE d \in covers /\ c \in covers
    BY <2>2 DEF World
  <2>3. CASE d \in covers /\ c \notin covers
    <3>1. c.key \in twins \/ Unseen(q, c.key)
      BY <2>3 DEF Relies, Uncovers
    <3> QED
      BY <1>0, <1>1, <3>1 DEF World
  <2> QED
    BY <2>1, <2>2, <2>3
<1>5. Sweeps(q)'
  <2> SUFFICES ASSUME pc[q] \in Sweeping, NEW c \in covers'
               PROVE  /\ c.key \in held[q].keys \cup removed[q] =>
                           \/ c.app \in held[q].doomed \/ c.key \in twins'
                           \/ Unseen(q, c.key)'
                      /\ c.app \in held[q].doomed =>
                           c.key \in held[q].keys \cup removed[q] \/ Unseen(q, c.key)'
                      /\ held[q].kind = "user" =>
                           c.app \in held[q].todo \cup held[q].doomed
                              \/ Unseen(q, c.key)'
    BY DEF Sweeps, Stays
  <2>1. CASE c \notin covers
    BY <2>1 DEF World, Unseen
  <2>2. CASE c \in covers
    <3>1. c.key \in Key /\ twins \subseteq twins'
      BY <1>0 DEF World
    <3> QED
      BY <1>1, <2>2, <3>1 DEF Relies, Sweeps
  <2> QED
    BY <2>1, <2>2
<1>6. Clears(q)'
  BY DEF Relies, Clears, Stays, World
<1> QED
  BY <1>2, <1>3, <1>4, <1>5, <1>6 DEF Relies

Twinned == \A c, d \in covers : c.key = d.key /\ c # d => c.key \in twins

Rows ==
    /\ \A d \in discussions : d.app \in Live /\ (d.by = "publisher" => account)
    /\ \A c \in covers : c.app \in Live
    /\ Live # {} => account
    /\ \A a \in First : app[a] # "unborn"

Files ==
    /\ \A a \in First : a \in Live => a \in files \/ Half(a)
    /\ account => Avatar \in files \/ Half(Avatar)
    /\ \A a \in First : a \notin Live => a \notin files
    /\ Avatar \in files => account

\* A row without an object.
Missing ==
    \A c \in covers :
        object[c.key] = None =>
            \/ c.key \in spoiled \cup twins
            \/ /\ remover[c.key] # None
               /\ \/ c.key \in removed[remover[c.key]]
                  \/ Overlap(remover[c.key], maker[c.key])

\* An object without a row.
Orphaned ==
    \A k \in Key :
        object[k] # None /\ breaker[k] # None =>
            k \in rewritten \/ Overlap(breaker[k], maker[k])


\* What changes overtakes q; the rest it may rely on.
LEMMA Worldly ==
    ASSUME TypeOK, TypeOK', Rows, Twinned, NEW r \in Request, Acts(r),
           NEW q \in Request \ {r}, Open(q)
    PROVE  World(q)
<1> USE DEF rows, store, blame, history
<1>0. /\ \A c \in covers \cup covers' : c.key \in Key
      /\ \A a \in App : a \in Live <=> app[a] = "live"
      /\ \A a \in App : a \in Live' <=> app'[a] = "live"
      /\ First \subseteq App
      /\ \A k \in Key : maker[k] # None
      /\ q \in Id
  BY CatalogueAssumption DEF TypeOK, Cover, Live, Id
<1>1. ASSUME files' \subseteq files, UNCHANGED <<app, covers, object, blame>>,
             missed[q] \subseteq missed'[q]
      PROVE  World(q)
  BY <1>0, <1>1 DEF World, Live
<1>2. Overtakes(r) => missed[q] \subseteq missed'[q] /\ r \in missed'[q]
  BY <1>0, Overtaken
<1>4. CASE PlainCommit(r)
  <2>1. /\ Committed(r, "new") /\ KeepCovers
        /\ \/ app' = app
           \/ \E a \in App : app[a] = "unborn" /\ app' = [app EXCEPT ![a] = "live"]
    BY <1>4 DEF PlainCommit, CreateApp, Purchase, CreateDiscussion, DeleteDiscussion
  <2>2. First \cap Live' \subseteq Live
    BY <1>0, <2>1 DEF Rows, TypeOK
  <2>3. missed[q] \subseteq missed'[q]
    BY <1>2, <2>1 DEF Committed
  <2> QED
    BY <1>0, <2>1, <2>2, <2>3 DEF World, Committed, KeepCovers
<1>5. CASE Puts(r)
  <2>1. PICK k \in Key, size \in {"small", "large"} : PutObject(r, k, size)
    BY <1>5 DEF Puts
  <2>3. /\ missed[q] \subseteq missed'[q]
        /\ UNCHANGED <<app, covers, files, twins, maker, remover>>
        /\ Live' = Live
    BY <1>2, <2>1 DEF PutObject, Live
  <2>4. /\ object'[k] # None /\ rewritten \subseteq rewritten'
        /\ remover[k] # None => k \in rewritten'
        /\ \A l \in Key \ {k} : object'[l] = object[l]
    BY <2>1, CatalogueAssumption DEF PutObject, TypeOK
  <2> QED
    BY <1>0, <2>3, <2>4 DEF World
<1>6. CASE Reads(r)
  <2>1. UNCHANGED <<rows, store, history>>
    BY <1>6, Reading DEF Goes
  <2> QED
    BY <1>1, <2>1
<1>7. CASE Refused(r)
  <2>1. UNCHANGED <<rows, store, twins, remover, maker, breaker, rewritten, missed>>
    BY <1>7 DEF Refused, Refuse
  <2> QED
    BY <1>0, <2>1 DEF World, Live
<1>8. CASE Deletes(r)
  <2>1. PICK k \in Key : \E from, to, h : DeleteCoverObject(r, k, from, to, h)
    BY <1>8, Deleting DEF Unlinks
  <2>2. /\ missed[q] \subseteq missed'[q] /\ r \in missed'[q]
        /\ UNCHANGED <<app, covers, files, twins, maker>>
        /\ Live' = Live
    BY <1>2, <2>1 DEF DeleteCoverObject, Live
  <2>3. /\ object'[k] = None /\ remover'[k] = r /\ rewritten' = rewritten \ {k}
        /\ r # None
        /\ \A l \in Key \ {k} : object'[l] = object[l] /\ remover'[l] = remover[l]
    BY <2>1, CatalogueAssumption DEF DeleteCoverObject, TypeOK
  <2> QED
    BY <1>0, <2>2, <2>3 DEF World
<1>9. CASE DeleteAvatar(r) \/ \E a \in App : DeleteFiles(r, a)
  <2>1. /\ Overtakes(r) /\ files' \subseteq files
        /\ UNCHANGED <<rows, object, blame>>
    BY <1>9 DEF DeleteAvatar, DeleteFiles
  <2>2. missed[q] \subseteq missed'[q]
    BY <1>2, <2>1
  <2> QED
    BY <1>1, <2>1, <2>2
<1>10. CASE ConfirmsCover(r)
  <2>1. PICK k \in held[r].keys :
            /\ SetCovers(r, covers \cup
                               {[id |-> r, app |-> held[r].at, key |-> k]})
            /\ maker' = [maker EXCEPT ![k] = r]
            /\ rewritten' = rewritten \ {k}
            /\ twins' = IF \E c \in covers : c.key = k THEN twins \cup {k}
                                                       ELSE twins
    BY <1>10 DEF ConfirmsCover, ConfirmCoverCommit
  <2>2. Committed(r, "insert") /\ UNCHANGED <<account, app, purchases, discussions>>
    BY <1>10 DEF ConfirmsCover, ConfirmCoverCommit
  <2>3. missed[q] \subseteq missed'[q] /\ r \in missed'[q]
    BY <1>2, <2>2 DEF Committed
  <2>4. k \in Key
    BY DEF TypeOK, Locals
  <2>5. /\ \A c \in covers' \ covers : c.key = k
        /\ covers \subseteq covers' /\ twins \subseteq twins'
        /\ maker'[k] = r /\ \A l \in Key \ {k} : maker'[l] = maker[l]
    BY <2>1, <2>4 DEF SetCovers, TypeOK
  <2>6. UNCHANGED <<files, object, remover>> /\ Live' = Live
    BY <2>2 DEF Committed, Live
  <2> QED
    BY <1>0, <2>1, <2>3, <2>4, <2>5, <2>6 DEF World
<1>11. CASE Takes(r)
  <2>1. /\ Committed(r, pc[r]) /\ covers' \subseteq covers
        /\ UNCHANGED <<twins, maker, rewritten>>
        /\ Live' \subseteq Live
    BY <1>0, <1>11 DEF Takes, DeleteCoverCommit, CommitDeletion, SetCovers,
                       TypeOK, Live
  <2>2. missed[q] \subseteq missed'[q]
    BY <1>2, <2>1 DEF Committed
  <2>3. UNCHANGED <<files, object, remover>>
    BY <2>1 DEF Committed
  <2> QED
    BY <1>0, <2>1, <2>2, <2>3 DEF World, Twinned
<1> QED
  BY <1>4, <1>5, <1>6, <1>7, <1>8, <1>9, <1>10, <1>11 DEF Acts

\* A request that is not open relies on nothing.
LEMMA IdleRelies ==
    ASSUME TypeOK', AllPlaced', NEW q \in Request, ~ Open(q)'
    PROVE  Relies(q)'
<1>1. pc'[q] \in {"new", "done"} /\ held'[q] = Idle /\ removed'[q] = {}
  BY DEF Open, AllPlaced, Placed
<1> QED
  BY <1>1 DEF Relies, Confirms, Removes, Uncovers, Sweeps, Clears, Idle,
              Uncovering, Sweeping

LEMMA StaysAll ==
    ASSUME TypeOK, NEW r \in Request, Acts(r)
    PROVE  /\ \E p, h, x : Becomes(r, p, h, x)
           /\ \A q \in Request \ {r} : Stays(q)
<1>1. \E p, h, x : Becomes(r, p, h, x)
  <2>1. CASE PlainCommit(r) \/ ConfirmsCover(r) \/ Takes(r)
    <3>1. \E from : Committed(r, from)
      BY <2>1 DEF PlainCommit, CreateApp, Purchase, CreateDiscussion, DeleteDiscussion,
                  ConfirmsCover, ConfirmCoverCommit, Refuse, Takes,
                  DeleteCoverCommit, CommitDeletion
    <3> QED
      BY <3>1, CommitBecomes
  <2>2. CASE Puts(r)
    BY <2>2, PutBecomes DEF Puts
  <2>3. CASE Reads(r)
    BY <2>3, Reading DEF Goes
  <2>4. CASE Refused(r)
    BY <2>4, RefuseBecomes DEF Refused
  <2>5. CASE Deletes(r)
    BY <2>5, Deleting DEF Unlinks
  <2>6. CASE DeleteAvatar(r)
    BY <2>6, AvatarBecomes
  <2>7. ASSUME NEW a \in App, DeleteFiles(r, a)
        PROVE  \E p, h, x : Becomes(r, p, h, x)
    BY <2>7, FilesBecome
  <2> QED
    BY <2>1, <2>2, <2>3, <2>4, <2>5, <2>6, <2>7 DEF Acts
<1> QED
  BY <1>1 DEF Becomes, Stays

\* What a read makes r rely on is so when it reads.
LEMMA ReaderRelies ==
    ASSUME TypeOK, AllPlaced, Rows, NEW r \in Request, Relies(r), Reads(r)
    PROVE  Relies(r)'
<1> USE DEF Confirming, Uncovering, Sweeping
<1>0. /\ UNCHANGED <<rows, store, history>>
      /\ held[r] \in Locals /\ Placed(pc[r], held[r], removed[r])
  BY Reading DEF Goes, TypeOK, AllPlaced
<1>1. UNCHANGED <<covers, object, files, twins, remover, maker, rewritten, missed>>
      /\ Live' = Live
  BY <1>0 DEF rows, store, history, blame, Live
<1>2. pc[r] = "new" => removed[r] = {}
  BY <1>0 DEF Placed
<1>3. ASSUME NEW a \in App, DeleteAppLoad(r, a)
      PROVE  Relies(r)'
  <2>1. Goes(r, "new", "next", AppLoaded(a))
    BY <1>3, ReadsGo
  <2>2. pc'[r] = "next" /\ held'[r] = AppLoaded(a) /\ removed'[r] = {}
    BY <1>2, <2>1 DEF Goes, Becomes
  <2> QED
    BY <2>2 DEF Relies, Confirms, Removes, Uncovers, Sweeps, Clears, AppLoaded, Idle
<1>4. ASSUME NEW a \in App, NEW k \in Key, ConfirmCoverSize(r, a, k)
      PROVE  Relies(r)'
  <2>1. PICK to \in {"too_large", "select"} :
            Goes(r, "new", to, SizeChecked(a, k))
    BY <1>4, ReadsGo
  <2>2. pc'[r] = to /\ held'[r] = SizeChecked(a, k) /\ removed'[r] = {}
    BY <1>2, <2>1 DEF Goes, Becomes
  <2>3. held'[r].keys = {k} /\ held'[r].doomed = {} /\ held'[r].kind = "confirm"
        /\ object[k] # None
    BY <1>4, <2>2 DEF SizeChecked, Idle, ConfirmCoverSize
  <2> QED
    BY <1>1, <2>2, <2>3 DEF Relies, Confirms, Removes, Uncovers, Sweeps, Clears
<1>5. ASSUME NEW c \in covers, DeleteCoverLoad(r, c)
      PROVE  Relies(r)'
  <2>1. Goes(r, "new", "object", CoverLoaded(c))
    BY <1>5, ReadsGo
  <2>2. pc'[r] = "object" /\ held'[r] = CoverLoaded(c) /\ removed'[r] = {}
    BY <1>2, <2>1 DEF Goes, Becomes
  <2>3. held'[r].gone = {c} /\ held'[r].doomed = {} /\ held'[r].kind = "cover"
    BY <2>2 DEF CoverLoaded, Idle
  <2> QED
    BY <1>1, <2>2, <2>3 DEF Relies, Confirms, Removes, Uncovers, Sweeps, Clears
<1>6. CASE Selects(r)
  <2>1. Goes(r, "select", "insert", held[r])
    BY <1>6, ReadsGo
  <2>2. /\ pc[r] = "select" /\ pc'[r] = "insert" /\ held'[r] = held[r]
        /\ removed'[r] = removed[r]
    BY <2>1 DEF Goes, Becomes
  <2> QED
    BY <1>1, <2>2
       DEF Relies, Confirms, Removes, Unseen, Uncovers, Sweeps, Clears
<1>7. CASE DeleteUserLoad(r)
  <2>1. Goes(r, "new", "next", UserLoaded)
    BY <1>7, ReadsGo
  <2>2. pc'[r] = "next" /\ held'[r] = UserLoaded /\ removed'[r] = {}
    BY <1>2, <2>1 DEF Goes, Becomes
  <2>3. /\ held'[r].keys = {} /\ held'[r].doomed = {} /\ held'[r].todo = Live
        /\ \A c \in covers : c.app \in Live
    BY <2>2 DEF UserLoaded, Idle, Rows
  <2> QED
    BY <1>1, <2>2, <2>3 DEF Relies, Confirms, Removes, Uncovers, Sweeps, Clears
<1>8. CASE DeleteAppCovers(r)
  <2>1. PICK to \in {"next", "unlink"} : Goes(r, "bulk", to, BulkDeleted(r))
    BY <1>8, ReadsGo
  <2>2. /\ pc[r] = "bulk" /\ pc'[r] = to /\ held'[r] = BulkDeleted(r)
        /\ removed'[r] = removed[r]
    BY <2>1 DEF Goes, Becomes
  <2>3. /\ held'[r].keys = held[r].keys /\ held'[r].doomed = held[r].doomed
        /\ held'[r].todo = held[r].todo /\ held'[r].kind = held[r].kind
    BY <1>0, <2>2 DEF BulkDeleted, Locals
  <2> QED
    BY <1>1, <2>2, <2>3
       DEF Relies, Confirms, Removes, Unseen, Uncovers, Sweeps, Clears
<1> QED
  BY <1>3, <1>4, <1>5, <1>6, <1>7, <1>8 DEF Reads

\* The object r deletes is gone; the rest stays as r had it.
LEMMA DeleterRelies ==
    ASSUME TypeOK, AllPlaced, NEW r \in Request, Relies(r), Deletes(r)
    PROVE  Relies(r)'
<1> USE DEF Confirming, Uncovering, Sweeping
<1>0. /\ held[r] \in Locals /\ Placed(pc[r], held[r], removed[r])
      /\ held[r].keys \subseteq Key /\ \A c \in held[r].gone : c.key \in Key
  BY DEF TypeOK, AllPlaced, Locals, Cover
<1>1. ASSUME NEW k \in Key, NEW from, NEW to, NEW h, Unlinks(r, k, from, to, h)
      PROVE  /\ UNCHANGED <<covers, files, twins, maker>> /\ Live' = Live
             /\ missed'[r] = missed[r]
             /\ pc[r] = from /\ pc'[r] = to /\ held'[r] = h
             /\ removed'[r] = removed[r] \cup {k}
             /\ Removes(r)'
  <2>1. DeleteCoverObject(r, k, from, to, h) /\ Becomes(r, to, h, removed[r] \cup {k})
        /\ pc[r] = from
    BY <1>1 DEF Unlinks
  <2>2. /\ UNCHANGED <<covers, files, twins, maker>> /\ Live' = Live
        /\ missed'[r] = missed[r]
    BY <2>1, Overtaken DEF DeleteCoverObject, rows, Live
  <2>3. /\ object'[k] = None /\ remover'[k] = r /\ rewritten' = rewritten \ {k}
        /\ r # None
        /\ \A l \in Key \ {k} : object'[l] = object[l] /\ remover'[l] = remover[l]
    BY <2>1, CatalogueAssumption DEF DeleteCoverObject, TypeOK
  <2>4. pc'[r] = to /\ held'[r] = h /\ removed'[r] = removed[r] \cup {k}
    BY <2>1 DEF Becomes
  <2>5. Removes(r)'
    BY <2>2, <2>3, <2>4 DEF Relies, Removes, Unseen
  <2> QED
    BY <2>1, <2>2, <2>4, <2>5
<1>2. CASE ConfirmCoverTooLarge(r)
  <2>1. PICK k \in held[r].keys : Unlinks(r, k, "too_large", "refuse", held[r])
    BY <1>2, DeletesGo
  <2>2. /\ files' = files /\ Live' = Live /\ pc[r] = "too_large" /\ pc'[r] = "refuse"
        /\ held'[r] = held[r] /\ Removes(r)'
    BY <1>0, <1>1, <2>1
  <2> QED
    BY <2>2 DEF Relies, Confirms, Uncovers, Sweeps, Clears
<1>3. CASE DeleteCoverUnlink(r)
  <2>1. PICK c \in held[r].gone : Unlinks(r, c.key, "object", "delete", held[r])
    BY <1>3, DeletesGo
  <2>2. /\ UNCHANGED <<covers, files, twins, maker>> /\ Live' = Live
        /\ missed'[r] = missed[r] /\ pc[r] = "object" /\ pc'[r] = "delete"
        /\ held'[r] = held[r] /\ Removes(r)'
    BY <1>0, <1>1, <2>1
  <2> QED
    BY <2>2 DEF Relies, Confirms, Uncovers, Unseen, Sweeps, Clears
<1>4. ASSUME NEW k \in Key, DeleteAppCoverObject(r, k)
      PROVE  Relies(r)'
  <2>1. k \in held[r].keys /\ Unlinks(r, k, "unlink", After(r, k), KeysLeft(r, k))
    BY <1>4, DeletesGo
  <2>2. /\ UNCHANGED <<covers, files, twins, maker>> /\ Live' = Live
        /\ missed'[r] = missed[r] /\ pc[r] = "unlink" /\ pc'[r] = After(r, k)
        /\ held'[r] = KeysLeft(r, k) /\ removed'[r] = removed[r] \cup {k}
        /\ Removes(r)'
    BY <1>1, <2>1
  <2>3. pc'[r] \in {"next", "unlink"}
    BY <2>2 DEF After
  <2>4. /\ held'[r].keys = held[r].keys \ {k} /\ held'[r].doomed = held[r].doomed
        /\ held'[r].todo = held[r].todo /\ held'[r].kind = held[r].kind
    BY <1>0, <2>2 DEF KeysLeft, Locals
  <2>5. held'[r].keys \cup removed'[r] = held[r].keys \cup removed[r]
    BY <2>1, <2>2, <2>4
  <2>6. Sweeps(r)'
    BY <2>2, <2>4, <2>5 DEF Relies, Sweeps, Unseen
  <2> QED
    BY <2>2, <2>3, <2>4, <2>6 DEF Relies, Confirms, Uncovers, Clears
<1> QED
  BY <1>2, <1>3, <1>4 DEF Deletes

\* With the files of an app go those of its rows, as they are listed.
LEMMA ClearerRelies ==
    ASSUME TypeOK, AllPlaced, Twinned, NEW r \in Request, Relies(r),
           NEW a \in App, DeleteFiles(r, a)
    PROVE  Relies(r)'
<1> USE DEF Confirming, Uncovering, Sweeping
<1> DEFINE K == {c.key : c \in {d \in covers : d.app = a}}
<1>1. /\ pc[r] = "next" /\ pc'[r] = "bulk" /\ held'[r] = Clearing(r, a)
      /\ removed'[r] = removed[r] \cup {a}
  BY FilesBecome DEF Becomes
<1>2. /\ held[r] \in Locals /\ held[r].keys = {} /\ a \in held[r].todo
  BY <1>1 DEF TypeOK, AllPlaced, Placed, DeleteFiles
<1>3. /\ held'[r].keys = K /\ held'[r].doomed = held[r].doomed \cup {a}
      /\ held'[r].todo = held[r].todo \ {a} /\ held'[r].kind = held[r].kind
  BY <1>1, <1>2 DEF Clearing, Locals
<1>4. /\ UNCHANGED <<covers, object, twins, remover, maker, rewritten>>
      /\ Live' = Live /\ missed'[r] = missed[r] /\ files' = files \ {a}
  BY Overtaken DEF DeleteFiles, rows, blame, Live
<1>5. a \notin Key /\ a # Avatar /\ \A c \in covers : c.key \in Key
  BY CatalogueAssumption DEF TypeOK, Cover
<1>6. Sweeps(r)'
  <2> SUFFICES ASSUME NEW c \in covers
               PROVE  /\ c.key \in K \cup removed[r] =>
                           \/ c.app \in held[r].doomed \cup {a} \/ c.key \in twins
                           \/ Unseen(r, c.key)
                      /\ c.app \in held[r].doomed \cup {a} =>
                           c.key \in K \cup removed[r] \/ Unseen(r, c.key)
                      /\ held[r].kind = "user" =>
                           c.app \in held[r].todo \cup held[r].doomed
                              \/ Unseen(r, c.key)
    BY <1>1, <1>2, <1>3, <1>4, <1>5 DEF Sweeps, Unseen
  <2>1. /\ c.key \in removed[r] =>
              c.app \in held[r].doomed \/ c.key \in twins \/ Unseen(r, c.key)
        /\ c.app \in held[r].doomed => c.key \in removed[r] \/ Unseen(r, c.key)
        /\ held[r].kind = "user" =>
              c.app \in held[r].todo \cup held[r].doomed \/ Unseen(r, c.key)
    BY <1>1, <1>2 DEF Relies, Sweeps
  <2>2. c.key \in K => c.app = a \/ c.key \in twins
    BY DEF Twinned
  <2>3. c.app = a => c.key \in K
    OBVIOUS
  <2> QED
    BY <2>1, <2>2, <2>3
<1>7. Removes(r)'
  BY <1>1, <1>4, <1>5 DEF Relies, Removes, Unseen
<1>8. Clears(r)'
  BY <1>1, <1>2, <1>3, <1>4 DEF Relies, Clears
<1> QED
  BY <1>1, <1>6, <1>7, <1>8 DEF Relies, Confirms, Uncovers

LEMMA AvatarRelies ==
    ASSUME TypeOK, AllPlaced, NEW r \in Request, Relies(r), DeleteAvatar(r)
    PROVE  Relies(r)'
<1> USE DEF Confirming, Uncovering, Sweeping
<1> DEFINE D == {d \in discussions : d.by = "publisher"}
           h == [held[r] EXCEPT !.own = D]
<1>1. /\ pc[r] = "next" /\ pc'[r] = "commit" /\ held'[r] = h
      /\ removed'[r] = removed[r] \cup {Avatar}
  BY AvatarBecomes DEF Becomes
<1>2. held[r] \in Locals
  BY DEF TypeOK
<1>3. /\ held'[r].keys = held[r].keys /\ held'[r].doomed = held[r].doomed
      /\ held'[r].todo = held[r].todo /\ held'[r].kind = held[r].kind
  BY <1>1, <1>2 DEF Locals
<1>4. /\ UNCHANGED <<covers, object, twins, remover, maker, rewritten>>
      /\ Live' = Live /\ missed'[r] = missed[r] /\ files' = files \ {Avatar}
  BY Overtaken DEF DeleteAvatar, rows, blame, Live
<1>5. Avatar \notin Key /\ \A c \in covers : c.key \in Key
  BY CatalogueAssumption DEF TypeOK, Cover
<1>6. Sweeps(r)'
  BY <1>1, <1>3, <1>4, <1>5 DEF Relies, Sweeps, Unseen
<1>7. Removes(r)'
  BY <1>1, <1>4, <1>5 DEF Relies, Removes, Unseen
<1> QED
  BY <1>1, <1>3, <1>4, <1>6, <1>7 DEF Relies, Confirms, Uncovers, Clears

\* Every request may go on relying on what it did.
LEMMA ReliesNext ==
    ASSUME TypeOK, Bounded, AllPlaced, Rows, Twinned, [Next]_vars,
           \A q \in Request : Relies(q)
    PROVE  \A q \in Request : Relies(q)'
<1>0. TypeOK' /\ AllPlaced'
  BY TypeNext, PlacedNext
<1> SUFFICES ASSUME NEW q \in Request
             PROVE  Relies(q)'
  OBVIOUS
<1>1. CASE UNCHANGED vars
  <2>1. UNCHANGED <<covers, files, object, pc, held, removed, twins, remover, maker,
                    rewritten, missed, Live>>
    BY <1>1 DEF vars, rows, store, blame, history, Live
  <2> QED
    BY <2>1 DEF Relies, Confirms, Removes, Uncovers, Sweeps, Clears, Unseen
<1>2. ASSUME NEW r \in Request, Acts(r), q # r
      PROVE  Relies(q)'
  <2>1. Stays(q)
    BY <1>2, StaysAll
  <2>2. CASE Open(q)
    BY <1>0, <1>2, <2>1, <2>2, Worldly, StillRelies
  <2>3. CASE ~ Open(q)
    BY <1>0, <2>1, <2>3, IdleRelies DEF Open, Stays
  <2> QED
    BY <2>2, <2>3
<1>3. ASSUME Acts(q)
      PROVE  Relies(q)'
  <2>1. CASE PlainCommit(q) \/ ConfirmsCover(q) \/ Takes(q) \/ Puts(q) \/ Refused(q)
    <3>1. pc'[q] = "done"
      <4>1. \/ \E from : Committed(q, from) \/ Refuse(q, from)
            \/ \E k, s : PutObject(q, k, s)
        BY <2>1 DEF PlainCommit, CreateApp, Purchase, CreateDiscussion,
                    DeleteDiscussion, ConfirmsCover, ConfirmCoverCommit, Takes,
                    DeleteCoverCommit, CommitDeletion, Puts, Refused
      <4> QED
        BY <4>1, CommitBecomes, RefuseBecomes, PutBecomes DEF Becomes
    <3> QED
      BY <1>0, <3>1, IdleRelies DEF Open
  <2> QED
    BY <1>3, <2>1, ReaderRelies, DeleterRelies, ClearerRelies, AvatarRelies DEF Acts
<1> QED
  BY <1>1, <1>2, <1>3, StepCases
-----------------------------------------------------------------------------
(* What holds of the rows and the files.                                   *)

\* What the commits do to the rows; whatever else acts leaves them alone.
LEMMA RowsAlone ==
    ASSUME TypeOK, NEW r \in Request, Acts(r),
           ~ PlainCommit(r), ~ ConfirmsCover(r), ~ Takes(r)
    PROVE  /\ UNCHANGED <<rows, twins, maker, breaker>>
           /\ spoiled \subseteq spoiled'
           /\ \A x \in removed[r] : x \in removed'[r] \/ x \in spoiled'
<1>1. CASE Puts(r)
  <2>1. PICK k \in Key, s \in {"small", "large"} : PutObject(r, k, s)
    BY <1>1 DEF Puts
  <2> QED
    BY <2>1 DEF PutObject
<1>2. CASE Reads(r)
  BY <1>2, Reading DEF Goes, Becomes, history, blame
<1>3. CASE Refused(r)
  BY <1>3 DEF Refused, Refuse
<1>4. CASE Deletes(r)
  BY <1>4, Deleting DEF Unlinks, Becomes, DeleteCoverObject
<1>5. CASE DeleteAvatar(r)
  BY <1>5 DEF DeleteAvatar, blame, TypeOK
<1>6. ASSUME NEW a \in App, DeleteFiles(r, a)
      PROVE  /\ UNCHANGED <<rows, twins, maker, breaker>>
             /\ spoiled \subseteq spoiled'
             /\ \A x \in removed[r] : x \in removed'[r] \/ x \in spoiled'
  BY <1>6 DEF DeleteFiles, blame, TypeOK
<1> QED
  BY <1>1, <1>2, <1>3, <1>4, <1>5, <1>6 DEF Acts

LEMMA CommitAlone ==
    ASSUME TypeOK, NEW r \in Request,
           PlainCommit(r) \/ ConfirmsCover(r) \/ Takes(r)
    PROVE  /\ UNCHANGED <<store, spoiled, remover>>
           /\ removed' = [removed EXCEPT ![r] = {}]
           /\ missed' \in [Id -> SUBSET Request]
           /\ \A q \in Id : missed[q] \subseteq missed'[q]
           /\ missed'[r] = missed[r]
<1>1. \E from : Committed(r, from)
  BY DEF PlainCommit, CreateApp, Purchase, CreateDiscussion, DeleteDiscussion,
         ConfirmsCover, ConfirmCoverCommit, Refuse, Takes, DeleteCoverCommit,
         CommitDeletion
<1> QED
  BY <1>1, Overtaken DEF Committed

\* What a confirmation inserts.
Inserts(r, k) ==
    /\ held[r].at \in Live /\ k \in held[r].keys /\ k \in Key
    /\ covers' = covers \cup {[id |-> r, app |-> held[r].at, key |-> k]}
    /\ breaker' = [l \in Key |-> IF \E c \in covers' : c.key = l THEN None
                                 ELSE IF \E c \in covers : c.key = l THEN r
                                 ELSE breaker[l]]
    /\ maker' = [maker EXCEPT ![k] = r]
    /\ rewritten' = rewritten \ {k}
    /\ twins' = IF \E c \in covers : c.key = k THEN twins \cup {k} ELSE twins
    /\ UNCHANGED <<account, app, purchases, discussions>>

LEMMA Inserting ==
    ASSUME TypeOK, NEW r \in Request, ConfirmsCover(r)
    PROVE  pc[r] = "insert" /\ \E k \in held[r].keys : Inserts(r, k)
<1>1. PICK k \in held[r].keys :
          /\ SetCovers(r, covers \cup
                             {[id |-> r, app |-> held[r].at, key |-> k]})
          /\ maker' = [maker EXCEPT ![k] = r]
          /\ rewritten' = rewritten \ {k}
          /\ twins' = IF \E c \in covers : c.key = k THEN twins \cup {k}
                                                     ELSE twins
  BY DEF ConfirmsCover, ConfirmCoverCommit
<1>2. UNCHANGED <<account, app, purchases, discussions>>
  BY DEF ConfirmsCover, ConfirmCoverCommit
<1>3. k \in Key
  BY DEF TypeOK, Locals
<1>4. breaker' = [l \in Key |-> IF \E c \in covers' : c.key = l THEN None
                                ELSE IF \E c \in covers : c.key = l THEN r
                                ELSE breaker[l]]
  BY <1>1 DEF SetCovers
<1> QED
  BY <1>1, <1>2, <1>3, <1>4 DEF SetCovers, Inserts, ConfirmsCover

LEMMA RowsNext ==
    ASSUME TypeOK, TypeOK', Rows, NEW r \in Request, Acts(r)
    PROVE  Rows'
<1>0. /\ \A a \in App : a \in Live <=> app[a] = "live"
      /\ \A a \in App : a \in Live' <=> app'[a] = "live"
      /\ Live \subseteq App /\ Live' \subseteq App
      /\ First \subseteq App
      /\ \A d \in discussions : d.app \in App
      /\ \A c \in covers : c.app \in App
  BY CatalogueAssumption DEF Live, TypeOK, Discussion, Cover
<1>1. CASE ~ PlainCommit(r) /\ ~ ConfirmsCover(r) /\ ~ Takes(r)
  <2>1. UNCHANGED <<account, app, covers, discussions, Live>>
    BY <1>1, RowsAlone DEF rows, Live
  <2> QED
    BY <2>1 DEF Rows
<1>2. CASE PlainCommit(r)
  <2>1. ASSUME NEW a \in App, CreateApp(r, a)
        PROVE  Rows'
    <3>1. /\ account /\ account' = account
          /\ UNCHANGED <<covers, discussions>>
          /\ app' = [app EXCEPT ![a] = "live"]
      BY <2>1 DEF CreateApp, KeepCovers
    <3>2. Live \subseteq Live'
      BY <1>0, <3>1 DEF TypeOK
    <3> QED
      BY <1>0, <3>1, <3>2 DEF Rows, TypeOK
  <2>2. ASSUME NEW a \in App, Purchase(r, a)
        PROVE  Rows'
    <3>1. UNCHANGED <<account, app, covers, discussions, Live>>
      BY <2>2 DEF Purchase, KeepCovers, Live
    <3> QED
      BY <3>1 DEF Rows
  <2>3. ASSUME NEW a \in App, NEW by \in {"publisher", "other"},
               CreateDiscussion(r, a, by)
        PROVE  Rows'
    <3>1. /\ UNCHANGED <<account, app, covers, Live>>
          /\ a \in Live /\ (by = "publisher" => account)
          /\ discussions' = discussions \cup {[app |-> a, by |-> by, id |-> r]}
      BY <2>3 DEF CreateDiscussion, KeepCovers, Live
    <3> QED
      BY <3>1 DEF Rows
  <2>4. ASSUME NEW d \in discussions, DeleteDiscussion(r, d)
        PROVE  Rows'
    <3>1. /\ UNCHANGED <<account, app, covers, Live>>
          /\ discussions' \subseteq discussions
      BY <2>4 DEF DeleteDiscussion, KeepCovers, Live
    <3> QED
      BY <3>1 DEF Rows
  <2> QED
    BY <1>2, <2>1, <2>2, <2>3, <2>4 DEF PlainCommit
<1>3. CASE ConfirmsCover(r)
  <2>1. PICK k : Inserts(r, k)
    BY <1>3, Inserting
  <2>2. /\ UNCHANGED <<account, app, discussions, Live>>
        /\ \A c \in covers' : c \in covers \/ c.app = held[r].at
        /\ held[r].at \in Live
    BY <2>1 DEF Inserts, Live
  <2> QED
    BY <2>2 DEF Rows
<1>4. CASE DeleteCoverCommit(r)
  <2>1. /\ UNCHANGED <<account, app, discussions, Live>>
        /\ covers' \subseteq covers
    BY <1>4 DEF DeleteCoverCommit, SetCovers, Live
  <2> QED
    BY <2>1 DEF Rows
<1>5. CASE CommitDeletion(r)
  <2>1. /\ \A a \in App : a \in Live' <=> a \in Live /\ a \notin Doomed(r)
        /\ \A a \in First : app'[a] # "unborn"
    BY <1>0, <1>5 DEF CommitDeletion, Rows, TypeOK
  <2>2. /\ \A c \in covers' : c \in covers /\ c.app \notin Doomed(r)
        /\ discussions' = discussions \ held[r].own
        /\ account' = (account /\ held[r].kind # "user")
        /\ held[r].kind = "user" => Doomed(r) = Live
    BY <1>5 DEF CommitDeletion, SetCovers, Doomed
  <2>3. \A d \in discussions' : /\ d.app \notin Doomed(r)
                                /\ held[r].kind = "user" => d.by # "publisher"
    BY <1>5, <2>2 DEF CommitDeletion, Deletable
  <2> QED
    BY <1>0, <2>1, <2>2, <2>3 DEF Rows, TypeOK
<1> QED
  BY <1>1, <1>2, <1>3, <1>4, <1>5 DEF Takes

LEMMA TwinnedNext ==
    ASSUME TypeOK, Twinned, NEW r \in Request, Acts(r)
    PROVE  Twinned'
<1>1. CASE ~ PlainCommit(r) /\ ~ ConfirmsCover(r) /\ ~ Takes(r)
  BY <1>1, RowsAlone DEF rows, Twinned
<1>2. CASE PlainCommit(r)
  BY <1>2 DEF PlainCommit, CreateApp, Purchase, CreateDiscussion,
              DeleteDiscussion, KeepCovers, Twinned
<1>3. CASE ConfirmsCover(r)
  <2>1. PICK k : Inserts(r, k)
    BY <1>3, Inserting
  <2> QED
    BY <2>1 DEF Inserts, Twinned
<1>4. CASE Takes(r)
  <2>1. covers' \subseteq covers /\ twins' = twins
    BY <1>4 DEF Takes, DeleteCoverCommit, CommitDeletion, SetCovers
  <2> QED
    BY <2>1 DEF Twinned
<1> QED
  BY <1>1, <1>2, <1>3, <1>4

\* Where r commits a deletion it has begun all its apps and unlinked all covers.
LEMMA ReadyToCommit ==
    ASSUME TypeOK, AllPlaced, Rows, NEW r \in Request, Relies(r), CommitDeletion(r)
    PROVE  /\ pc[r] \in {"next", "commit"} /\ held[r].keys = {}
           /\ \/ held[r].kind = "app" /\ Doomed(r) = held[r].doomed
              \/ /\ held[r].kind = "user" /\ Doomed(r) = Live /\ held[r].todo = {}
                 /\ pc[r] = "commit" /\ Avatar \notin files
           /\ held[r].doomed \cap files = {}
           /\ held[r].kind = "user" => First \cap Live \subseteq held[r].doomed
           /\ removed[r] \cap App \subseteq held[r].doomed
           /\ Avatar \in removed[r] => held[r].kind = "user"
           /\ \A c \in held[r].gone : c.app \in held[r].doomed
<1>1. Placed(pc[r], held[r], removed[r]) /\ Ready(r)
  BY DEF AllPlaced, CommitDeletion
<1>2. /\ pc[r] \in {"next", "commit"} /\ held[r].kind \in {"app", "user"}
      /\ held[r].keys = {}
      /\ removed[r] \cap App \subseteq held[r].doomed
      /\ Avatar \in removed[r] => held[r].kind = "user"
      /\ \A c \in held[r].gone : c.app \in held[r].doomed
      /\ pc[r] = "commit" => held[r].kind = "user" /\ held[r].todo = {}
      /\ pc[r] = "next" => held[r].kind = "app"
  BY <1>1 DEF Ready, Placed, Sweeping
<1> QED
  BY <1>2 DEF Relies, Clears, Doomed

\* The request that commits has deleted no file of what stays.
LEMMA TakenAlong ==
    ASSUME TypeOK, AllPlaced, Rows, NEW r \in Request, Relies(r),
           PlainCommit(r) \/ ConfirmsCover(r) \/ Takes(r)
    PROVE  /\ \A a \in App : a \in removed[r] => a \notin Live'
           /\ Avatar \in removed[r] => ~ account'
           /\ \A a \in First : a \in Live /\ a \notin Live' => a \notin files
           /\ Avatar \in files /\ account => account'
           /\ account' => account
<1>0. /\ Placed(pc[r], held[r], removed[r])
      /\ \A a \in App : a \in Live <=> app[a] = "live"
      /\ \A a \in App : a \in Live' <=> app'[a] = "live"
      /\ First \subseteq App
  BY CatalogueAssumption DEF AllPlaced, Live
<1>1. CASE PlainCommit(r) \/ ConfirmsCover(r) \/ DeleteCoverCommit(r)
  <2>1. pc[r] \in {"new", "insert", "delete"} /\ account' = account
    BY <1>1 DEF PlainCommit, CreateApp, Purchase, CreateDiscussion, DeleteDiscussion,
                ConfirmsCover, ConfirmCoverCommit, Committed, Refuse, Step,
                DeleteCoverCommit
  <2>2. removed[r] \cap App = {} /\ Avatar \notin removed[r]
    BY <1>0, <2>1 DEF Placed, Sweeping
  <2>3. Live \subseteq Live'
    <3>1. \/ app' = app
          \/ \E a \in App : app' = [app EXCEPT ![a] = "live"]
      BY <1>1 DEF PlainCommit, CreateApp, Purchase, CreateDiscussion,
                  DeleteDiscussion, ConfirmsCover, ConfirmCoverCommit,
                  DeleteCoverCommit
    <3> QED
      BY <1>0, <3>1 DEF TypeOK, Live
  <2> QED
    BY <2>1, <2>2, <2>3
<1>2. CASE CommitDeletion(r)
  <2>1. /\ \A a \in App : a \in Live' <=> a \in Live /\ a \notin Doomed(r)
        /\ account' = (account /\ held[r].kind # "user")
    BY <1>0, <1>2 DEF CommitDeletion, TypeOK
  <2>2. /\ \/ held[r].kind = "app" /\ Doomed(r) = held[r].doomed
           \/ /\ held[r].kind = "user" /\ Doomed(r) = Live
              /\ Avatar \notin files
        /\ held[r].doomed \cap files = {}
        /\ held[r].kind = "user" => First \cap Live \subseteq held[r].doomed
        /\ removed[r] \cap App \subseteq held[r].doomed
        /\ Avatar \in removed[r] => held[r].kind = "user"
    BY <1>2, ReadyToCommit
  <2>3. CASE held[r].kind = "app"
    BY <1>0, <2>1, <2>2, <2>3
  <2>4. CASE held[r].kind = "user"
    BY <1>0, <2>1, <2>2, <2>4
  <2> QED
    BY <2>2, <2>3, <2>4
<1> QED
  BY <1>1, <1>2 DEF Takes

LEMMA FilesNext ==
    ASSUME TypeOK, TypeOK', AllPlaced, Rows, Files, NEW r \in Request, Relies(r),
           Acts(r)
    PROVE  Files'
<1>0. /\ \A a \in First : a \in App /\ a # Avatar
      /\ \A a \in App : a \in Live <=> app[a] = "live"
      /\ \A a \in App : a \in Live' <=> app'[a] = "live"
  BY CatalogueAssumption DEF Live
<1>1. CASE ~ PlainCommit(r) /\ ~ ConfirmsCover(r) /\ ~ Takes(r)
  <2>1. UNCHANGED <<account, app, Live>>
    BY <1>1, RowsAlone DEF rows, Live
  <2>2. ASSUME NEW x, Half(x)
        PROVE  Half(x)'
    <3>1. CASE x \in spoiled
      BY <1>1, <3>1, RowsAlone DEF Half
    <3>2. ASSUME NEW q \in Request, x \in removed[q]
          PROVE  Half(x)'
      <4>1. CASE q = r
        BY <1>1, <3>2, <4>1, RowsAlone DEF Half
      <4>2. CASE q # r
        BY <3>2, <4>2, StaysAll DEF Stays, Half
      <4> QED
        BY <4>1, <4>2
    <3> QED
      BY <2>2, <3>1, <3>2 DEF Half
  <2>3. ASSUME NEW x \in files, x \notin files'
        PROVE  Half(x)'
    <3>1. CASE DeleteAvatar(r)
      BY <2>3, <3>1, AvatarBecomes DEF Becomes, Half, DeleteAvatar
    <3>2. ASSUME NEW a \in App, DeleteFiles(r, a)
          PROVE  Half(x)'
      BY <2>3, <3>2, FilesBecome DEF Becomes, Half, DeleteFiles
    <3>3. CASE Puts(r)
      BY <2>3, <3>3 DEF Puts, PutObject
    <3>4. CASE Reads(r)
      BY <2>3, <3>4, Reading DEF Goes, store
    <3>5. CASE Refused(r)
      BY <2>3, <3>5 DEF Refused, Refuse, store
    <3>6. CASE Deletes(r)
      BY <2>3, <3>6, Deleting DEF Unlinks, DeleteCoverObject
    <3> QED
      BY <1>1, <3>1, <3>2, <3>3, <3>4, <3>5, <3>6 DEF Acts
  <2>4. files' \subseteq files
    <3>1. CASE DeleteAvatar(r) \/ \E a \in App : DeleteFiles(r, a)
      BY <3>1 DEF DeleteAvatar, DeleteFiles
    <3>2. CASE Puts(r)
      BY <3>2 DEF Puts, PutObject
    <3>3. CASE Reads(r)
      BY <3>3, Reading DEF Goes, store
    <3>4. CASE Refused(r)
      BY <3>4 DEF Refused, Refuse, store
    <3>5. CASE Deletes(r)
      BY <3>5, Deleting DEF Unlinks, DeleteCoverObject
    <3> QED
      BY <1>1, <3>1, <3>2, <3>3, <3>4, <3>5 DEF Acts
  <2> QED
    BY <2>1, <2>2, <2>3, <2>4 DEF Files
<1>2. CASE PlainCommit(r) \/ ConfirmsCover(r) \/ Takes(r)
  <2>1. files' = files
    BY <1>2, CommitAlone DEF store
  <2>2. ASSUME NEW x \in File, Half(x), x \notin removed[r]
        PROVE  Half(x)'
    BY <1>2, <2>2, CommitAlone DEF Half, TypeOK
  <2>3. /\ \A a \in App : a \in removed[r] => a \notin Live'
        /\ Avatar \in removed[r] => ~ account'
        /\ \A a \in First : a \in Live /\ a \notin Live' => a \notin files
        /\ Avatar \in files /\ account => account'
        /\ account' => account
    BY <1>2, TakenAlong
  <2>4. \A a \in First : a \in Live' => a \in Live
    <3>1. \A a \in App : app'[a] = "live" => app[a] = "live" \/ app[a] = "unborn"
      BY <1>2 DEF PlainCommit, CreateApp, Purchase, CreateDiscussion,
                  DeleteDiscussion, ConfirmsCover, ConfirmCoverCommit, Takes,
                  DeleteCoverCommit, CommitDeletion, TypeOK
    <3> QED
      BY <1>0, <3>1 DEF Rows
  <2>5. App \subseteq File /\ Avatar \in File
    BY DEF File
  <2> QED
    BY <1>0, <2>1, <2>2, <2>3, <2>4, <2>5 DEF Files
<1> QED
  BY <1>1, <1>2

\* Who missed a change has missed it for good.
LEMMA MissedGrows ==
    ASSUME TypeOK, NEW r \in Request, Acts(r)
    PROVE  /\ \A q \in Id : missed[q] \subseteq missed'[q]
           /\ \A q, s \in Id : Overlap(q, s) => Overlap(q, s)'
<1>1. \A q \in Id : missed[q] \subseteq missed'[q]
  <2>1. Overtakes(r) \/ missed' = missed
    <3>1. CASE PlainCommit(r) \/ ConfirmsCover(r) \/ Takes(r)
      BY <3>1 DEF PlainCommit, CreateApp, Purchase, CreateDiscussion, DeleteDiscussion,
                  ConfirmsCover, ConfirmCoverCommit, Refuse, Takes,
                  DeleteCoverCommit, CommitDeletion, Committed
    <3>2. CASE Puts(r)
      BY <3>2 DEF Puts, PutObject
    <3>3. CASE Reads(r)
      BY <3>3, Reading DEF Goes, history
    <3>4. CASE Refused(r)
      BY <3>4 DEF Refused, Refuse
    <3>5. CASE Deletes(r)
      BY <3>5, Deleting DEF Unlinks, DeleteCoverObject
    <3>6. CASE DeleteAvatar(r) \/ \E a \in App : DeleteFiles(r, a)
      BY <3>6 DEF DeleteAvatar, DeleteFiles
    <3> QED
      BY <3>1, <3>2, <3>3, <3>4, <3>5, <3>6 DEF Acts
  <2> QED
    BY <2>1, Overtaken
<1> QED
  BY <1>1 DEF Overlap

\* What acts without a commit does to the object under k.
LEMMA ObjectAlone ==
    ASSUME TypeOK, NEW r \in Request, Acts(r),
           ~ PlainCommit(r), ~ ConfirmsCover(r), ~ Takes(r), NEW k \in Key
    PROVE  \/ /\ object'[k] = object[k] /\ remover'[k] = remover[k]
              /\ k \in rewritten => k \in rewritten'
           \/ object'[k] = None /\ remover'[k] = r /\ k \in removed'[r]
           \/ /\ object'[k] # None
              /\ breaker[k] # None \/ remover[k] # None => k \in rewritten'
<1>1. CASE Puts(r)
  <2>1. PICK l \in Key, s \in {"small", "large"} : PutObject(r, l, s)
    BY <1>1 DEF Puts
  <2> QED
    BY <2>1, CatalogueAssumption DEF PutObject, TypeOK
<1>2. CASE Reads(r)
  BY <1>2, Reading DEF Goes, history, store, blame
<1>3. CASE Refused(r)
  BY <1>3 DEF Refused, Refuse, store
<1>4. CASE Deletes(r)
  <2>1. PICK l \in Key : \E from, to, h : Unlinks(r, l, from, to, h)
    BY <1>4, Deleting
  <2>2. /\ object' = [object EXCEPT ![l] = None]
        /\ remover' = [remover EXCEPT ![l] = r]
        /\ rewritten' = rewritten \ {l} /\ l \in removed'[r]
    BY <2>1 DEF Unlinks, DeleteCoverObject, Becomes
  <2> QED
    BY <2>2 DEF TypeOK
<1>5. CASE DeleteAvatar(r) \/ \E a \in App : DeleteFiles(r, a)
  BY <1>5 DEF DeleteAvatar, DeleteFiles, blame
<1> QED
  BY <1>1, <1>2, <1>3, <1>4, <1>5 DEF Acts

\* The rows whose objects r has deleted go with the commit of r, but for those
\* that were made meanwhile.
LEMMA TakesAlong ==
    ASSUME TypeOK, AllPlaced, Rows, Twinned, NEW r \in Request, Relies(r),
           PlainCommit(r) \/ ConfirmsCover(r) \/ Takes(r),
           NEW c \in covers, c \in covers', c.key \in removed[r]
    PROVE  c.key \in twins \/ Unseen(r, c.key)
<1>0. Placed(pc[r], held[r], removed[r])
  BY DEF AllPlaced
<1>1. CASE PlainCommit(r) \/ ConfirmsCover(r)
  <2>1. pc[r] \in {"new", "insert"}
    BY <1>1 DEF PlainCommit, CreateApp, Purchase, CreateDiscussion, DeleteDiscussion,
                ConfirmsCover, Committed, Step
  <2>2. removed[r] = {}
    BY <1>0, <2>1 DEF Placed, Confirming
  <2> QED
    BY <2>2
<1>2. CASE DeleteCoverCommit(r)
  <2>1. pc[r] = "delete" /\ covers' = covers \ held[r].gone
    BY <1>2 DEF DeleteCoverCommit, SetCovers
  <2>2. PICK d \in Cover : held[r].gone = {d} /\ removed[r] = {d.key}
    BY <1>0, <2>1 DEF Placed, Uncovering
  <2>3. c # d /\ c.key = d.key
    BY <2>1, <2>2
  <2>4. d \in covers \/ d.key \in twins \/ Unseen(r, d.key)
    BY <2>1, <2>2, <2>3 DEF Relies, Uncovers, Uncovering
  <2>5. d \in covers => d.key \in twins
    BY <2>3 DEF Twinned
  <2> QED
    BY <2>3, <2>4, <2>5
<1>3. CASE CommitDeletion(r)
  <2>1. /\ pc[r] \in {"next", "commit"}
        /\ \/ Doomed(r) = held[r].doomed
           \/ Doomed(r) = Live
    BY <1>3, ReadyToCommit
  <2>2. c.app \notin Doomed(r) /\ c.app \in Live
    BY <1>3 DEF CommitDeletion, SetCovers, Rows
  <2> QED
    BY <2>1, <2>2 DEF Relies, Sweeps, Sweeping
<1> QED
  BY <1>1, <1>2, <1>3 DEF Takes

LEMMA MissingNext ==
    ASSUME TypeOK, AllPlaced, Rows, Twinned, Missing, NEW r \in Request, Relies(r),
           Acts(r)
    PROVE  Missing'
<1> SUFFICES ASSUME NEW c \in covers', object'[c.key] = None
             PROVE  \/ c.key \in spoiled' \cup twins'
                    \/ /\ remover'[c.key] # None
                       /\ \/ c.key \in removed'[remover'[c.key]]
                          \/ Overlap(remover[c.key], maker[c.key])'
  BY DEF Missing
<1>0. /\ \A q \in Id : missed[q] \subseteq missed'[q]
      /\ \A q, s \in Id : Overlap(q, s) => Overlap(q, s)'
      /\ Request \subseteq Id /\ None \notin Id
      /\ \A k \in Key : maker[k] \in Id
      /\ \A k \in Key : remover[k] # None => remover[k] \in Request
  BY MissedGrows, CatalogueAssumption DEF Id, TypeOK
<1>1. CASE ~ PlainCommit(r) /\ ~ ConfirmsCover(r) /\ ~ Takes(r)
  <2>1. /\ UNCHANGED <<covers, twins, maker>> /\ spoiled \subseteq spoiled'
        /\ \A x \in removed[r] : x \in removed'[r] \/ x \in spoiled'
        /\ \A q \in Request \ {r} : removed'[q] = removed[q]
    BY <1>1, RowsAlone, StaysAll DEF rows, Stays
  <2>2. c \in covers /\ c.key \in Key
    BY <2>1 DEF TypeOK, Cover
  <2> DEFINE k == c.key
             q == remover[k]
  <2>3. CASE object'[k] = object[k] /\ remover'[k] = q
    <3>1. \/ k \in spoiled \cup twins
          \/ q \in Request /\ (k \in removed[q] \/ Overlap(q, maker[k]))
      BY <1>0, <2>2, <2>3 DEF Missing
    <3>2. CASE q \in Request /\ k \in removed[q]
      BY <1>0, <2>1, <2>3, <3>2, CatalogueAssumption
    <3>3. CASE q \in Request /\ Overlap(q, maker[k])
      <4>1. PICK m \in Id, s \in Id : m = maker[k] /\ s = q
        BY <1>0, <2>2, <3>3
      <4>2. Overlap(s, m)'
        BY <1>0, <3>3, <4>1
      <4>3. maker'[k] = m /\ remover'[k] = s
        BY <2>1, <2>3, <4>1
      <4>4. Overlap(remover[k], maker[k])'
        BY <4>2, <4>3 DEF Overlap
      <4> QED
        BY <1>0, <4>1, <4>3, <4>4
    <3> QED
      BY <2>1, <3>1, <3>2, <3>3
  <2>4. CASE remover'[k] = r /\ k \in removed'[r]
    BY <2>4, CatalogueAssumption
  <2> QED
    BY <1>1, <2>2, <2>3, <2>4, ObjectAlone
<1>2. CASE PlainCommit(r) \/ ConfirmsCover(r) \/ Takes(r)
  <2>1. /\ UNCHANGED <<object, spoiled, remover>>
        /\ \A q \in Request \ {r} : removed'[q] = removed[q]
    BY <1>2, CommitAlone, StaysAll DEF store, Stays
  <2>2. ASSUME c \in covers, maker'[c.key] = maker[c.key], twins \subseteq twins'
        PROVE  \/ c.key \in spoiled' \cup twins'
               \/ /\ remover'[c.key] # None
                  /\ \/ c.key \in removed'[remover'[c.key]]
                     \/ Overlap(remover[c.key], maker[c.key])'
    <3>0. c.key \in Key
      BY <2>2 DEF TypeOK, Cover
    <3> DEFINE k == c.key
               q == remover[k]
    <3>1. \/ k \in spoiled \cup twins
          \/ q \in Request /\ (k \in removed[q] \/ Overlap(q, maker[k]))
      BY <1>0, <2>1, <2>2, <3>0 DEF Missing
    <3>2. CASE q \in Request \ {r} /\ k \in removed[q]
      BY <2>1, <3>2, CatalogueAssumption
    <3>3. ASSUME q \in Request, Overlap(q, maker[k])
          PROVE  remover'[k] # None /\ Overlap(remover[k], maker[k])'
      <4>1. PICK m \in Id, s \in Id : m = maker[k] /\ s = q
        BY <1>0, <3>0, <3>3
      <4>2. Overlap(s, m)'
        BY <1>0, <3>3, <4>1
      <4>3. maker'[k] = m /\ remover'[k] = s
        BY <2>1, <2>2, <4>1
      <4> QED
        BY <1>0, <4>1, <4>2, <4>3 DEF Overlap
    <3>4. CASE q = r /\ k \in removed[q]
      <4>1. k \in twins \/ Unseen(r, k)
        BY <1>2, <2>2, <3>4, TakesAlong
      <4>2. k \in twins \/ Overlap(q, maker[k])
        BY <3>4, <4>1 DEF Unseen, Overlap
      <4> QED
        BY <2>2, <4>2, <3>3, <3>4
    <3> QED
      BY <2>1, <2>2, <3>1, <3>2, <3>3, <3>4
  <2>3. CASE PlainCommit(r)
    <3>1. UNCHANGED <<covers, maker, twins>>
      BY <2>3 DEF PlainCommit, CreateApp, Purchase, CreateDiscussion,
                  DeleteDiscussion, KeepCovers
    <3> QED
      BY <2>2, <3>1
  <2>4. CASE Takes(r)
    <3>1. covers' \subseteq covers /\ UNCHANGED <<maker, twins>>
      BY <2>4 DEF Takes, DeleteCoverCommit, CommitDeletion, SetCovers
    <3> QED
      BY <2>2, <3>1
  <2>5. CASE ConfirmsCover(r)
    <3>1. PICK k \in held[r].keys : pc[r] = "insert" /\ Inserts(r, k)
      BY <2>5, Inserting
    <3>2. k \in Key /\ maker'[k] = r /\ \A l \in Key \ {k} : maker'[l] = maker[l]
      BY <3>1 DEF Inserts, TypeOK
    <3>3. CASE c \in covers /\ c.key # k
      <4>1. c.key \in Key /\ twins \subseteq twins'
        BY <3>1, <3>3 DEF TypeOK, Cover, Inserts
      <4> QED
        BY <2>2, <3>2, <3>3, <4>1
    <3>4. CASE c \in covers /\ c.key = k
      BY <3>1, <3>4 DEF Inserts
    <3>5. CASE c \notin covers
      <4>1. c.key = k
        BY <3>1, <3>5 DEF Inserts
      <4>2. remover[k] \in missed[r]
        BY <2>1, <3>1, <4>1 DEF Relies, Confirms
      <4>3. r \in Id /\ missed[r] \subseteq Request
        BY <1>0 DEF TypeOK
      <4>4. remover'[k] # None /\ remover'[k] \in missed'[r]
        BY <1>0, <2>1, <4>2, <4>3
      <4> QED
        BY <3>2, <4>1, <4>4 DEF Overlap
    <3> QED
      BY <3>3, <3>4, <3>5
  <2> QED
    BY <1>2, <2>3, <2>4, <2>5
<1> QED
  BY <1>1, <1>2

\* Who takes the last row with a key away has deleted the object under it.
LEMMA TakerDeleted ==
    ASSUME TypeOK, AllPlaced, Rows, NEW r \in Request, Relies(r), Takes(r),
           NEW c \in covers, c \notin covers'
    PROVE  c.key \in removed[r] \/ Unseen(r, c.key)
<1>0. Placed(pc[r], held[r], removed[r]) /\ c \in Cover /\ c.app \in Live
  BY DEF AllPlaced, TypeOK, Rows
<1>1. CASE DeleteCoverCommit(r)
  <2>1. pc[r] = "delete" /\ covers' = covers \ held[r].gone
    BY <1>1 DEF DeleteCoverCommit, SetCovers
  <2>2. c \in held[r].gone
    BY <2>1
  <2> QED
    BY <1>0, <2>1, <2>2 DEF Placed, Uncovering
<1>2. CASE CommitDeletion(r)
  <2>1. /\ pc[r] \in {"next", "commit"} /\ held[r].keys = {}
        /\ \/ held[r].kind = "app" /\ Doomed(r) = held[r].doomed
           \/ held[r].kind = "user" /\ held[r].todo = {}
        /\ \A d \in held[r].gone : d.app \in held[r].doomed
    BY <1>2, ReadyToCommit
  <2>2. c.app \in Doomed(r) \/ c \in held[r].gone
    BY <1>2 DEF CommitDeletion, SetCovers
  <2>3. /\ c.app \in held[r].doomed =>
              c.key \in held[r].keys \cup removed[r] \/ Unseen(r, c.key)
        /\ held[r].kind = "user" =>
              c.app \in held[r].todo \cup held[r].doomed \/ Unseen(r, c.key)
    BY <2>1 DEF Relies, Sweeps, Sweeping
  <2> QED
    BY <2>1, <2>2, <2>3
<1> QED
  BY <1>1, <1>2 DEF Takes

LEMMA OrphanedNext ==
    ASSUME TypeOK, AllPlaced, Rows, Orphaned, NEW r \in Request, Relies(r), Acts(r)
    PROVE  Orphaned'
<1> SUFFICES ASSUME NEW k \in Key, object'[k] # None, breaker'[k] # None
             PROVE  k \in rewritten' \/ Overlap(breaker[k], maker[k])'
  BY DEF Orphaned
<1>0. /\ \A q, s \in Id : Overlap(q, s) => Overlap(q, s)'
      /\ Request \subseteq Id /\ None \notin Id
      /\ maker[k] \in Id /\ (breaker[k] # None => breaker[k] \in Request)
  BY MissedGrows, CatalogueAssumption DEF Id, TypeOK
<1>1. ASSUME breaker'[k] = breaker[k], maker'[k] = maker[k], object[k] # None,
             k \in rewritten => k \in rewritten'
      PROVE  k \in rewritten' \/ Overlap(breaker[k], maker[k])'
  <2>1. k \in rewritten \/ Overlap(breaker[k], maker[k])
    BY <1>1 DEF Orphaned
  <2>2. CASE Overlap(breaker[k], maker[k])
    <3>1. PICK m \in Id, s \in Id : m = maker[k] /\ s = breaker[k]
      BY <1>0, <1>1
    <3>2. Overlap(s, m)'
      BY <1>0, <2>2, <3>1
    <3> QED
      BY <1>1, <3>1, <3>2 DEF Overlap
  <2> QED
    BY <1>1, <2>1, <2>2
<1>2. CASE ~ PlainCommit(r) /\ ~ ConfirmsCover(r) /\ ~ Takes(r)
  <2>1. UNCHANGED <<maker, breaker>>
    BY <1>2, RowsAlone
  <2> QED
    BY <1>1, <1>2, <2>1, ObjectAlone
<1>3. CASE PlainCommit(r)
  <2>1. UNCHANGED <<maker, breaker, object, rewritten>>
    BY <1>3, CommitAlone DEF PlainCommit, CreateApp, Purchase, CreateDiscussion,
                             DeleteDiscussion, KeepCovers, store
  <2> QED
    BY <1>1, <2>1
<1>4. CASE ConfirmsCover(r)
  <2>1. PICK l \in held[r].keys : Inserts(r, l)
    BY <1>4, Inserting
  <2>2. object' = object
    BY <1>4, CommitAlone DEF store
  <2>3. k # l
    <3> DEFINE row == [id |-> r, app |-> held[r].at, key |-> l]
    <3>1. row \in covers' /\ row.key = l
      BY <2>1 DEF Inserts
    <3>2. breaker'[l] = None
      BY <2>1, <3>1 DEF Inserts
    <3> QED
      BY <3>2
  <2>4. /\ breaker'[k] = breaker[k] /\ maker'[k] = maker[k]
        /\ k \in rewritten => k \in rewritten'
    BY <2>1, <2>3 DEF Inserts, TypeOK
  <2> QED
    BY <1>1, <2>2, <2>4
<1>5. CASE Takes(r)
  <2>1. /\ UNCHANGED <<maker, rewritten, object>> /\ missed'[r] = missed[r]
    BY <1>5, CommitAlone DEF Takes, DeleteCoverCommit, CommitDeletion, store
  <2>2. breaker' = [l \in Key |-> IF \E c \in covers' : c.key = l THEN None
                                  ELSE IF \E c \in covers : c.key = l THEN r
                                  ELSE breaker[l]]
    BY <1>5 DEF Takes, DeleteCoverCommit, CommitDeletion, SetCovers
  <2>3. \/ breaker'[k] = breaker[k]
        \/ breaker'[k] = r /\ \E c \in covers : c.key = k /\ c \notin covers'
    BY <2>2
  <2>4. ASSUME NEW c \in covers, c.key = k, c \notin covers', breaker'[k] = r
        PROVE  k \in rewritten' \/ Overlap(breaker[k], maker[k])'
    <3>1. k \in removed[r] \/ Unseen(r, k)
      BY <1>5, <2>4, TakerDeleted
    <3>2. k \in rewritten \/ Unseen(r, k)
      BY <2>1, <3>1 DEF Relies, Removes
    <3> QED
      BY <2>1, <2>4, <3>2 DEF Unseen, Overlap
  <2> QED
    BY <1>1, <2>1, <2>3, <2>4
<1> QED
  BY <1>2, <1>3, <1>4, <1>5

-----------------------------------------------------------------------------
(* The theorems. *)

CatalogueInv ==
    /\ TypeOK /\ Bounded /\ AllPlaced
    /\ \A r \in Request : Relies(r)
    /\ Rows /\ Files /\ Twinned /\ Missing /\ Orphaned

LEMMA InvInit ==
    ASSUME Init
    PROVE  CatalogueInv
<1> USE CatalogueAssumption
<1>0. \/ covers = {}
      \/ \E a \in First, k \in Key : covers = {[id |-> Seed, app |-> a, key |-> k]}
  BY DEF Init
<1>1. TypeOK
  <2>1. covers \subseteq Cover
    BY <1>0 DEF Cover, Id
  <2>2. purchases \in [App -> 0..Cardinality(Request) + 1]
    BY Counts DEF Init
  <2> QED
    BY <2>1, <2>2, Counts DEF Init, TypeOK, Stage, Id
<1>2. Bounded
  <2>1. Answered = {}
    BY DEF Init, Answered
  <2> QED
    BY <2>1, FS_EmptySet DEF Init, Bounded
<1>3. AllPlaced
  BY DEF Init, AllPlaced, Placed, Idle, Confirming, Uncovering, Sweeping
<1>4. \A r \in Request : Relies(r)
  BY DEF Init, Relies, Confirms, Removes, Uncovers, Uncovering, Sweeps, Sweeping,
         Clears, Idle
<1>5. Live = First
  BY DEF Init, Live
<1>6. Rows /\ Files
  BY <1>0, <1>5 DEF Init, Rows, Files
<1>7. Twinned
  BY <1>0 DEF Twinned
<1>8. Missing /\ Orphaned
  BY DEF Init, Missing, Orphaned
<1> QED
  BY <1>1, <1>2, <1>3, <1>4, <1>6, <1>7, <1>8 DEF CatalogueInv

LEMMA InvNext ==
    ASSUME CatalogueInv, [Next]_vars
    PROVE  CatalogueInv'
<1> USE DEF CatalogueInv
<1>1. TypeOK' /\ Bounded' /\ AllPlaced'
  BY TypeNext, PlacedNext
<1>2. \A r \in Request : Relies(r)'
  BY ReliesNext
<1>3. ASSUME NEW r \in Request, Acts(r)
      PROVE  Rows' /\ Files' /\ Twinned' /\ Missing' /\ Orphaned'
  BY <1>1, <1>3, RowsNext, FilesNext, TwinnedNext, MissingNext, OrphanedNext
<1>4. CASE UNCHANGED vars
  <2>1. UNCHANGED <<account, app, covers, discussions, files, object, removed,
                    spoiled, twins, remover, maker, breaker, rewritten, missed, Live>>
    BY <1>4 DEF vars, rows, store, blame, history, Live
  <2>2. Rows' /\ Twinned'
    BY <2>1 DEF Rows, Twinned
  <2>3. \A x \in File : Half(x) => Half(x)'
    BY <2>1 DEF Half
  <2>4. Files'
    <3>1. First \subseteq File /\ Avatar \in File
      BY CatalogueAssumption DEF File
    <3> QED
      BY <2>1, <2>3, <3>1 DEF Files
  <2>5. Missing' /\ Orphaned'
    BY <2>1 DEF Missing, Orphaned, Overlap
  <2> QED
    BY <1>1, <1>2, <2>2, <2>4, <2>5
<1> QED
  BY <1>1, <1>2, <1>3, <1>4, StepCases

LEMMA CatalogueInvariant == Spec => []CatalogueInv
<1>1. Init => CatalogueInv
  BY InvInit
<1>2. CatalogueInv /\ [Next]_vars => CatalogueInv'
  BY InvNext
<1> QED
  BY <1>1, <1>2, PTL DEF Spec

\* Every variable of the catalogue keeps its type; an app has no more purchases
\* than there were requests to buy it.
THEOREM CatalogueTypeCorrect == Spec => []TypeOK
<1>1. CatalogueInv => TypeOK
  BY DEF CatalogueInv
<1> QED
  BY <1>1, CatalogueInvariant, PTL

\* What the foreign keys and the order "MinIO first, commit last" give: a row
\* refers to rows that exist, and its file is there but for a deletion that is
\* under way or did not commit, for any apps, covers and requests.
THEOREM RowsNameTheirObjects == Spec => []RowsNameObjects
<1>1. CatalogueInv => RowsNameObjects
  <2> SUFFICES ASSUME CatalogueInv
               PROVE  RowsNameObjects
    OBVIOUS
  <2>1. ASSUME NEW c \in covers
        PROVE  \/ object[c.key] # None \/ Half(c.key) \/ c.key \in twins
               \/ /\ remover[c.key] # None
                  /\ Overlap(remover[c.key], maker[c.key])
    <3>1. c.key \in Key
      BY DEF CatalogueInv, TypeOK, Cover
    <3>2. remover[c.key] # None => remover[c.key] \in Request
      BY <3>1 DEF CatalogueInv, TypeOK
    <3> QED
      BY <3>2 DEF CatalogueInv, Missing, Half
  <2> QED
    BY <2>1 DEF CatalogueInv, Rows, Files, RowsNameObjects
<1> QED
  BY <1>1, CatalogueInvariant, PTL

\* What a committed deletion takes from the database it has taken from MinIO,
\* unless it was written anew or confirmed while the deletion went on.
THEOREM NoFileIsOrphaned == Spec => []NoOrphans
<1>1. CatalogueInv => NoOrphans
  BY DEF CatalogueInv, Files, Orphaned, NoOrphans
<1> QED
  BY <1>1, CatalogueInvariant, PTL
=============================================================================
