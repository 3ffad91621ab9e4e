----------------------------- MODULE Catalogue ------------------------------
(***************************************************************************)
(* What belongs to a publisher and how it goes: his account with its       *)
(* avatar, his apps with their files and covers, and the discussions and   *)
(* purchases that refer to them (services/app_service.py,                  *)
(* media_service.py, discussion_service.py, user_service.py; the foreign   *)
(* keys of models/).                                                       *)
(*                                                                         *)
(* A deletion removes the objects from MinIO first and commits last.  The  *)
(* commit is refused if a row still refers to what goes: discussions have  *)
(* no ON DELETE CASCADE, and of the purchases the session deletes those it *)
(* has loaded.  Covers, cart items and reviews go by cascade.              *)
(*                                                                         *)
(* A request that reads before its commit only what the foreign keys check *)
(* again is one step.  Archive and icon of an app are one object here,     *)
(* present from the start (module Uploads shows how they get there); apps  *)
(* created later have covers only.                                         *)
(*                                                                         *)
(* removed and what follows it are history variables.                      *)
(***************************************************************************)
EXTENDS Naturals, FiniteSets

CONSTANTS App,       \* apps the publisher ever has
          First,     \* those he has from the start
          Key,       \* keys of covers, drawn by presign_cover_upload
          Request,   \* every request and PUT ever sent
          Avatar, Seed, None

ASSUME CatalogueAssumption ==
    /\ First \subseteq App
    /\ Avatar \notin App \cup Key
    /\ App \cap Key = {}
    /\ Seed \notin Request
    /\ None \notin App \cup Key \cup Request \cup {Seed, "small", "large"}
    /\ IsFiniteSet(Request)

Id == Request \cup {Seed}
Cover == [id : Id, app : App, key : Key]
Discussion == [app : App, by : {"publisher", "other"}, id : Request]

VARIABLES account,      \* the publisher's row in users exists
          app,          \* app[a]: "unborn", "live" or "gone" from apps
          purchases,    \* purchases[a]: number of rows in purchases
          covers,       \* rows in app_covers
          discussions,  \* rows in discussions
          files,        \* apps whose archive and icon are in MinIO, the avatar
          object,       \* object[k]: what MinIO has under a cover's key
          pc,           \* pc[r]: the await request r stands at
          held,         \* held[r]: what r's session and locals hold
          removed,      \* removed[r]: objects r has deleted while open
          spoiled,      \* objects deleted by requests that did not commit
          twins,        \* keys that had two rows in app_covers
          remover,      \* remover[k]: who deleted the object under k last
          maker,        \* maker[k]: who inserted a row for k last
          breaker,      \* breaker[k]: who took the last row of k away
          rewritten,    \* keys written to after either of these
          missed        \* missed[r]: who changed anything while r was open

rows == <<account, app, purchases, covers, discussions>>
store == <<files, object>>
blame == <<spoiled, twins, remover, maker, breaker, rewritten>>
history == <<removed, blame, missed>>
vars == <<rows, store, pc, held, history>>

\* kind: the request; todo: apps not begun; doomed: apps begun, with the number
\* of purchases loaded; at: the one at hand; keys: of its covers, not deleted;
\* gone: cover rows deleted in the transaction; own: discussions loaded.
Locals == [kind : {"none", "app", "user", "confirm", "cover"},
           todo : SUBSET App, doomed : SUBSET App,
           bought : [App -> 0..Cardinality(Request) + 1], at : App \cup {None},
           keys : SUBSET Key, gone : SUBSET Cover, own : SUBSET Discussion]

Idle == [kind |-> "none", todo |-> {}, doomed |-> {},
         bought |-> [a \in App |-> 0], at |-> None,
         keys |-> {}, gone |-> {}, own |-> {}]

\* One purchase of the first apps; at most one cover, any uploads.
Init ==
    /\ account = TRUE
    /\ app = [a \in App |-> IF a \in First THEN "live" ELSE "unborn"]
    /\ purchases = [a \in App |-> IF a \in First THEN 1 ELSE 0]
    /\ covers \in {{}} \cup {{[id |-> Seed, app |-> a, key |-> k]} :
                               a \in First, k \in Key}
    /\ discussions = {}
    /\ files = First \cup {Avatar}
    /\ object \in [Key -> {"small", "large", None}]
    /\ \A c \in covers : object[c.key] = "small"
    /\ pc = [r \in Request |-> "new"]
    /\ held = [r \in Request |-> Idle]
    /\ removed = [r \in Request |-> {}]
    /\ spoiled = {} /\ twins = {} /\ rewritten = {}
    /\ remover = [k \in Key |-> None]
    /\ maker = [k \in Key |-> Seed]
    /\ breaker = [k \in Key |-> None]
    /\ missed = [r \in Id |-> {}]

Live == {a \in App : app[a] = "live"}

Open(r) == pc[r] \notin {"new", "done"}

Step(r, from, to) == pc[r] = from /\ pc' = [pc EXCEPT ![r] = to]

\* r has changed something under the requests that are open.
Overtakes(r) ==
    missed' = [q \in Id |-> IF q \in Request \ {r} /\ Open(q)
                            THEN missed[q] \cup {r} ELSE missed[q]]

\* r reads and holds h.
Hold(r, from, to, h) ==
    /\ Step(r, from, to)
    /\ held' = [held EXCEPT ![r] = h]
    /\ UNCHANGED <<rows, store, history>>

\* r is answered without a commit; what it has deleted from MinIO stays deleted.
Refuse(r, from) ==
    /\ Step(r, from, "done")
    /\ held' = [held EXCEPT ![r] = Idle]
    /\ spoiled' = spoiled \cup removed[r]
    /\ removed' = [removed EXCEPT ![r] = {}]
    /\ UNCHANGED <<rows, store, twins, remover, maker, breaker, rewritten,
                   missed>>

\* r is answered after its commit.
Committed(r, from) ==
    /\ Step(r, from, "done")
    /\ held' = [held EXCEPT ![r] = Idle]
    /\ removed' = [removed EXCEPT ![r] = {}]
    /\ Overtakes(r)
    /\ UNCHANGED <<store, spoiled, remover>>

\* The rows of app_covers become C by the commit of r.
SetCovers(r, C) ==
    LET With(D) == {c.key : c \in D} IN
    /\ covers' = C
    /\ breaker' = [k \in Key |-> IF k \in With(C) THEN None
                                 ELSE IF k \in With(covers) THEN r
                                 ELSE breaker[k]]

KeepCovers == UNCHANGED <<covers, twins, maker, breaker, rewritten>>

-----------------------------------------------------------------------------
(* Requests of one commit. *)

\* publisher_id references users.
CreateApp(r, a) ==
    /\ account /\ app[a] = "unborn"
    /\ Committed(r, "new")
    /\ app' = [app EXCEPT ![a] = "live"]
    /\ KeepCovers /\ UNCHANGED <<account, purchases, discussions>>

\* app_id references apps, creator_id users, neither with a cascade.
CreateDiscussion(r, a, by) ==
    /\ a \in Live /\ (by = "publisher" => account)
    /\ Committed(r, "new")
    /\ discussions' = discussions \cup {[app |-> a, by |-> by, id |-> r]}
    /\ KeepCovers /\ UNCHANGED <<account, app, purchases>>

DeleteDiscussion(r, d) ==
    /\ d \in discussions
    /\ Committed(r, "new")
    /\ discussions' = discussions \ {d}
    /\ KeepCovers /\ UNCHANGED <<account, app, purchases>>

\* Mutant: a checkout that finds its rows in the way inserts them again.
PurchaseTwice(r, a) ==
    /\ a \in Live
    /\ Committed(r, "new")
    /\ purchases' = [purchases EXCEPT ![a] = @ + 2]
    /\ KeepCovers /\ UNCHANGED <<account, app, discussions>>

\* The row of a checkout (module Wallet).
Purchase(r, a) ==
    /\ a \in Live
    /\ Committed(r, "new")
    /\ purchases' = [purchases EXCEPT ![a] = @ + 1]
    /\ KeepCovers /\ UNCHANGED <<account, app, discussions>>

\* PUT to a presigned URL.
PutObject(r, k, size) ==
    /\ Step(r, "new", "done")
    /\ object' = [object EXCEPT ![k] = size]
    /\ rewritten' = IF breaker[k] = None /\ remover[k] = None THEN rewritten
                    ELSE rewritten \cup {k}
    /\ Overtakes(r)
    /\ UNCHANGED <<rows, files, held, removed, spoiled, twins, remover, maker,
                   breaker>>

-----------------------------------------------------------------------------
(* Covers. *)

\* DELETE of the object under k; r holds h from then on.
DeleteCoverObject(r, k, from, to, h) ==
    /\ Step(r, from, to)
    /\ held' = [held EXCEPT ![r] = h]
    /\ object' = [object EXCEPT ![k] = None]
    /\ removed' = [removed EXCEPT ![r] = @ \cup {k}]
    /\ remover' = [remover EXCEPT ![k] = r]
    /\ rewritten' = rewritten \ {k}
    /\ Overtakes(r)
    /\ UNCHANGED <<rows, files, spoiled, twins, maker, breaker>>

\* object_size: 404 if there is none.  Which app the key was drawn for is not
\* looked at.
ConfirmCoverSize(r, a, k) ==
    /\ a \in Live /\ object[k] # None
    /\ Hold(r, "new", IF object[k] = "large" THEN "too_large" ELSE "select",
            [Idle EXCEPT !.kind = "confirm", !.at = a, !.keys = {k}])

\* Deleted even if a cover has this key; 413.
ConfirmCoverTooLarge(r) ==
    \E k \in held[r].keys :
        DeleteCoverObject(r, k, "too_large", "refuse", held[r])

\* get_cover_by_object_key: any row refuses, two raise.
ConfirmCoverSelect(r) ==
    \/ /\ \A c \in covers : c.key \notin held[r].keys
       /\ Hold(r, "select", "insert", held[r])
    \/ /\ \E c \in covers : c.key \in held[r].keys
       /\ Refuse(r, "select")
    \/ Refuse(r, "refuse")

\* app_id references apps; object_key is not unique.
ConfirmCoverCommit(r) ==
    \/ /\ held[r].at \in Live
       /\ Committed(r, "insert")
       /\ \E k \in held[r].keys :
             /\ SetCovers(r, covers \cup
                               {[id |-> r, app |-> held[r].at, key |-> k]})
             /\ maker' = [maker EXCEPT ![k] = r]
             /\ rewritten' = rewritten \ {k}
             /\ twins' = IF \E c \in covers : c.key = k THEN twins \cup {k}
                                                        ELSE twins
       /\ UNCHANGED <<account, app, purchases, discussions>>
    \/ held[r].at \notin Live /\ Refuse(r, "insert")

\* Rows another transaction has deleted but not committed are locked.
Locked(r, C) == \E q \in Request \ {r} : Open(q) /\ held[q].kind # "cover"
                                         /\ held[q].gone \cap C # {}

DeleteCoverLoad(r, c) ==
    /\ c \in covers
    /\ Hold(r, "new", "object", [Idle EXCEPT !.kind = "cover", !.gone = {c}])

DeleteCoverUnlink(r) ==
    \E c \in held[r].gone :
        DeleteCoverObject(r, c.key, "object", "delete", held[r])

\* A row that is gone by then costs a warning.
DeleteCoverCommit(r) ==
    /\ pc[r] = "delete" /\ ~Locked(r, held[r].gone)
    /\ Committed(r, "delete")
    /\ SetCovers(r, covers \ held[r].gone)
    /\ UNCHANGED <<account, app, purchases, discussions, twins, maker, rewritten>>

-----------------------------------------------------------------------------
(* delete_app, delete_user with delete_publisher_apps. *)

\* get_app with the purchasers.
DeleteAppLoad(r, a) ==
    /\ a \in Live
    /\ Hold(r, "new", "next", [Idle EXCEPT !.kind = "app", !.todo = {a},
                                           !.bought = purchases])

\* Mutant: get_publisher_apps keeps its filter on public apps.
DeleteUserLoadPublic(r) ==
    /\ account
    /\ \E A \in SUBSET Live :
         Hold(r, "new", "next", [Idle EXCEPT !.kind = "user", !.todo = A,
                                             !.bought = purchases])

\* get_publisher_apps, public or not, all of them.
DeleteUserLoad(r) ==
    /\ account
    /\ Hold(r, "new", "next", [Idle EXCEPT !.kind = "user", !.todo = Live,
                                           !.bought = purchases])

\* delete_app_with_its_files: archive and icon go, the covers are listed.
DeleteFiles(r, a) ==
    /\ Step(r, "next", "bulk") /\ a \in held[r].todo
    /\ files' = files \ {a}
    /\ removed' = [removed EXCEPT ![r] = @ \cup {a}]
    /\ held' = [held EXCEPT ![r] =
                   [held[r] EXCEPT !.todo = @ \ {a}, !.at = a, !.doomed = @ \cup {a},
                       !.keys = {c.key : c \in {d \in covers : d.app = a}}]]
    /\ Overtakes(r)
    /\ UNCHANGED <<rows, object, blame>>

\* delete_app_covers: one DELETE in the transaction, whatever was listed.
DeleteAppCovers(r) ==
    LET C == {c \in covers : c.app = held[r].at} IN
    /\ ~Locked(r, C)
    /\ Hold(r, "bulk", IF held[r].keys = {} THEN "next" ELSE "unlink",
            [held[r] EXCEPT !.gone = @ \cup C])

DeleteAppCoverObject(r, k) ==
    LET left == held[r].keys \ {k} IN
    /\ k \in held[r].keys
    /\ DeleteCoverObject(r, k, "unlink", IF left = {} THEN "next" ELSE "unlink",
                         [held[r] EXCEPT !.keys = left])

\* uow.delete(user) loads his discussions; then the avatar goes.
DeleteAvatar(r) ==
    /\ held[r].kind = "user" /\ held[r].todo = {}
    /\ Step(r, "next", "commit")
    /\ files' = files \ {Avatar}
    /\ removed' = [removed EXCEPT ![r] = @ \cup {Avatar}]
    /\ held' = [held EXCEPT ![r].own = {d \in discussions : d.by = "publisher"}]
    /\ Overtakes(r)
    /\ UNCHANGED <<rows, object, blame>>

Ready(r) == \/ pc[r] = "commit"
            \/ pc[r] = "next" /\ held[r].kind = "app" /\ held[r].todo = {}

\* What goes by the commit: the account takes apps created since along.
Doomed(r) == IF held[r].kind = "user" THEN Live ELSE held[r].doomed

\* Nothing refers to what goes but what goes with it, and each purchase that was
\* loaded is there to delete.
Deletable(r) ==
    /\ \A d \in discussions \ held[r].own :
          d.app \notin Doomed(r) /\ (held[r].kind = "user" => d.by # "publisher")
    /\ \A a \in held[r].doomed : purchases[a] = held[r].bought[a]
    /\ \A a \in Doomed(r) \ held[r].doomed : purchases[a] = 0

\* Mutant: the transaction is committed app by app, the account not at all.
CommitAppsOnly(r) ==
    /\ Ready(r) /\ Deletable(r)
    /\ Committed(r, pc[r])
    /\ app' = [a \in App |-> IF a \in held[r].doomed THEN "gone" ELSE app[a]]
    /\ account' = account
    /\ SetCovers(r, {c \in covers : c.app \notin held[r].doomed})
    /\ purchases' = [a \in App |-> IF a \in held[r].doomed THEN 0
                                                           ELSE purchases[a]]
    /\ discussions' = discussions \ held[r].own
    /\ UNCHANGED <<twins, maker, rewritten>>

CommitDeletion(r) ==
    /\ Ready(r) /\ Deletable(r)
    /\ Committed(r, pc[r])
    /\ app' = [a \in App |-> IF a \in Doomed(r) THEN "gone" ELSE app[a]]
    /\ account' = (account /\ held[r].kind # "user")
    /\ SetCovers(r, {c \in covers : c.app \notin Doomed(r)} \ held[r].gone)
    /\ purchases' = [a \in App |-> IF a \in Doomed(r) THEN 0 ELSE purchases[a]]
    /\ discussions' = discussions \ held[r].own
    /\ UNCHANGED <<twins, maker, rewritten>>

\* IntegrityError or StaleDataError.  DiscussionDB has no relationship to AppDB:
\* even his own discussions may be deleted after the apps.
CommitRefused(r) ==
    /\ Ready(r)
    /\ ~Deletable(r) \/ \E d \in held[r].own : d \in discussions /\ d.app \in Doomed(r)
    /\ Refuse(r, pc[r])

\* An exception at an await after something was deleted.
Fail(r) ==
    /\ Open(r) /\ removed[r] # {}
    /\ Refuse(r, pc[r])

AtRest == \A r \in Request : ~Open(r)

Done == (\A r \in Request : pc[r] = "done") /\ UNCHANGED vars

Next ==
    \/ \E r \in Request :
          \/ \E a \in App :
                \/ CreateApp(r, a) \/ Purchase(r, a)
                \/ \E by \in {"publisher", "other"} : CreateDiscussion(r, a, by)
                \/ \E k \in Key : ConfirmCoverSize(r, a, k)
                \/ DeleteAppLoad(r, a) \/ DeleteFiles(r, a)
          \/ \E d \in discussions : DeleteDiscussion(r, d)
          \/ \E k \in Key : \/ \E s \in {"small", "large"} : PutObject(r, k, s)
                            \/ DeleteAppCoverObject(r, k)
          \/ \E c \in covers : DeleteCoverLoad(r, c)
          \/ ConfirmCoverTooLarge(r) \/ ConfirmCoverSelect(r)
          \/ ConfirmCoverCommit(r)
          \/ DeleteCoverUnlink(r) \/ DeleteCoverCommit(r)
          \/ DeleteUserLoad(r) \/ DeleteAppCovers(r) \/ DeleteAvatar(r)
          \/ CommitDeletion(r) \/ CommitRefused(r) \/ Fail(r)
    \/ Done

Spec == Init /\ [][Next]_vars

-----------------------------------------------------------------------------
Stage == {"new", "too_large", "refuse", "select", "insert", "object", "delete",
          "next", "bulk", "unlink", "commit", "done"}

\* Every variable has its type; every request buys at most once.
TypeOK ==
    /\ account \in BOOLEAN
    /\ app \in [App -> {"unborn", "live", "gone"}]
    /\ purchases \in [App -> 0..Cardinality(Request) + 1]
    /\ covers \subseteq Cover /\ discussions \subseteq Discussion
    /\ files \subseteq App \cup {Avatar}
    /\ object \in [Key -> {"small", "large", None}]
    /\ pc \in [Request -> Stage] /\ held \in [Request -> Locals]
    /\ removed \in [Request -> SUBSET (App \cup Key \cup {Avatar})]
    /\ spoiled \subseteq App \cup Key \cup {Avatar}
    /\ twins \subseteq Key /\ rewritten \subseteq Key
    /\ remover \in [Key -> Request \cup {None}]
    /\ maker \in [Key -> Id] /\ breaker \in [Key -> Request \cup {None}]
    /\ missed \in [Id -> SUBSET Request]

\* x has been deleted by a request that is open or never committed.
Half(x) == x \in spoiled \/ \E r \in Request : x \in removed[r]

Overlap(q, r) == q \in missed[r] \/ r \in missed[q]

\* The rows of a catalogue refer to rows that exist, and name files that exist:
\* a file is missing only while its deletion is under way or after one that did
\* not commit; for a cover also if two rows had its key, or if it was confirmed
\* while its file was being deleted (app_service.py:277, user_service.py:303).
RowsNameObjects ==
    /\ \A d \in discussions : d.app \in Live /\ (d.by = "publisher" => account)
    /\ \A c \in covers : c.app \in Live
    /\ Live # {} => account
    /\ \A a \in First : a \in Live => a \in files \/ Half(a)
    /\ account => Avatar \in files \/ Half(Avatar)
    /\ \A c \in covers :
          \/ object[c.key] # None \/ Half(c.key) \/ c.key \in twins
          \/ remover[c.key] # None /\ Overlap(remover[c.key], maker[c.key])

\* Once all is at rest a file whose row is gone is gone too, unless it was
\* written anew after one of them went, or confirmed while the row was being
\* deleted.
NoOrphans ==
    AtRest =>
        /\ \A a \in First : a \notin Live => a \notin files
        /\ Avatar \in files => account
        /\ \A k \in Key : object[k] # None /\ breaker[k] # None =>
              k \in rewritten \/ Overlap(breaker[k], maker[k])
=============================================================================
