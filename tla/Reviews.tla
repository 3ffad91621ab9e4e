------------------------------ MODULE Reviews ------------------------------
(***************************************************************************)
(* The reviews of one app and the figures kept beside them in its row,     *)
(* apps.rating and apps.reviews_count (services/review_service.py,         *)
(* repo/review_repo.py).  Apps share nothing here, so one is enough.       *)
(*                                                                         *)
(* The sessions do not flush by themselves: the SELECT of the figures runs *)
(* before the change of the same request reaches the database, and the     *)
(* UPDATE of apps before the INSERT, UPDATE or DELETE of the review.  The  *)
(* UPDATE locks the app's row until the COMMIT, so both are one step.      *)
(*                                                                         *)
(* An account that is deleted (user_service.py) takes its reviews along and *)
(* nobody looks at the figures.                                            *)
(*                                                                         *)
(* missed, wrote, last and behind are history variables.                   *)
(***************************************************************************)
EXTENDS Integers, FiniteSets, FiniteSetsExt

CONSTANTS User,
          Buyer,     \* users who own the app and have not published it
          Stars,     \* the ratings a review can give
          Request,   \* every request ever sent about this app
          Seed       \* id of a review that exists initially

ASSUME ReviewsAssumption ==
    /\ Buyer \subseteq User
    /\ Stars \subseteq 1..5   \* Field(ge=1, le=5), base_models/review.py:7
    /\ Seed \notin Request

\* A review is named after the request that inserted it.
Id == Request \cup {Seed}
Review == [id : Id, author : User, stars : Stars]

VARIABLES reviews,   \* the rows of the app in reviews
          figures,   \* rating and reviews_count in the row of the app
          gone,      \* users who have deleted their account
          pc,        \* pc[r]: the await request r stands at
          user,      \* user[r]: who sent r
          pending,   \* pending[r]: what r will flush, rows removed and added
          selected,  \* selected[r]: the figures r has selected
          missed,    \* missed[r]: requests that committed while r was open
          wrote,     \* wrote[r]: rows r removed or added by its commit
          last,      \* who wrote the figures
          behind     \* accounts deleted since, by the request that did

locals == <<user, pending, selected>>
history == <<missed, wrote, last, behind>>
vars == <<reviews, figures, gone, pc, locals, history>>

Nothing == [out |-> {}, in |-> {}]

\* Mutant: the average of no reviews is NULL.
FiguresUncoalesced(S) ==
    LET n == Cardinality(S)
        sum == MapThenSumSet(LAMBDA v : v.stars, S)
    IN  [count |-> n,
         rating |-> IF n = 0 THEN -1 ELSE (200 * sum + n) \div (2 * n)]

\* coalesce(round(avg(rating), 2), 0) in hundredths, and count(*).
Figures(S) ==
    LET n == Cardinality(S)
        sum == MapThenSumSet(LAMBDA v : v.stars, S)
    IN  [count |-> n,
         rating |-> IF n = 0 THEN 0 ELSE (200 * sum + n) \div (2 * n)]

NoFigures == Figures({})

\* The figures are up to date, or as far behind as the last review left them.
Init ==
    /\ reviews \in {{}} \cup {{[id |-> Seed, author |-> u, stars |-> s]} :
                                 u \in Buyer, s \in Stars}
    /\ figures \in {NoFigures, Figures(reviews)}
    /\ pc = [r \in Request |-> "new"]
    /\ user \in [Request -> User]
    /\ pending = [r \in Request |-> Nothing]
    /\ selected = [r \in Request |-> NoFigures]
    /\ missed = [r \in Id |-> {}]
    /\ wrote = [r \in Id |-> IF r = Seed THEN reviews ELSE {}]
    /\ last = Seed
    /\ gone = {} /\ behind = {}

Goto(r, from, to) == pc[r] = from /\ pc' = [pc EXCEPT ![r] = to]

\* r is answered and its session closed.
Answer(r, from) ==
    /\ Goto(r, from, "done")
    /\ pending' = [pending EXCEPT ![r] = Nothing]
    /\ selected' = [selected EXCEPT ![r] = NoFigures]
    /\ UNCHANGED user

Refuse(r, from) == Answer(r, from) /\ UNCHANGED <<reviews, figures, gone, history>>

\* The session holds the change; nothing has been flushed.
Hold(r, out, in, to) ==
    /\ Goto(r, "new", to)
    /\ pending' = [pending EXCEPT ![r] = [out |-> out, in |-> in]]
    /\ UNCHANGED <<reviews, figures, gone, user, selected, history>>

Open(q) == pc[q] \notin {"new", "done"}

\* The row r has loaded, whatever its stars are by now.
Target(r) == {v \in reviews : \E w \in pending[r].out : v.id = w.id}

\* The COMMIT of r leaves the reviews R.
Commit(r, from, R) ==
    /\ Answer(r, from)
    /\ reviews' = R
    /\ missed' = [q \in Id |-> IF q \in Request \ {r} /\ Open(q)
                               THEN missed[q] \cup {r} ELSE missed[q]]
    /\ wrote' = [wrote EXCEPT ![r] =
                   (reviews \ reviews') \cup (reviews' \ reviews)]

\* The flush comes first.  Only a column that differs from what was loaded is
\* written.
Flush(r, from) ==
    /\ Commit(r, from, IF pending[r].in = pending[r].out THEN reviews
                       ELSE (reviews \ Target(r)) \cup pending[r].in)
    /\ UNCHANGED gone

\* The same after update_app_rating: its UPDATE of apps is committed too.
Write(r, from) ==
    /\ Flush(r, from)
    /\ figures' = selected[r]
    /\ last' = r /\ behind' = {}

-----------------------------------------------------------------------------
\* update_app_rating: the SELECT; what this request has pending is not in it.
SelectFigures(r, from, to) ==
    /\ Goto(r, from, to)
    /\ selected' = [selected EXCEPT ![r] = Figures(reviews)]
    /\ UNCHANGED <<reviews, figures, gone, user, pending, history>>

ReviewsOf(u) == {v \in reviews : v.author = u}

\* Mutant: the review of the same user is not looked for.
CreateCheckNoDuplicate(r, s) ==
    \/ /\ user[r] \in Buyer \ gone
       /\ Hold(r, {}, {[id |-> r, author |-> user[r], stars |-> s]}, "create")
    \/ user[r] \notin Buyer \ gone /\ Refuse(r, "new")

\* create_review up to session.add.  One row refuses with 409, two rows make
\* one_or_none() raise.  A deleted account has taken its purchases along.
CreateCheck(r, s) ==
    \/ /\ user[r] \in Buyer \ gone
       /\ ReviewsOf(user[r]) = {}
       /\ Hold(r, {}, {[id |-> r, author |-> user[r], stars |-> s]}, "create")
    \/ /\ user[r] \in Buyer \ gone => ReviewsOf(user[r]) # {}
       /\ Refuse(r, "new")

CreateSelect(r) == SelectFigures(r, "create", "create_write")

\* author_id references users.
CreateCommit(r) ==
    \/ user[r] \notin gone /\ Write(r, "create_write")
    \/ user[r] \in gone /\ Refuse(r, "create_write")

\* update_review: the review is loaded, checked and changed in memory.
UpdateCheck(r, v, s) ==
    /\ v \in reviews
    /\ \/ v.author # user[r] /\ Refuse(r, "new")
       \/ /\ v.author = user[r]
          /\ Hold(r, {v}, {[v EXCEPT !.stars = s]}, "update")

\* Only another rating makes the figures be selected anew.
UpdateSelect(r) ==
    \/ /\ pending[r].in # pending[r].out
       /\ SelectFigures(r, "update", "update_write")
    \/ /\ pending[r].in = pending[r].out
       /\ Goto(r, "update", "update_text")
       /\ UNCHANGED <<reviews, figures, gone, locals, history>>

\* The flush finds no row: StaleDataError, the UPDATE of apps is rolled back.
UpdateCommit(r) ==
    \/ Target(r) # {} /\ Write(r, "update_write")
    \/ /\ Target(r) # {}
       /\ Flush(r, "update_text")
       /\ UNCHANGED <<figures, last, behind>>
    \/ /\ pc[r] \in {"update_write", "update_text"}
       /\ Target(r) = {}
       /\ Refuse(r, pc[r])

\* delete_review: session.delete only marks the row.
DeleteCheck(r, v) ==
    /\ v \in reviews
    /\ \/ v.author # user[r] /\ Refuse(r, "new")
       \/ v.author = user[r] /\ Hold(r, {v}, {}, "delete")

DeleteSelect(r) == SelectFigures(r, "delete", "delete_write")

\* Mutant: the figures are left to somebody else.
DeleteCommitAlone(r) ==
    /\ Flush(r, "delete_write")
    /\ UNCHANGED <<figures, last, behind>>

\* A row that is gone already is a warning.
DeleteCommit(r) == Write(r, "delete_write")

-----------------------------------------------------------------------------
\* delete_user: the reviews go with the account, by the cascades of UserDB.reviews
\* and of author_id, and the figures stay.
DeleteUser(r) ==
    /\ user[r] \in Buyer \ gone
    /\ Commit(r, "new", reviews \ ReviewsOf(user[r]))
    /\ gone' = gone \cup {user[r]}
    /\ behind' = behind \cup {r}
    /\ UNCHANGED <<figures, last>>

(* The routes of review_router.py that change something. *)

PostReview(r) ==
    \/ \E s \in Stars : CreateCheck(r, s)
    \/ CreateSelect(r) \/ CreateCommit(r)

PatchReview(r) ==
    \/ \E v \in reviews, s \in Stars : UpdateCheck(r, v, s)
    \/ UpdateSelect(r) \/ UpdateCommit(r)

DeleteReview(r) ==
    \/ \E v \in reviews : DeleteCheck(r, v)
    \/ DeleteSelect(r) \/ DeleteCommit(r)

\* A call raises, or the process stops: the session rolls back.
Fail(r) == Open(r) /\ Refuse(r, pc[r])

\* Every request has been answered.
Quiet == (\A r \in Request : pc[r] = "done") /\ UNCHANGED vars

Next ==
    \/ \E r \in Request :
          PostReview(r) \/ PatchReview(r) \/ DeleteReview(r) \/ DeleteUser(r)
          \/ Fail(r)
    \/ Quiet

Spec == Init /\ [][Next]_vars

-----------------------------------------------------------------------------
Stage == {"new", "create", "create_write", "update", "update_write",
          "update_text", "delete", "delete_write", "done"}

\* The constraint rating_range of apps (models/app.py:26): 0 to 5 stars.  Without
\* reviews there is no rating, with reviews it is that of some reader.
Figure == [count : {0}, rating : {0}] \cup [count : Nat \ {0}, rating : 100..500]

\* Every variable has its type: no figures that update_app_rating selects can
\* make its UPDATE fail, neither those shown nor those about to be written.
ReviewsTypeOK ==
    /\ reviews \subseteq Review
    /\ figures \in Figure
    /\ pc \in [Request -> Stage]
    /\ user \in [Request -> User]
    /\ pending \in [Request -> [out : SUBSET Review, in : SUBSET Review]]
    /\ selected \in [Request -> Figure]
    /\ missed \in [Id -> SUBSET Request]
    /\ wrote \in [Id -> SUBSET Review]
    /\ last \in Id
    /\ gone \subseteq Buyer /\ behind \subseteq Request

\* The figures shown with the app are those of the reviews but for the change
\* of the request that wrote them last, for what was committed while that
\* request was open, and for the reviews of accounts deleted since: every change
\* of a review refreshes the figures, only never with itself in them
\* (update_app_rating selects before the flush), and delete_user does not.
FiguresLagOnlyByLastOrDeletion ==
    \E S \in SUBSET UNION {wrote[q] : q \in {last} \cup missed[last] \cup behind} :
        figures = Figures((reviews \ S) \cup (S \ reviews))

\* Two reviews of one user exist only if the request that inserted one was open
\* while the other was committed: the SELECT of user_created_review is all that
\* keeps them apart, the table has no unique constraint.
SecondReviewOnlyByOverlap ==
    \A v, w \in reviews :
        v # w /\ v.author = w.author =>
            v.id \in missed[w.id] \/ w.id \in missed[v.id]
=============================================================================
