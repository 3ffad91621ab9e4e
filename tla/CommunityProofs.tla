-------------------------- MODULE CommunityProofs --------------------------
(***************************************************************************)
(* What users say of apps and to each other: reviews, for any users,       *)
(* ratings and number of requests, and discussions, for any sockets and    *)
(* messages.  What an average is matters to the type of a rating only:     *)
(* everywhere else Figures stays unexpanded.                               *)
(***************************************************************************)
EXTENDS Reviews, Discussions, FiniteSetTheorems, SequenceTheorems,
        WellFoundedInduction, TLAPS

Creating(r) == pc[r] \in {"create", "create_write"}
Updating(r) == pc[r] \in {"update", "update_write", "update_text"}
Deleting(r) == pc[r] \in {"delete", "delete_write"}
Selecting(r) == pc[r] \in {"create_write", "update_write", "delete_write"}

\* The type invariant but for the figures.
Shape ==
    /\ reviews \subseteq Review
    /\ pc \in [Request -> Stage]
    /\ user \in [Request -> User]
    /\ pending \in [Request -> [out : SUBSET Review, in : SUBSET Review]]
    /\ selected = [r \in Request |-> selected[r]]
    /\ missed \in [Id -> SUBSET Request]
    /\ wrote \in [Id -> SUBSET Review]
    /\ last \in Id /\ behind \subseteq Request

\* A review whose request is over, or that was there before.
Settled(v) == v.id = Seed \/ (v.id \in Request /\ pc[v.id] = "done")

AllSettled == \A v \in reviews : Settled(v)

OneRow == \A v, w \in reviews : v.id = w.id => v = w

Unwritten == \A r \in Request : pc[r] # "done" => wrote[r] = {}

\* What a request will flush.
Creates(r) ==
    \E s \in Stars :
       pending[r] = [out |-> {}, in |-> {[id |-> r, author |-> user[r], stars |-> s]}]

Updates(r) ==
    \E v \in Review, s \in Stars :
       /\ pending[r] = [out |-> {v}, in |-> {[v EXCEPT !.stars = s]}]
       /\ Settled(v)
       /\ \A w \in reviews : w.id = v.id => w.author = v.author
       /\ pc[r] = "update_text" => pending[r].in = pending[r].out

Deletes(r) == \E v \in Review : pending[r] = [out |-> {v}, in |-> {}]

Planned ==
    \A r \in Request : /\ Creating(r) => Creates(r)
                       /\ Updating(r) => Updates(r)
                       /\ Deleting(r) => Deletes(r)

\* Another review of who is about to create one was committed meanwhile.
Missed ==
    \A r \in Request : Creating(r) =>
        \A v \in ReviewsOf(user[r]) : v.id \in missed[r]

\* f are the figures of the reviews R but for changes, in W, of the requests Q.
Lags(f, R, W, Q) ==
    \E S \in SUBSET UNION {W[q] : q \in Q} : f = Figures((R \ S) \cup (S \ R))

\* The figures r has selected are as old as the select.
Selected ==
    \A r \in Request : Selecting(r) => Lags(selected[r], reviews, wrote, missed[r])

\* FiguresLagOnlyByLastOrDeletion in these terms.
Shown == Lags(figures, reviews, wrote, {last} \cup missed[last] \cup behind)

Plans == AllSettled /\ OneRow /\ Unwritten /\ Planned /\ Missed

ReviewsInv ==
    Shape /\ Plans /\ SecondReviewOnlyByOverlap /\ Selected /\ Shown

-----------------------------------------------------------------------------
\* Changes add up: what D has changed in A and S was to change before.
LEMMA Differences ==
    ASSUME NEW A, NEW B, NEW S, NEW D, D = (A \ B) \cup (B \ A)
    PROVE  LET T == (S \ D) \cup (D \ S)
           IN  /\ (B \ T) \cup (T \ B) = (A \ S) \cup (S \ A)
               /\ T \subseteq S \cup D
  OBVIOUS

LEMMA InitInv == Init => ReviewsInv
  <1> SUFFICES ASSUME Init PROVE ReviewsInv
    OBVIOUS
  <1> USE ReviewsAssumption DEF Init, Id, Review
  <1>1. Shape
    BY DEF Shape, Nothing, Stage
  <1>2. Plans
    BY DEF Plans, AllSettled, Settled, OneRow, Unwritten, Planned, Missed,
           Creating, Updating, Deleting
  <1>3. SecondReviewOnlyByOverlap
    BY DEF SecondReviewOnlyByOverlap
  <1>4. Selected
    BY DEF Selected, Selecting
  <1>5. Shown
    <2>1. last = Seed /\ wrote[Seed] = reviews
      OBVIOUS
    <2>2. CASE figures = Figures({})
      <3>1. figures = Figures((reviews \ reviews) \cup (reviews \ reviews))
        <4>1. (reviews \ reviews) \cup (reviews \ reviews) = {}
          OBVIOUS
        <4> QED BY <2>2, <4>1
      <3>2. reviews \in SUBSET UNION {wrote[q] : q \in {last} \cup missed[last] \cup behind}
        BY <2>1
      <3> QED BY <3>1, <3>2 DEF Shown, Lags
    <2>3. CASE figures = Figures(reviews)
      <3>1. (reviews \ {}) \cup ({} \ reviews) = reviews
        OBVIOUS
      <3> QED BY <2>3, <3>1 DEF Shown, Lags
    <2> QED BY <2>2, <2>3 DEF NoFigures
  <1> QED BY <1>1, <1>2, <1>3, <1>4, <1>5 DEF ReviewsInv

-----------------------------------------------------------------------------
\* A request is refused, or fails, and leaves no trace.
LEMMA RefuseInv ==
    ASSUME ReviewsInv, NEW r \in Request, NEW from, Refuse(r, from)
    PROVE  ReviewsInv'
  <1>1. /\ pc' = [pc EXCEPT ![r] = "done"] /\ pc \in [Request -> Stage]
        /\ pending' = [pending EXCEPT ![r] = Nothing]
        /\ pending \in [Request -> [out : SUBSET Review, in : SUBSET Review]]
        /\ selected' = [selected EXCEPT ![r] = NoFigures]
        /\ selected = [q \in Request |-> selected[q]]
        /\ user' = user /\ reviews' = reviews /\ figures' = figures
        /\ missed' = missed /\ wrote' = wrote /\ last' = last /\ behind' = behind
    BY DEF Refuse, Answer, Goto, ReviewsInv, Shape, history
  <1>2. Shape'
    BY <1>1 DEF ReviewsInv, Shape, Nothing, Stage
  <1>3. \A v \in Review : Settled(v) => Settled(v)'
    BY <1>1 DEF Settled
  <1>4. Plans'
    <2>1. AllSettled' /\ OneRow' /\ Unwritten'
      BY <1>1, <1>3 DEF ReviewsInv, Shape, Plans, AllSettled, OneRow, Unwritten
    <2>2. \A q \in Request : pc'[q] # "done" =>
             q # r /\ pc'[q] = pc[q] /\ pending'[q] = pending[q]
      BY <1>1
    <2>3. Planned'
      BY <1>1, <1>3, <2>2 DEF ReviewsInv, Plans, Planned, Creating, Updating, Deleting,
         Creates, Updates, Deletes
    <2>4. Missed'
      BY <1>1, <2>2 DEF ReviewsInv, Plans, Missed, Creating, ReviewsOf
    <2> QED BY <2>1, <2>3, <2>4 DEF Plans
  <1>5. SecondReviewOnlyByOverlap'
    BY <1>1 DEF ReviewsInv, SecondReviewOnlyByOverlap
  <1>6. Selected'
    BY <1>1 DEF ReviewsInv, Selected, Selecting
  <1>7. Shown'
    BY <1>1 DEF ReviewsInv, Shown
  <1> QED BY <1>2, <1>4, <1>5, <1>6, <1>7 DEF ReviewsInv

\* A change is held: it is one of the three that Planned knows.
LEMMA HoldInv ==
    ASSUME ReviewsInv, NEW r \in Request, NEW out, NEW in,
           NEW to \in {"create", "update", "delete"},
           Hold(r, out, in, to),
           to = "create" => /\ ReviewsOf(user[r]) = {}
                            /\ out = {}
                            /\ \E s \in Stars : in = {[id |-> r, author |-> user[r],
                                                       stars |-> s]},
           to = "update" => \E v \in reviews, s \in Stars :
                               out = {v} /\ in = {[v EXCEPT !.stars = s]},
           to = "delete" => in = {} /\ \E v \in reviews : out = {v}
    PROVE  ReviewsInv'
  <1>1. /\ pc[r] = "new" /\ pc' = [pc EXCEPT ![r] = to] /\ pc \in [Request -> Stage]
        /\ pending' = [pending EXCEPT ![r] = [out |-> out, in |-> in]]
        /\ pending \in [Request -> [out : SUBSET Review, in : SUBSET Review]]
        /\ UNCHANGED <<reviews, figures, user, selected, missed, wrote, last, behind>>
        /\ reviews \subseteq Review
        /\ user \in [Request -> User]
    BY DEF Hold, Goto, ReviewsInv, Shape, history
  <1>2. out \subseteq Review /\ in \subseteq Review
    <2>1. CASE to = "create"
      <3>1. out = {}
        BY <2>1
      <3>2. PICK s \in Stars : in = {[id |-> r, author |-> user[r], stars |-> s]}
        BY <2>1
      <3>3. r \in Id /\ user[r] \in User
        BY <1>1 DEF Id
      <3>4. [id |-> r, author |-> user[r], stars |-> s] \in Review
        BY <3>3 DEF Review
      <3> QED BY <3>1, <3>2, <3>4
    <2>2. CASE to = "update"
      <3>1. PICK v \in reviews, s \in Stars :
                    out = {v} /\ in = {[v EXCEPT !.stars = s]}
        BY <2>2
      <3>2. v \in Review
        BY <1>1
      <3>3. [v EXCEPT !.stars = s] \in Review
        BY <3>2 DEF Review
      <3> QED BY <3>1, <3>2, <3>3
    <2>3. CASE to = "delete"
      BY <1>1, <2>3
    <2> QED BY <2>1, <2>2, <2>3
  <1>3. Shape'
    BY <1>1, <1>2 DEF ReviewsInv, Shape, Stage
  <1>4. \A v \in Review : Settled(v) => Settled(v)'
    BY <1>1 DEF Settled
  <1>5. Plans'
    <2>1. AllSettled' /\ OneRow' /\ Unwritten'
      BY <1>1, <1>4 DEF ReviewsInv, Shape, Plans, AllSettled, OneRow, Unwritten
    <2>2. Planned'
      <3> SUFFICES ASSUME NEW q \in Request
                   PROVE  /\ Creating(q)' => Creates(q)'
                          /\ Updating(q)' => Updates(q)'
                          /\ Deleting(q)' => Deletes(q)'
        BY DEF Planned
      <3>1. CASE q # r
        <4>1. /\ Creating(q)' => Creating(q)
              /\ Updating(q)' => Updating(q)
              /\ Deleting(q)' => Deleting(q)
          BY <1>1, <3>1 DEF Creating, Updating, Deleting
        <4>2. pending'[q] = pending[q] /\ pc'[q] = pc[q]
          BY <1>1, <3>1
        <4>3. Creates(q) => Creates(q)'
          BY <1>1, <4>2 DEF Creates
        <4>4. Updates(q) => Updates(q)'
          BY <1>1, <1>4, <4>2 DEF Updates
        <4>5. Deletes(q) => Deletes(q)'
          BY <4>2 DEF Deletes
        <4> QED BY <4>1, <4>3, <4>4, <4>5 DEF ReviewsInv, Plans, Planned
      <3>2. CASE q = r
        <4>1. Creating(q)' => to = "create"
          BY <1>1, <3>2 DEF Creating
        <4>2. Updating(q)' => to = "update"
          BY <1>1, <3>2 DEF Updating
        <4>3. Deleting(q)' => to = "delete"
          BY <1>1, <3>2 DEF Deleting
        <4>4. pc'[q] = to /\ pending'[q] = [out |-> out, in |-> in] /\ user'[q] = user[q]
          BY <1>1, <3>2
        <4>5. ASSUME to = "update"
              PROVE  \E v \in Review, s \in Stars :
                       /\ pending'[q] = [out |-> {v}, in |-> {[v EXCEPT !.stars = s]}]
                       /\ Settled(v)'
                       /\ \A w \in reviews' : w.id = v.id => w.author = v.author
          <5>1. PICK v \in reviews, s \in Stars :
                        out = {v} /\ in = {[v EXCEPT !.stars = s]}
            BY <4>5
          <5>2. Settled(v)' /\ v \in Review
            BY <1>1, <1>4 DEF ReviewsInv, Plans, AllSettled
          <5>3. \A w \in reviews' : w.id = v.id => w.author = v.author
            BY <1>1 DEF ReviewsInv, Plans, OneRow
          <5> QED BY <4>4, <5>1, <5>2, <5>3
        <4>6. Creating(q)' => Creates(q)'
          BY <3>2, <4>1, <4>4 DEF Creates
        <4>7. Updating(q)' => Updates(q)'
          BY <4>2, <4>4, <4>5 DEF Updates
        <4>8. Deleting(q)' => Deletes(q)'
          BY <1>1, <4>3, <4>4 DEF Deletes
        <4> QED BY <4>6, <4>7, <4>8
      <3> QED BY <3>1, <3>2
    <2>3. Missed'
      <3> SUFFICES ASSUME NEW q \in Request, Creating(q)', NEW v \in reviews,
                          v.author = user[q]
                   PROVE  v.id \in missed[q]
        BY <1>1 DEF Missed, ReviewsOf
      <3>1. CASE q # r
        BY <1>1, <3>1 DEF ReviewsInv, Plans, Missed, Creating, ReviewsOf
      <3>2. CASE q = r
        BY <1>1, <3>2 DEF Creating, ReviewsOf
      <3> QED BY <3>1, <3>2
    <2> QED BY <2>1, <2>2, <2>3 DEF Plans
  <1>6. SecondReviewOnlyByOverlap'
    BY <1>1 DEF ReviewsInv, SecondReviewOnlyByOverlap
  <1>7. Selected'
    BY <1>1 DEF ReviewsInv, Selected, Selecting
  <1>8. Shown'
    BY <1>1 DEF ReviewsInv, Shown
  <1> QED BY <1>3, <1>5, <1>6, <1>7, <1>8 DEF ReviewsInv

\* r selects the figures as they are, or has no need to.
LEMMA SelectInv ==
    ASSUME ReviewsInv, NEW r \in Request, NEW from, NEW to, Goto(r, from, to),
           \/ from = "create" /\ to = "create_write"
           \/ from = "update" /\ to = "update_write"
           \/ from = "delete" /\ to = "delete_write"
           \/ from = "update" /\ to = "update_text" /\ pending[r].in = pending[r].out,
           UNCHANGED <<reviews, figures, user, pending, history>>,
           \/ selected' = [selected EXCEPT ![r] = Figures(reviews)]
           \/ to = "update_text" /\ selected' = selected
    PROVE  ReviewsInv'
  <1>1. /\ pc[r] = from /\ pc' = [pc EXCEPT ![r] = to] /\ pc \in [Request -> Stage]
        /\ UNCHANGED <<reviews, figures, user, pending, missed, wrote, last, behind>>
        /\ to \in Stage /\ to # "done" /\ from # "done"
        /\ selected = [q \in Request |-> selected[q]]
    BY DEF Goto, history, ReviewsInv, Shape, Stage
  <1>2. Shape'
    BY <1>1 DEF ReviewsInv, Shape
  <1>3. \A v \in Review : Settled(v) => Settled(v)'
    BY <1>1 DEF Settled
  <1>4. Plans'
    <2>1. AllSettled' /\ OneRow' /\ Unwritten'
      BY <1>1, <1>3 DEF ReviewsInv, Shape, Plans, AllSettled, OneRow, Unwritten
    <2>2. \A q \in Request :
             /\ Creating(q)' => Creating(q)
             /\ Updating(q)' => Updating(q)
             /\ Deleting(q)' => Deleting(q)
             /\ pc'[q] = "update_text" =>
                   pc[q] = "update_text" \/ pending[q].in = pending[q].out
      BY <1>1 DEF Creating, Updating, Deleting
    <2>3. Planned'
      <3>1. ASSUME NEW q \in Request, Updating(q)'
            PROVE  Updates(q)'
        <4>1. PICK v \in Review, s \in Stars :
                 /\ pending[q] = [out |-> {v}, in |-> {[v EXCEPT !.stars = s]}]
                 /\ Settled(v)
                 /\ \A w \in reviews : w.id = v.id => w.author = v.author
                 /\ pc[q] = "update_text" => pending[q].in = pending[q].out
          BY <2>2, <3>1 DEF ReviewsInv, Plans, Planned, Updates
        <4>2. pc'[q] = "update_text" => pending[q].in = pending[q].out
          BY <2>2, <4>1
        <4> QED BY <1>1, <1>3, <4>1, <4>2 DEF Updates
      <3>2. \A q \in Request : Creates(q) => Creates(q)'
        BY <1>1 DEF Creates
      <3>3. \A q \in Request : Deletes(q) => Deletes(q)'
        BY <1>1 DEF Deletes
      <3> QED BY <2>2, <3>1, <3>2, <3>3 DEF ReviewsInv, Plans, Planned
    <2>4. Missed'
      BY <1>1, <2>2 DEF ReviewsInv, Plans, Missed, ReviewsOf
    <2> QED BY <2>1, <2>3, <2>4 DEF Plans
  <1>5. SecondReviewOnlyByOverlap'
    BY <1>1 DEF ReviewsInv, SecondReviewOnlyByOverlap
  <1>6. Selected'
    <2>1. Lags(Figures(reviews), reviews, wrote, missed[r])
      <3>1. (reviews \ {}) \cup ({} \ reviews) = reviews
        OBVIOUS
      <3> QED BY <3>1 DEF Lags
    <2>2. ASSUME NEW q \in Request, Selecting(q)'
          PROVE  Lags(selected'[q], reviews, wrote, missed[q])
      <3>1. CASE q = r
        BY <1>1, <2>1, <2>2, <3>1 DEF Selecting
      <3>2. CASE q # r
        BY <1>1, <2>2, <3>2 DEF ReviewsInv, Selected, Selecting
      <3> QED BY <3>1, <3>2
    <2> QED BY <1>1, <2>2 DEF Selected
  <1>7. Shown'
    BY <1>1 DEF ReviewsInv, Shown
  <1> QED BY <1>2, <1>4, <1>5, <1>6, <1>7 DEF ReviewsInv

-----------------------------------------------------------------------------
\* One more commit is one more request the figures lag behind.
LEMMA LagsMore ==
    ASSUME NEW f, NEW R, NEW W, NEW Q, NEW R2, NEW W2, NEW r,
           Lags(f, R, W, Q),
           W[r] = {}, W2[r] = (R \ R2) \cup (R2 \ R),
           \A q \in Q : q # r => W2[q] = W[q]
    PROVE  Lags(f, R2, W2, Q \cup {r})
  <1>1. PICK S \in SUBSET UNION {W[q] : q \in Q} : f = Figures((R \ S) \cup (S \ R))
    BY DEF Lags
  <1> DEFINE D == W2[r]
             T == (S \ D) \cup (D \ S)
  <1>2. (R2 \ T) \cup (T \ R2) = (R \ S) \cup (S \ R) /\ T \subseteq S \cup D
    BY Differences
  <1>3. T \subseteq UNION {W2[q] : q \in Q \cup {r}}
    <2> SUFFICES ASSUME NEW v \in T
                 PROVE  \E q \in Q \cup {r} : v \in W2[q]
      OBVIOUS
    <2>1. CASE v \in D
      BY <2>1
    <2>2. CASE v \in S
      <3>1. PICK q \in Q : v \in W[q]
        BY <1>1, <2>2
      <3> QED BY <3>1
    <2> QED BY <1>2, <2>1, <2>2
  <1> QED BY <1>1, <1>2, <1>3 DEF Lags

LEMMA LagsMonotone ==
    ASSUME NEW f, NEW R, NEW W, NEW Q, NEW Q2, Lags(f, R, W, Q), Q \subseteq Q2
    PROVE  Lags(f, R, W, Q2)
  BY DEF Lags

\* What a commit of r does to the rows: none gets another author, and only the
\* creation of a review adds one.
LEMMA FlushRows ==
    ASSUME ReviewsInv, NEW r \in Request, NEW from, Flush(r, from),
           from \in {"create_write", "update_write", "update_text", "delete_write"},
           from \in {"update_write", "update_text"} => Target(r) # {}
    PROVE  /\ reviews' \subseteq Review
           /\ \A w \in reviews' :
                \/ \E v \in reviews : v.id = w.id /\ v.author = w.author
                \/ Creating(r) /\ w.id = r /\ w.author = user[r]
           /\ OneRow'
  <1>1. /\ pc[r] = from /\ user \in [Request -> User] /\ reviews \subseteq Review
        /\ reviews' = IF pending[r].in = pending[r].out THEN reviews
                      ELSE (reviews \ Target(r)) \cup pending[r].in
    BY DEF Flush, Commit, Answer, Goto, ReviewsInv, Shape
  <1>2. CASE Creating(r)
    <2>1. PICK s \in Stars :
            pending[r] = [out |-> {}, in |-> {[id |-> r, author |-> user[r], stars |-> s]}]
      BY <1>2 DEF ReviewsInv, Plans, Planned, Creates
    <2> DEFINE n == [id |-> r, author |-> user[r], stars |-> s]
    <2>2. reviews' = reviews \cup {n}
      BY <1>1, <2>1 DEF Target
    <2>3. n \in Review
      BY <1>1 DEF Review, Id
    <2>4. \A v \in reviews : v.id # r
      BY <1>2, ReviewsAssumption DEF Creating, ReviewsInv, Plans, AllSettled, Settled
    <2> QED BY <1>1, <1>2, <2>2, <2>3, <2>4 DEF ReviewsInv, Plans, OneRow
  <1>3. CASE Updating(r)
    <2>1. PICK v \in Review, s \in Stars :
            /\ pending[r] = [out |-> {v}, in |-> {[v EXCEPT !.stars = s]}]
            /\ \A w \in reviews : w.id = v.id => w.author = v.author
      BY <1>3 DEF ReviewsInv, Plans, Planned, Updates
    <2> DEFINE n == [v EXCEPT !.stars = s]
    <2>2. n \in Review /\ n.id = v.id /\ n.author = v.author
      BY DEF Review
    <2>3. Target(r) = {w \in reviews : w.id = v.id}
      BY <2>1 DEF Target
    <2>4. PICK t \in reviews : t.id = v.id /\ t.author = v.author
      BY <1>1, <1>3, <2>1, <2>3 DEF Updating
    <2>5. \/ reviews' = reviews
          \/ reviews' = {w \in reviews : w.id # v.id} \cup {n}
      BY <1>1, <2>1, <2>3
    <2>6. CASE reviews' = reviews
      BY <1>1, <2>6 DEF ReviewsInv, Plans, OneRow
    <2>7. CASE reviews' = {w \in reviews : w.id # v.id} \cup {n}
      <3>1. OneRow'
        BY <2>2, <2>7 DEF ReviewsInv, Plans, OneRow
      <3>2. \A w \in reviews' : \E x \in reviews : x.id = w.id /\ x.author = w.author
        BY <2>2, <2>4, <2>7
      <3> QED BY <1>1, <2>2, <2>7, <3>1, <3>2
    <2> QED BY <2>5, <2>6, <2>7
  <1>4. CASE Deleting(r)
    <2>1. PICK v \in Review : pending[r] = [out |-> {v}, in |-> {}]
      BY <1>4 DEF ReviewsInv, Plans, Planned, Deletes
    <2>2. reviews' = reviews \/ reviews' = reviews \ Target(r)
      BY <1>1, <2>1
    <2>3. \A w \in reviews' : \E x \in reviews : x.id = w.id /\ x.author = w.author
      BY <2>2
    <2>4. OneRow'
      BY <2>2 DEF ReviewsInv, Plans, OneRow
    <2> QED BY <1>1, <2>2, <2>3, <2>4
  <1> QED BY <1>1, <1>2, <1>3, <1>4 DEF Creating, Updating, Deleting

\* Any commit of r, but for the figures it may leave.
LEMMA CommitInv ==
    ASSUME ReviewsInv, NEW r \in Request, NEW from, NEW R, Commit(r, from, R),
           from \notin {"done", "create"},
           R \subseteq Review,
           \A w \in R : \/ \E v \in reviews : v.id = w.id /\ v.author = w.author
                        \/ Creating(r) /\ w.id = r /\ w.author = user[r],
           \A v, w \in R : v.id = w.id => v = w,
           last' \in Id, behind' \subseteq Request
    PROVE  Shape' /\ Plans' /\ SecondReviewOnlyByOverlap' /\ Selected'
  <1>1. /\ pc[r] = from /\ pc' = [pc EXCEPT ![r] = "done"] /\ pc \in [Request -> Stage]
        /\ pending' = [pending EXCEPT ![r] = Nothing]
        /\ pending \in [Request -> [out : SUBSET Review, in : SUBSET Review]]
        /\ selected' = [selected EXCEPT ![r] = NoFigures]
        /\ selected = [q \in Request |-> selected[q]]
        /\ user' = user
        /\ missed \in [Id -> SUBSET Request] /\ wrote \in [Id -> SUBSET Review]
        /\ missed' = [q \in Id |-> IF q \in Request \ {r} /\ Open(q)
                                   THEN missed[q] \cup {r} ELSE missed[q]]
        /\ wrote' = [wrote EXCEPT ![r] = (reviews \ reviews') \cup (reviews' \ reviews)]
        /\ reviews \subseteq Review
    BY DEF Commit, Answer, Goto, ReviewsInv, Shape
  <1>2. /\ reviews' \subseteq Review
        /\ \A w \in reviews' :
             \/ \E v \in reviews : v.id = w.id /\ v.author = w.author
             \/ Creating(r) /\ w.id = r /\ w.author = user[r]
        /\ OneRow'
    BY DEF Commit, OneRow
  <1>3. Shape'
    BY <1>1, <1>2 DEF ReviewsInv, Shape, Nothing, Stage, Id
  <1>4. \A v \in Review : Settled(v) => Settled(v)'
    BY <1>1 DEF Settled
  <1>5. \A v \in Review : Settled(v) => v.id # r
    BY <1>1, ReviewsAssumption DEF Settled
  <1>6. \A q \in Request : pc'[q] # "done" =>
           q # r /\ pc'[q] = pc[q] /\ pending'[q] = pending[q]
           /\ selected'[q] = selected[q] /\ wrote'[q] = wrote[q]
    BY <1>1 DEF Id
  <1>7. \A q \in Id : missed[q] \subseteq missed'[q]
    BY <1>1
  <1>8. Plans'
    <2>1. AllSettled'
      <3> SUFFICES ASSUME NEW w \in reviews' PROVE Settled(w)'
        BY DEF AllSettled
      <3>1. CASE \E v \in reviews : v.id = w.id /\ v.author = w.author
        BY <1>1, <1>4, <3>1 DEF ReviewsInv, Plans, AllSettled, Settled
      <3>2. CASE w.id = r
        BY <1>1, <3>2 DEF Settled
      <3> QED BY <1>2, <3>1, <3>2
    <2>2. Unwritten'
      BY <1>6 DEF ReviewsInv, Plans, Unwritten
    <2>3. Planned'
      <3> SUFFICES ASSUME NEW q \in Request
                   PROVE  /\ Creating(q)' => Creates(q)'
                          /\ Updating(q)' => Updates(q)'
                          /\ Deleting(q)' => Deletes(q)'
        BY DEF Planned
      <3>1. Creating(q)' => pending'[q] = pending[q] /\ Creating(q)
        BY <1>6 DEF Creating
      <3>2. Updating(q)' => pending'[q] = pending[q] /\ Updating(q) /\ pc'[q] = pc[q]
        BY <1>6 DEF Updating
      <3>3. Deleting(q)' => pending'[q] = pending[q] /\ Deleting(q)
        BY <1>6 DEF Deleting
      <3>4. ASSUME Updating(q)'
            PROVE  Updates(q)'
        <4>1. PICK v \in Review, s \in Stars :
                 /\ pending[q] = [out |-> {v}, in |-> {[v EXCEPT !.stars = s]}]
                 /\ Settled(v)
                 /\ \A w \in reviews : w.id = v.id => w.author = v.author
                 /\ pc[q] = "update_text" => pending[q].in = pending[q].out
          BY <3>2, <3>4 DEF ReviewsInv, Plans, Planned, Updates
        <4>2. \A w \in reviews' : w.id = v.id => w.author = v.author
          BY <1>2, <1>5, <4>1
        <4>3. pending'[q] = pending[q] /\ pc'[q] = pc[q] /\ Settled(v)'
          BY <1>4, <3>2, <3>4, <4>1
        <4> QED BY <4>1, <4>2, <4>3 DEF Updates
      <3>5. Creating(q)' => Creates(q)'
        BY <1>1, <3>1 DEF ReviewsInv, Plans, Planned, Creates
      <3>6. Deleting(q)' => Deletes(q)'
        BY <3>3 DEF ReviewsInv, Plans, Planned, Deletes
      <3> QED BY <3>4, <3>5, <3>6
    <2>4. Missed'
      <3> SUFFICES ASSUME NEW q \in Request, Creating(q)', NEW w \in reviews',
                          w.author = user[q]
                   PROVE  w.id \in missed'[q]
        BY <1>1 DEF Missed, ReviewsOf
      <3>1. q # r /\ Creating(q) /\ q \in Id
        BY <1>6 DEF Creating, Id
      <3>2. CASE \E v \in reviews : v.id = w.id /\ v.author = w.author
        BY <1>7, <3>1, <3>2 DEF ReviewsInv, Plans, Missed, ReviewsOf
      <3>3. CASE w.id = r
        BY <1>1, <3>1, <3>3 DEF Open, Creating
      <3> QED BY <1>2, <3>2, <3>3
    <2> QED BY <1>2, <2>1, <2>2, <2>3, <2>4 DEF Plans
  <1>9. SecondReviewOnlyByOverlap'
    <2> SUFFICES ASSUME NEW v \in reviews', NEW w \in reviews', v # w,
                        v.author = w.author
                 PROVE  v.id \in missed'[w.id] \/ w.id \in missed'[v.id]
      BY DEF SecondReviewOnlyByOverlap
    <2>1. v.id # w.id /\ v.id \in Id /\ w.id \in Id
      BY <1>2 DEF OneRow, Review
    <2>2. ASSUME NEW x \in reviews, NEW y \in reviews', Creating(r), y.id = r,
                 y.author = user[r], x.author = y.author
          PROVE  x.id \in missed'[y.id]
      BY <1>7, <2>2 DEF ReviewsInv, Plans, Missed, ReviewsOf, Id
    <2>3. ASSUME NEW x \in reviews, NEW y \in reviews, x.id = v.id,
                 x.author = v.author, y.id = w.id, y.author = w.author
          PROVE  v.id \in missed'[w.id] \/ w.id \in missed'[v.id]
      <3>1. x.id \in missed[y.id] \/ y.id \in missed[x.id]
        BY <2>1, <2>3 DEF ReviewsInv, SecondReviewOnlyByOverlap
      <3> QED BY <1>7, <2>1, <2>3, <3>1
    <2>4. CASE Creating(r) /\ v.id = r /\ v.author = user[r]
      <3>1. w.id # r
        BY <2>1, <2>4
      <3>2. PICK x \in reviews : x.id = w.id /\ x.author = w.author
        BY <1>2, <3>1
      <3> QED BY <2>2, <2>4, <3>2
    <2>5. CASE Creating(r) /\ w.id = r /\ w.author = user[r]
      <3>1. v.id # r
        BY <2>1, <2>5
      <3>2. PICK x \in reviews : x.id = v.id /\ x.author = v.author
        BY <1>2, <3>1
      <3> QED BY <2>2, <2>5, <3>2
    <2> QED BY <1>2, <2>3, <2>4, <2>5
  <1>10. Selected'
    <2> SUFFICES ASSUME NEW q \in Request, Selecting(q)'
                 PROVE  Lags(selected'[q], reviews', wrote', missed'[q])
      BY DEF Selected
    <2>1. q # r /\ pc'[q] = pc[q] /\ selected'[q] = selected[q] /\ Selecting(q)
      BY <1>6 DEF Selecting
    <2>2. missed'[q] = missed[q] \cup {r}
      BY <1>1, <2>1 DEF Open, Selecting, Id
    <2>3. Lags(selected[q], reviews, wrote, missed[q])
      BY <2>1 DEF ReviewsInv, Selected
    <2>4. /\ wrote[r] = {} /\ wrote'[r] = (reviews \ reviews') \cup (reviews' \ reviews)
          /\ \A p \in missed[q] : p # r => wrote'[p] = wrote[p]
      BY <1>1 DEF ReviewsInv, Plans, Unwritten, Id
    <2>5. Lags(selected[q], reviews', wrote', missed[q] \cup {r})
      BY ONLY <2>3, <2>4, LagsMore
    <2> QED BY <2>1, <2>2, <2>5
  <1> QED BY <1>3, <1>8, <1>9, <1>10

LEMMA FlushInv ==
    ASSUME ReviewsInv, NEW r \in Request, NEW from, Flush(r, from),
           from \in {"create_write", "update_write", "update_text", "delete_write"},
           from \in {"update_write", "update_text"} => Target(r) # {},
           last' \in Id, behind' \subseteq Request
    PROVE  Shape' /\ Plans' /\ SecondReviewOnlyByOverlap' /\ Selected'
  <1>1. Commit(r, from, reviews')
    BY DEF Flush, Commit
  <1>2. /\ reviews' \subseteq Review
        /\ \A w \in reviews' :
             \/ \E v \in reviews : v.id = w.id /\ v.author = w.author
             \/ Creating(r) /\ w.id = r /\ w.author = user[r]
        /\ \A v, w \in reviews' : v.id = w.id => v = w
    BY FlushRows DEF OneRow
  <1> QED BY <1>1, <1>2, CommitInv

\* A commit that leaves figures: they are as old as the select of r.
LEMMA WriteInv ==
    ASSUME ReviewsInv, NEW r \in Request, NEW from, Write(r, from),
           from \in {"create_write", "update_write", "delete_write"},
           from = "update_write" => Target(r) # {}
    PROVE  ReviewsInv'
  <1>1. /\ Flush(r, from) /\ figures' = selected[r]
        /\ last' = r /\ last' \in Id /\ behind' = {}
    BY DEF Write, Id
  <1>2. Shape' /\ Plans' /\ SecondReviewOnlyByOverlap' /\ Selected'
    BY <1>1, FlushInv
  <1>3. Shown'
    <2>1. Lags(selected[r], reviews, wrote, missed[r])
      BY <1>1 DEF Flush, Commit, Answer, Goto, ReviewsInv, Selected, Selecting
    <2>2. /\ wrote[r] = {} /\ wrote'[r] = (reviews \ reviews') \cup (reviews' \ reviews)
          /\ \A p \in missed[r] : p # r => wrote'[p] = wrote[p]
          /\ missed'[r] = missed[r]
      BY <1>1 DEF Flush, Commit, Answer, Goto, ReviewsInv, Shape, Plans, Unwritten, Id
    <2>3. Lags(selected[r], reviews', wrote', missed[r] \cup {r})
      BY <2>1, <2>2, LagsMore
    <2>4. {last'} \cup missed'[last'] \cup behind' = missed[r] \cup {r}
      BY <1>1, <2>2
    <2> QED BY <1>1, <2>3, <2>4 DEF Shown
  <1> QED BY <1>2, <1>3 DEF ReviewsInv

\* A commit that leaves them alone changes no review.
LEMMA TextInv ==
    ASSUME ReviewsInv, NEW r \in Request, Flush(r, "update_text"), Target(r) # {},
           UNCHANGED <<figures, last, behind>>
    PROVE  ReviewsInv'
  <1>1. Shape' /\ Plans' /\ SecondReviewOnlyByOverlap' /\ Selected'
    BY FlushInv DEF ReviewsInv, Shape
  <1>2. pending[r].in = pending[r].out
    BY DEF Flush, Commit, Answer, Goto, ReviewsInv, Plans, Planned, Updating, Updates
  <1>3. reviews' = reviews /\ wrote' = wrote /\ missed[last] \subseteq missed'[last]
    <2>1. reviews' = reviews
      BY <1>2 DEF Flush, Commit
    <2>2. wrote' = [wrote EXCEPT ![r] = {}] /\ wrote[r] = {}
      BY <2>1 DEF Flush, Commit, Answer, Goto, ReviewsInv, Plans, Unwritten
    <2>3. wrote' = wrote
      BY <2>2 DEF ReviewsInv, Shape, Id
    <2> QED BY <2>1, <2>3 DEF Flush, Commit, ReviewsInv, Shape
  <1>4. Shown'
    <2>1. Lags(figures, reviews, wrote, {last} \cup missed[last] \cup behind)
      BY DEF ReviewsInv, Shown
    <2>2. {last} \cup missed[last] \cup behind \subseteq {last} \cup missed'[last] \cup behind
      BY <1>3
    <2>3. Lags(figures, reviews, wrote, {last} \cup missed'[last] \cup behind)
      BY <2>1, <2>2, LagsMonotone
    <2> QED BY <1>3, <2>3 DEF Shown
  <1> QED BY <1>1, <1>4 DEF ReviewsInv

-----------------------------------------------------------------------------
LEMMA PostInv ==
    ASSUME ReviewsInv, NEW r \in Request, PostReview(r)
    PROVE  ReviewsInv'
  <1>1. ASSUME NEW s \in Stars, CreateCheck(r, s)
        PROVE  ReviewsInv'
    <2>1. CASE Refuse(r, "new")
      BY <2>1, RefuseInv
    <2>2. CASE /\ ReviewsOf(user[r]) = {}
               /\ Hold(r, {}, {[id |-> r, author |-> user[r], stars |-> s]}, "create")
      BY <2>2, HoldInv
    <2> QED BY <1>1, <2>1, <2>2 DEF CreateCheck
  <1>2. CASE CreateSelect(r)
    BY <1>2, SelectInv DEF CreateSelect, SelectFigures
  <1>3. CASE CreateCommit(r)
    BY <1>3, WriteInv, RefuseInv DEF CreateCommit
  <1> QED BY <1>1, <1>2, <1>3 DEF PostReview

LEMMA PatchInv ==
    ASSUME ReviewsInv, NEW r \in Request, PatchReview(r)
    PROVE  ReviewsInv'
  <1>1. ASSUME NEW v \in reviews, NEW s \in Stars, UpdateCheck(r, v, s)
        PROVE  ReviewsInv'
    <2>1. CASE Refuse(r, "new")
      BY <2>1, RefuseInv
    <2>2. CASE Hold(r, {v}, {[v EXCEPT !.stars = s]}, "update")
      BY <2>2, HoldInv
    <2> QED BY <1>1, <2>1, <2>2 DEF UpdateCheck
  <1>2. CASE UpdateSelect(r)
    <2>1. CASE SelectFigures(r, "update", "update_write")
      BY <2>1, SelectInv DEF SelectFigures
    <2>2. CASE /\ pending[r].in = pending[r].out
               /\ Goto(r, "update", "update_text")
               /\ UNCHANGED <<reviews, figures, gone, locals, history>>
      BY <2>2, SelectInv DEF locals
    <2> QED BY <1>2, <2>1, <2>2 DEF UpdateSelect
  <1>3. CASE UpdateCommit(r)
    <2>1. CASE Target(r) # {} /\ Write(r, "update_write")
      BY <2>1, WriteInv
    <2>2. CASE Target(r) # {} /\ Flush(r, "update_text")
               /\ UNCHANGED <<figures, last, behind>>
      BY <2>2, TextInv
    <2>3. CASE Refuse(r, pc[r])
      BY <2>3, RefuseInv
    <2> QED BY <1>3, <2>1, <2>2, <2>3 DEF UpdateCommit
  <1> QED BY <1>1, <1>2, <1>3 DEF PatchReview

LEMMA DeleteInv ==
    ASSUME ReviewsInv, NEW r \in Request, DeleteReview(r)
    PROVE  ReviewsInv'
  <1>1. ASSUME NEW v \in reviews, DeleteCheck(r, v)
        PROVE  ReviewsInv'
    <2>1. CASE Refuse(r, "new")
      BY <2>1, RefuseInv
    <2>2. CASE Hold(r, {v}, {}, "delete")
      BY <2>2, HoldInv
    <2> QED BY <1>1, <2>1, <2>2 DEF DeleteCheck
  <1>2. CASE DeleteSelect(r)
    BY <1>2, SelectInv DEF DeleteSelect, SelectFigures
  <1>3. CASE DeleteCommit(r)
    BY <1>3, WriteInv DEF DeleteCommit
  <1> QED BY <1>1, <1>2, <1>3 DEF DeleteReview

\* An account goes with its reviews: what the figures lag behind by is recorded.
LEMMA DeleteUserInv ==
    ASSUME ReviewsInv, NEW r \in Request, DeleteUser(r)
    PROVE  ReviewsInv'
  <1>1. /\ Commit(r, "new", reviews \ ReviewsOf(user[r]))
        /\ figures' = figures /\ last' = last /\ behind' = behind \cup {r}
    BY DEF DeleteUser
  <1>2. Shape' /\ Plans' /\ SecondReviewOnlyByOverlap' /\ Selected'
    <2>1. reviews \subseteq Review /\ last' \in Id /\ behind' \subseteq Request
      BY <1>1 DEF ReviewsInv, Shape
    <2>2. \A v, w \in reviews : v.id = w.id => v = w
      BY DEF ReviewsInv, Plans, OneRow
    <2> QED BY <1>1, <2>1, <2>2, CommitInv
  <1>3. Shown'
    <2> DEFINE Q == {last} \cup missed[last] \cup behind
    <2>1. Lags(figures, reviews, wrote, Q)
      BY DEF ReviewsInv, Shown
    <2>2. /\ wrote[r] = {} /\ wrote'[r] = (reviews \ reviews') \cup (reviews' \ reviews)
          /\ \A p \in Q : p # r => wrote'[p] = wrote[p]
          /\ missed[last] \subseteq missed'[last]
      BY <1>1 DEF Commit, Answer, Goto, ReviewsInv, Shape, Plans, Unwritten, Id
    <2>3. Lags(figures, reviews', wrote', Q \cup {r})
      BY <2>1, <2>2, LagsMore
    <2>4. Q \cup {r} \subseteq {last'} \cup missed'[last'] \cup behind'
      BY <1>1, <2>2
    <2> HIDE DEF Q
    <2>5. Lags(figures', reviews', wrote', {last'} \cup missed'[last'] \cup behind')
      BY <1>1, <2>3, <2>4, LagsMonotone
    <2> QED BY <2>5 DEF Shown
  <1> QED BY <1>2, <1>3 DEF ReviewsInv

LEMMA StutterInv == ReviewsInv /\ UNCHANGED vars => ReviewsInv'
  <1> SUFFICES ASSUME ReviewsInv, UNCHANGED vars PROVE ReviewsInv'
    OBVIOUS
  <1>1. UNCHANGED <<reviews, figures, pc, user, pending, selected, missed, wrote,
                    last, behind>>
    BY DEF vars, locals, history
  <1>2. Shape' /\ SecondReviewOnlyByOverlap' /\ Selected' /\ Shown'
    BY <1>1 DEF ReviewsInv, Shape, SecondReviewOnlyByOverlap, Selected, Selecting, Shown
  <1>3. Plans'
    <2>1. (AllSettled /\ OneRow /\ Unwritten /\ Missed)'
      BY <1>1 DEF ReviewsInv, Plans, AllSettled, Settled, OneRow, Unwritten, Missed,
                  Creating, ReviewsOf
    <2>2. Planned' = Planned
      BY <1>1 DEF Planned, Creating, Updating, Deleting, Settled, Creates, Updates, Deletes
    <2> QED BY <2>1, <2>2 DEF ReviewsInv, Plans
  <1> QED BY <1>2, <1>3 DEF ReviewsInv

LEMMA NextInv == ReviewsInv /\ [Next]_vars => ReviewsInv'
  <1> SUFFICES ASSUME ReviewsInv, [Next]_vars
               PROVE  ReviewsInv'
    OBVIOUS
  <1>1. ASSUME NEW r \in Request, PostReview(r)
        PROVE  ReviewsInv'
    BY <1>1, PostInv
  <1>2. ASSUME NEW r \in Request, PatchReview(r)
        PROVE  ReviewsInv'
    BY <1>2, PatchInv
  <1>3. ASSUME NEW r \in Request, DeleteReview(r)
        PROVE  ReviewsInv'
    BY <1>3, DeleteInv
  <1>4. ASSUME NEW r \in Request, Fail(r)
        PROVE  ReviewsInv'
    BY <1>4, RefuseInv DEF Fail
  <1>5. ASSUME NEW r \in Request, DeleteUser(r)
        PROVE  ReviewsInv'
    BY <1>5, DeleteUserInv
  <1>6. CASE UNCHANGED vars
    BY <1>6, StutterInv
  <1> QED BY <1>1, <1>2, <1>3, <1>4, <1>5, <1>6 DEF Next, Quiet

LEMMA ReviewsAlways == Spec => []ReviewsInv
  BY InitInv, NextInv, PTL DEF Spec

\* For any number of requests, two reviews of one user exist only if one request
\* was open while the other committed.
THEOREM SecondReview == Spec => []SecondReviewOnlyByOverlap
  <1>1. ReviewsInv => SecondReviewOnlyByOverlap
    BY DEF ReviewsInv
  <1> QED BY <1>1, ReviewsAlways, PTL

\* Whatever the figures are, those of an app lag behind its reviews by the change
\* of the request that left them, what was committed while it was open and the
\* reviews of accounts deleted since, and by nothing else.
THEOREM FiguresLag == Spec => []FiguresLagOnlyByLastOrDeletion
  <1>1. ReviewsInv => FiguresLagOnlyByLastOrDeletion
    BY DEF ReviewsInv, Shown, Lags, FiguresLagOnlyByLastOrDeletion
  <1> QED BY <1>1, ReviewsAlways, PTL

-----------------------------------------------------------------------------
(* The type of the figures: what the recursion of MapThenSumSet gives.  To *)
(* the provers a recursive function is a CHOOSE; that there is one, and    *)
(* within which bounds its values are, is by induction over the size of a  *)
(* set.                                                                    *)

\* Induction over the naturals for a set instead of an operator.
LEMMA NaturalSteps ==
  ASSUME NEW G, 0 \in G, \A n \in Nat : n \in G => n + 1 \in G
  PROVE  Nat \subseteq G
  <1> DEFINE B == Nat \ G
  <1>1. SUFFICES ASSUME B # {} PROVE FALSE
    OBVIOUS
  <1>2. B \subseteq Nat
    OBVIOUS
  <1>3. \E n \in B : \A m \in B : ~ (<<m, n>> \in OpToRel(<, Nat))
    <2> HIDE DEF B
    <2> QED BY <1>1, <1>2, NatLessThanWellFounded, WFMin
  <1>4. PICK n \in B : \A m \in B : ~ (<<m, n>> \in OpToRel(<, Nat))
    BY <1>3
  <1>5. n # 0 /\ n - 1 \in Nat /\ n - 1 < n
    OBVIOUS
  <1>6. <<n - 1, n>> \in OpToRel(<, Nat)
    BY <1>5 DEF OpToRel
  <1>7. n - 1 \in G
    BY <1>4, <1>5, <1>6
  <1>8. (n - 1) + 1 \in G /\ (n - 1) + 1 = n
    BY <1>5, <1>7
  <1> QED BY <1>4, <1>8

\* The review whose stars a fold over S adds first.
Chosen(S) == CHOOSE v \in S : TRUE
Less(S) == S \ {Chosen(S)}

\* g gives the stars of every subset of S.
StarsOver(S, g) ==
    g = [T \in SUBSET S |-> IF T = {} THEN 0 ELSE Chosen(T).stars + g[Less(T)]]

LEMMA LessIsLess ==
  ASSUME NEW T, IsFiniteSet(T), T # {}
  PROVE  /\ Chosen(T) \in T /\ Less(T) \subseteq T
         /\ Cardinality(T) \in Nat /\ Cardinality(Less(T)) = Cardinality(T) - 1
  <1>1. Chosen(T) \in T
    BY DEF Chosen
  <1> QED BY <1>1, FS_RemoveElement, FS_CardinalityType DEF Less

\* The recursion has a function: for the sets of at most n reviews, step by step.
LEMMA StarsExist ==
  ASSUME NEW S, IsFiniteSet(S)
  PROVE  \E g : StarsOver(S, g)
  <1> DEFINE Upto(n, g) == \A T \in SUBSET S : Cardinality(T) <= n =>
                 g[T] = IF T = {} THEN 0 ELSE Chosen(T).stars + g[Less(T)]
             G == {n \in Nat : \E g : Upto(n, g)}
  <1>1. \A T \in SUBSET S : IsFiniteSet(T) /\ Cardinality(T) \in Nat
                            /\ Cardinality(T) <= Cardinality(S)
    BY FS_Subset, FS_CardinalityType
  <1>2. 0 \in G
    <2> DEFINE g == [T \in SUBSET S |-> 0]
    <2>1. \A T \in SUBSET S : Cardinality(T) <= 0 => T = {}
      BY <1>1, FS_EmptySet
    <2>2. Upto(0, g)
      BY <2>1
    <2> QED BY <2>2
  <1>3. ASSUME NEW n \in Nat, n \in G PROVE n + 1 \in G
    <2>1. PICK g : Upto(n, g)
      BY <1>3
    <2> DEFINE h == [T \in SUBSET S |-> IF T = {} THEN 0 ELSE Chosen(T).stars + g[Less(T)]]
    <2>2. ASSUME NEW T \in SUBSET S, Cardinality(T) <= n PROVE h[T] = g[T]
      BY <2>1, <2>2
    <2>3. ASSUME NEW T \in SUBSET S, Cardinality(T) <= n + 1, T # {}
          PROVE  h[T] = Chosen(T).stars + h[Less(T)]
      <3>1. Less(T) \in SUBSET S /\ Cardinality(Less(T)) <= n
        BY <1>1, <2>3, LessIsLess
      <3>2. h[Less(T)] = g[Less(T)]
        BY <2>2, <3>1
      <3> QED BY <2>3, <3>2
    <2>4. Upto(n + 1, h)
      BY <2>3
    <2>5. \E f : Upto(n + 1, f)
      <3> HIDE DEF h, Upto
      <3> QED BY <2>4
    <2> QED BY <2>5
  <1>4. Cardinality(S) \in G
    <2> HIDE DEF G
    <2> QED BY <1>1, <1>2, <1>3, NaturalSteps
  <1>5. PICK g : Upto(Cardinality(S), g)
    BY <1>4
  <1> DEFINE h == [T \in SUBSET S |-> g[T]]
  <1>6. ASSUME NEW T \in SUBSET S
        PROVE  h[T] = IF T = {} THEN 0 ELSE Chosen(T).stars + h[Less(T)]
    <2>1. T # {} => Less(T) \in SUBSET S
      BY <1>1, LessIsLess
    <2> QED BY <1>1, <1>5, <2>1
  <1>7. StarsOver(S, h)
    BY <1>6 DEF StarsOver
  <1> QED BY <1>7

\* Whatever function it is, each review adds from one to five stars.
LEMMA StarsBounded ==
  ASSUME NEW S, IsFiniteSet(S), \A v \in S : v.stars \in 1..5, NEW g, StarsOver(S, g)
  PROVE  /\ Cardinality(S) \in Nat /\ g[S] \in Nat
         /\ Cardinality(S) <= g[S] /\ g[S] <= 5 * Cardinality(S)
  <1> DEFINE Bounded(n, m) == m \in Nat /\ n <= m /\ m <= 5 * n
             G == {n \in Nat : \A T \in SUBSET S : Cardinality(T) = n => Bounded(n, g[T])}
  <1>1. \A T \in SUBSET S : IsFiniteSet(T) /\ Cardinality(T) \in Nat
    BY FS_Subset, FS_CardinalityType
  <1>2. \A T \in SUBSET S : g[T] = IF T = {} THEN 0 ELSE Chosen(T).stars + g[Less(T)]
    BY DEF StarsOver
  <1>3. 0 \in G
    <2>1. \A T \in SUBSET S : Cardinality(T) = 0 => T = {}
      BY <1>1, FS_EmptySet
    <2>2. g[{}] = 0
      BY <1>2
    <2> QED BY <2>1, <2>2
  <1>4. ASSUME NEW n \in Nat, n \in G PROVE n + 1 \in G
    <2> SUFFICES ASSUME NEW T \in SUBSET S, Cardinality(T) = n + 1
                 PROVE  Bounded(n + 1, g[T])
      OBVIOUS
    <2>1. T # {}
      BY FS_EmptySet
    <2>2. Chosen(T) \in S /\ Less(T) \in SUBSET S /\ Cardinality(Less(T)) = n
      BY <1>1, <2>1, LessIsLess
    <2>3. Bounded(n, g[Less(T)]) /\ Chosen(T).stars \in 1..5
      BY <1>4, <2>2
    <2>4. g[T] = Chosen(T).stars + g[Less(T)]
      BY <1>2, <2>1
    <2> QED BY <2>3, <2>4
  <1>5. Cardinality(S) \in G
    <2> HIDE DEF G
    <2> QED BY <1>1, <1>3, <1>4, NaturalSteps
  <1> QED BY <1>1, <1>5

LEMMA SumBounded ==
  ASSUME NEW S, IsFiniteSet(S), \A v \in S : v.stars \in 1..5
  PROVE  LET n == Cardinality(S)
             sum == MapThenSumSet(LAMBDA v : v.stars, S)
         IN  n \in Nat /\ sum \in Nat /\ n <= sum /\ sum <= 5 * n
  <1> DEFINE g == CHOOSE g : StarsOver(S, g)
  <1>1. MapThenSumSet(LAMBDA v : v.stars, S) = g[S]
    BY DEF MapThenSumSet, MapThenFoldSet, StarsOver, Chosen, Less
  <1>2. StarsOver(S, g)
    BY StarsExist
  <1>3. /\ Cardinality(S) \in Nat /\ g[S] \in Nat
        /\ Cardinality(S) <= g[S] /\ g[S] <= 5 * Cardinality(S)
    <2> HIDE DEF g
    <2> QED BY <1>2, StarsBounded
  <1> QED BY <1>1, <1>3

\* An average of n ratings from 1 to 5, rounded to hundredths.
LEMMA Rounded ==
  ASSUME NEW n \in Nat \ {0}, NEW sum \in Nat, n <= sum, sum <= 5 * n
  PROVE  (200 * sum + n) \div (2 * n) \in 100..500
  <1> DEFINE a == 200 * sum + n
             b == 2 * n
             q == a \div b
  <1>1. a \in Nat /\ b \in Nat \ {0} /\ 100 * b <= a /\ a < 501 * b
    OBVIOUS
  <1>2. q \in Int /\ b * q <= a /\ a < b * q + b
    BY <1>1
  <1> HIDE DEF a, b, q
  <1>3. ASSUME q < 100 PROVE FALSE
    <2>1. b * q <= b * 99
      BY <1>1, <1>2, <1>3
    <2> QED BY <1>1, <1>2, <2>1
  <1>4. ASSUME q > 500 PROVE FALSE
    <2>1. b * 501 <= b * q
      BY <1>1, <1>2, <1>4
    <2> QED BY <1>1, <1>2, <2>1
  <1> QED BY <1>2, <1>3, <1>4 DEF a, b, q

LEMMA FiguresType ==
  ASSUME NEW S, IsFiniteSet(S), S \subseteq Review
  PROVE  Figures(S) \in Figure
  <1> DEFINE n == Cardinality(S)
             sum == MapThenSumSet(LAMBDA v : v.stars, S)
  <1>1. n \in Nat /\ sum \in Nat /\ n <= sum /\ sum <= 5 * n
    BY SumBounded, ReviewsAssumption DEF Review
  <1>2. Figures(S) = [count |-> n,
                      rating |-> IF n = 0 THEN 0 ELSE (200 * sum + n) \div (2 * n)]
    BY DEF Figures
  <1> HIDE DEF n, sum
  <1>3. n # 0 => (200 * sum + n) \div (2 * n) \in 100..500
    BY <1>1, Rounded
  <1> QED BY <1>1, <1>2, <1>3 DEF Figure

-----------------------------------------------------------------------------
(* The type invariant. *)

\* There are finitely many reviews, and the figures have their type.
Rated ==
    /\ IsFiniteSet(reviews)
    /\ \A r \in Request : IsFiniteSet(pending[r].in)
    /\ figures \in Figure /\ selected \in [Request -> Figure]
    /\ gone \subseteq Buyer

LEMMA RatedInit == Init => Rated
  <1> SUFFICES ASSUME Init PROVE Rated
    OBVIOUS
  <1>0. reviews = {} \/ \E u \in Buyer, s \in Stars :
                          reviews = {[id |-> Seed, author |-> u, stars |-> s]}
    BY DEF Init
  <1>1. IsFiniteSet(reviews) /\ IsFiniteSet({}) /\ {} \subseteq Review
    BY <1>0, FS_EmptySet, FS_Singleton
  <1>2. reviews \subseteq Review
    BY InitInv DEF ReviewsInv, Shape
  <1>3. Figures(reviews) \in Figure /\ NoFigures \in Figure
    BY <1>1, <1>2, FiguresType DEF NoFigures
  <1>4. figures \in Figure /\ selected \in [Request -> Figure] /\ gone \subseteq Buyer
    BY <1>3 DEF Init
  <1>5. \A r \in Request : pending[r].in = {}
    BY DEF Init, Nothing
  <1> QED BY <1>1, <1>4, <1>5 DEF Rated

\* The request is answered, and its session forgets.
LEMMA AnswerRated ==
  ASSUME Shape, Rated, NEW r \in Request, NEW from, Answer(r, from)
  PROVE  /\ selected' \in [Request -> Figure]
         /\ \A q \in Request : IsFiniteSet(pending'[q].in)
  <1>1. NoFigures \in Figure /\ IsFiniteSet({})
    BY FiguresType, FS_EmptySet DEF NoFigures
  <1>2. selected' \in [Request -> Figure]
    BY <1>1 DEF Answer, Rated
  <1>3. \A q \in Request : pending'[q].in = {} \/ pending'[q] = pending[q]
    BY DEF Answer, Nothing, Shape
  <1> QED BY <1>1, <1>2, <1>3 DEF Rated

LEMMA RefuseRated ==
  ASSUME Shape, Rated, NEW r \in Request, NEW from, Refuse(r, from)
  PROVE  Rated'
  BY AnswerRated DEF Refuse, Rated

LEMMA HoldRated ==
  ASSUME Shape, Rated, NEW r \in Request, NEW out, NEW in, NEW to, Hold(r, out, in, to),
         IsFiniteSet(in)
  PROVE  Rated'
  <1>1. \A q \in Request : pending'[q].in = in \/ pending'[q] = pending[q]
    BY DEF Hold, Shape
  <1> QED BY <1>1 DEF Hold, Rated

LEMMA SelectRated ==
  ASSUME Shape, Rated, NEW r \in Request, NEW from, NEW to, SelectFigures(r, from, to)
  PROVE  Rated'
  <1>1. Figures(reviews) \in Figure
    BY FiguresType DEF Shape, Rated
  <1> QED BY <1>1 DEF SelectFigures, Rated

LEMMA FlushRated ==
  ASSUME Shape, Rated, NEW r \in Request, NEW from, Flush(r, from),
         figures' \in Figure
  PROVE  Rated'
  <1>1. IsFiniteSet((reviews \ Target(r)) \cup pending[r].in)
    BY FS_Difference, FS_Subset, FS_Union DEF Rated
  <1>2. Answer(r, from) /\ IsFiniteSet(reviews') /\ gone' = gone
    BY <1>1 DEF Flush, Commit, Rated
  <1> QED BY <1>2, AnswerRated DEF Rated

LEMMA WriteRated ==
  ASSUME Shape, Rated, NEW r \in Request, NEW from, Write(r, from)
  PROVE  Rated'
  <1>1. Flush(r, from) /\ figures' = selected[r]
    BY DEF Write
  <1>2. figures' \in Figure
    BY <1>1 DEF Rated
  <1> QED BY <1>1, <1>2, FlushRated

LEMMA NextRated == Shape /\ Rated /\ [Next]_vars => Rated'
  <1> SUFFICES ASSUME Shape, Rated, [Next]_vars PROVE Rated'
    OBVIOUS
  <1>1. ASSUME NEW r \in Request, PostReview(r) PROVE Rated'
    <2>1. ASSUME NEW s \in Stars, CreateCheck(r, s) PROVE Rated'
      BY <2>1, HoldRated, RefuseRated, FS_Singleton DEF CreateCheck
    <2> QED BY <1>1, <2>1, SelectRated, WriteRated, RefuseRated
            DEF PostReview, CreateSelect, CreateCommit
  <1>2. ASSUME NEW r \in Request, PatchReview(r) PROVE Rated'
    <2>1. ASSUME NEW v \in reviews, NEW s \in Stars, UpdateCheck(r, v, s) PROVE Rated'
      BY <2>1, HoldRated, RefuseRated, FS_Singleton DEF UpdateCheck
    <2>2. CASE UpdateSelect(r)
      <3>1. CASE SelectFigures(r, "update", "update_write")
        BY <3>1, SelectRated
      <3>2. CASE UNCHANGED <<reviews, figures, gone, locals, history>>
        BY <3>2 DEF Rated, locals
      <3> QED BY <2>2, <3>1, <3>2 DEF UpdateSelect
    <2>3. CASE UpdateCommit(r)
      <3>1. CASE Flush(r, "update_text") /\ figures' = figures
        BY <3>1, FlushRated DEF Rated
      <3> QED BY <2>3, <3>1, WriteRated, RefuseRated DEF UpdateCommit
    <2> QED BY <1>2, <2>1, <2>2, <2>3 DEF PatchReview
  <1>3. ASSUME NEW r \in Request, DeleteReview(r) PROVE Rated'
    <2>1. ASSUME NEW v \in reviews, DeleteCheck(r, v) PROVE Rated'
      BY <2>1, HoldRated, RefuseRated, FS_EmptySet DEF DeleteCheck
    <2> QED BY <1>3, <2>1, SelectRated, WriteRated DEF DeleteReview, DeleteSelect, DeleteCommit
  <1>4. ASSUME NEW r \in Request, DeleteUser(r) PROVE Rated'
    <2>1. /\ Answer(r, "new") /\ reviews' = reviews \ ReviewsOf(user[r])
          /\ figures' = figures /\ gone' = gone \cup {user[r]} /\ user[r] \in Buyer
      BY <1>4 DEF DeleteUser, Commit
    <2>2. IsFiniteSet(reviews')
      BY <2>1, FS_Subset DEF Rated
    <2> QED BY <2>1, <2>2, AnswerRated DEF Rated
  <1>5. ASSUME NEW r \in Request, Fail(r) PROVE Rated'
    BY <1>5, RefuseRated DEF Fail
  <1>6. CASE UNCHANGED vars
    BY <1>6 DEF vars, locals, Rated
  <1> QED BY <1>1, <1>2, <1>3, <1>4, <1>5, <1>6 DEF Next, Quiet

\* Every variable of the reviews keeps its type: a rating is that of no review or
\* lies between one star and five, whatever has been averaged.
THEOREM ReviewsTypeCorrect == Spec => []ReviewsTypeOK
  <1>1. ReviewsInv /\ Rated => ReviewsTypeOK
    BY DEF ReviewsInv, Shape, Rated, ReviewsTypeOK
  <1>2. ReviewsInv => Shape
    BY DEF ReviewsInv
  <1>3. Spec => []Rated
    BY <1>2, RatedInit, NextRated, ReviewsAlways, PTL DEF Spec
  <1> QED BY <1>1, <1>3, ReviewsAlways, PTL

-----------------------------------------------------------------------------
(* Discussions: the inductive invariant. *)

Setup == {"new", "auth", "user", "no_user", "discussion", "auth_ok"}
Looping == {"receive", "create", "publish"}
Ways == {"none", "disconnect", "timeout", "token", "type", "user", "discussion", "error"}

\* The type invariant but for the bounds of gauge and since.
WsTypes ==
    /\ exists \in BOOLEAN
    /\ stored \subseteq sent /\ sent \subseteq Message /\ unshown \subseteq stored
    /\ published \in Seq(Message)
    /\ at \in [Conn -> WsStage] /\ peer \in [Conn -> BOOLEAN]
    /\ msg \in [Conn -> Message \cup {None}]
    /\ \A c \in Conn : msg[c] # None <=> at[c] \in {"create", "publish"}
    /\ room \in [Conn -> BOOLEAN]
    /\ listener \in [Conn -> {"none", "starting", "idle", "sending", "ended"}]
    /\ queue \in [Conn -> Seq(Message)] /\ got \in [Conn -> Seq(Message)]
    /\ taken \in [Conn -> Message \cup {None}]
    /\ since \in [Conn -> Nat]
    /\ end \in [Conn -> Ways]
    /\ dropped \subseteq Conn

\* Where handler and listener may be, the one given the other.
Paired(c) ==
    /\ at[c] \in Setup => listener[c] = "none"
    /\ room[c] => at[c] \in Looping
    /\ listener[c] \in {"starting", "idle", "sending"} => room[c] \/ c \in dropped
    /\ listener[c] = "sending" <=> taken[c] # None
    /\ listener[c] = "sending" => room[c]
    /\ listener[c] \in {"none", "starting"} => got[c] = <<>> /\ queue[c] = <<>>
    /\ end[c] # "none" => at[c] = "closed"

\* How much of the channel c has been sent, and is being sent.
Seen(c) == since[c] + Len(got[c])
Sending(c) == IF taken[c] = None THEN 0 ELSE 1

\* What c has been sent is a stretch of the channel.
Heard(c) ==
    /\ Seen(c) <= Len(published)
    /\ \A i \in 1..Len(got[c]) : got[c][i] = published[since[c] + i]

\* While socket and listener live, the rest of the channel is on its way.
Coming(c) ==
    room[c] /\ Subscribed(c) =>
        /\ Seen(c) + Sending(c) + Len(queue[c]) = Len(published)
        /\ taken[c] # None => taken[c] = published[Seen(c) + 1]
        /\ \A i \in 1..Len(queue[c]) :
              queue[c][i] = published[Seen(c) + Sending(c) + i]

\* A message is published once, by the handler that has received it.
Once ==
    /\ Carried \subseteq sent
    /\ Len(published) = Cardinality(Carried)
    /\ \A c \in Conn : msg[c] # None => msg[c] \in sent \ Carried
    /\ \A c, d \in Conn : msg[c] # None /\ msg[c] = msg[d] => c = d

Unlost == stored \subseteq Carried \cup unshown \cup {msg[c] : c \in Conn}

\* The handlers that the gauge counts.
Counts(c) == Running(c) \/ end[c] \in {"type", "error"}
Counted == {c \in Conn : Counts(c)}

WsInv ==
    /\ WsTypes /\ Once /\ Unlost
    /\ gauge = Cardinality(Counted)
    /\ \A c \in Conn : Paired(c) /\ Heard(c) /\ Coming(c)

-----------------------------------------------------------------------------
(* The kinds of step. *)

\* c's handler before it has a room: its await, its end and the gauge.
SettingUp(c) ==
    /\ UNCHANGED <<server, task, msg>>
    /\ peer' \in [Conn -> BOOLEAN]
    /\ \/ UNCHANGED <<at, end, gauge>>
       \/ \E to \in Setup \cup {"closed"}, how \in Ways :
             /\ at[c] \in Setup
             /\ at' = [at EXCEPT ![c] = to]
             /\ end' = [end EXCEPT ![c] = how]
             /\ how # "none" => to = "closed"

\* The handler leaves the loop, whatever the gauge shows then.
Leaving(c) ==
    \E from \in Looping :
       \/ LeaveLoop(c, from, "disconnect", gauge - 1)
       \/ LeaveLoop(c, from, "error", gauge)

\* A handler or an HTTP request at the database.
Storing ==
    \/ \E c \in Conn, m \in Message, next \in {"create", "publish"} : Receive(c, m, next)
    \/ \E c \in Conn : CreateMessage(c)
    \/ \E m \in Message : PostMessage(m) \/ DeleteMessage(m)
    \/ DeleteDiscussion

LEMMA SetupSteps ==
  ASSUME WsInv, NEW c \in Conn,
         \/ Leave(c) \/ Accept(c) \/ AuthTimeout(c) \/ InvalidToken(c)
         \/ WrongType(c) \/ AuthBroken(c) \/ Authenticate(c) \/ FindUser(c)
         \/ UserNotFound(c) \/ UserNotFoundRaises(c) \/ FindDiscussion(c)
         \/ DiscussionNotFound(c) \/ SetupFails(c)
  PROVE  SettingUp(c)
  <1>0. end = [end EXCEPT ![c] = end[c]] /\ (at[c] # "closed" => end[c] = "none")
        /\ peer \in [Conn -> BOOLEAN] /\ end[c] \in Ways
    BY DEF WsInv, WsTypes, Paired
  <1>1. ASSUME Leave(c) PROVE SettingUp(c)
    BY <1>0, <1>1 DEF Leave, SettingUp
  <1>2. ASSUME NEW to \in Setup \cup {"closed"}, NEW how \in Ways,
               at[c] \in Setup, at' = [at EXCEPT ![c] = to],
               end' = [end EXCEPT ![c] = how], how # "none" => to = "closed",
               peer' = peer \/ (\E b \in BOOLEAN : peer' = [peer EXCEPT ![c] = b]),
               UNCHANGED <<server, task, msg>>
        PROVE  SettingUp(c)
    BY <1>0, <1>2 DEF SettingUp
  <1>3. ASSUME NEW from \in Setup, NEW how \in Ways, NEW g, Close(c, from, how, g)
        PROVE  SettingUp(c)
    BY <1>2, <1>3 DEF Close, WsGoto
  <1>4. ASSUME NEW from \in Setup, NEW to \in Setup, Wait(c, from, to)
        PROVE  SettingUp(c)
    <2>1. end[c] = "none" /\ end' = [end EXCEPT ![c] = "none"]
      BY <1>0, <1>4 DEF Wait, WsGoto, Setup
    <2> QED BY <1>2, <1>4, <2>1 DEF Wait, WsGoto, Ways
  <1>5. ASSUME Accept(c) \/ UserNotFound(c) PROVE SettingUp(c)
    <2>1. end[c] = "none" /\ end' = [end EXCEPT ![c] = "none"]
      BY <1>0, <1>5 DEF Accept, UserNotFound, WsGoto
    <2> QED BY <1>2, <1>5, <2>1 DEF Accept, UserNotFound, WsGoto, Setup, Ways
  <1>6. ASSUME \/ AuthTimeout(c) \/ InvalidToken(c) \/ WrongType(c) \/ AuthBroken(c)
               \/ UserNotFoundRaises(c) \/ DiscussionNotFound(c) \/ SetupFails(c)
        PROVE  SettingUp(c)
    BY <1>3, <1>6 DEF AuthTimeout, InvalidToken, WrongType, AuthBroken, Setup, Ways,
                      UserNotFoundRaises, DiscussionNotFound, SetupFails
  <1>7. ASSUME Authenticate(c) \/ FindUser(c) \/ FindDiscussion(c) PROVE SettingUp(c)
    BY <1>4, <1>7 DEF Authenticate, FindUser, FindDiscussion, Setup
  <1> QED BY <1>1, <1>5, <1>6, <1>7

LEMMA LeavingSteps ==
  ASSUME NEW c \in Conn, ReceiveDisconnect(c) \/ ExchangeFails(c)
  PROVE  Leaving(c)
  BY DEF ReceiveDisconnect, ExchangeFails, Leaving, Looping

-----------------------------------------------------------------------------
(* Types. *)

LEMMA WsInitInv == WsInit => WsInv
  <1> SUFFICES ASSUME WsInit PROVE WsInv
    OBVIOUS
  <1>1. <<>> \in Seq(Message) /\ Len(<<>>) = 0
    BY EmptySeq
  <1>2. WsTypes
    BY <1>1 DEF WsInit, WsTypes, WsStage, Ways
  <1>3. Carried = {}
    BY <1>1 DEF WsInit, Carried
  <1>4. Once
    BY <1>1, <1>3, FS_EmptySet DEF WsInit, Once
  <1>5. Unlost
    BY DEF WsInit, Unlost
  <1>6. Counted = {}
    BY DEF WsInit, Counted, Counts, Running
  <1>7. gauge = Cardinality(Counted)
    BY <1>6, FS_EmptySet DEF WsInit
  <1>8. \A c \in Conn : Paired(c) /\ Heard(c) /\ Coming(c)
    BY <1>1 DEF WsInit, Paired, Heard, Coming, Seen, Sending, Setup, Looping, Subscribed
  <1> QED BY <1>2, <1>4, <1>5, <1>7, <1>8 DEF WsInv

\* What is appended to and taken from queues are messages.
LEMMA QueueTypes ==
  ASSUME WsTypes, NEW s \in Seq(Message)
  PROVE  /\ \A m \in Message : Append(s, m) \in Seq(Message)
         /\ s # <<>> => Head(s) \in Message /\ Tail(s) \in Seq(Message)
  <1>1. \A m \in Message : Append(s, m) \in Seq(Message)
    BY AppendProperties
  <1>2. s # <<>> => Head(s) \in Message /\ Tail(s) \in Seq(Message)
    BY HeadTailProperties
  <1> QED BY <1>1, <1>2

LEMMA SetupTypes ==
  ASSUME WsInv, NEW c \in Conn, SettingUp(c)
  PROVE  WsTypes'
  <1>1. UNCHANGED <<exists, stored, sent, published, unshown, room, listener, queue,
                    taken, got, since, dropped, msg>>
    BY DEF SettingUp, server, task
  <1>0. /\ at \in [Conn -> WsStage] /\ end \in [Conn -> Ways]
        /\ \A d \in Conn : msg[d] # None <=> at[d] \in {"create", "publish"}
        /\ Setup \cup {"closed"} \subseteq WsStage
    BY DEF WsInv, WsTypes, Setup, WsStage
  <1>2. at' \in [Conn -> WsStage] /\ end' \in [Conn -> Ways]
    BY <1>0 DEF SettingUp
  <1>3. \A d \in Conn : msg[d] # None <=> at'[d] \in {"create", "publish"}
    BY <1>0 DEF SettingUp, Setup
  <1> QED BY <1>1, <1>2, <1>3 DEF WsInv, WsTypes, SettingUp

LEMMA ConnectTypes ==
  ASSUME WsInv, NEW c \in Conn, Connect(c)
  PROVE  WsTypes'
  <1>1. UNCHANGED <<exists, stored, sent, published, unshown, peer, msg, queue,
                    taken, got, since, dropped, end>>
    BY DEF Connect, server
  <1>2. at' = [at EXCEPT ![c] = "receive"] /\ at[c] = "auth_ok"
    BY DEF Connect, WsGoto
  <1> QED BY <1>1, <1>2 DEF WsInv, WsTypes, Connect, WsStage

LEMMA StoringTypes ==
  ASSUME WsInv, Storing
  PROVE  WsTypes'
  <1>0. WsTypes /\ None \notin Message
    BY DiscussionsAssumption DEF WsInv
  <1>1. ASSUME NEW c \in Conn, NEW m \in Message, NEW next \in {"create", "publish"},
               Receive(c, m, next)
        PROVE  WsTypes'
    <2>1. UNCHANGED <<exists, stored, published, unshown, room, listener, queue,
                      taken, got, since, dropped, peer, end>>
      BY <1>1 DEF Receive, task
    <2>2. at' = [at EXCEPT ![c] = next] /\ msg' = [msg EXCEPT ![c] = m]
          /\ sent' = sent \cup {m}
      BY <1>1 DEF Receive, WsGoto
    <2> QED BY <1>0, <2>1, <2>2 DEF WsTypes, WsStage
  <1>2. ASSUME NEW c \in Conn, CreateMessage(c)
        PROVE  WsTypes'
    <2>1. UNCHANGED <<exists, sent, published, unshown, room, listener, queue,
                      taken, got, since, dropped, peer, msg, end>>
      BY <1>2 DEF CreateMessage, task
    <2>2. at' = [at EXCEPT ![c] = "publish"] /\ at[c] = "create"
          /\ stored' = stored \cup {msg[c]}
      BY <1>2 DEF CreateMessage, WsGoto
    <2>3. msg[c] \in sent
      BY <1>0, <2>2 DEF WsInv, Once, WsTypes
    <2> QED BY <1>0, <2>1, <2>2, <2>3 DEF WsTypes, WsStage
  <1>3. ASSUME NEW m \in Message, PostMessage(m) \/ DeleteMessage(m)
        PROVE  WsTypes'
    BY <1>0, <1>3 DEF PostMessage, DeleteMessage, WsTypes, task
  <1>4. ASSUME DeleteDiscussion
        PROVE  WsTypes'
    BY <1>0, <1>4 DEF DeleteDiscussion, WsTypes, task
  <1> QED BY <1>1, <1>2, <1>3, <1>4 DEF Storing

LEMMA PublishTypes ==
  ASSUME WsInv, NEW c \in Conn, Publish(c)
  PROVE  WsTypes'
  <1>0. WsTypes /\ None \notin Message
    BY DiscussionsAssumption DEF WsInv
  <1>1. UNCHANGED <<exists, stored, sent, unshown, room, listener, taken, got, since,
                    dropped, peer, end>>
    BY DEF Publish
  <1>2. at' = [at EXCEPT ![c] = "receive"] /\ at[c] = "publish"
        /\ msg' = [msg EXCEPT ![c] = None]
    BY DEF Publish, WsGoto
  <1>3. msg[c] \in Message
    BY <1>0, <1>2 DEF WsTypes
  <1>4. published' \in Seq(Message)
    BY <1>0, <1>3, QueueTypes DEF Publish, WsTypes
  <1>5. queue' \in [Conn -> Seq(Message)]
    <2>1. \A q \in Conn : queue[q] \in Seq(Message) /\ Append(queue[q], msg[c]) \in Seq(Message)
      BY <1>0, <1>3, QueueTypes DEF WsTypes
    <2> QED BY <2>1 DEF Publish
  <1> QED BY <1>0, <1>1, <1>2, <1>4, <1>5 DEF WsTypes, WsStage

LEMMA LeavingTypes ==
  ASSUME WsInv, NEW c \in Conn, Leaving(c)
  PROVE  WsTypes'
  <1>0. WsTypes
    BY DEF WsInv
  <1>1. PICK from \in Looping, how \in {"disconnect", "error"}, g \in {gauge, gauge - 1} :
           LeaveLoop(c, from, how, g)
    BY DEF Leaving
  <1>2. UNCHANGED <<exists, stored, sent, published, got, since, dropped>>
        /\ at' = [at EXCEPT ![c] = "closed"] /\ msg' = [msg EXCEPT ![c] = None]
        /\ peer' = [peer EXCEPT ![c] = FALSE] /\ end' = [end EXCEPT ![c] = how]
        /\ Disconnect(c)
    BY <1>1 DEF LeaveLoop, WsGoto
  <1>3. unshown' \subseteq stored
    BY <1>0, <1>1 DEF LeaveLoop, WsTypes
  <1>4. /\ room' \in [Conn -> BOOLEAN]
        /\ listener' \in [Conn -> {"none", "starting", "idle", "sending", "ended"}]
        /\ queue' \in [Conn -> Seq(Message)]
        /\ taken' \in [Conn -> Message \cup {None}]
    <2>1. <<>> \in Seq(Message)
      BY EmptySeq
    <2>2. CASE room[c]
      BY <1>0, <1>2, <2>1, <2>2 DEF Disconnect, WsTypes
    <2>3. CASE ~room[c]
      BY <1>0, <1>2, <2>3 DEF Disconnect, WsTypes
    <2> QED BY <2>2, <2>3
  <1> QED BY <1>0, <1>2, <1>3, <1>4 DEF WsTypes, WsStage, Ways

LEMMA ListenerTypes ==
  ASSUME WsInv, NEW c \in Conn,
         Subscribe(c) \/ Listen(c) \/ BroadcastLocal(c) \/ ListenerFails(c)
  PROVE  WsTypes'
  <1>0. WsTypes /\ UNCHANGED <<exists, stored, sent, published, unshown, at, peer, msg, end>>
    BY DEF WsInv, Subscribe, Listen, BroadcastLocal, ListenerFails, server
  <1>1. ASSUME Subscribe(c) PROVE WsTypes'
    <2>1. Len(published) \in Nat
      BY <1>0, LenProperties DEF WsTypes
    <2> QED BY <1>0, <1>1, <2>1 DEF Subscribe, WsTypes
  <1>2. ASSUME Listen(c) PROVE WsTypes'
    <2>1. Head(queue[c]) \in Message /\ Tail(queue[c]) \in Seq(Message)
      BY <1>0, <1>2, QueueTypes DEF Listen, WsTypes
    <2>2. queue' = [queue EXCEPT ![c] = Tail(queue[c])]
      BY <1>2 DEF Listen
    <2>3. queue' \in [Conn -> Seq(Message)]
      BY <1>0, <2>1, <2>2 DEF WsTypes
    <2>4. /\ taken' \in [Conn -> Message \cup {None}]
          /\ listener' \in [Conn -> {"none", "starting", "idle", "sending", "ended"}]
      BY <1>0, <1>2, <2>1 DEF Listen, WsTypes
    <2>5. UNCHANGED <<room, got, since, dropped>>
      BY <1>2 DEF Listen
    <2> QED BY <1>0, <2>3, <2>4, <2>5 DEF WsTypes
  <1>3. ASSUME BroadcastLocal(c) PROVE WsTypes'
    <2>1. taken[c] \in Message
      BY <1>0, <1>3 DEF WsInv, Paired, BroadcastLocal, WsTypes
    <2>2. Append(got[c], taken[c]) \in Seq(Message)
      BY <1>0, <2>1, QueueTypes DEF WsTypes
    <2>3. got' \in [Conn -> Seq(Message)]
      BY <1>0, <1>3, <2>2 DEF BroadcastLocal, WsTypes
    <2> QED BY <1>0, <1>3, <2>3 DEF BroadcastLocal, WsTypes
  <1>4. ASSUME ListenerFails(c) PROVE WsTypes'
    BY <1>0, <1>4, EmptySeq DEF ListenerFails, WsTypes
  <1> QED BY <1>1, <1>2, <1>3, <1>4

-----------------------------------------------------------------------------
(* One connection at a time: its handler, its listener, its stretch. *)

Placed(c) == Paired(c) /\ Heard(c) /\ Coming(c)

\* The step is nothing to d.
Still(d) ==
    /\ at'[d] = at[d] /\ end'[d] = end[d] /\ room'[d] = room[d]
    /\ listener'[d] = listener[d] /\ queue'[d] = queue[d] /\ taken'[d] = taken[d]
    /\ got'[d] = got[d] /\ since'[d] = since[d]
    /\ d \in dropped => d \in dropped'

LEMMA OneMoves ==
  ASSUME WsInv, published' = published, NEW c \in Conn,
         \A d \in Conn \ {c} : Still(d), Placed(c)'
  PROVE  \A d \in Conn : Placed(d)'
  <1> SUFFICES ASSUME NEW d \in Conn, d # c PROVE Placed(d)'
    OBVIOUS
  <1>1. Paired(d) /\ Heard(d) /\ Coming(d) /\ Still(d)
    BY DEF WsInv
  <1>2. Paired(d)'
    BY <1>1 DEF Paired, Still
  <1>3. Heard(d)'
    BY <1>1 DEF Heard, Seen, Still
  <1>4. Coming(d)'
    BY <1>1 DEF Coming, Seen, Sending, Subscribed, Still
  <1> QED BY <1>2, <1>3, <1>4 DEF Placed

LEMMA SetupPlaced ==
  ASSUME WsInv, NEW c \in Conn, SettingUp(c)
  PROVE  \A d \in Conn : Placed(d)'
  <1>1. UNCHANGED <<published, room, listener, queue, taken, got, since, dropped>>
    BY DEF SettingUp, server, task
  <1>2. Paired(c) /\ Heard(c) /\ Coming(c) /\ at \in [Conn -> WsStage]
        /\ end \in [Conn -> Ways]
    BY DEF WsInv, WsTypes
  <1>3. \A d \in Conn \ {c} : Still(d)
    BY <1>1, <1>2 DEF SettingUp, Still
  <1>4. Heard(c)' /\ Coming(c)'
    BY <1>1, <1>2 DEF Heard, Coming, Seen, Sending, Subscribed
  <1>5. Paired(c)'
    <2>1. CASE UNCHANGED <<at, end>>
      BY <1>1, <1>2, <2>1 DEF Paired
    <2>2. ASSUME NEW to \in Setup \cup {"closed"}, NEW how \in Ways,
                 at[c] \in Setup, at' = [at EXCEPT ![c] = to],
                 end' = [end EXCEPT ![c] = how], how # "none" => to = "closed"
          PROVE  Paired(c)'
      BY <1>1, <1>2, <2>2 DEF Paired, Setup, Looping
    <2> QED BY <2>1, <2>2 DEF SettingUp
  <1> QED BY <1>1, <1>3, <1>4, <1>5, OneMoves DEF Placed

LEMMA ConnectPlaced ==
  ASSUME WsInv, NEW c \in Conn, Connect(c)
  PROVE  \A d \in Conn : Placed(d)'
  <1>1. UNCHANGED <<published, queue, taken, got, since, dropped, end>>
    BY DEF Connect, server
  <1>2. Paired(c) /\ Heard(c) /\ at \in [Conn -> WsStage] /\ room \in [Conn -> BOOLEAN]
        /\ listener \in [Conn -> {"none", "starting", "idle", "sending", "ended"}]
    BY DEF WsInv, WsTypes
  <1>3. at[c] = "auth_ok" /\ at' = [at EXCEPT ![c] = "receive"]
        /\ room' = [room EXCEPT ![c] = TRUE] /\ listener' = [listener EXCEPT ![c] = "starting"]
    BY DEF Connect, WsGoto
  <1>4. \A d \in Conn \ {c} : Still(d)
    BY <1>1, <1>2, <1>3 DEF Still
  <1>5. Heard(c)' /\ Coming(c)'
    BY <1>1, <1>2, <1>3 DEF Heard, Coming, Seen, Subscribed
  <1>6. Paired(c)'
    BY <1>1, <1>2, <1>3 DEF Paired, Setup, Looping
  <1> QED BY <1>1, <1>4, <1>5, <1>6, OneMoves DEF Placed

LEMMA StoringPlaced ==
  ASSUME WsInv, Storing
  PROVE  \A d \in Conn : Placed(d)'
  <1>1. UNCHANGED <<published, room, listener, queue, taken, got, since, dropped, end>>
    BY DEF Storing, Receive, CreateMessage, PostMessage, DeleteMessage, DeleteDiscussion, task
  <1>2. at \in [Conn -> WsStage] /\ \A d \in Conn : Paired(d) /\ Heard(d) /\ Coming(d)
    BY DEF WsInv, WsTypes
  <1>3. \/ at' = at
        \/ \E c \in Conn, to \in Looping : at[c] \in Looping /\ at' = [at EXCEPT ![c] = to]
    BY DEF Storing, Receive, CreateMessage, PostMessage, DeleteMessage, DeleteDiscussion,
           WsGoto, Looping
  <1>4. ASSUME NEW d \in Conn PROVE Placed(d)'
    <2>1. at'[d] = at[d] \/ (at[d] \in Looping /\ at'[d] \in Looping)
      BY <1>2, <1>3
    <2>2. Paired(d)'
      BY <1>1, <1>2, <2>1 DEF Paired, Setup, Looping
    <2>3. Heard(d)' /\ Coming(d)'
      BY <1>1, <1>2 DEF Heard, Coming, Seen, Sending, Subscribed
    <2> QED BY <2>2, <2>3 DEF Placed
  <1> QED BY <1>4

LEMMA LeavingPlaced ==
  ASSUME WsInv, NEW c \in Conn, Leaving(c)
  PROVE  \A d \in Conn : Placed(d)'
  <1>1. PICK from \in Looping, how \in {"disconnect", "error"}, g \in {gauge, gauge - 1} :
           LeaveLoop(c, from, how, g)
    BY DEF Leaving
  <1>2. UNCHANGED <<published, got, since, dropped>> /\ at[c] = from
        /\ at' = [at EXCEPT ![c] = "closed"] /\ end' = [end EXCEPT ![c] = how]
        /\ Disconnect(c)
    BY <1>1 DEF LeaveLoop, WsGoto
  <1>3. WsTypes /\ Paired(c) /\ Heard(c)
    BY DEF WsInv
  <1>4. \A d \in Conn \ {c} : Still(d)
    BY <1>2, <1>3 DEF Still, Disconnect, WsTypes
  <1>5. ~room'[c] /\ \/ listener'[c] = "ended" /\ taken'[c] = None
                     \/ /\ ~room[c] /\ listener'[c] = listener[c]
                        /\ taken'[c] = taken[c] /\ queue'[c] = queue[c]
    BY <1>2, <1>3 DEF Disconnect, WsTypes
  <1>6. Heard(c)' /\ Coming(c)'
    BY <1>2, <1>3, <1>5 DEF Heard, Coming, Seen
  <1>7. at'[c] = "closed" /\ at[c] \notin Setup
    BY <1>2, <1>3 DEF WsTypes, Setup, Looping
  <1>8. Paired(c)'
    BY <1>2, <1>3, <1>5, <1>7 DEF Paired, Setup, Looping
  <1> QED BY <1>2, <1>4, <1>6, <1>8, OneMoves DEF Placed

\* Lengths and elements of what is appended or taken off.
LEMMA Appended ==
  ASSUME NEW s \in Seq(Message), NEW m \in Message
  PROVE  /\ Len(s) \in Nat /\ Len(Append(s, m)) = Len(s) + 1
         /\ \A i \in 1..Len(s) : Append(s, m)[i] = s[i]
         /\ Append(s, m)[Len(s) + 1] = m
  BY AppendProperties, LenProperties

LEMMA TakenOff ==
  ASSUME NEW s \in Seq(Message), s # <<>>
  PROVE  /\ Len(s) \in Nat \ {0} /\ Len(Tail(s)) = Len(s) - 1
         /\ Head(s) = s[1] /\ Head(s) \in Message
         /\ \A i \in 1..Len(Tail(s)) : Tail(s)[i] = s[i + 1]
  <1>1. Len(s) \in Nat \ {0}
    BY EmptySeq
  <1>2. /\ Len(Tail(s)) = Len(s) - 1 /\ Head(s) \in Message
        /\ \A i \in 1..Len(Tail(s)) : Tail(s)[i] = s[i + 1]
    BY HeadTailProperties
  <1>3. Head(s) = s[1]
    OBVIOUS
  <1> QED BY <1>1, <1>2, <1>3

\* What is published is appended to the channel and to every subscription.
LEMMA PublishPlaced ==
  ASSUME WsInv, NEW c \in Conn, Publish(c)
  PROVE  \A d \in Conn : Placed(d)'
  <1>0. WsTypes /\ None \notin Message
    BY DiscussionsAssumption DEF WsInv
  <1>1. UNCHANGED <<room, listener, taken, got, since, dropped, end>>
    BY DEF Publish
  <1>2. at[c] = "publish" /\ at' = [at EXCEPT ![c] = "receive"]
    BY DEF Publish, WsGoto
  <1>3. msg[c] \in Message
    BY <1>0, <1>2 DEF WsTypes
  <1>4. published' = Append(published, msg[c]) /\ published \in Seq(Message)
    BY <1>0 DEF Publish, WsTypes
  <1>5. /\ Len(published) \in Nat /\ Len(published') = Len(published) + 1
        /\ \A i \in 1..Len(published) : published'[i] = published[i]
        /\ published'[Len(published) + 1] = msg[c]
    BY <1>3, <1>4, Appended
  <1> SUFFICES ASSUME NEW d \in Conn PROVE Placed(d)'
    OBVIOUS
  <1>6. Paired(d) /\ Heard(d) /\ Coming(d)
    BY DEF WsInv
  <1>7. queue'[d] = IF Subscribed(d) THEN Append(queue[d], msg[c]) ELSE queue[d]
    BY DEF Publish
  <1>8. queue[d] \in Seq(Message) /\ got[d] \in Seq(Message) /\ since[d] \in Nat
    BY <1>0 DEF WsTypes
  <1>9. Len(got[d]) \in Nat /\ Len(queue[d]) \in Nat
    BY <1>8, LenProperties
  <1>10. Paired(d)'
    <2>1. at'[d] = at[d] \/ (at[d] = "publish" /\ at'[d] = "receive")
      BY <1>0, <1>2 DEF WsTypes
    <2>2. listener[d] \in {"none", "starting"} => queue'[d] = queue[d]
      BY <1>7 DEF Subscribed
    <2> QED BY <1>1, <1>6, <2>1, <2>2 DEF Paired, Setup, Looping
  <1>11. Heard(d)'
    <2>1. Seen(d) \in Nat /\ Seen(d)' = Seen(d)
      BY <1>1, <1>8, <1>9 DEF Seen
    <2>2. Seen(d)' <= Len(published')
      BY <1>5, <1>6, <2>1 DEF Heard
    <2>3. ASSUME NEW i \in 1..Len(got[d]) PROVE got[d][i] = published'[since[d] + i]
      <3>1. since[d] + i \in 1..Len(published)
        BY <1>5, <1>6, <1>8, <1>9 DEF Heard, Seen
      <3> QED BY <1>5, <1>6, <3>1 DEF Heard
    <2> QED BY <1>1, <2>2, <2>3 DEF Heard
  <1>12. Coming(d)'
    <2> SUFFICES ASSUME room[d], Subscribed(d)
                 PROVE  /\ Seen(d) + Sending(d) + Len(queue'[d]) = Len(published')
                        /\ taken[d] # None => taken[d] = published'[Seen(d) + 1]
                        /\ \A i \in 1..Len(queue'[d]) :
                              queue'[d][i] = published'[Seen(d) + Sending(d) + i]
      BY <1>1 DEF Coming, Seen, Sending, Subscribed
    <2>1. /\ Len(queue'[d]) = Len(queue[d]) + 1
          /\ \A i \in 1..Len(queue[d]) : queue'[d][i] = queue[d][i]
          /\ queue'[d][Len(queue[d]) + 1] = msg[c]
      BY <1>3, <1>7, <1>8, Appended
    <2>2. Seen(d) \in Nat /\ Sending(d) \in {0, 1} /\ (taken[d] # None => Sending(d) = 1)
      BY <1>8, <1>9 DEF Seen, Sending
    <2>3. /\ Seen(d) + Sending(d) + Len(queue[d]) = Len(published)
          /\ taken[d] # None => taken[d] = published[Seen(d) + 1]
          /\ \A i \in 1..Len(queue[d]) :
                queue[d][i] = published[Seen(d) + Sending(d) + i]
      BY <1>6 DEF Coming
    <2>4. Seen(d) + Sending(d) + Len(queue'[d]) = Len(published')
      <3>1. Len(queue'[d]) = Len(queue[d]) + 1 /\ Len(published') = Len(published) + 1
        BY <1>5, <2>1
      <3>2. Seen(d) + Sending(d) + Len(queue[d]) = Len(published)
        BY <2>3
      <3>3. Seen(d) \in Nat /\ Sending(d) \in Nat /\ Len(queue[d]) \in Nat
        BY <1>9, <2>2
      <3> QED BY <3>1, <3>2, <3>3
    <2>5. ASSUME taken[d] # None PROVE taken[d] = published'[Seen(d) + 1]
      <3>1. Seen(d) + 1 \in 1..Len(published)
        BY <1>5, <1>9, <2>2, <2>3, <2>5
      <3> QED BY <1>5, <2>3, <2>5, <3>1
    <2>6. ASSUME NEW i \in 1..Len(queue'[d])
          PROVE  queue'[d][i] = published'[Seen(d) + Sending(d) + i]
      <3>1. CASE i = Len(queue[d]) + 1
        <4>1. Seen(d) + Sending(d) + Len(queue[d]) = Len(published)
          BY <2>3
        <4>2. Seen(d) \in Nat /\ Sending(d) \in Nat /\ Len(queue[d]) \in Nat
          BY <1>9, <2>2
        <4>3. Seen(d) + Sending(d) + (Len(queue[d]) + 1) = Len(published) + 1
          BY <4>1, <4>2
        <4> QED BY <1>5, <2>1, <3>1, <4>3
      <3>2. CASE i \in 1..Len(queue[d])
        <4>1. Seen(d) + Sending(d) + i \in 1..Len(published)
          BY <1>5, <1>9, <2>2, <2>3, <3>2
        <4> QED BY <1>5, <2>1, <2>3, <3>2, <4>1
      <3> QED BY <1>9, <2>1, <3>1, <3>2
    <2> QED BY <2>4, <2>5, <2>6
  <1> QED BY <1>10, <1>11, <1>12 DEF Placed

LEMMA ListenerPlaced ==
  ASSUME WsInv, NEW c \in Conn,
         Subscribe(c) \/ Listen(c) \/ BroadcastLocal(c) \/ ListenerFails(c)
  PROVE  \A d \in Conn : Placed(d)'
  <1>0. WsTypes /\ None \notin Message /\ UNCHANGED <<published, at, end>>
    BY DiscussionsAssumption DEF WsInv, Subscribe, Listen, BroadcastLocal, ListenerFails, server
  <1>1. Paired(c) /\ Heard(c) /\ Coming(c)
    BY DEF WsInv
  <1>2. queue[c] \in Seq(Message) /\ got[c] \in Seq(Message) /\ since[c] \in Nat
        /\ Len(queue[c]) \in Nat /\ Len(got[c]) \in Nat /\ Len(published) \in Nat
        /\ Len(<<>>) = 0
    BY <1>0, LenProperties, EmptySeq DEF WsTypes
  <1>3. ASSUME Subscribe(c) PROVE \A d \in Conn : Placed(d)'
    <2>1. UNCHANGED <<room, queue, taken, got, dropped>>
      BY <1>3 DEF Subscribe
    <2>2. listener[c] = "starting" /\ listener'[c] = "idle" /\ since'[c] = Len(published)
          /\ \A d \in Conn \ {c} : Still(d)
      BY <1>0, <1>3, <2>1 DEF Subscribe, Still, WsTypes
    <2>3. got[c] = <<>> /\ queue[c] = <<>> /\ taken[c] = None
      BY <1>1, <2>2 DEF Paired
    <2>4. Paired(c)'
      BY <1>0, <1>1, <2>1, <2>2, <2>3 DEF Paired, Setup
    <2>5. Heard(c)'
      BY <1>0, <1>2, <2>1, <2>2, <2>3 DEF Heard, Seen
    <2>6. Coming(c)'
      BY <1>0, <1>2, <2>1, <2>2, <2>3 DEF Coming, Seen, Sending
    <2> QED BY <1>0, <2>2, <2>4, <2>5, <2>6, OneMoves DEF Placed
  <1>4. ASSUME Listen(c) PROVE \A d \in Conn : Placed(d)'
    <2>1. UNCHANGED <<room, got, since, dropped>> /\ listener[c] = "idle" /\ queue[c] # <<>>
          /\ queue' = [queue EXCEPT ![c] = Tail(queue[c])]
      BY <1>4 DEF Listen
    <2>2. \A d \in Conn \ {c} : Still(d)
      BY <1>0, <1>4, <2>1 DEF Listen, Still, WsTypes
    <2>3. queue'[c] = Tail(queue[c])
      BY <1>0, <2>1 DEF WsTypes
    <2>4. room[c] => taken'[c] = Head(queue[c]) /\ listener'[c] = "sending"
      BY <1>0, <1>4 DEF Listen, WsTypes
    <2>5. ~room[c] => taken' = taken /\ listener' = listener
      BY <1>4 DEF Listen
    <2>6. /\ Len(Tail(queue[c])) = Len(queue[c]) - 1 /\ Len(queue[c]) \in Nat \ {0}
          /\ Head(queue[c]) = queue[c][1] /\ Head(queue[c]) \in Message
          /\ \A i \in 1..Len(Tail(queue[c])) : Tail(queue[c])[i] = queue[c][i + 1]
      BY <1>2, <2>1, TakenOff
    <2>7. taken[c] = None
      BY <1>1, <2>1 DEF Paired
    <2>8. Paired(c)'
      BY <1>0, <1>1, <2>1, <2>4, <2>5, <2>6 DEF Paired, Setup
    <2>9. Heard(c)'
      BY <1>0, <1>1, <2>1 DEF Heard, Seen
    <2>10. Coming(c)'
      <3> SUFFICES ASSUME room[c]
                   PROVE  /\ Seen(c) + 1 + Len(Tail(queue[c])) = Len(published)
                          /\ Head(queue[c]) = published[Seen(c) + 1]
                          /\ \A i \in 1..Len(Tail(queue[c])) :
                                Tail(queue[c])[i] = published[Seen(c) + 1 + i]
        BY <1>0, <2>1, <2>3, <2>4, <2>6 DEF Coming, Seen, Sending
      <3>1. Seen(c) \in Nat /\ Sending(c) = 0
        BY <1>2, <2>7 DEF Seen, Sending
      <3>2. /\ Seen(c) + Len(queue[c]) = Len(published)
            /\ \A i \in 1..Len(queue[c]) : queue[c][i] = published[Seen(c) + i]
        BY <1>1, <2>1, <3>1 DEF Coming, Subscribed
      <3>3. Seen(c) + 1 + Len(Tail(queue[c])) = Len(published)
        BY <1>2, <2>6, <3>1, <3>2
      <3>4. Head(queue[c]) = published[Seen(c) + 1]
        <4>1. 1 \in 1..Len(queue[c])
          BY <2>6
        <4> QED BY <2>6, <3>2, <4>1
      <3>5. ASSUME NEW i \in 1..Len(Tail(queue[c]))
            PROVE  Tail(queue[c])[i] = published[Seen(c) + 1 + i]
        <4>1. i + 1 \in 1..Len(queue[c]) /\ Seen(c) + (i + 1) = Seen(c) + 1 + i
          BY <2>6, <3>1
        <4>2. queue[c][i + 1] = published[Seen(c) + (i + 1)]
          BY <3>2, <4>1
        <4> QED BY <2>6, <4>1, <4>2
      <3> QED BY <3>3, <3>4, <3>5
    <2> QED BY <1>0, <2>2, <2>8, <2>9, <2>10, OneMoves DEF Placed
  <1>5. ASSUME BroadcastLocal(c) PROVE \A d \in Conn : Placed(d)'
    <2>1. UNCHANGED <<queue, since>> /\ listener[c] = "sending"
          /\ listener' = [listener EXCEPT ![c] = "idle"] /\ taken' = [taken EXCEPT ![c] = None]
      BY <1>5 DEF BroadcastLocal
    <2>2. \A d \in Conn \ {c} : Still(d)
      BY <1>0, <1>5, <2>1 DEF BroadcastLocal, Still, WsTypes
    <2>3. room[c] /\ taken[c] \in Message /\ taken'[c] = None /\ listener'[c] = "idle"
      BY <1>0, <1>1, <2>1 DEF Paired, WsTypes
    <2>4. CASE peer[c]
      <3>1. UNCHANGED <<room, dropped>> /\ got'[c] = Append(got[c], taken[c])
        BY <1>0, <1>5, <2>4 DEF BroadcastLocal, WsTypes
      <3>2. /\ Len(got'[c]) = Len(got[c]) + 1
            /\ \A i \in 1..Len(got[c]) : got'[c][i] = got[c][i]
            /\ got'[c][Len(got[c]) + 1] = taken[c]
        BY <1>2, <2>3, <3>1, Appended
      <3>3. Seen(c) \in Nat /\ Sending(c) = 1 /\ Seen(c)' = Seen(c) + 1 /\ Sending(c)' = 0
            /\ Seen(c) + 1 = since[c] + (Len(got[c]) + 1)
        <4>1. Sending(c) = 1 /\ Sending(c)' = 0
          BY <1>0, <2>3 DEF Sending
        <4>2. Seen(c) = since[c] + Len(got[c]) /\ Seen(c)' = since[c] + Len(got'[c])
          BY <2>1 DEF Seen
        <4>3. Len(got'[c]) = Len(got[c]) + 1
          BY <3>2
        <4>4. Seen(c) \in Nat /\ Seen(c)' = Seen(c) + 1
              /\ Seen(c) + 1 = since[c] + (Len(got[c]) + 1)
          BY <1>2, <4>2, <4>3
        <4> QED BY <4>1, <4>4
      <3>4. /\ Seen(c) + 1 + Len(queue[c]) = Len(published)
            /\ taken[c] = published[Seen(c) + 1]
            /\ \A i \in 1..Len(queue[c]) : queue[c][i] = published[Seen(c) + 1 + i]
        BY <1>0, <1>1, <2>1, <2>3, <3>3 DEF Coming, Subscribed
      <3>5. Paired(c)'
        BY <1>0, <1>1, <2>1, <2>3, <3>1 DEF Paired, Setup
      <3>6. Heard(c)'
        <4>1. Seen(c)' <= Len(published)
          BY <1>2, <3>3, <3>4
        <4>2. ASSUME NEW i \in 1..Len(got'[c]) PROVE got'[c][i] = published[since[c] + i]
          <5>1. CASE i = Len(got[c]) + 1
            BY <3>2, <3>3, <3>4, <5>1
          <5>2. CASE i \in 1..Len(got[c])
            BY <1>1, <3>2, <5>2 DEF Heard
          <5> QED BY <1>2, <3>2, <5>1, <5>2
        <4> QED BY <1>0, <2>1, <4>1, <4>2 DEF Heard
      <3>7. Coming(c)'
        <4>1. /\ Seen(c)' + Sending(c)' + Len(queue[c]) = Len(published)
              /\ \A i \in 1..Len(queue[c]) :
                    queue[c][i] = published[Seen(c)' + Sending(c)' + i]
          BY <1>2, <3>3, <3>4
        <4> QED BY <1>0, <2>1, <2>3, <4>1 DEF Coming
      <3> QED BY <1>0, <2>2, <3>5, <3>6, <3>7, OneMoves DEF Placed
    <2>5. CASE ~peer[c]
      <3>1. got' = got /\ ~room'[c] /\ c \in dropped'
        BY <1>0, <1>5, <2>5 DEF BroadcastLocal, WsTypes
      <3>2. Paired(c)'
        BY <1>0, <1>1, <2>1, <2>3, <3>1 DEF Paired, Setup, Looping
      <3>3. Heard(c)' /\ Coming(c)'
        BY <1>0, <1>1, <2>1, <3>1 DEF Heard, Coming, Seen
      <3> QED BY <1>0, <2>2, <3>2, <3>3, OneMoves DEF Placed
    <2> QED BY <2>4, <2>5
  <1>6. ASSUME ListenerFails(c) PROVE \A d \in Conn : Placed(d)'
    <2>1. UNCHANGED <<room, taken, got, since, dropped>> /\ listener'[c] = "ended"
          /\ listener[c] \in {"starting", "idle"}
      BY <1>0, <1>6 DEF ListenerFails, WsTypes
    <2>2. \A d \in Conn \ {c} : Still(d)
      BY <1>0, <1>6 DEF ListenerFails, Still, WsTypes
    <2>3. Paired(c)'
      BY <1>0, <1>1, <2>1 DEF Paired, Setup
    <2>4. Heard(c)' /\ Coming(c)'
      BY <1>0, <1>1, <2>1 DEF Heard, Coming, Seen, Subscribed
    <2> QED BY <1>0, <2>2, <2>3, <2>4, OneMoves DEF Placed
  <1> QED BY <1>3, <1>4, <1>5, <1>6

-----------------------------------------------------------------------------
(* The channel, the rows and the gauge. *)

LEMMA PublishOnce ==
  ASSUME WsInv, NEW c \in Conn, Publish(c)
  PROVE  Once' /\ Unlost'
  <1>0. WsTypes /\ None \notin Message /\ Once /\ Unlost
    BY DiscussionsAssumption DEF WsInv
  <1>1. UNCHANGED <<stored, sent, unshown>> /\ msg' = [msg EXCEPT ![c] = None]
        /\ at[c] = "publish"
    BY DEF Publish, WsGoto
  <1>2. msg[c] \in Message /\ msg[c] \in sent \ Carried
    BY <1>0, <1>1 DEF WsTypes, Once
  <1>3. published' = Append(published, msg[c]) /\ published \in Seq(Message)
    BY <1>0 DEF Publish, WsTypes
  <1>4. /\ Len(published) \in Nat /\ Len(published') = Len(published) + 1
        /\ \A i \in 1..Len(published) : published'[i] = published[i]
        /\ published'[Len(published) + 1] = msg[c]
    BY <1>2, <1>3, Appended
  <1>5. Carried' = Carried \cup {msg[c]}
    <2>1. ASSUME NEW m \in Carried' PROVE m \in Carried \cup {msg[c]}
      <3>1. PICK i \in 1..Len(published') : m = published'[i]
        BY <2>1 DEF Carried
      <3>2. i \in 1..Len(published) \/ i = Len(published) + 1
        BY <1>4, <3>1
      <3> QED BY <1>4, <3>1, <3>2 DEF Carried
    <2>2. ASSUME NEW m \in Carried PROVE m \in Carried'
      <3>1. PICK i \in 1..Len(published) : m = published[i]
        BY <2>2 DEF Carried
      <3>2. i \in 1..Len(published')
        BY <1>4, <3>1
      <3> QED BY <1>4, <3>1, <3>2 DEF Carried
    <2>3. msg[c] \in Carried'
      <3>1. Len(published) + 1 \in 1..Len(published')
        BY <1>4
      <3> QED BY <1>4, <3>1 DEF Carried
    <2> QED BY <2>1, <2>2, <2>3
  <1>6. Len(published') = Cardinality(Carried')
    <2>1. IsFiniteSet(Carried)
      BY <1>0, DiscussionsAssumption, FS_Subset DEF Once, WsTypes
    <2>2. Cardinality(Carried \cup {msg[c]}) = Cardinality(Carried) + 1
      BY <1>2, <2>1, FS_AddElement
    <2> QED BY <1>0, <1>4, <1>5, <2>2 DEF Once
  <1>7. Once'
    BY <1>0, <1>1, <1>2, <1>5, <1>6 DEF Once, WsTypes
  <1>8. Unlost'
    BY <1>0, <1>1, <1>5 DEF Unlost, WsTypes
  <1> QED BY <1>7, <1>8

LEMMA StoringOnce ==
  ASSUME WsInv, Storing
  PROVE  Once' /\ Unlost'
  <1>0. WsTypes /\ None \notin Message /\ Once /\ Unlost
    BY DiscussionsAssumption DEF WsInv
  <1>1. UNCHANGED published /\ Carried' = Carried
    BY DEF Storing, Receive, CreateMessage, PostMessage, DeleteMessage, DeleteDiscussion,
           Carried
  <1>2. ASSUME NEW c \in Conn, NEW m \in Message, NEW next \in {"create", "publish"},
               Receive(c, m, next)
        PROVE  Once' /\ Unlost'
    <2>1. UNCHANGED <<stored, unshown>> /\ msg' = [msg EXCEPT ![c] = m] /\ at[c] = "receive"
          /\ sent' = sent \cup {m} /\ m \notin sent
      BY <1>2 DEF Receive, WsGoto
    <2>2. msg[c] = None
      BY <1>0, <2>1 DEF WsTypes
    <2>3. Once'
      BY <1>0, <1>1, <2>1 DEF Once, WsTypes
    <2>4. Unlost'
      BY <1>0, <1>1, <2>1, <2>2 DEF Unlost, WsTypes
    <2> QED BY <2>3, <2>4
  <1>3. ASSUME NEW c \in Conn, CreateMessage(c)
        PROVE  Once' /\ Unlost'
    BY <1>0, <1>1, <1>3 DEF CreateMessage, Once, Unlost
  <1>4. ASSUME NEW m \in Message, PostMessage(m)
        PROVE  Once' /\ Unlost'
    BY <1>0, <1>1, <1>4 DEF PostMessage, Once, Unlost
  <1>5. ASSUME NEW m \in Message, DeleteMessage(m)
        PROVE  Once' /\ Unlost'
    BY <1>0, <1>1, <1>5 DEF DeleteMessage, Once, Unlost
  <1>6. ASSUME DeleteDiscussion
        PROVE  Once' /\ Unlost'
    BY <1>0, <1>1, <1>6 DEF DeleteDiscussion, Once, Unlost
  <1> QED BY <1>2, <1>3, <1>4, <1>5, <1>6 DEF Storing

LEMMA LeavingOnce ==
  ASSUME WsInv, NEW c \in Conn, Leaving(c)
  PROVE  Once' /\ Unlost'
  <1>0. WsTypes /\ None \notin Message /\ Once /\ Unlost
    BY DiscussionsAssumption DEF WsInv
  <1>1. UNCHANGED <<stored, sent, published>> /\ msg' = [msg EXCEPT ![c] = None]
        /\ Carried' = Carried
        /\ unshown' = IF msg[c] \in stored THEN unshown \cup {msg[c]} ELSE unshown
    BY DEF Leaving, LeaveLoop, Carried
  <1>2. Once'
    BY <1>0, <1>1 DEF Once, WsTypes
  <1>3. Unlost'
    BY <1>0, <1>1 DEF Unlost, WsTypes
  <1> QED BY <1>2, <1>3

LEMMA SameOnce ==
  ASSUME WsInv, UNCHANGED <<stored, sent, published, unshown, msg>>
  PROVE  Once' /\ Unlost'
  BY DEF WsInv, Once, Unlost, Carried

\* One more is counted, one less, or as many as before.
LEMMA Counting ==
  ASSUME WsInv, NEW c \in Conn,
         \A d \in Conn \ {c} : at'[d] = at[d] /\ end'[d] = end[d],
         \/ ~Counts(c) /\ Counts(c)' /\ gauge' = gauge + 1
         \/ Counts(c) /\ ~Counts(c)' /\ gauge' = gauge - 1
         \/ (Counts(c) <=> Counts(c)') /\ gauge' = gauge
  PROVE  gauge' = Cardinality(Counted')
  <1>1. \A d \in Conn \ {c} : Counts(d) <=> Counts(d)'
    BY DEF Counts, Running
  <1>2. gauge = Cardinality(Counted) /\ IsFiniteSet(Counted) /\ Cardinality(Counted) \in Nat
    BY DiscussionsAssumption, FS_Subset, FS_CardinalityType DEF WsInv, Counted
  <1>3. CASE ~Counts(c) /\ Counts(c)' /\ gauge' = gauge + 1
    <2>1. c \notin Counted /\ Counted' = Counted \cup {c}
      BY <1>1, <1>3 DEF Counted
    <2> QED BY <1>2, <1>3, <2>1, FS_AddElement
  <1>4. CASE Counts(c) /\ ~Counts(c)' /\ gauge' = gauge - 1
    <2>1. c \in Counted /\ Counted' = Counted \ {c}
      BY <1>1, <1>4 DEF Counted
    <2> QED BY <1>2, <1>4, <2>1, FS_RemoveElement
  <1>5. CASE (Counts(c) <=> Counts(c)') /\ gauge' = gauge
    <2>1. Counted' = Counted
      BY <1>1, <1>5 DEF Counted
    <2> QED BY <1>2, <1>5, <2>1
  <1> QED BY <1>3, <1>4, <1>5

LEMMA SetupCounted ==
  ASSUME WsInv, NEW c \in Conn,
         \/ Leave(c) \/ Accept(c) \/ AuthTimeout(c) \/ InvalidToken(c)
         \/ WrongType(c) \/ AuthBroken(c) \/ Authenticate(c) \/ FindUser(c)
         \/ UserNotFound(c) \/ UserNotFoundRaises(c) \/ FindDiscussion(c)
         \/ DiscussionNotFound(c) \/ SetupFails(c) \/ Connect(c)
  PROVE  gauge' = Cardinality(Counted')
  <1>0. at \in [Conn -> WsStage] /\ end \in [Conn -> Ways]
        /\ (at[c] # "closed" => end[c] = "none")
    BY DEF WsInv, WsTypes, Paired
  <1>1. ASSUME NEW from, NEW to, NEW how, NEW g \in {gauge, gauge + 1, gauge - 1},
               at[c] = from, from # "closed", at' = [at EXCEPT ![c] = to],
               end' = [end EXCEPT ![c] = how] \/ (end' = end /\ how = "none"), gauge' = g,
               \/ from \in {"new", "no_user"} /\ to \notin {"new", "no_user", "closed"}
                  /\ g = gauge + 1
               \/ from \notin {"new", "no_user"} /\ to \in {"new", "no_user", "closed"}
                  /\ how \notin {"type", "error"} /\ g = gauge - 1
               \/ from \notin {"new", "no_user"} /\ g = gauge
                  /\ (how \in {"type", "error"} \/ to \notin {"new", "no_user", "closed"})
               \/ from \in {"new", "no_user"} /\ g = gauge
                  /\ how \notin {"type", "error"} /\ to \in {"new", "no_user", "closed"}
        PROVE  gauge' = Cardinality(Counted')
    <2>1. \A d \in Conn \ {c} : at'[d] = at[d] /\ end'[d] = end[d]
      BY <1>0, <1>1
    <2>2. at'[c] = to /\ end'[c] = how /\ end[c] = "none"
      BY <1>0, <1>1
    <2>3. Counts(c) <=> from \notin {"new", "no_user"}
      BY <1>1, <2>2 DEF Counts, Running
    <2>4. Counts(c)' <=> to \notin {"new", "no_user", "closed"} \/ how \in {"type", "error"}
      BY <2>2 DEF Counts, Running
    <2>5. \/ ~Counts(c) /\ Counts(c)' /\ gauge' = gauge + 1
          \/ Counts(c) /\ ~Counts(c)' /\ gauge' = gauge - 1
          \/ (Counts(c) <=> Counts(c)') /\ gauge' = gauge
      BY <1>1, <2>3, <2>4
    <2> QED BY <2>1, <2>5, Counting
  <1>2. ASSUME Leave(c) PROVE gauge' = Cardinality(Counted')
    BY <1>2, Counting DEF Leave, Counts, Running
  <1>3. ASSUME Accept(c) PROVE gauge' = Cardinality(Counted')
    BY <1>1, <1>3 DEF Accept, WsGoto
  <1>4. ASSUME AuthTimeout(c) \/ InvalidToken(c) \/ DiscussionNotFound(c)
        PROVE  gauge' = Cardinality(Counted')
    BY <1>1, <1>4 DEF AuthTimeout, InvalidToken, DiscussionNotFound, Close, WsGoto
  <1>5. ASSUME WrongType(c) \/ AuthBroken(c) \/ SetupFails(c)
        PROVE  gauge' = Cardinality(Counted')
    BY <1>1, <1>5 DEF WrongType, AuthBroken, SetupFails, Close, WsGoto
  <1>6. ASSUME Authenticate(c) \/ FindUser(c) \/ FindDiscussion(c)
        PROVE  gauge' = Cardinality(Counted')
    BY <1>1, <1>6 DEF Authenticate, FindUser, FindDiscussion, Wait, WsGoto
  <1>7. ASSUME UserNotFound(c) PROVE gauge' = Cardinality(Counted')
    BY <1>1, <1>7 DEF UserNotFound, WsGoto
  <1>8. ASSUME UserNotFoundRaises(c) PROVE gauge' = Cardinality(Counted')
    <2>1. /\ at[c] = "no_user" /\ at' = [at EXCEPT ![c] = "closed"]
          /\ end' = [end EXCEPT ![c] = "user"] /\ gauge' = gauge
      BY <1>8 DEF UserNotFoundRaises, Close, WsGoto
    <2>2. ~Counts(c) /\ ~Counts(c)'
      BY <1>0, <2>1 DEF Counts, Running
    <2>3. \A d \in Conn \ {c} : at'[d] = at[d] /\ end'[d] = end[d]
      BY <1>0, <2>1
    <2> QED BY <2>1, <2>2, <2>3, Counting
  <1>9. ASSUME Connect(c) PROVE gauge' = Cardinality(Counted')
    BY <1>1, <1>9 DEF Connect, WsGoto
  <1> QED BY <1>2, <1>3, <1>4, <1>5, <1>6, <1>7, <1>8, <1>9

LEMMA LeavingCounted ==
  ASSUME WsInv, NEW c \in Conn, Leaving(c)
  PROVE  gauge' = Cardinality(Counted')
  <1>0. at \in [Conn -> WsStage] /\ end \in [Conn -> Ways]
    BY DEF WsInv, WsTypes
  <1>1. PICK from \in Looping, how \in {"disconnect", "error"} :
           /\ at[c] = from /\ at' = [at EXCEPT ![c] = "closed"]
           /\ end' = [end EXCEPT ![c] = how]
           /\ IF how = "error" THEN gauge' = gauge ELSE gauge' = gauge - 1
    BY DEF Leaving, LeaveLoop, WsGoto
  <1>2. Counts(c)
    BY <1>1 DEF Counts, Running, Looping
  <1>3. Counts(c)' <=> how = "error"
    BY <1>0, <1>1 DEF Counts, Running
  <1>4. \A d \in Conn \ {c} : at'[d] = at[d] /\ end'[d] = end[d]
    BY <1>0, <1>1
  <1> QED BY <1>1, <1>2, <1>3, <1>4, Counting

\* The handler goes on, and is counted as before.
LEMMA OnCounted ==
  ASSUME WsInv, gauge' = gauge, end' = end,
         \A c \in Conn : at'[c] = at[c] \/ (at[c] \in Looping /\ at'[c] \in Looping)
  PROVE  gauge' = Cardinality(Counted')
  <1>1. \A c \in Conn : Counts(c) <=> Counts(c)'
    BY DEF Counts, Running, Looping
  <1>2. Counted' = Counted
    BY <1>1 DEF Counted
  <1> QED BY <1>2 DEF WsInv

-----------------------------------------------------------------------------
LEMMA WsNextInv == WsInv /\ [WsNext]_wsVars => WsInv'
  <1> SUFFICES ASSUME WsInv, [WsNext]_wsVars PROVE WsInv'
    OBVIOUS
  <1>0. at \in [Conn -> WsStage] /\ WsTypes
    BY DEF WsInv, WsTypes
  <1>1. ASSUME NEW c \in Conn,
               \/ Leave(c) \/ Accept(c) \/ AuthTimeout(c) \/ InvalidToken(c)
               \/ WrongType(c) \/ AuthBroken(c) \/ Authenticate(c) \/ FindUser(c)
               \/ UserNotFound(c) \/ UserNotFoundRaises(c) \/ FindDiscussion(c)
               \/ DiscussionNotFound(c) \/ SetupFails(c)
        PROVE  WsInv'
    <2>1. SettingUp(c)
      BY <1>1, SetupSteps
    <2>2. WsTypes' /\ \A d \in Conn : Placed(d)'
      BY <2>1, SetupTypes, SetupPlaced
    <2>3. Once' /\ Unlost'
      BY <2>1, SameOnce DEF SettingUp, server
    <2>4. gauge' = Cardinality(Counted')
      BY <1>1, SetupCounted
    <2> QED BY <2>2, <2>3, <2>4 DEF WsInv, Placed
  <1>2. ASSUME NEW c \in Conn, Connect(c)
        PROVE  WsInv'
    <2>1. WsTypes' /\ \A d \in Conn : Placed(d)'
      BY <1>2, ConnectTypes, ConnectPlaced
    <2>2. Once' /\ Unlost'
      BY <1>2, SameOnce DEF Connect, server
    <2>3. gauge' = Cardinality(Counted')
      BY <1>2, SetupCounted
    <2> QED BY <2>1, <2>2, <2>3 DEF WsInv, Placed
  <1>3. ASSUME Storing
        PROVE  WsInv'
    <2>1. WsTypes' /\ (\A d \in Conn : Placed(d)') /\ Once' /\ Unlost'
      BY <1>3, StoringTypes, StoringPlaced, StoringOnce
    <2>2. gauge' = gauge /\ end' = end
      BY <1>3 DEF Storing, Receive, CreateMessage, PostMessage, DeleteMessage,
                  DeleteDiscussion
    <2>3. \/ at' = at
          \/ \E c \in Conn, to \in Looping : at[c] \in Looping /\ at' = [at EXCEPT ![c] = to]
      BY <1>3 DEF Storing, Receive, CreateMessage, PostMessage, DeleteMessage,
                  DeleteDiscussion, WsGoto, Looping
    <2>4. gauge' = Cardinality(Counted')
      BY <1>0, <2>2, <2>3, OnCounted
    <2> QED BY <2>1, <2>4 DEF WsInv, Placed
  <1>4. ASSUME NEW c \in Conn, Publish(c)
        PROVE  WsInv'
    <2>1. WsTypes' /\ (\A d \in Conn : Placed(d)') /\ Once' /\ Unlost'
      BY <1>4, PublishTypes, PublishPlaced, PublishOnce
    <2>2. gauge' = gauge /\ end' = end /\ at[c] = "publish" /\ at' = [at EXCEPT ![c] = "receive"]
      BY <1>4 DEF Publish, WsGoto
    <2>3. gauge' = Cardinality(Counted')
      BY <1>0, <2>2, OnCounted DEF Looping
    <2> QED BY <2>1, <2>3 DEF WsInv, Placed
  <1>5. ASSUME NEW c \in Conn, ReceiveDisconnect(c) \/ ExchangeFails(c)
        PROVE  WsInv'
    <2>1. Leaving(c)
      BY <1>5, LeavingSteps
    <2> QED BY <2>1, LeavingTypes, LeavingPlaced, LeavingOnce, LeavingCounted
            DEF WsInv, Placed
  <1>6. ASSUME NEW c \in Conn,
               Subscribe(c) \/ Listen(c) \/ BroadcastLocal(c) \/ ListenerFails(c)
        PROVE  WsInv'
    <2>1. WsTypes' /\ \A d \in Conn : Placed(d)'
      BY <1>6, ListenerTypes, ListenerPlaced
    <2>2. UNCHANGED <<stored, sent, published, unshown, msg, gauge, end, at>>
      BY <1>6 DEF Subscribe, Listen, BroadcastLocal, ListenerFails, server
    <2>3. Once' /\ Unlost'
      BY <2>2, SameOnce
    <2>4. gauge' = Cardinality(Counted')
      BY <2>2, OnCounted
    <2> QED BY <2>1, <2>3, <2>4 DEF WsInv, Placed
  <1>7. CASE UNCHANGED wsVars
    <2>1. UNCHANGED <<exists, stored, sent, published, unshown, room, listener, queue, taken,
                      got, since, dropped, at, peer, msg, gauge, end>>
      BY <1>7 DEF wsVars, server, task
    <2>2. WsTypes'
      BY <1>0, <2>1 DEF WsTypes
    <2>3. Once' /\ Unlost' /\ gauge' = Cardinality(Counted')
      BY <2>1, SameOnce, OnCounted
    <2>4. ASSUME NEW d \in Conn PROVE Placed(d)'
      <3>1. Paired(d) /\ Heard(d) /\ Coming(d)
        BY DEF WsInv
      <3>2. Paired(d)'
        BY <2>1, <3>1 DEF Paired
      <3>3. Heard(d)' /\ Coming(d)'
        BY <2>1, <3>1 DEF Heard, Coming, Seen, Sending, Subscribed
      <3> QED BY <3>2, <3>3 DEF Placed
    <2> QED BY <2>2, <2>3, <2>4 DEF WsInv, Placed
  <1> QED BY <1>1, <1>2, <1>3, <1>4, <1>5, <1>6, <1>7 DEF WsNext, Storing, Done

LEMMA WsAlways == WsSpec => []WsInv
  BY WsInitInv, WsNextInv, PTL DEF WsSpec

\* No subscription begins beyond the channel, and no message is twice on it.
THEOREM WsTypeCorrect == WsSpec => []WsTypeOK
  <1>1. WsInv => WsTypeOK
    <2> SUFFICES ASSUME WsInv PROVE WsTypeOK
      OBVIOUS
    <2>1. WsTypes /\ Once
      BY DEF WsInv
    <2>2. Len(published) \in Nat /\ Len(published) <= Cardinality(Message)
      <3>1. Carried \subseteq Message
        BY <2>1 DEF WsTypes, Once
      <3>2. Cardinality(Carried) <= Cardinality(Message)
        BY <3>1, DiscussionsAssumption, FS_Subset
      <3>3. Len(published) \in Nat
        BY <2>1, LenProperties DEF WsTypes
      <3> QED BY <2>1, <3>2, <3>3 DEF Once
    <2>3. Cardinality(Message) \in Nat /\ Cardinality(Conn) \in Nat
      BY DiscussionsAssumption, FS_CardinalityType
    <2>4. ASSUME NEW c \in Conn PROVE since[c] \in 0..Cardinality(Message)
      <3>1. since[c] + Len(got[c]) <= Len(published)
        BY DEF WsInv, Heard, Seen
      <3>2. since[c] \in Nat /\ Len(got[c]) \in Nat
        BY <2>1, LenProperties DEF WsTypes
      <3> QED BY <2>2, <2>3, <3>1, <3>2
    <2>5. since \in [Conn -> 0..Cardinality(Message)]
      BY <2>1, <2>4 DEF WsTypes
    <2>6. gauge \in 0..Cardinality(Conn)
      <3>1. Cardinality(Counted) \in Nat /\ Cardinality(Counted) <= Cardinality(Conn)
        BY DiscussionsAssumption, FS_Subset, FS_CardinalityType DEF Counted
      <3> QED BY <2>3, <3>1 DEF WsInv
    <2> QED BY <2>1, <2>5, <2>6 DEF WsTypes, WsTypeOK, Ways
  <1> QED BY <1>1, WsAlways, PTL

\* For any number of sockets and messages, the gauge is too high by the handlers
\* that ended at a wrong first message or by an exception, and a listener outlives
\* its handler only after a send that failed.
THEOREM GaugeLeaks == WsSpec => []OnlyFailuresLeak
  <1>1. WsInv => OnlyFailuresLeak
    <2> SUFFICES ASSUME WsInv PROVE OnlyFailuresLeak
      OBVIOUS
    <2>1. gauge = Cardinality({c \in Conn : Running(c) \/ end[c] \in {"type", "error"}})
      BY DEF WsInv, Counted, Counts
    <2>2. ASSUME NEW c \in Conn, at[c] = "closed", listener[c] \notin {"none", "ended"}
          PROVE  c \in dropped
      BY <2>2 DEF WsInv, WsTypes, Paired, Looping
    <2> QED BY <2>1, <2>2 DEF OnlyFailuresLeak
  <1> QED BY <1>1, WsAlways, PTL

\* s is the stretch of the channel p that begins after its m-th message.
Stretch(s, p, m) ==
    /\ m + Len(s) <= Len(p)
    /\ \A i \in 1..Len(s) : s[i] = p[m + i]

LEMMA StretchIsSubSeq ==
  ASSUME NEW p \in Seq(Message), NEW s \in Seq(Message), NEW m \in Nat, Stretch(s, p, m)
  PROVE  s = SubSeq(p, m + 1, m + Len(s))
  <1> DEFINE n == Len(s)
             t == SubSeq(p, m + 1, m + n)
  <1>1. n \in Nat /\ Len(p) \in Nat
    BY LenProperties
  <1>2. m + n <= Len(p) /\ \A i \in 1..n : s[i] = p[m + i]
    BY DEF Stretch
  <1> HIDE DEF n
  <1>3. \A i \in (m + 1)..(m + n) : p[i] \in Message
    <2> SUFFICES ASSUME NEW i \in (m + 1)..(m + n) PROVE p[i] \in Message
      OBVIOUS
    <2>1. i \in 1..Len(p)
      BY <1>1, <1>2
    <2> QED BY <2>1, ElementOfSeq
  <1>4. m + 1 \in Int /\ m + n \in Int
    BY <1>1
  <1>5. /\ t \in Seq(Message)
        /\ Len(t) = IF m + 1 <= m + n THEN (m + n) - (m + 1) + 1 ELSE 0
        /\ \A i \in 1..((m + n) - (m + 1) + 1) : t[i] = p[(m + 1) + i - 1]
    BY <1>3, <1>4, SubSeqProperties
  <1> HIDE DEF t
  <1>6. Len(t) = n
    BY <1>1, <1>5
  <1>7. \A i \in 1..n : t[i] = s[i]
    <2> SUFFICES ASSUME NEW i \in 1..n PROVE t[i] = s[i]
      OBVIOUS
    <2>1. i \in 1..((m + n) - (m + 1) + 1) /\ (m + 1) + i - 1 = m + i
      BY <1>1
    <2>2. t[i] = p[m + i]
      BY <1>5, <2>1
    <2> QED BY <1>2, <2>2
  <1>8. s = t
    BY <1>5, <1>6, <1>7, SeqEqual DEF n
  <1> QED BY <1>8 DEF t, n

\* Two stretches one after the other.
LEMMA StretchesJoin ==
  ASSUME NEW p \in Seq(Message), NEW s \in Seq(Message), NEW t \in Seq(Message),
         NEW m \in Nat, Stretch(s, p, m), Stretch(t, p, m + Len(s))
  PROVE  s \o t \in Seq(Message) /\ Stretch(s \o t, p, m) /\ Len(s \o t) = Len(s) + Len(t)
  <1>1. Len(s) \in Nat /\ Len(t) \in Nat /\ Len(p) \in Nat
    BY LenProperties
  <1>2. /\ s \o t \in Seq(Message) /\ Len(s \o t) = Len(s) + Len(t)
        /\ \A i \in 1..(Len(s) + Len(t)) :
              (s \o t)[i] = IF i <= Len(s) THEN s[i] ELSE t[i - Len(s)]
    BY ConcatProperties
  <1>3. m + Len(s \o t) <= Len(p)
    BY <1>1, <1>2 DEF Stretch
  <1>4. ASSUME NEW i \in 1..Len(s \o t) PROVE (s \o t)[i] = p[m + i]
    <2>1. CASE i <= Len(s)
      <3>1. i \in 1..Len(s) /\ i \in 1..(Len(s) + Len(t))
        BY <1>1, <1>2, <2>1
      <3>2. s[i] = p[m + i]
        BY <3>1 DEF Stretch
      <3> QED BY <1>2, <2>1, <3>1, <3>2
    <2>2. CASE ~(i <= Len(s))
      <3>1. i - Len(s) \in 1..Len(t) /\ i \in 1..(Len(s) + Len(t))
            /\ (m + Len(s)) + (i - Len(s)) = m + i
        BY <1>1, <1>2, <2>2
      <3>2. t[i - Len(s)] = p[(m + Len(s)) + (i - Len(s))]
        BY <3>1 DEF Stretch
      <3> QED BY <1>2, <2>2, <3>1, <3>2
    <2> QED BY <2>1, <2>2
  <1> QED BY <1>2, <1>3, <1>4 DEF Stretch

\* A client sees the channel without gap, repetition or change of order from the
\* moment its listener has subscribed, and no stored message fails to reach the
\* channel but those the code gives up.
THEOREM WithoutGap == WsSpec => []SeenWithoutGap
  <1>1. WsInv => SeenWithoutGap
    <2> SUFFICES ASSUME WsInv PROVE SeenWithoutGap
      OBVIOUS
    <2>1. WsTypes /\ None \notin Message
      BY DiscussionsAssumption DEF WsInv
    <2>2. published \in Seq(Message) /\ Len(published) \in Nat
      BY <2>1, LenProperties DEF WsTypes
    <2>3. ASSUME NEW c \in Conn
          PROVE  /\ got[c] \in Seq(Message) /\ Len(got[c]) \in Nat /\ since[c] \in Nat
                 /\ Stretch(got[c], published, since[c])
      <3>1. got[c] \in Seq(Message) /\ Len(got[c]) \in Nat /\ since[c] \in Nat
        BY <2>1, LenProperties DEF WsTypes
      <3> QED BY <3>1 DEF WsInv, Heard, Seen, Stretch
    <2>4. ASSUME NEW c \in Conn
          PROVE  got[c] = SubSeq(published, since[c] + 1, since[c] + Len(got[c]))
      BY <2>2, <2>3, StretchIsSubSeq
    <2>5. ASSUME NEW c \in Conn, room[c], Subscribed(c)
          PROVE  Line(c) = SubSeq(published, since[c] + 1, Len(published))
      <3> DEFINE t == IF taken[c] = None THEN <<>> ELSE <<taken[c]>>
                 g == got[c] \o t
      <3>1. queue[c] \in Seq(Message) /\ Len(queue[c]) \in Nat
        BY <2>1, LenProperties DEF WsTypes
      <3>2. /\ Seen(c) + Sending(c) + Len(queue[c]) = Len(published)
            /\ taken[c] # None => taken[c] = published[Seen(c) + 1]
            /\ \A i \in 1..Len(queue[c]) : queue[c][i] = published[Seen(c) + Sending(c) + i]
            /\ Seen(c) = since[c] + Len(got[c]) /\ Seen(c) \in Nat
        BY <2>3, <2>5 DEF WsInv, Coming, Seen
      <3>3. t \in Seq(Message) /\ Len(t) = Sending(c)
            /\ (Sending(c) = 0 \/ (Sending(c) = 1 /\ t[1] = taken[c] /\ taken[c] # None))
        BY <2>1 DEF WsTypes, Sending
      <3> HIDE DEF t
      <3>4. Stretch(t, published, since[c] + Len(got[c]))
        <4>1. Seen(c) + Len(t) <= Len(published)
          BY <2>2, <3>1, <3>2, <3>3
        <4>2. ASSUME NEW i \in 1..Len(t) PROVE t[i] = published[Seen(c) + i]
          <5>1. i = 1 /\ Sending(c) = 1
            BY <3>3, <4>2
          <5> QED BY <3>2, <3>3, <5>1
        <4> QED BY <3>2, <4>1, <4>2 DEF Stretch
      <3>5. g \in Seq(Message) /\ Stretch(g, published, since[c])
            /\ Len(g) = Len(got[c]) + Sending(c)
        <4>1. /\ g \in Seq(Message) /\ Stretch(g, published, since[c])
              /\ Len(g) = Len(got[c]) + Len(t)
          BY <2>2, <2>3, <3>3, <3>4, StretchesJoin
        <4> QED BY <3>3, <4>1
      <3> HIDE DEF g
      <3>6. Stretch(queue[c], published, since[c] + Len(g))
        <4>1. since[c] + Len(g) = Seen(c) + Sending(c)
          BY <2>3, <3>2, <3>3, <3>5
        <4> QED BY <2>2, <3>1, <3>2, <3>3, <4>1 DEF Stretch
      <3>7. g \o queue[c] \in Seq(Message) /\ Stretch(g \o queue[c], published, since[c])
            /\ Len(g \o queue[c]) = Len(g) + Len(queue[c])
        BY <2>2, <2>3, <3>1, <3>5, <3>6, StretchesJoin
      <3>8. Line(c) = g \o queue[c]
        BY DEF Line, g, t
      <3>9. since[c] + Len(Line(c)) = Len(published)
        <4>1. Len(Line(c)) = (Len(got[c]) + Sending(c)) + Len(queue[c])
          BY <3>5, <3>7, <3>8
        <4>2. (since[c] + Len(got[c])) + Sending(c) + Len(queue[c]) = Len(published)
          BY <3>2
        <4>3. Sending(c) \in Nat /\ since[c] \in Nat /\ Len(got[c]) \in Nat
              /\ Len(queue[c]) \in Nat
          BY <2>3, <3>1, <3>3
        <4> QED BY SMTT(30), <4>1, <4>2, <4>3
      <3>10. Line(c) = SubSeq(published, since[c] + 1, since[c] + Len(Line(c)))
        BY <2>2, <2>3, <3>7, <3>8, StretchIsSubSeq
      <3> QED BY <3>9, <3>10
    <2>6. stored \subseteq Carried \cup unshown \cup {msg[c] : c \in Conn}
      BY DEF WsInv, Unlost
    <2> QED BY <2>4, <2>5, <2>6 DEF SeenWithoutGap
  <1> QED BY <1>1, WsAlways, PTL
=============================================================================
