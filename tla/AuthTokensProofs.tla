-------------------------- MODULE AuthTokensProofs --------------------------
(***************************************************************************)
(* Theorems about AuthTokens, for any number of sessions and requests.     *)
(***************************************************************************)
EXTENDS AuthTokens, TLAPS

\* Stages from which a request may still set the key of its own token.
Early == {"new", "refresh_get", "refresh_ttl", "refresh_black",
          "refresh_black_short", "refresh_delete", "issue_set"}

\* Stages of a refresh that has found the key of the token presented.
Found == {"refresh_ttl", "refresh_black", "refresh_black_short", "refresh_delete"}

Presenting == Found \cup {"refresh_get", "logout_black", "logout_delete"}
Revoking == {"revoke", "revoke_black", "revoke_delete"}
Handling == {"revoke_black", "revoke_delete"}

Issued == stored \cup gone \cup lapsed

\* Until its key is set a token is nowhere; what anybody knows has been issued.
Unset == \A q \in Request : pc[q] \in Early => q \notin Issued

Known ==
    /\ Seed \cup index \subseteq Issued
    /\ \A q \in Request :
         /\ todo[q] \subseteq Issued
         /\ pc[q] \in Handling => jti[q] \in Issued
         /\ pc[q] \in Presenting => token[q] \in Issued
         /\ pc[q] \in {"issue_add", "issue_expire", "done"} => q \in Issued

Untouched ==
    \A q \in Request : pc[q] = "new" => missed[q] = {} /\ token[q] = q

\* An exchanged token has been deleted, and a refresh that had found it by
\* then was overtaken.
Exchanges ==
    /\ \A q \in Request : Spent(q) => token[q] \in gone
    /\ \A r, q \in Request :
         r # q /\ token[r] = token[q] /\ Spent(q) /\ (Spent(r) \/ pc[r] \in Found) =>
             r \in missed[q] \/ q \in missed[r]

\* Reuse of t is noticed, or need not be.
Noticed(t) ==
    \/ t \in lapsed
    \/ black[t] = "full"
    \/ \E r, q \in Request : token[r] = t /\ q \in missed[r]

\* What is or is about to be deleted is noticed; a refresh that does not find
\* a key it had found was overtaken, unless the token lapsed.
Noticing ==
    /\ \A t \in gone : Noticed(t)
    /\ \A q \in Request :
         /\ pc[q] \in {"refresh_delete", "logout_delete"} => Noticed(token[q])
         /\ pc[q] = "revoke_delete" => Noticed(jti[q])
         /\ pc[q] = "refresh_ttl" => token[q] \in stored \/ Noticed(token[q])
         /\ pc[q] = "refresh_ttl" /\ token[q] \notin stored \cup lapsed =>
              missed[q] \cap Request # {}
         /\ pc[q] = "refresh_black_short" /\ token[q] \notin lapsed =>
              missed[q] \cap Request # {}

\* r is in the index, or lost from it by a revocation or by its expiry.
Listed(r) ==
    \/ r \notin stored \ lapsed
    \/ r \in index
    \/ \E q \in Request : pc[q] = "reuse" /\ r \in missed[q]
    \/ Clock \in missed[r]

\* The index outlives its answered members, and a revocation handles all of it
\* but what came later.
Indexing ==
    /\ \A r \in Request :
         /\ pc[r] \in {"issue_expire", "done"} => Listed(r)
         /\ pc[r] = "done" /\ r \in index => r \in covered \cup lapsed
    /\ \A q \in Request, t \in Request :
         pc[q] \in Revoking /\ t \in index =>
             \/ t \in todo[q]
             \/ pc[q] \in Handling /\ t = jti[q]
             \/ t \notin stored
             \/ t \in missed[q]

IInv ==
    /\ TypeOK /\ Unset /\ Known /\ Untouched
    /\ DeadStaysDead /\ Exchanges /\ Noticing /\ Indexing

LEMMA InitInv == Init => IInv
<1> SUFFICES ASSUME Init PROVE IInv
  OBVIOUS
<1> USE AuthTokensAssumption DEF Init
<1>1. TypeOK
  BY DEF TypeOK, Token, Stage
<1>2. Unset /\ Known /\ Untouched /\ DeadStaysDead
  BY DEF Unset, Known, Untouched, DeadStaysDead, Issued, Presenting, Found, Handling
<1>3. Exchanges /\ Noticing /\ Indexing
  BY DEF Exchanges, Noticing, Indexing, Spent, Found, Revoking
<1> QED
  BY <1>1, <1>2, <1>3 DEF IInv

\* Overtaking only adds to what a request has missed; every open request misses it.
LEMMA OvertakesGrows ==
    ASSUME IInv, NEW r \in Request \cup {Clock}, Overtakes(r)
    PROVE  /\ missed' \in [Request -> SUBSET (Request \cup {Clock})]
           /\ \A q \in Request : missed[q] \subseteq missed'[q]
           /\ \A q \in Request : pc[q] = "new" => missed'[q] = missed[q]
           /\ \A q \in Request \ {r} : pc[q] \notin Final \cup {"new"} => r \in missed'[q]
BY DEF IInv, TypeOK, Overtakes

-----------------------------------------------------------------------------
(* One lemma for each kind of step the operations are made of. *)

\* A step that only moves r on, and changes what it presents or handles.
Moves(r) ==
    /\ pc[r] \notin Final /\ pc'[r] \in Stage \ {"new", "reuse"}
    /\ pc' = [pc EXCEPT ![r] = pc'[r]]
    /\ token' = [token EXCEPT ![r] = token'[r]] /\ token'[r] \in Token
    /\ jti' = [jti EXCEPT ![r] = jti'[r]] /\ jti'[r] \in Token
    /\ todo' = [todo EXCEPT ![r] = todo'[r]] /\ todo'[r] \subseteq Issued \cap Token
    /\ UNCHANGED <<redis, history>>

LEMMA MoveInv ==
    ASSUME IInv, NEW r \in Request, Moves(r),
           pc[r] = "new" \/ token'[r] = token[r],
           pc'[r] \notin {"issue_add", "issue_expire", "done", "refresh_delete"},
           pc'[r] \in Early => pc[r] \in Early,
           pc'[r] = "issue_set" => token'[r] = r,
           pc'[r] \in Presenting => token'[r] \in Issued,
           pc'[r] \in Handling => jti'[r] \in Issued,
           pc'[r] \in Found => pc[r] \in Found \/ token'[r] \in stored,
           pc'[r] = "refresh_ttl" => token'[r] \in stored,
           pc'[r] = "refresh_black_short" => pc[r] = "refresh_ttl" /\ token[r] \notin stored,
           pc'[r] = "logout_delete" => Noticed(token'[r]),
           pc'[r] = "revoke_delete" => Noticed(jti'[r]),
           pc'[r] \in Revoking => \A q \in Request \cap index :
               \/ q \in todo'[r]
               \/ pc'[r] \in Handling /\ q = jti'[r]
               \/ q \notin stored
               \/ q \in missed[r]
    PROVE  IInv'
<1> USE AuthTokensAssumption DEF Moves, redis, history
<1>1. TypeOK' /\ Untouched'
  BY DEF IInv, TypeOK, Untouched
<1>2. \A q \in Request : pc'[q] \in Early => pc[q] \in Early
  BY DEF IInv, TypeOK
<1>3. Unset'
  BY <1>2 DEF IInv, Unset, Issued
<1>4. Known'
  BY DEF IInv, TypeOK, Known, Issued
<1>5. DeadStaysDead'
  BY DEF IInv, DeadStaysDead
<1>6. Exchanges'
  <2>1. \A q \in Request : Spent(q)' => Spent(q) /\ token'[q] = token[q]
    BY DEF IInv, TypeOK, Spent
  <2>2. \A q \in Request : pc'[q] \in Found =>
          (pc[q] \in Found /\ token'[q] = token[q]) \/ token'[q] \in stored
    BY DEF IInv, TypeOK, Found
  <2> QED
    BY <2>1, <2>2 DEF IInv, Exchanges, DeadStaysDead
<1>7. \A s \in Token : Noticed(s) => Noticed(s)'
  <2> SUFFICES ASSUME NEW s \in Token, NEW p \in Request, NEW q \in Request,
                      token[p] = s, q \in missed[p]
               PROVE  token'[p] = s
    BY DEF Noticed
  <2> QED
    BY DEF IInv, TypeOK, Untouched
<1>8. Noticing'
  BY <1>7 DEF IInv, TypeOK, Noticing
<1>9. Indexing'
  <2>1. \A q \in Request : Listed(q) => Listed(q)'
    BY DEF IInv, TypeOK, Listed, Final
  <2> QED
    BY <2>1 DEF IInv, TypeOK, Indexing
<1> QED
  BY <1>1, <1>3, <1>4, <1>5, <1>6, <1>8, <1>9 DEF IInv

\* r leaves.
LEMMA RefuseInv ==
    ASSUME IInv, NEW r \in Request, NEW from \in Stage \ Final, Refuse(r, from)
    PROVE  IInv'
<1> USE DEF Refuse, Goto, redis, locals, history
<1>1. TypeOK' /\ Untouched'
  BY DEF IInv, TypeOK, Untouched, Stage, Final
<1>2. Unset' /\ Known' /\ DeadStaysDead'
  BY DEF IInv, TypeOK, Unset, Known, DeadStaysDead, Issued, Early, Presenting,
         Found, Handling
<1>3. Exchanges'
  BY DEF IInv, TypeOK, Exchanges, Spent, Found
<1>4. Noticing'
  BY DEF IInv, TypeOK, Noticing, Noticed
<1>5. Indexing'
  <2>1. \A q \in Request : Listed(q) => Listed(q)'
    BY DEF IInv, TypeOK, Listed, Final
  <2> QED
    BY <2>1 DEF IInv, TypeOK, Indexing, Revoking
<1> QED
  BY <1>1, <1>2, <1>3, <1>4, <1>5 DEF IInv

\* An entry of the blacklist: a brief one only if r was overtaken or the token lapsed.
LEMMA BlacklistInv ==
    ASSUME IInv, NEW r \in Request, NEW t \in Token,
           NEW entry \in {"short", "full"}, NEW from \in Stage, NEW to \in Stage,
           Blacklist(r, t, entry, from, to),
           \/ from = "refresh_black" /\ to = "refresh_delete" /\ t = token[r] /\ entry = "full"
           \/ from = "refresh_black_short" /\ to = "refresh_delete" /\ t = token[r]
           \/ from = "logout_black" /\ to = "logout_delete" /\ t = token[r] /\ entry = "full"
           \/ from = "revoke_black" /\ to = "revoke_delete" /\ t = jti[r] /\ entry = "full"
    PROVE  IInv'
<1> USE DEF Blacklist, Goto, locals
<1>1. /\ missed' \in [Request -> SUBSET (Request \cup {Clock})]
      /\ \A q \in Request : missed[q] \subseteq missed'[q]
      /\ \A q \in Request : pc[q] = "new" => missed'[q] = missed[q]
  BY OvertakesGrows
<1>2. TypeOK' /\ Untouched'
  BY <1>1 DEF IInv, TypeOK, Untouched
<1>3. Unset' /\ Known' /\ DeadStaysDead'
  BY DEF IInv, TypeOK, Unset, Known, DeadStaysDead, Issued, Early, Presenting, Found, Handling
<1>4. Exchanges'
  BY <1>1 DEF IInv, TypeOK, Exchanges, Spent, Found
<1>5. Noticed(t)'
  BY <1>1 DEF IInv, TypeOK, Noticing, Noticed
<1>6. \A s \in Token : Noticed(s) => Noticed(s)'
  BY <1>1, <1>5 DEF IInv, TypeOK, Noticed
<1>7. Noticing'
  BY <1>1, <1>5, <1>6 DEF IInv, TypeOK, Noticing
<1>8. Indexing'
  <2>1. \A q \in Request : Listed(q) => Listed(q)'
    BY <1>1 DEF IInv, TypeOK, Listed
  <2> QED
    BY <1>1, <2>1 DEF IInv, TypeOK, Indexing, Revoking, Handling
<1> QED
  BY <1>2, <1>3, <1>4, <1>7, <1>8 DEF IInv

\* The key of an issued token whose reuse is noticed is deleted.
LEMMA DeleteInv ==
    ASSUME IInv, NEW r \in Request, NEW t \in Token, t \in Issued, Noticed(t),
           NEW from \in Stage, NEW to \in Stage, Delete(r, t, from, to),
           UNCHANGED todo, jti' \in [Request -> Token],
           \A q \in Request \ {r} : jti'[q] = jti[q],
           \/ from = "refresh_delete" /\ to = "issue_set" /\ t = token[r]
           \/ from = "logout_delete" /\ to = "out"
           \/ from = "revoke_delete" /\ to = "revoke" /\ t = jti[r]
    PROVE  IInv'
<1> USE DEF Delete, Goto
<1>1. /\ missed' \in [Request -> SUBSET (Request \cup {Clock})]
      /\ \A q \in Request : missed[q] \subseteq missed'[q]
      /\ \A q \in Request : pc[q] = "new" => missed'[q] = missed[q]
      /\ \A q \in Request \ {r} : pc[q] \notin Final \cup {"new"} => r \in missed'[q]
  BY OvertakesGrows
<1>2. TypeOK' /\ Untouched'
  <2>1. TypeOK'
    BY <1>1 DEF IInv, TypeOK
  <2>2. Untouched'
    BY <1>1 DEF IInv, TypeOK, Untouched
  <2> QED
    BY <2>1, <2>2
<1>3. Issued' = Issued
  BY DEF Issued
<1>4. Unset' /\ Known' /\ DeadStaysDead'
  BY <1>3 DEF IInv, TypeOK, Unset, Known, DeadStaysDead, Early, Presenting, Found, Handling
<1>5. Exchanges'
  <2>1. \A q \in Request : Spent(q)' => Spent(q) \/ (q = r /\ pc[r] \in Found /\ t = token[r])
    BY DEF IInv, TypeOK, Spent, Found
  <2>2. \A q \in Request : pc'[q] \in Found => pc[q] \in Found /\ q # r
    BY DEF IInv, TypeOK, Found
  <2>3. \A q \in Request : pc[q] \in Found => pc[q] \notin Final \cup {"new"}
    BY DEF Found, Final
  <2> QED
    BY <1>1, <2>1, <2>2, <2>3 DEF IInv, Exchanges
<1>6. \A s \in Token : Noticed(s) => Noticed(s)'
  BY <1>1 DEF IInv, TypeOK, Noticed
<1>7. Noticing'
  <2>1. \A q \in Request : pc'[q] = "refresh_ttl" =>
          pc[q] = "refresh_ttl" /\ r \in missed'[q]
    BY <1>1 DEF IInv, TypeOK, Final
  <2>2. \A q \in Request : pc'[q] = "refresh_ttl" => token[q] \in stored' \/ Noticed(token[q])'
    BY <1>6, <2>1 DEF IInv, TypeOK, Noticing
  <2> QED
    BY <1>1, <1>6, <2>1, <2>2 DEF IInv, TypeOK, Noticing
<1>8. Indexing'
  <2>1. \A q \in Request : Listed(q) => Listed(q)'
    BY <1>1 DEF IInv, TypeOK, Listed
  <2> QED
    BY <1>1, <2>1 DEF IInv, TypeOK, Indexing, Revoking, Handling
<1> QED
  BY <1>2, <1>4, <1>5, <1>7, <1>8 DEF IInv

\* The two commands that make a new token valid and put it into the index.
LEMMA IssueSetInv == ASSUME IInv, NEW r \in Request, IssueSet(r) PROVE IInv'
<1> USE AuthTokensAssumption DEF IssueSet, Goto, locals
<1>1. /\ missed' \in [Request -> SUBSET (Request \cup {Clock})]
      /\ \A q \in Request : missed[q] \subseteq missed'[q]
      /\ \A q \in Request : pc[q] = "new" => missed'[q] = missed[q]
  BY OvertakesGrows
<1>2. TypeOK' /\ Untouched'
  <2>1. TypeOK'
    BY <1>1 DEF IInv, TypeOK, Stage, Token
  <2>2. Untouched'
    BY <1>1 DEF IInv, TypeOK, Untouched
  <2> QED
    BY <2>1, <2>2
<1>3. Issued' = Issued \cup {r} /\ r \notin Issued
  BY DEF IInv, Unset, Issued, Early
<1>4. Unset' /\ Known' /\ DeadStaysDead'
  BY <1>3 DEF IInv, TypeOK, Unset, Known, DeadStaysDead, Issued, Early, Presenting,
              Found, Handling
<1>5. Exchanges'
  BY <1>1 DEF IInv, TypeOK, Exchanges, Spent, Found
<1>6. \A s \in Token : Noticed(s) => Noticed(s)'
  BY <1>1 DEF IInv, TypeOK, Noticed
<1>7. Noticing'
  BY <1>1, <1>6 DEF IInv, TypeOK, Noticing
<1>8. Indexing'
  <2>1. r \notin index
    BY <1>3 DEF IInv, Known
  <2>2. \A q \in Request \ {r} : Listed(q) => Listed(q)'
    BY <1>1 DEF IInv, TypeOK, Listed
  <2> QED
    BY <1>1, <2>1, <2>2 DEF IInv, TypeOK, Indexing, Revoking, Handling
<1> QED
  BY <1>2, <1>4, <1>5, <1>7, <1>8 DEF IInv

LEMMA IssueAddInv == ASSUME IInv, NEW r \in Request, IssueAdd(r) PROVE IInv'
<1> USE AuthTokensAssumption DEF IssueAdd, Goto, locals
<1>1. /\ missed' \in [Request -> SUBSET (Request \cup {Clock})]
      /\ \A q \in Request : missed[q] \subseteq missed'[q]
      /\ \A q \in Request : pc[q] = "new" => missed'[q] = missed[q]
      /\ \A q \in Request \ {r} : pc[q] \notin Final \cup {"new"} => r \in missed'[q]
  BY OvertakesGrows
<1>2. TypeOK' /\ Untouched'
  <2>1. TypeOK'
    BY <1>1 DEF IInv, TypeOK, Stage, Token
  <2>2. Untouched'
    BY <1>1 DEF IInv, TypeOK, Untouched
  <2> QED
    BY <2>1, <2>2
<1>3. Unset' /\ Known' /\ DeadStaysDead'
  BY DEF IInv, TypeOK, Unset, Known, DeadStaysDead, Issued, Early, Presenting,
         Found, Handling
<1>4. Exchanges'
  BY <1>1 DEF IInv, TypeOK, Exchanges, Spent, Found
<1>5. \A s \in Token : Noticed(s) => Noticed(s)'
  BY <1>1 DEF IInv, TypeOK, Noticed
<1>6. Noticing'
  BY <1>1, <1>5 DEF IInv, TypeOK, Noticing
<1>7. Indexing'
  <2>1. \A q \in Request : Listed(q) \/ q = r => Listed(q)'
    BY <1>1 DEF IInv, TypeOK, Listed
  <2>2. \A q \in Request : pc'[q] \in Revoking => pc[q] = pc'[q] /\ r \in missed'[q]
    BY <1>1 DEF IInv, TypeOK, Revoking, Final
  <2> QED
    BY <1>1, <2>1, <2>2 DEF IInv, TypeOK, Indexing
<1> QED
  BY <1>2, <1>3, <1>4, <1>6, <1>7 DEF IInv

LEMMA IssueExpireInv == ASSUME IInv, NEW r \in Request, IssueExpire(r) PROVE IInv'
<1> USE AuthTokensAssumption DEF IssueExpire, Goto, locals, history
<1>1. TypeOK' /\ Untouched'
  BY DEF IInv, TypeOK, Untouched, Stage, Final
<1>2. Unset' /\ Known' /\ DeadStaysDead'
  BY DEF IInv, TypeOK, Unset, Known, DeadStaysDead, Issued, Early, Presenting,
         Found, Handling
<1>3. Exchanges'
  BY DEF IInv, TypeOK, Exchanges, Spent, Found
<1>4. \A s \in Token : Noticed(s) => Noticed(s)'
  BY DEF IInv, TypeOK, Noticed
<1>5. Noticing'
  BY <1>4 DEF IInv, TypeOK, Noticing
<1>6. Indexing'
  <2>1. \A q \in Request : Listed(q) => Listed(q)'
    BY DEF IInv, TypeOK, Listed
  <2>2. \A q \in Request : q \in index => q \in covered' \cup lapsed
    BY DEF IInv, Known, Issued
  <2> QED
    BY <2>1, <2>2 DEF IInv, TypeOK, Indexing, Revoking
<1> QED
  BY <1>1, <1>2, <1>3, <1>5, <1>6 DEF IInv

\* The index is dropped by a revocation that has handled what it found.
LEMMA RevokeIndexInv == ASSUME IInv, NEW r \in Request, RevokeIndex(r) PROVE IInv'
<1> USE DEF RevokeIndex, Goto, locals
<1>1. /\ missed' \in [Request -> SUBSET (Request \cup {Clock})]
      /\ \A q \in Request : missed[q] \subseteq missed'[q]
      /\ \A q \in Request : pc[q] = "new" => missed'[q] = missed[q]
  BY OvertakesGrows
<1>2. TypeOK' /\ Untouched'
  BY <1>1 DEF IInv, TypeOK, Untouched, Stage, Final
<1>3. Unset' /\ Known' /\ DeadStaysDead'
  BY DEF IInv, TypeOK, Unset, Known, DeadStaysDead, Issued, Early, Presenting,
         Found, Handling
<1>4. Exchanges'
  BY <1>1 DEF IInv, TypeOK, Exchanges, Spent, Found
<1>5. \A s \in Token : Noticed(s) => Noticed(s)'
  BY <1>1 DEF IInv, TypeOK, Noticed
<1>6. Noticing'
  BY <1>1, <1>5 DEF IInv, TypeOK, Noticing
<1>7. Indexing'
  <2>1. \A q \in Request : q \in index => q \notin stored \/ q \in missed[r]
    BY DEF IInv, TypeOK, Indexing, Revoking, Handling
  <2>2. \A q \in Request : Listed(q) => Listed(q)'
    BY <1>1, <2>1 DEF IInv, TypeOK, Listed
  <2> QED
    BY <1>1, <2>2 DEF IInv, TypeOK, Indexing, Revoking
<1> QED
  BY <1>2, <1>3, <1>4, <1>6, <1>7 DEF IInv

-----------------------------------------------------------------------------
(* Time *)

LEMMA ExpireIndexInv == ASSUME IInv, ExpireIndex PROVE IInv'
<1> USE DEF ExpireIndex, locals
<1>1. /\ missed' \in [Request -> SUBSET (Request \cup {Clock})]
      /\ \A q \in Request : missed[q] \subseteq missed'[q]
      /\ \A q \in Request : pc[q] = "new" => missed'[q] = missed[q]
      /\ \A q \in Request : pc[q] = "issue_expire" => Clock \in missed'[q]
  BY OvertakesGrows, AuthTokensAssumption DEF Final
<1>2. TypeOK' /\ Untouched'
  BY <1>1 DEF IInv, TypeOK, Untouched
<1>3. Unset' /\ Known' /\ DeadStaysDead'
  BY DEF IInv, TypeOK, Unset, Known, DeadStaysDead, Issued
<1>4. Exchanges'
  BY <1>1 DEF IInv, Exchanges, Spent
<1>5. \A s \in Token : Noticed(s) => Noticed(s)'
  BY <1>1 DEF IInv, Noticed
<1>6. Noticing'
  BY <1>1, <1>5 DEF IInv, TypeOK, Noticing
<1>7. Indexing'
  <2>1. \A q \in Request : pc[q] \in {"issue_expire", "done"} => Listed(q)'
    BY <1>1 DEF IInv, TypeOK, Indexing, Listed
  <2> QED
    BY <2>1 DEF IInv, Indexing
<1> QED
  BY <1>2, <1>3, <1>4, <1>6, <1>7 DEF IInv

LEMMA TimeInv ==
    ASSUME IInv, NEW t \in Token, Lapse(t) \/ ExpireKey(t) \/ ExpireBlacklist(t)
    PROVE  IInv'
<1> USE DEF Lapse, ExpireKey, ExpireBlacklist, locals, history
<1>1. TypeOK' /\ Untouched'
  BY DEF IInv, TypeOK, Untouched
<1>2. Issued' = Issued
  BY DEF Issued
<1>3. Unset' /\ Known' /\ DeadStaysDead'
  BY <1>2 DEF IInv, Unset, Known, DeadStaysDead
<1>4. Exchanges'
  BY DEF IInv, Exchanges, Spent
<1>5. \A s \in Token : Noticed(s) => Noticed(s)'
  BY DEF IInv, TypeOK, Noticed
<1>6. Noticing'
  BY <1>5 DEF IInv, TypeOK, Noticing, Noticed
<1>7. Indexing'
  <2>1. \A q \in Request : Listed(q) => Listed(q)'
    BY DEF Listed
  <2> QED
    BY <2>1 DEF IInv, Indexing
<1> QED
  BY <1>1, <1>3, <1>4, <1>6, <1>7 DEF IInv

-----------------------------------------------------------------------------
LEMMA StepInv == ASSUME IInv, NEW r \in Request, Step(r) PROVE IInv'
<1> USE AuthTokensAssumption DEF Goto, locals
<1>a. /\ pc \in [Request -> Stage] /\ token \in [Request -> Token]
      /\ jti \in [Request -> Token] /\ todo \in [Request -> SUBSET Token]
      /\ index \subseteq Issued \cap Token /\ todo[r] \subseteq Issued
      /\ Given \subseteq Issued
  BY DEF IInv, TypeOK, Known, Given, Issued
<1>b. \A t \in Issued \ stored : Noticed(t)
  BY DEF Issued, IInv, Noticing, Noticed
<1>1. CASE Login(r)
  <2>1. Moves(r) /\ pc[r] = "new" /\ pc'[r] = "issue_set" /\ token'[r] = r
    BY <1>1, <1>a DEF Login, Moves, Stage, Final, IInv, TypeOK, Untouched
  <2> QED
    BY <2>1, MoveInv DEF Early, Presenting, Found, Handling, Revoking
<1>2. CASE IssueSet(r) \/ IssueAdd(r) \/ IssueExpire(r)
  BY <1>2, IssueSetInv, IssueAddInv, IssueExpireInv
<1>3. CASE RevokeMembers(r)
  <2>1. /\ Moves(r) /\ token'[r] = token[r]
        /\ pc[r] = "revoke_members" /\ pc'[r] = "revoke" /\ todo'[r] = index
    BY <1>3, <1>a DEF RevokeMembers, Moves, Stage, Final
  <2> QED
    BY <2>1, MoveInv DEF Early, Presenting, Found, Handling, Revoking
<1>4. ASSUME NEW t \in Token, RevokeTTL(r, t) PROVE IInv'
  <2>1. /\ Moves(r) /\ token'[r] = token[r] /\ pc[r] = "revoke"
        /\ pc'[r] \in Handling /\ (pc'[r] = "revoke_delete" => t \notin stored)
        /\ jti'[r] = t /\ t \in Issued /\ todo'[r] = todo[r] \ {t}
    BY <1>4, <1>a DEF RevokeTTL, Moves, Stage, Final, Handling
  <2>2. \A q \in Request \cap index : q \in todo[r] \/ q \notin stored \/ q \in missed[r]
    BY <2>1 DEF IInv, Indexing, Revoking, Handling
  <2> QED
    BY <2>1, <2>2, <1>b, MoveInv DEF Early, Presenting, Found, Handling
<1>5. CASE RevokeBlacklist(r)
  <2>1. Blacklist(r, jti[r], "full", "revoke_black", "revoke_delete")
    BY <1>5 DEF RevokeBlacklist
  <2> QED
    BY <2>1, <1>a, BlacklistInv DEF Stage
<1>6. CASE RevokeDelete(r)
  <2>1. /\ Delete(r, jti[r], "revoke_delete", "revoke") /\ UNCHANGED todo
        /\ pc[r] = "revoke_delete" /\ jti' = [jti EXCEPT ![r] = r]
    BY <1>6 DEF RevokeDelete, Delete
  <2>2. jti[r] \in Issued /\ Noticed(jti[r])
    BY <2>1 DEF IInv, Known, Noticing, Handling
  <2>3. jti' \in [Request -> Token] /\ \A q \in Request \ {r} : jti'[q] = jti[q]
    BY <2>1, <1>a DEF Token
  <2> QED
    BY <2>1, <2>2, <2>3, <1>a, DeleteInv DEF Stage
<1>7. CASE RevokeIndex(r)
  BY <1>7, RevokeIndexInv
<1>8. ASSUME NEW t \in Token, RefreshCheck(r, t) PROVE IInv'
  <2>1. /\ Moves(r) /\ pc[r] = "new" /\ token'[r] = t /\ t \in Issued
        /\ pc'[r] \in {"refresh_get", "revoke_members"}
    BY <1>8, <1>a DEF RefreshCheck, Moves, Stage, Final
  <2> QED
    BY <2>1, MoveInv DEF Early, Presenting, Found, Handling, Revoking
<1>9. ASSUME NEW t \in Token, LogoutTTL(r, t) PROVE IInv'
  <2>1. /\ Moves(r) /\ pc[r] = "new" /\ token'[r] = t /\ t \in Issued
        /\ pc'[r] \in {"logout_black", "logout_delete"}
        /\ pc'[r] = "logout_delete" => t \notin stored
    BY <1>9, <1>a DEF LogoutTTL, Moves, Stage, Final
  <2> QED
    BY <2>1, <1>b, MoveInv DEF Early, Presenting, Found, Handling, Revoking
<1>10. CASE RefreshGet(r)
  <2>1. CASE token[r] \in stored
    <3>1. /\ Moves(r) /\ pc[r] = "refresh_get" /\ pc'[r] = "refresh_ttl"
          /\ token'[r] = token[r]
      BY <1>10, <2>1, <1>a DEF RefreshGet, Moves, Stage, Final
    <3>2. token[r] \in Issued
      BY <2>1 DEF Issued
    <3> QED
      BY <2>1, <3>1, <3>2, MoveInv DEF Early, Presenting, Found, Handling, Revoking
  <2>2. CASE token[r] \notin stored
    BY <1>10, <2>2, RefuseInv DEF RefreshGet, Stage, Final
  <2> QED
    BY <2>1, <2>2
<1>11. CASE RefreshTTL(r)
  <2>1. /\ Moves(r) /\ pc[r] = "refresh_ttl" /\ token'[r] = token[r]
        /\ pc'[r] \in {"refresh_black", "refresh_black_short"}
        /\ pc'[r] = "refresh_black_short" => token[r] \notin stored
    BY <1>11, <1>a DEF RefreshTTL, Moves, Stage, Final
  <2>2. token[r] \in Issued
    BY <2>1 DEF IInv, Known, Presenting, Found
  <2> QED
    BY <2>1, <2>2, MoveInv DEF Early, Presenting, Found, Handling, Revoking
<1>12. CASE RefreshBlacklist(r)
  <2>1. \/ Blacklist(r, token[r], "full", "refresh_black", "refresh_delete")
        \/ Blacklist(r, token[r], "short", "refresh_black_short", "refresh_delete")
    BY <1>12 DEF RefreshBlacklist
  <2> QED
    BY <2>1, <1>a, BlacklistInv DEF Stage
<1>13. CASE RefreshDelete(r)
  <2>1. /\ Delete(r, token[r], "refresh_delete", "issue_set")
        /\ UNCHANGED <<todo, jti>> /\ pc[r] = "refresh_delete"
    BY <1>13 DEF RefreshDelete, Delete
  <2>2. token[r] \in Issued /\ Noticed(token[r])
    BY <2>1 DEF IInv, Known, Noticing, Presenting, Found
  <2> QED
    BY <2>1, <2>2, <1>a, DeleteInv DEF Stage
<1>14. CASE LogoutBlacklist(r)
  <2>1. Blacklist(r, token[r], "full", "logout_black", "logout_delete")
    BY <1>14 DEF LogoutBlacklist
  <2> QED
    BY <2>1, <1>a, BlacklistInv DEF Stage
<1>15. CASE LogoutDelete(r)
  <2>1. /\ Delete(r, token[r], "logout_delete", "out")
        /\ UNCHANGED <<todo, jti>> /\ pc[r] = "logout_delete"
    BY <1>15 DEF LogoutDelete, Delete
  <2>2. token[r] \in Issued /\ Noticed(token[r])
    BY <2>1 DEF IInv, Known, Noticing, Presenting
  <2> QED
    BY <2>1, <2>2, <1>a, DeleteInv DEF Stage, Final
<1>16. CASE Fail(r)
  BY <1>16, <1>a, RefuseInv DEF Fail
<1> QED
  BY <1>1, <1>2, <1>3, <1>4, <1>5, <1>6, <1>7, <1>8, <1>9, <1>10, <1>11, <1>12,
     <1>13, <1>14, <1>15, <1>16 DEF Step

LEMMA StutterInv == ASSUME IInv, UNCHANGED vars PROVE IInv'
<1> USE DEF vars, redis, locals, history
<1>1. TypeOK' /\ Unset' /\ Known' /\ Untouched' /\ DeadStaysDead'
  BY DEF IInv, TypeOK, Unset, Known, Untouched, DeadStaysDead, Issued
<1>2. Exchanges' /\ Noticing'
  BY DEF IInv, Exchanges, Spent, Noticing, Noticed
<1>3. Indexing'
  BY DEF IInv, Indexing, Listed
<1> QED
  BY <1>1, <1>2, <1>3 DEF IInv

THEOREM TokensInvariant == Spec => []IInv
<1>1. IInv /\ [Next]_vars => IInv'
  BY StepInv, TimeInv, ExpireIndexInv, StutterInv DEF Next, Quiet
<1> QED
  BY InitInv, <1>1, PTL DEF Spec

\* Every variable keeps its type.
THEOREM TokensTypeCorrect == Spec => []TypeOK
<1>1. IInv => TypeOK
  BY DEF IInv
<1> QED
  BY <1>1, TokensInvariant, PTL

\* A token that was spent, logged out or revoked is never valid again.
THEOREM TokensDieOnce == Spec => []DeadStaysDead
<1>1. IInv => DeadStaysDead
  BY DEF IInv
<1> QED
  BY <1>1, TokensInvariant, PTL

\* Only overlapping refreshes exchange one token twice.
THEOREM ExchangesOverlap == Spec => []ExchangedTwiceOnlyByOverlap
<1>1. IInv => ExchangedTwiceOnlyByOverlap
  BY DEF IInv, Exchanges, ExchangedTwiceOnlyByOverlap
<1> QED
  BY <1>1, TokensInvariant, PTL

\* The reuse of a deleted token is noticed, but for a refresh that was overtaken.
THEOREM ReuseIsNoticed == Spec => []DeadIsBlacklisted
<1>1. IInv => DeadIsBlacklisted
  BY DEF IInv, Noticing, Noticed, DeadIsBlacklisted
<1> QED
  BY <1>1, TokensInvariant, PTL

\* A revocation finds every session a client holds, but for the stated overlaps.
THEOREM SessionsAreIndexed == Spec => []LiveIsIndexed
<1>1. IInv => LiveIsIndexed
  BY DEF IInv, Indexing, Listed, LiveIsIndexed
<1> QED
  BY <1>1, TokensInvariant, PTL

-----------------------------------------------------------------------------
(* The alarm. *)

Replayed ==
    \E q, r \in Request : q # r /\ Presents(q, token[r]) /\ Presents(r, token[r])

\* A request presents a token once it is past its check, and never another;
\* what is on the blacklist, or about to be, was presented, or revoked after a
\* replay.
Suspects ==
    /\ \A r \in Request : pc[r] \in Presenting => token[r] # r
    /\ \A r \in Request : pc[r] \in Revoking \cup {"revoke_members", "reuse"} => Replayed
    /\ \A t \in Token : black[t] # "none" =>
          Replayed \/ \E q \in Request : Presents(q, t)

\* Whoever has presented a token has presented it ever since.
LEMMA PresentsStays ==
    ASSUME \A q \in Request : token'[q] = token[q] \/ token[q] = q
    PROVE  /\ \A q \in Request, t \in Token : Presents(q, t) => Presents(q, t)'
           /\ Replayed => Replayed'
<1>1. ASSUME NEW q \in Request, NEW t, Presents(q, t) PROVE Presents(q, t)'
  BY <1>1 DEF Presents
<1>2. ASSUME Replayed PROVE Replayed'
  <2>1. PICK q \in Request, r \in Request :
            q # r /\ Presents(q, token[r]) /\ Presents(r, token[r])
    BY <1>2 DEF Replayed
  <2>2. token'[r] = token[r] /\ token'[q] = token[q]
    BY <2>1 DEF Presents
  <2> QED
    BY <2>1, <2>2 DEF Replayed, Presents
<1> QED
  BY <1>1, <1>2

\* A step that presents nothing and puts nothing on the blacklist.
LEMMA QuietSuspects ==
    ASSUME IInv, Suspects, NEW r \in Request,
           pc' = [pc EXCEPT ![r] = pc'[r]], token' = token,
           \A t \in Token : black'[t] = black[t] \/ black'[t] = "none",
           pc'[r] \in Presenting => pc[r] \in Presenting,
           pc'[r] \in Revoking \cup {"revoke_members", "reuse"} =>
               pc[r] \in Revoking \cup {"revoke_members", "reuse"}
    PROVE  Suspects'
<1>1. /\ \A q \in Request, t \in Token : Presents(q, t) => Presents(q, t)'
      /\ Replayed => Replayed'
  BY PresentsStays
<1>2. \A q \in Request : pc'[q] = pc[q] \/ q = r
  BY DEF IInv, TypeOK
<1> QED
  BY <1>1, <1>2 DEF Suspects

\* Who puts a token on the blacklist presents it, or revokes.
LEMMA BlacklistSuspects ==
    ASSUME IInv, Suspects, NEW r \in Request, NEW t \in Token, NEW entry, NEW from, NEW to,
           Blacklist(r, t, entry, from, to), Replayed \/ Presents(r, t),
           to \in Presenting => from \in Presenting,
           to \in Revoking => from \in Revoking,
           to \notin {"revoke_members", "reuse"}
    PROVE  Suspects'
<1> USE DEF Blacklist, Goto, locals
<1>1. /\ \A q \in Request, u \in Token : Presents(q, u) => Presents(q, u)'
      /\ Replayed => Replayed'
  BY PresentsStays
<1>2. \A q \in Request : pc'[q] = pc[q] \/ q = r
  BY DEF IInv, TypeOK
<1>3. pc'[r] = to /\ token' = token
  BY DEF IInv, TypeOK
<1>4. \A u \in Token : black'[u] = black[u] \/ u = t
  BY DEF IInv, TypeOK
<1> QED
  BY <1>1, <1>2, <1>3, <1>4 DEF Suspects

\* Who presents a token that somebody has presented makes it a replay.
LEMMA PresentSuspects ==
    ASSUME IInv, Suspects, NEW r \in Request, NEW t \in Given,
           pc[r] = "new", token' = [token EXCEPT ![r] = t], black' = black,
           pc' = [pc EXCEPT ![r] = pc'[r]],
           pc'[r] \notin Revoking \cup {"reuse"},
           pc'[r] = "revoke_members" => black[t] # "none"
    PROVE  Suspects'
<1>1. token[r] = r /\ t \in Token /\ t # r
  BY AuthTokensAssumption DEF IInv, Untouched, Given, Token
<1>2. \A q \in Request : q # r => token'[q] = token[q] /\ pc'[q] = pc[q]
  BY DEF IInv, TypeOK
<1>3. token'[r] = t
  BY DEF IInv, TypeOK
<1>4. /\ \A q \in Request, u \in Token : Presents(q, u) => Presents(q, u)'
      /\ Replayed => Replayed'
  BY <1>1, <1>2, PresentsStays
<1>5. ASSUME black[t] # "none" PROVE Replayed'
  <2>1. CASE Replayed
    BY <1>4, <2>1
  <2>2. CASE \E q \in Request : Presents(q, t)
    <3>1. PICK q \in Request : Presents(q, t)
      BY <2>2
    <3>2. q # r
      BY <1>1, <3>1 DEF Presents
    <3> QED
      BY <1>1, <1>2, <1>3, <3>1, <3>2 DEF Replayed, Presents
  <2> QED
    BY <1>1, <1>5, <2>1, <2>2 DEF Suspects
<1> QED
  BY <1>1, <1>2, <1>3, <1>4, <1>5 DEF Suspects

LEMMA StepSuspects == ASSUME IInv, Suspects, NEW r \in Request, Step(r) PROVE Suspects'
<1> USE DEF Goto, redis, locals, history
<1>a. r \in Token /\ token[r] \in Token /\ jti[r] \in Token /\ pc[r] \in Stage
  BY DEF IInv, TypeOK, Token
<1>b. pc[r] \in Presenting => Presents(r, token[r])
  BY DEF Suspects, Presents
<1>c. pc[r] \in Revoking => Replayed
  BY DEF Suspects
<1>1. CASE Login(r) \/ IssueSet(r) \/ IssueAdd(r) \/ IssueExpire(r)
  BY <1>1, <1>a, QuietSuspects
     DEF Login, IssueSet, IssueAdd, IssueExpire, Presenting, Found, Revoking, Handling, IInv, TypeOK
<1>2. CASE RevokeMembers(r) \/ (\E t \in Token : RevokeTTL(r, t)) \/ RevokeDelete(r)
           \/ RevokeIndex(r)
  BY <1>2, <1>a, QuietSuspects
     DEF RevokeMembers, RevokeTTL, RevokeDelete, RevokeIndex, Delete, Presenting, Found, Revoking,
         IInv, TypeOK
<1>3. CASE RevokeBlacklist(r)
  <2>1. Blacklist(r, jti[r], "full", "revoke_black", "revoke_delete") /\ Replayed
    BY <1>3, <1>c DEF RevokeBlacklist, Blacklist, Revoking
  <2> QED
    BY <2>1, <1>a, BlacklistSuspects DEF Presenting, Found, Revoking
<1>4. CASE \E t \in Token : RefreshCheck(r, t) \/ LogoutTTL(r, t)
  <2>1. PICK t \in Given : RefreshCheck(r, t) \/ LogoutTTL(r, t)
    BY <1>4 DEF RefreshCheck, LogoutTTL
  <2> QED
    BY <2>1, <1>a, PresentSuspects DEF RefreshCheck, LogoutTTL, Revoking, IInv, TypeOK
<1>5. CASE RefreshGet(r) \/ RefreshTTL(r) \/ RefreshDelete(r) \/ LogoutDelete(r)
  BY <1>5, <1>a, QuietSuspects
     DEF RefreshGet, RefreshTTL, RefreshDelete, LogoutDelete, Delete, Refuse, Presenting, Found,
         Revoking, IInv, TypeOK
<1>6. CASE RefreshBlacklist(r)
  <2>1. Presents(r, token[r])
    BY <1>6, <1>b DEF RefreshBlacklist, Blacklist, Presenting, Found
  <2> QED
    BY <1>6, <2>1, <1>a, BlacklistSuspects DEF RefreshBlacklist, Presenting, Found, Revoking
<1>7. CASE LogoutBlacklist(r)
  <2>1. Presents(r, token[r])
    BY <1>7, <1>b DEF LogoutBlacklist, Blacklist, Presenting
  <2> QED
    BY <1>7, <2>1, <1>a, BlacklistSuspects DEF LogoutBlacklist, Presenting, Found, Revoking
<1>8. CASE Fail(r)
  BY <1>8, <1>a, QuietSuspects DEF Fail, Refuse, Presenting, Found, Revoking, IInv, TypeOK
<1> QED
  BY <1>1, <1>2, <1>3, <1>4, <1>5, <1>6, <1>7, <1>8 DEF Step

LEMMA NextSuspects == IInv /\ Suspects /\ [Next]_vars => Suspects'
<1> SUFFICES ASSUME IInv, Suspects, [Next]_vars PROVE Suspects'
  OBVIOUS
<1> USE DEF vars, redis, locals, history
<1>1. CASE \E r \in Request : Step(r)
  BY <1>1, StepSuspects
<1>2. ASSUME UNCHANGED <<pc, token>>,
             \A t \in Token : black'[t] = black[t] \/ black'[t] = "none"
      PROVE  Suspects'
  <2>1. /\ \A q \in Request, t \in Token : Presents(q, t) => Presents(q, t)'
        /\ Replayed => Replayed'
    BY <1>2, PresentsStays
  <2> QED
    BY <1>2, <2>1 DEF Suspects
<1>3. CASE \E t \in Token : Lapse(t) \/ ExpireKey(t) \/ ExpireBlacklist(t)
  BY <1>2, <1>3 DEF Lapse, ExpireKey, ExpireBlacklist, IInv, TypeOK
<1>4. CASE ExpireIndex \/ Quiet \/ UNCHANGED vars
  BY <1>2, <1>4 DEF ExpireIndex, Quiet
<1> QED
  BY <1>1, <1>3, <1>4 DEF Next

\* A user who presents each of his tokens once never raises the alarm.
THEOREM AlarmsFollowReplays == Spec => []AlarmOnlyAfterReplay
<1>1. Init => Suspects
  BY DEF Init, Suspects, Presenting, Found, Revoking
<1>2. Suspects => AlarmOnlyAfterReplay
  BY DEF Suspects, AlarmOnlyAfterReplay, Replayed, Revoking
<1> QED
  BY <1>1, <1>2, TokensInvariant, NextSuspects, PTL DEF Spec
=============================================================================
