--------------------------- MODULE AccountsProofs ---------------------------
(***************************************************************************)
(* Accounts, for any number of users, names and requests.  A user is never *)
(* read before his row is committed (Settled), and whoever holds roles he  *)
(* has read holds no others than the row's, or knows of an overlap         *)
(* (RolesRead, Entitled).                                                  *)
(***************************************************************************)
EXTENDS Accounts, TLAPS

\* A row is there when the request that inserted it is over.
Named == \A u \in Request : name[u] # NoName => pc[u] = "done"

\* Whom a request is about: nobody yet, an older user, or one whose
\* registration is over.
Settled ==
    \A r \in Request :
        \/ who[r] = r /\ pc[r] \in {"new", "register"} \cup Final
        \/ who[r] \in Old
        \/ who[r] \in Request /\ who[r] # r /\ pc[who[r]] \in Final

\* A session is stored when its user is known, a token handed out at the end.
Fresh ==
    \A r \in Request :
        /\ r \in stored => pc[r] \in {"issue_add", "done"} /\ who[r] # r
        /\ claims[r] # {} => pc[r] = "done"

\* The array set_role will write has all roles of the row, unless a commit has
\* come between.
RolesRead ==
    \A r \in Request :
        pc[r] = "set_role" /\ who[r] \in Registered =>
            (roles[who[r]] \subseteq seen[r] \/ "role" \in overtaken[r])

\* The roles a token will claim were committed for its user, unless he has been
\* deleted.
Entitled ==
    \A r \in Request :
        pc[r] \in {"issue_set", "issue_add"} =>
            \/ who[r] \in Registered /\ seen[r] \subseteq granted[who[r]]
            \/ "deletion" \in overtaken[r]

Recorded == \A u \in Id : roles[u] \subseteq granted[u]

Shape == TypeOK /\ Named /\ Settled /\ Fresh /\ Recorded
Reads == RolesRead /\ Entitled
Kept == RoleLostOnlyByOverlap /\ SessionUnindexedOnlyByDeletion

AccountsInv == Shape /\ Reads /\ Kept

-----------------------------------------------------------------------------
LEMMA InitInv == Init => AccountsInv
  <1> SUFFICES ASSUME Init PROVE AccountsInv
    OBVIOUS
  <1> USE AccountsAssumption DEF Init, Id, Role, Stage, Final
  <1>1. TypeOK
    BY DEF TypeOK
  <1>2. Named /\ Settled /\ Fresh /\ Recorded
    BY DEF Named, Settled, Fresh, Recorded
  <1>3. Reads
    BY DEF Reads, RolesRead, Entitled
  <1>4. Kept
    BY DEF Kept, RoleLostOnlyByOverlap, SessionUnindexedOnlyByDeletion,
           Registered, Holder
  <1> QED BY <1>1, <1>2, <1>3, <1>4 DEF AccountsInv, Shape

\* r is answered without having done anything.
LEMMA RefuseInv ==
    ASSUME AccountsInv, NEW r \in Request, NEW from,
           Refuse(r, from), from \in {"new", "register", "refresh_user", "set_role"}
    PROVE  AccountsInv'
  <1> USE DEF Refuse, Goto, Final
  <1>1. pc[r] = from /\ pc' = [pc EXCEPT ![r] = "done"] /\ pc \in [Request -> Stage]
    BY DEF AccountsInv, Shape, TypeOK
  <1>2. TypeOK'
    BY DEF AccountsInv, Shape, TypeOK, locals, rows, keys, Stage
  <1>3. (Named /\ Settled /\ Fresh /\ Recorded)'
    BY <1>1 DEF AccountsInv, Shape, Named, Settled, Fresh, Recorded, locals, rows, keys
  <1>4. Reads'
    BY <1>1 DEF AccountsInv, Reads, RolesRead, Entitled, Registered, locals, rows, keys
  <1>5. RoleLostOnlyByOverlap'
    BY <1>1 DEF AccountsInv, Kept, RoleLostOnlyByOverlap, Registered, locals, rows, keys
  <1>6. SessionUnindexedOnlyByDeletion'
    BY <1>1 DEF AccountsInv, Kept, SessionUnindexedOnlyByDeletion, Registered, Holder,
                locals, rows, keys
  <1> QED BY <1>2, <1>3, <1>4, <1>5, <1>6 DEF AccountsInv, Shape, Kept

LEMMA RegisterCheckInv ==
    ASSUME AccountsInv, NEW r \in Request, NEW n \in Name, RegisterCheck(r, n)
    PROVE  AccountsInv'
  <1> USE DEF RegisterCheck, Goto, Final
  <1>1. pc[r] = "new" /\ pc' = [pc EXCEPT ![r] = "register"] /\ pc \in [Request -> Stage]
    BY DEF AccountsInv, Shape, TypeOK
  <1>2. TypeOK'
    BY DEF AccountsInv, Shape, TypeOK, rows, keys, Stage
  <1>3. (Named /\ Settled /\ Fresh /\ Recorded)'
    BY <1>1 DEF AccountsInv, Shape, Named, Settled, Fresh, Recorded, rows, keys
  <1>4. Reads'
    BY <1>1 DEF AccountsInv, Reads, RolesRead, Entitled, Registered, rows, keys
  <1>5. RoleLostOnlyByOverlap'
    BY <1>1 DEF AccountsInv, Kept, RoleLostOnlyByOverlap, Registered, rows, keys
  <1>6. SessionUnindexedOnlyByDeletion'
    BY <1>1 DEF AccountsInv, Kept, SessionUnindexedOnlyByDeletion, Registered, Holder,
                rows, keys
  <1> QED BY <1>2, <1>3, <1>4, <1>5, <1>6 DEF AccountsInv, Shape, Kept

\* The row of r appears; no request, and no session, is about r before.
LEMMA RegisterCommitInv ==
    ASSUME AccountsInv, NEW r \in Request, RegisterCommit(r)
    PROVE  AccountsInv'
  <1> USE AccountsAssumption DEF RegisterCommit, Goto, Final, Id
  <1>1. /\ pc[r] = "register" /\ pc' = [pc EXCEPT ![r] = "done"]
        /\ pc \in [Request -> Stage]
        /\ name \in [Id -> Name \cup {NoName}] /\ roles \in [Id -> SUBSET Role]
        /\ granted \in [Id -> SUBSET Role]
    BY DEF AccountsInv, Shape, TypeOK
  <1>2. TypeOK'
    BY DEF AccountsInv, Shape, TypeOK, locals, keys, Stage, Role
  <1>3. (Named /\ Settled /\ Fresh /\ Recorded)'
    BY <1>1 DEF AccountsInv, Shape, Named, Settled, Fresh, Recorded, locals, keys
  <1>4. \A q \in Request : q # r => who[q] # r
    BY <1>1 DEF AccountsInv, Shape, Settled
  <1>5. Reads'
    <2>1. \A q \in Request : pc'[q] # "done" => who[q] # r
      BY <1>1, <1>4
    <2> QED BY <1>1, <2>1 DEF AccountsInv, Reads, RolesRead, Entitled, Registered,
                              locals, keys
  <1>6. RoleLostOnlyByOverlap'
    BY <1>1 DEF AccountsInv, Kept, RoleLostOnlyByOverlap, Registered, locals, keys
  <1>7. SessionUnindexedOnlyByDeletion'
    <2>1. \A t \in stored : claims[t] # {} => Holder(t) # r
      BY <1>1, <1>4 DEF AccountsInv, Shape, Fresh, TypeOK, Holder
    <2> QED BY <1>1, <2>1 DEF AccountsInv, Kept, SessionUnindexedOnlyByDeletion,
                              Registered, Holder, locals, keys
  <1> QED BY <1>2, <1>3, <1>5, <1>6, <1>7 DEF AccountsInv, Shape, Kept

\* r has read user u, with the roles S, and goes on; tokens it has used up are
\* gone.
LEMMA HoldInv ==
    ASSUME AccountsInv, NEW r \in Request, NEW u \in Id, NEW S \in SUBSET Role,
           NEW from \in {"new", "refresh_user"},
           NEW to \in {"refresh_user", "issue_set", "set_role", "delete_index"},
           Goto(r, from, to), Hold(r, u, S),
           \/ u = who[r] /\ from = "refresh_user"
           \/ u \in Old
           \/ u \in Request /\ pc[u] \in Final,
           stored' \subseteq stored,
           UNCHANGED <<rows, index, claims, overtaken>>,
           to = "set_role" => roles[u] \subseteq S,
           to = "issue_set" => u \in Registered /\ S \subseteq granted[u]
    PROVE  AccountsInv'
  <1> USE AccountsAssumption DEF Goto, Hold, Final, Id
  <1>1. /\ pc[r] = from /\ pc' = [pc EXCEPT ![r] = to] /\ pc \in [Request -> Stage]
        /\ who' = [who EXCEPT ![r] = u] /\ who \in [Request -> Id]
        /\ seen' = [seen EXCEPT ![r] = S] /\ seen \in [Request -> SUBSET Role]
    BY DEF AccountsInv, Shape, TypeOK
  <1>2. TypeOK'
    BY <1>1 DEF AccountsInv, Shape, TypeOK, rows, Stage
  <1>3. (Named /\ Settled /\ Fresh /\ Recorded)'
    <2>1. Named' /\ Recorded'
      BY <1>1 DEF AccountsInv, Shape, Named, Recorded, rows
    <2>2. Settled'
      BY <1>1 DEF AccountsInv, Shape, Settled
    <2>3. Fresh'
      BY <1>1 DEF AccountsInv, Shape, Fresh
    <2> QED BY <2>1, <2>2, <2>3
  <1>4. Reads'
    BY <1>1 DEF AccountsInv, Reads, RolesRead, Entitled, Registered, rows
  <1>5. RoleLostOnlyByOverlap'
    BY <1>1 DEF AccountsInv, Kept, RoleLostOnlyByOverlap, Registered, rows
  <1>6. SessionUnindexedOnlyByDeletion'
    <2>1. \A t \in stored' : t \in stored /\ t # r
      BY <1>1 DEF AccountsInv, Shape, Fresh
    <2>2. \A t \in stored' : Holder(t)' = Holder(t)
      BY <1>1, <2>1 DEF Holder, AccountsInv, Shape, TypeOK
    <2>3. Registered' = Registered /\ claims' = claims /\ index' = index
      BY DEF Registered, rows
    <2>4. \A q \in Request : pc[q] \in {"delete_commit", "delete_failed"} =>
             pc'[q] = pc[q] /\ who'[q] = who[q]
      BY <1>1
    <2> QED BY <2>1, <2>2, <2>3, <2>4
            DEF AccountsInv, Kept, SessionUnindexedOnlyByDeletion
  <1> QED BY <1>2, <1>3, <1>4, <1>5, <1>6 DEF AccountsInv, Shape, Kept

\* Who is in the table is older, or his registration is over.
LEMMA RegisteredSettled ==
    ASSUME AccountsInv, NEW u \in Registered
    PROVE  u \in Id /\ (u \in Old \/ (u \in Request /\ pc[u] \in Final))
  <1>1. u \in Id /\ name[u] # NoName
    BY DEF Registered
  <1>2. ASSUME u \in Request PROVE pc[u] = "done"
    BY <1>1, <1>2 DEF AccountsInv, Shape, Named
  <1> QED BY <1>1, <1>2 DEF Id, Final

LEMMA HolderSettled ==
    ASSUME AccountsInv, NEW t \in stored
    PROVE  Holder(t) \in Id
           /\ (Holder(t) \in Old \/ (Holder(t) \in Request /\ pc[Holder(t)] \in Final))
  <1>1. t \in Id /\ who \in [Request -> Id]
    BY DEF AccountsInv, Shape, TypeOK
  <1>2. CASE t \in Old
    BY <1>2 DEF Holder, Id
  <1>3. CASE t \in Request /\ t \notin Old
    BY <1>1, <1>3 DEF AccountsInv, Shape, Settled, Fresh, Holder, Id
  <1> QED BY <1>1, <1>2, <1>3 DEF Id

-----------------------------------------------------------------------------
LEMMA EnterInv ==
    ASSUME AccountsInv, NEW r \in Request,
           \/ \E u \in Id : \/ Login(r, u) \/ DeleteUser(r, u)
                            \/ \E role \in Role : SetRole(r, u, role)
           \/ \E t \in Id : RefreshDelete(r, t)
           \/ RefreshUser(r)
    PROVE  AccountsInv'
  <1>1. ASSUME NEW u \in Id, Login(r, u)
        PROVE  AccountsInv'
    <2>1. u \in Registered /\ roles[u] \in SUBSET Role /\ roles[u] \subseteq granted[u]
      BY <1>1 DEF Login, AccountsInv, Shape, TypeOK, Recorded
    <2> QED BY <1>1, <2>1, RegisteredSettled, HoldInv DEF Login, keys
  <1>2. ASSUME NEW u \in Id, DeleteUser(r, u)
        PROVE  AccountsInv'
    <2>1. u \in Registered /\ {} \in SUBSET Role
      BY <1>2 DEF DeleteUser
    <2> QED BY <1>2, <2>1, RegisteredSettled, HoldInv DEF DeleteUser, keys
  <1>3. ASSUME NEW u \in Id, NEW role \in Role, SetRole(r, u, role)
        PROVE  AccountsInv'
    <2>1. /\ u \in Registered /\ roles[u] \cup {role} \in SUBSET Role
          /\ roles[u] \subseteq roles[u] \cup {role}
      BY <1>3 DEF SetRole, AccountsInv, Shape, TypeOK
    <2> QED BY <1>3, <2>1, RegisteredSettled, HoldInv DEF SetRole, keys
  <1>4. ASSUME NEW t \in Id, RefreshDelete(r, t)
        PROVE  AccountsInv'
    <2>1. t \in stored /\ stored' \subseteq stored /\ claims[t] \in SUBSET Role
      BY <1>4 DEF RefreshDelete, AccountsInv, Shape, TypeOK
    <2> QED BY <1>4, <2>1, HolderSettled, HoldInv DEF RefreshDelete
  <1>5. ASSUME RefreshUser(r)
        PROVE  AccountsInv'
    <2>1. /\ who[r] \in Registered /\ who[r] \in Id /\ roles[who[r]] \in SUBSET Role
          /\ roles[who[r]] \subseteq granted[who[r]]
      BY <1>5 DEF RefreshUser, AccountsInv, Shape, TypeOK, Recorded
    <2> QED BY <1>5, <2>1, HoldInv DEF RefreshUser, keys
  <1> QED BY <1>1, <1>2, <1>3, <1>4, <1>5

LEMMA IssueSetInv ==
    ASSUME AccountsInv, NEW r \in Request, IssueSet(r)
    PROVE  AccountsInv'
  <1> USE AccountsAssumption DEF IssueSet, Goto, Final, Id
  <1>1. /\ pc[r] = "issue_set" /\ pc' = [pc EXCEPT ![r] = "issue_add"]
        /\ pc \in [Request -> Stage] /\ who[r] # r /\ claims[r] = {}
    BY DEF AccountsInv, Shape, TypeOK, Settled, Fresh
  <1>2. TypeOK'
    BY DEF AccountsInv, Shape, TypeOK, locals, rows, Stage
  <1>3. (Named /\ Settled /\ Fresh /\ Recorded)'
    BY <1>1 DEF AccountsInv, Shape, Named, Settled, Fresh, Recorded, locals, rows
  <1>4. Reads'
    BY <1>1 DEF AccountsInv, Reads, RolesRead, Entitled, Registered, locals, rows
  <1>5. RoleLostOnlyByOverlap'
    BY <1>1 DEF AccountsInv, Kept, RoleLostOnlyByOverlap, Registered, locals, rows
  <1>6. SessionUnindexedOnlyByDeletion'
    BY <1>1 DEF AccountsInv, Kept, SessionUnindexedOnlyByDeletion, Registered, Holder,
                locals, rows
  <1> QED BY <1>2, <1>3, <1>4, <1>5, <1>6 DEF AccountsInv, Shape, Kept

\* The new session is indexed in the step that hands out its token.
LEMMA IssueAddInv ==
    ASSUME AccountsInv, NEW r \in Request, IssueAdd(r)
    PROVE  AccountsInv'
  <1> USE AccountsAssumption DEF IssueAdd, Goto, Final, Id
  <1>1. /\ pc[r] = "issue_add" /\ pc' = [pc EXCEPT ![r] = "done"]
        /\ pc \in [Request -> Stage] /\ who \in [Request -> Id] /\ who[r] # r
        /\ index \in [Id -> SUBSET Id]
    BY DEF AccountsInv, Shape, TypeOK, Settled
  <1>2. TypeOK'
    BY DEF AccountsInv, Shape, TypeOK, locals, rows, Stage
  <1>3. (Named /\ Settled /\ Fresh /\ Recorded)'
    BY <1>1 DEF AccountsInv, Shape, TypeOK, Named, Settled, Fresh, Recorded, locals, rows
  <1>4. Reads'
    BY <1>1 DEF AccountsInv, Reads, RolesRead, Entitled, Registered, locals, rows
  <1>5. RoleLostOnlyByOverlap'
    BY <1>1 DEF AccountsInv, Kept, RoleLostOnlyByOverlap, Registered, locals, rows
  <1>6. SessionUnindexedOnlyByDeletion'
    <2>1. \A u \in Id : index[u] \subseteq index'[u]
      BY <1>1
    <2>2. r \in index'[who[r]] /\ Holder(r) = who[r] /\ Holder(r)' = who[r]
      BY <1>1 DEF Holder, locals
    <2>3. \A t \in Id : t # r => claims'[t] = claims[t] /\ Holder(t)' = Holder(t)
                                 /\ Holder(t) \in Id
      BY <1>1 DEF Holder, locals, AccountsInv, Shape, TypeOK
    <2>4. \A q \in Request : pc[q] \in {"delete_commit", "delete_failed"} =>
             pc'[q] = pc[q] /\ who'[q] = who[q]
      BY <1>1 DEF locals
    <2>5. Registered' = Registered /\ stored' = stored /\ stored \subseteq Id
      BY DEF Registered, rows, AccountsInv, Shape, TypeOK
    <2> QED BY <2>1, <2>2, <2>3, <2>4, <2>5
            DEF AccountsInv, Kept, SessionUnindexedOnlyByDeletion
  <1> QED BY <1>2, <1>3, <1>4, <1>5, <1>6 DEF AccountsInv, Shape, Kept

\* A role the row loses by this commit was not in the array r had read, so that
\* another commit has overtaken r, which is done now.
LEMMA SetRoleCommitInv ==
    ASSUME AccountsInv, NEW r \in Request, SetRoleCommit(r)
    PROVE  AccountsInv'
  <1> USE AccountsAssumption DEF Goto, Final, Id
  <1>1. /\ pc[r] = "set_role" /\ pc' = [pc EXCEPT ![r] = "done"]
        /\ pc \in [Request -> Stage] /\ who \in [Request -> Id]
        /\ who[r] \in Registered /\ seen \in [Request -> SUBSET Role]
        /\ roles \in [Id -> SUBSET Role] /\ granted \in [Id -> SUBSET Role]
        /\ roles' = [roles EXCEPT ![who[r]] = seen[r]]
        /\ granted' = [granted EXCEPT ![who[r]] = @ \cup seen[r]]
        /\ claims' = [claims EXCEPT ![r] = seen[r]] /\ claims \in [Id -> SUBSET Role]
        /\ who' = who /\ seen' = seen /\ data' = data
        /\ name' = name /\ stored' = stored /\ index' = index
        /\ Registered' = Registered /\ who[r] \in Id
    BY DEF SetRoleCommit, AccountsInv, Shape, TypeOK, locals, keys, Registered
  <1>2. /\ overtaken \in [Request -> SUBSET {"role", "deletion"}]
        /\ overtaken' \in [Request -> SUBSET {"role", "deletion"}]
        /\ \A q \in Request : overtaken[q] \subseteq overtaken'[q]
        /\ \A q \in Request : q # r /\ who[q] = who[r] /\ pc[q] = "set_role" =>
               "role" \in overtaken'[q]
    BY DEF SetRoleCommit, Overtakes, AccountsInv, Shape, TypeOK
  <1>3. TypeOK'
    BY <1>1, <1>2 DEF AccountsInv, Shape, TypeOK, Stage
  <1>4. (Named /\ Settled /\ Fresh /\ Recorded)'
    BY <1>1 DEF AccountsInv, Shape, Named, Settled, Fresh, Recorded, TypeOK
  <1>5. Reads'
    <2>1. RolesRead'
      BY <1>1, <1>2 DEF AccountsInv, Reads, RolesRead
    <2>2. Entitled'
      BY <1>1, <1>2 DEF AccountsInv, Reads, Entitled
    <2> QED BY <2>1, <2>2 DEF Reads
  <1>6. RoleLostOnlyByOverlap'
    <2> SUFFICES ASSUME NEW u \in Registered, NEW role \in granted'[u] \ roles'[u]
                 PROVE  \E q \in Request : /\ who[q] = u /\ pc'[q] = "done"
                                           /\ "role" \in overtaken'[q] /\ role \notin seen[q]
      BY <1>1 DEF RoleLostOnlyByOverlap
    <2>1. CASE role \in granted[u] \ roles[u]
      <3>1. PICK q \in Request : /\ who[q] = u /\ pc[q] = "done"
                                 /\ "role" \in overtaken[q] /\ role \notin seen[q]
        BY <2>1 DEF AccountsInv, Kept, RoleLostOnlyByOverlap
      <3> QED BY <1>1, <1>2, <3>1
    <2>2. CASE role \notin granted[u] \ roles[u]
      <3>1. u = who[r] /\ role \notin seen[r] /\ role \in roles[u]
        BY <1>1, <2>2 DEF Registered
      <3>2. "role" \in overtaken[r]
        BY <1>1, <3>1 DEF AccountsInv, Reads, RolesRead
      <3> QED BY <1>1, <1>2, <3>1, <3>2
    <2> QED BY <2>1, <2>2
  <1>7. SessionUnindexedOnlyByDeletion'
    <2>1. \A t \in stored : t # r /\ claims'[t] = claims[t] /\ Holder(t)' = Holder(t)
      BY <1>1 DEF Holder, AccountsInv, Shape, Fresh, TypeOK
    <2>2. \A q \in Request : pc[q] \in {"delete_commit", "delete_failed"} =>
             pc'[q] = pc[q]
      BY <1>1
    <2> QED BY <1>1, <2>1, <2>2 DEF AccountsInv, Kept, SessionUnindexedOnlyByDeletion
  <1> QED BY <1>3, <1>4, <1>5, <1>6, <1>7 DEF AccountsInv, Shape, Kept

\* From here on the deletion itself accounts for what its index has forgotten.
LEMMA DeleteIndexInv ==
    ASSUME AccountsInv, NEW r \in Request, DeleteIndex(r)
    PROVE  AccountsInv'
  <1> USE AccountsAssumption DEF DeleteIndex, Goto, Final, Id
  <1>1. /\ pc[r] = "delete_index" /\ pc' = [pc EXCEPT ![r] = "delete_commit"]
        /\ pc \in [Request -> Stage] /\ who \in [Request -> Id]
        /\ index \in [Id -> SUBSET Id] /\ index' = [index EXCEPT ![who[r]] = {}]
    BY DEF AccountsInv, Shape, TypeOK
  <1>2. TypeOK'
    BY DEF AccountsInv, Shape, TypeOK, locals, rows, Stage
  <1>3. (Named /\ Settled /\ Fresh /\ Recorded)'
    BY <1>1 DEF AccountsInv, Shape, Named, Settled, Fresh, Recorded, locals, rows
  <1>4. Reads'
    BY <1>1 DEF AccountsInv, Reads, RolesRead, Entitled, Registered, locals, rows
  <1>5. RoleLostOnlyByOverlap'
    BY <1>1 DEF AccountsInv, Kept, RoleLostOnlyByOverlap, Registered, locals, rows
  <1>6. SessionUnindexedOnlyByDeletion'
    <2> SUFFICES ASSUME NEW t \in stored, claims[t] # {}, Holder(t) \in Registered
                 PROVE  \/ t \in index'[Holder(t)]
                        \/ \E q \in Request :
                             /\ who[q] = Holder(t)
                             /\ pc'[q] \in {"delete_commit", "delete_failed"}
      BY DEF SessionUnindexedOnlyByDeletion, Holder, Registered, locals, rows
    <2>1. CASE who[r] = Holder(t)
      BY <1>1, <2>1
    <2>2. CASE who[r] # Holder(t)
      <3>1. Holder(t) \in Id /\ index'[Holder(t)] = index[Holder(t)]
        BY <1>1, <2>2 DEF Registered
      <3> QED BY <1>1, <3>1 DEF AccountsInv, Kept, SessionUnindexedOnlyByDeletion
    <2> QED BY <2>1, <2>2
  <1> QED BY <1>2, <1>3, <1>4, <1>5, <1>6 DEF AccountsInv, Shape, Kept

\* The user is gone for whoever is about to hand him a token.
LEMMA DeleteCommitInv ==
    ASSUME AccountsInv, NEW r \in Request, DeleteCommit(r)
    PROVE  AccountsInv'
  <1> USE AccountsAssumption DEF Goto, Final, Id
  <1>1. /\ pc[r] = "delete_commit" /\ pc' = [pc EXCEPT ![r] = "done"]
        /\ pc \in [Request -> Stage] /\ who \in [Request -> Id]
        /\ name \in [Id -> Name \cup {NoName}] /\ roles \in [Id -> SUBSET Role]
        /\ granted \in [Id -> SUBSET Role]
        /\ name' = [name EXCEPT ![who[r]] = NoName]
        /\ roles' = [roles EXCEPT ![who[r]] = {}]
        /\ granted' = [granted EXCEPT ![who[r]] = {}]
        /\ who' = who /\ seen' = seen /\ data' = data
        /\ stored' = stored /\ index' = index /\ claims' = claims
        /\ Registered' = Registered \ {who[r]}
    BY DEF DeleteCommit, AccountsInv, Shape, TypeOK, locals, keys, Registered
  <1>2. /\ overtaken \in [Request -> SUBSET {"role", "deletion"}]
        /\ overtaken' \in [Request -> SUBSET {"role", "deletion"}]
        /\ \A q \in Request : overtaken[q] \subseteq overtaken'[q]
        /\ \A q \in Request : q # r /\ who[q] = who[r]
                              /\ pc[q] \in {"issue_set", "issue_add"} =>
               "deletion" \in overtaken'[q]
    BY DEF DeleteCommit, Overtakes, AccountsInv, Shape, TypeOK
  <1>3. TypeOK'
    BY <1>1, <1>2 DEF AccountsInv, Shape, TypeOK, Stage
  <1>4. (Named /\ Settled /\ Fresh /\ Recorded)'
    BY <1>1 DEF AccountsInv, Shape, Named, Settled, Fresh, Recorded
  <1>5. Reads'
    <2>1. RolesRead'
      BY <1>1, <1>2 DEF AccountsInv, Reads, RolesRead
    <2>2. Entitled'
      BY <1>1, <1>2 DEF AccountsInv, Reads, Entitled
    <2> QED BY <2>1, <2>2 DEF Reads
  <1>6. RoleLostOnlyByOverlap'
    BY <1>1, <1>2 DEF AccountsInv, Kept, RoleLostOnlyByOverlap, Registered
  <1>7. SessionUnindexedOnlyByDeletion'
    <2>1. \A t \in stored : Holder(t)' = Holder(t)
      BY <1>1 DEF Holder
    <2> QED BY <1>1, <2>1 DEF AccountsInv, Kept, SessionUnindexedOnlyByDeletion
  <1> QED BY <1>3, <1>4, <1>5, <1>6, <1>7 DEF AccountsInv, Shape, Kept

LEMMA FailInv ==
    ASSUME AccountsInv, NEW r \in Request, Fail(r)
    PROVE  AccountsInv'
  <1> USE AccountsAssumption DEF Final, Id
  <1>1. PICK to \in Final : /\ pc' = [pc EXCEPT ![r] = to]
                            /\ pc[r] = "delete_commit" => to = "delete_failed"
                            /\ pc[r] # "delete_commit" => to = "done"
    BY DEF Fail, Goto
  <1>2. /\ pc \in [Request -> Stage] /\ pc[r] \notin {"new"} \cup Final
        /\ overtaken' = [overtaken EXCEPT ![r] = {}]
        /\ overtaken \in [Request -> SUBSET {"role", "deletion"}]
        /\ UNCHANGED <<who, data, seen, name, roles, granted, stored, index, claims>>
        /\ Registered' = Registered
    BY DEF Fail, AccountsInv, Shape, TypeOK, locals, rows, keys, Registered
  <1>3. TypeOK'
    BY <1>1, <1>2 DEF AccountsInv, Shape, TypeOK, Stage
  <1>4. (Named /\ Settled /\ Fresh /\ Recorded)'
    BY <1>1, <1>2 DEF AccountsInv, Shape, Named, Settled, Fresh, Recorded
  <1>5. Reads'
    BY <1>1, <1>2 DEF AccountsInv, Reads, RolesRead, Entitled
  <1>6. RoleLostOnlyByOverlap'
    BY <1>1, <1>2 DEF AccountsInv, Kept, RoleLostOnlyByOverlap
  <1>7. SessionUnindexedOnlyByDeletion'
    BY <1>1, <1>2 DEF AccountsInv, Kept, SessionUnindexedOnlyByDeletion, Holder
  <1> QED BY <1>3, <1>4, <1>5, <1>6, <1>7 DEF AccountsInv, Shape, Kept

LEMMA StutterInv == AccountsInv /\ UNCHANGED vars => AccountsInv'
  BY DEF vars, locals, rows, keys, AccountsInv, Shape, Reads, Kept, TypeOK, Named,
         Settled, Fresh, Recorded, RolesRead, Entitled, RoleLostOnlyByOverlap,
         SessionUnindexedOnlyByDeletion, Registered, Holder

-----------------------------------------------------------------------------
LEMMA NextInv == AccountsInv /\ [Next]_vars => AccountsInv'
  <1> SUFFICES ASSUME AccountsInv, [Next]_vars
               PROVE  AccountsInv'
    OBVIOUS
  <1>1. ASSUME NEW r \in Request, NEW n \in Name, RegisterCheck(r, n) \/ RegisterUsed(r, n)
        PROVE  AccountsInv'
    BY <1>1, RegisterCheckInv, RefuseInv DEF RegisterUsed
  <1>2. ASSUME NEW r \in Request, RegisterCommit(r) \/ RegisterConflict(r)
        PROVE  AccountsInv'
    BY <1>2, RegisterCommitInv, RefuseInv DEF RegisterConflict
  <1>3. ASSUME NEW r \in Request, NEW u \in Id, UpdateUser(r, u) \/ DeleteUserGone(r, u)
        PROVE  AccountsInv'
    BY <1>3, RefuseInv DEF UpdateUser, DeleteUserGone
  <1>4. ASSUME NEW r \in Request, NEW u \in Id, NEW role \in Role,
               SetRoleRefused(r, u, role)
        PROVE  AccountsInv'
    BY <1>4, RefuseInv DEF SetRoleRefused
  <1>5. ASSUME NEW r \in Request,
               \/ \E u \in Id : \/ Login(r, u) \/ DeleteUser(r, u)
                                \/ \E role \in Role : SetRole(r, u, role)
               \/ \E t \in Id : RefreshDelete(r, t)
               \/ RefreshUser(r)
        PROVE  AccountsInv'
    BY <1>5, EnterInv
  <1>6. ASSUME NEW r \in Request, RefreshUserGone(r) \/ SetRoleGone(r)
        PROVE  AccountsInv'
    BY <1>6, RefuseInv DEF RefreshUserGone, SetRoleGone
  <1>7. ASSUME NEW r \in Request, IssueSet(r) \/ IssueAdd(r)
        PROVE  AccountsInv'
    BY <1>7, IssueSetInv, IssueAddInv
  <1>8. ASSUME NEW r \in Request, SetRoleCommit(r)
        PROVE  AccountsInv'
    BY <1>8, SetRoleCommitInv
  <1>9. ASSUME NEW r \in Request, DeleteIndex(r) \/ DeleteCommit(r)
        PROVE  AccountsInv'
    BY <1>9, DeleteIndexInv, DeleteCommitInv
  <1>10. ASSUME NEW r \in Request, Fail(r)
         PROVE  AccountsInv'
    BY <1>10, FailInv
  <1>11. CASE UNCHANGED vars
    BY <1>11, StutterInv
  <1> QED
    BY <1>1, <1>2, <1>3, <1>4, <1>5, <1>6, <1>7, <1>8, <1>9, <1>10, <1>11
    DEF Next, Quiet

LEMMA AccountsAlways == Spec => []AccountsInv
  BY InitInv, NextInv, PTL DEF Spec

\* Type correctness of the users, their sessions and the requests.
THEOREM TypeCorrect == Spec => []TypeOK
  <1>1. AccountsInv => TypeOK
    BY DEF AccountsInv, Shape
  <1> QED BY <1>1, AccountsAlways, PTL

\* Whatever the requests, a committed role is lost only to a set_role that had
\* read the array before.
THEOREM RolesKept == Spec => []RoleLostOnlyByOverlap
  <1>1. AccountsInv => RoleLostOnlyByOverlap
    BY DEF AccountsInv, Kept
  <1> QED BY <1>1, AccountsAlways, PTL

\* A session the index of its living user has forgotten was forgotten by a
\* deletion of the account.
THEOREM SessionsIndexed == Spec => []SessionUnindexedOnlyByDeletion
  <1>1. AccountsInv => SessionUnindexedOnlyByDeletion
    BY DEF AccountsInv, Kept
  <1> QED BY <1>1, AccountsAlways, PTL

\* Only IssueAdd and SetRoleCommit hand out access tokens.
LEMMA TokenStep ==
    ASSUME AccountsInv, [Next]_vars, NEW r \in Request, claims'[r] # claims[r]
    PROVE  \/ who[r] \in Registered /\ claims'[r] \subseteq granted'[who[r]]
           \/ "deletion" \in overtaken[r]
  <1>1. ASSUME NEW q \in Request, IssueAdd(q)
        PROVE  \/ who[r] \in Registered /\ claims'[r] \subseteq granted'[who[r]]
               \/ "deletion" \in overtaken[r]
    <2>1. q = r /\ claims'[r] = seen[r] /\ granted' = granted
      BY <1>1 DEF IssueAdd, rows, AccountsInv, Shape, TypeOK, Id
    <2>2. pc[r] = "issue_add"
      BY <1>1, <2>1 DEF IssueAdd, Goto
    <2> QED BY <2>1, <2>2 DEF AccountsInv, Reads, Entitled
  <1>2. ASSUME NEW q \in Request, SetRoleCommit(q)
        PROVE  who[r] \in Registered /\ claims'[r] \subseteq granted'[who[r]]
    <2>1. q = r /\ claims'[r] = seen[r]
      BY <1>2 DEF SetRoleCommit, AccountsInv, Shape, TypeOK, Id
    <2>2. who[r] \in Registered /\ who[r] \in Id
      BY <1>2, <2>1 DEF SetRoleCommit, Registered
    <2>3. granted'[who[r]] = granted[who[r]] \cup seen[r]
      BY <1>2, <2>1, <2>2 DEF SetRoleCommit, AccountsInv, Shape, TypeOK
    <2> QED BY <2>1, <2>2, <2>3
  <1>3. \/ \E q \in Request : IssueAdd(q) \/ SetRoleCommit(q)
        \/ claims' = claims
    <2> SUFFICES ASSUME NEW q, NEW n, NEW u, NEW role,
                        \/ RegisterCheck(q, n) \/ RegisterUsed(q, n)
                        \/ RegisterCommit(q) \/ RegisterConflict(q)
                        \/ UpdateUser(q, u) \/ Login(q, u)
                        \/ DeleteUser(q, u) \/ DeleteUserGone(q, u)
                        \/ SetRole(q, u, role) \/ SetRoleRefused(q, u, role)
                        \/ RefreshDelete(q, u)
                        \/ RefreshUser(q) \/ RefreshUserGone(q) \/ IssueSet(q)
                        \/ SetRoleGone(q) \/ DeleteIndex(q) \/ DeleteCommit(q)
                        \/ Fail(q)
                 PROVE  claims' = claims
      BY DEF Next, Quiet, vars
    <2> QED
      BY DEF RegisterCheck, RegisterUsed, RegisterCommit,
             RegisterConflict, UpdateUser, Login, DeleteUser, DeleteUserGone, SetRole,
             SetRoleRefused, RefreshDelete, RefreshUser, RefreshUserGone, IssueSet,
             SetRoleGone, DeleteIndex, DeleteCommit, Fail, Refuse
  <1> QED BY <1>1, <1>2, <1>3

\* Every access token claims only roles committed for a user that exists, or its
\* request was overtaken by the deletion of the account.
THEOREM TokensToTheLiving == Spec => TokenOnlyToTheLiving
  <1>1. AccountsInv /\ [Next]_vars =>
          [\A r \in Request : claims'[r] # claims[r] =>
              \/ who[r] \in Registered /\ claims'[r] \subseteq granted'[who[r]]
              \/ "deletion" \in overtaken[r]]_vars
    BY TokenStep
  <1> QED BY <1>1, AccountsAlways, PTL DEF Spec, TokenOnlyToTheLiving
=============================================================================
