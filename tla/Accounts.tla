------------------------------ MODULE Accounts ------------------------------
(***************************************************************************)
(* The users of the store: registration, roles, sessions and deletion      *)
(* (services/user_service.py), as far as they are about the rows of users, *)
(* the roles access tokens claim, and the index of a user's sessions.      *)
(* Rotation, reuse and expiry of refresh tokens are in AuthTokens, the     *)
(* files and apps of a deleted user in Catalogue.                          *)
(*                                                                         *)
(* A user and a session are named after the request that creates them;     *)
(* an older user has one session, named after the user.  overtaken and     *)
(* granted are history variables.                                          *)
(***************************************************************************)
EXTENDS FiniteSets

CONSTANTS Old,       \* users registered before
          Request,
          Name,      \* usernames; an e-mail address is checked and unique alike
          NoName,
          NameOf     \* the name of an older user

Role == {"user", "publisher", "admin"}
Id == Old \cup Request

ASSUME AccountsAssumption ==
    /\ Old \cap Request = {}
    /\ NoName \notin Name
    /\ NameOf \in [Old -> Name]
    /\ \A u, v \in Old : NameOf[u] = NameOf[v] => u = v

VARIABLES pc,         \* pc[r]: the await r stands at
          who,        \* who[r]: the user r is about
          data,       \* data[r]: the name r registers
          seen,       \* seen[r]: the roles r has read, or goes to write
          name,       \* users.username; NoName: there is no such row
          roles,      \* users.roles
          stored,     \* refresh_token:* keys
          index,      \* user_tokens:* sets
          claims,     \* claims[t]: the roles in the access token given with t
          granted,    \* granted[u]: roles ever committed for u
          overtaken   \* overtaken[r]: commits to the user of r since r read it

locals == <<who, data, seen>>
rows == <<name, roles, granted>>
keys == <<stored, index>>
vars == <<pc, locals, rows, keys, claims, overtaken>>

Registered == {u \in Id : name[u] # NoName}
Used == {name[u] : u \in Registered}

\* Whose session, or whose access token, t is.
Holder(t) == IF t \in Old THEN t ELSE who[t]

\* Somebody has an access token of u; somebody has one of an administrator.  It
\* is good for as long as it says, whatever has become of the user.
TokenOf(u) == \E t \in Id : claims[t] # {} /\ Holder(t) = u
AdminToken == \E t \in Id : "admin" \in claims[t]

\* Everybody is logged in once.
Init ==
    /\ pc = [r \in Request |-> "new"]
    /\ who = [r \in Request |-> r]
    /\ data = [r \in Request |-> NoName]
    /\ seen = [r \in Request |-> {}]
    /\ name = [u \in Id |-> IF u \in Old THEN NameOf[u] ELSE NoName]
    /\ roles = [u \in Id |-> IF u \in Old THEN {"user"} ELSE {}]
    /\ granted = roles
    /\ stored = Old
    /\ index = [u \in Id |-> IF u \in Old THEN {u} ELSE {}]
    /\ claims = roles
    /\ overtaken = [r \in Request |-> {}]

Final == {"done", "delete_failed"}
Goto(r, from, to) == pc[r] = from /\ pc' = [pc EXCEPT ![r] = to]

Refuse(r, from) ==
    /\ Goto(r, from, "done")
    /\ UNCHANGED <<locals, rows, keys, claims, overtaken>>

\* r is about user u, whose roles are S.
Hold(r, u, S) ==
    /\ who' = [who EXCEPT ![r] = u]
    /\ seen' = [seen EXCEPT ![r] = S]
    /\ UNCHANGED data

\* A commit of r to the row of u overtakes who has read it and stands at an
\* await of stages.
Overtakes(r, u, what, stages) ==
    overtaken' = [q \in Request |->
        IF q # r /\ who[q] = u /\ pc[q] \in stages
        THEN overtaken[q] \cup {what} ELSE overtaken[q]]

-----------------------------------------------------------------------------
(* Registration and profile *)

RegisterCheck(r, n) ==
    /\ n \notin Used
    /\ Goto(r, "new", "register")
    /\ data' = [data EXCEPT ![r] = n]
    /\ UNCHANGED <<who, seen, rows, keys, claims, overtaken>>

RegisterUsed(r, n) == n \in Used /\ Refuse(r, "new")

RegisterCommit(r) ==
    /\ data[r] \notin Used
    /\ Goto(r, "register", "done")
    /\ name' = [name EXCEPT ![r] = data[r]]
    /\ roles' = [roles EXCEPT ![r] = {"user"}]
    /\ granted' = [granted EXCEPT ![r] = {"user"}]
    /\ UNCHANGED <<locals, keys, claims, overtaken>>

\* Somebody has registered under the name meanwhile: the unique index refuses.
RegisterConflict(r) == data[r] \in Used /\ Refuse(r, "register")

\* The user was loaded by the dependency, through another session than the one
\* of the unit of work: the new name and password are set on an object that the
\* commit does not know of, and nothing is written.
UpdateUser(r, u) == TokenOf(u) /\ u \in Registered /\ Refuse(r, "new")

-----------------------------------------------------------------------------
(* Sessions *)

Login(r, u) ==
    /\ u \in Registered
    /\ Goto(r, "new", "issue_set")
    /\ Hold(r, u, roles[u])
    /\ UNCHANGED <<rows, keys, claims, overtaken>>

\* The checks of the token and its deletion, cut up in AuthTokens; the index
\* keeps its jti.
RefreshDelete(r, t) ==
    /\ t \in stored
    /\ Goto(r, "new", "refresh_user")
    /\ stored' = stored \ {t}
    /\ Hold(r, Holder(t), claims[t])
    /\ UNCHANGED <<rows, index, claims, overtaken>>

\* Mutant: the roles are carried over from the old token, the user is not loaded.
RefreshUserCarriedOver(r) ==
    /\ Goto(r, "refresh_user", "issue_set")
    /\ UNCHANGED <<locals, rows, keys, claims, overtaken>>

RefreshUser(r) ==
    /\ who[r] \in Registered
    /\ Goto(r, "refresh_user", "issue_set")
    /\ Hold(r, who[r], roles[who[r]])
    /\ UNCHANGED <<rows, keys, claims, overtaken>>

RefreshUserGone(r) == who[r] \notin Registered /\ Refuse(r, "refresh_user")

IssueSet(r) ==
    /\ Goto(r, "issue_set", "issue_add")
    /\ stored' = stored \cup {r}
    /\ UNCHANGED <<locals, rows, index, claims, overtaken>>

\* Mutant: the set is left as it is.
IssueAddNothing(r) ==
    /\ Goto(r, "issue_add", "done")
    /\ claims' = [claims EXCEPT ![r] = seen[r]]
    /\ UNCHANGED <<locals, rows, keys, overtaken>>

\* The answer brings both tokens.
IssueAdd(r) ==
    /\ Goto(r, "issue_add", "done")
    /\ index' = [index EXCEPT ![who[r]] = @ \cup {r}]
    /\ claims' = [claims EXCEPT ![r] = seen[r]]
    /\ UNCHANGED <<locals, rows, stored, overtaken>>

-----------------------------------------------------------------------------
(* Roles *)

\* By the user, or by who has an administrator's token.
SetRole(r, u, role) ==
    /\ TokenOf(u) \/ AdminToken
    /\ u \in Registered /\ role \notin roles[u]
    /\ Goto(r, "new", "set_role")
    /\ Hold(r, u, roles[u] \cup {role})
    /\ UNCHANGED <<rows, keys, claims, overtaken>>

SetRoleRefused(r, u, role) ==
    /\ TokenOf(u) \/ AdminToken
    /\ u \notin Registered \/ role \in roles[u]
    /\ Refuse(r, "new")

\* Mutant: the role takes the place of the others.
SetRoleCommitReplacing(r) ==
    LET new == seen[r] \ {"user"} IN
    /\ who[r] \in Registered
    /\ Goto(r, "set_role", "done")
    /\ roles' = [roles EXCEPT ![who[r]] = new]
    /\ granted' = [granted EXCEPT ![who[r]] = @ \cup new]
    /\ claims' = [claims EXCEPT ![r] = new]
    /\ Overtakes(r, who[r], "role", {"set_role"})
    /\ UNCHANGED <<locals, name, keys>>

\* The whole array is written, and the new access token made from it.
SetRoleCommit(r) ==
    /\ who[r] \in Registered
    /\ Goto(r, "set_role", "done")
    /\ roles' = [roles EXCEPT ![who[r]] = seen[r]]
    /\ granted' = [granted EXCEPT ![who[r]] = @ \cup seen[r]]
    /\ claims' = [claims EXCEPT ![r] = seen[r]]
    /\ Overtakes(r, who[r], "role", {"set_role"})
    /\ UNCHANGED <<locals, name, keys>>

\* The UPDATE finds no row: StaleDataError.
SetRoleGone(r) == who[r] \notin Registered /\ Refuse(r, "set_role")

-----------------------------------------------------------------------------
(* Deletion *)

DeleteUser(r, u) ==
    /\ TokenOf(u) /\ u \in Registered
    /\ Goto(r, "new", "delete_index")
    /\ Hold(r, u, {})
    /\ UNCHANGED <<rows, keys, claims, overtaken>>

DeleteUserGone(r, u) == TokenOf(u) /\ u \notin Registered /\ Refuse(r, "new")

\* The set of sessions goes; the sessions stay.
DeleteIndex(r) ==
    /\ Goto(r, "delete_index", "delete_commit")
    /\ index' = [index EXCEPT ![who[r]] = {}]
    /\ UNCHANGED <<locals, rows, stored, claims, overtaken>>

\* A second deletion finds no row, which is a warning only.
DeleteCommit(r) ==
    /\ Goto(r, "delete_commit", "done")
    /\ name' = [name EXCEPT ![who[r]] = NoName]
    /\ roles' = [roles EXCEPT ![who[r]] = {}]
    /\ granted' = [granted EXCEPT ![who[r]] = {}]
    /\ Overtakes(r, who[r], "deletion", {"issue_set", "issue_add"})
    /\ UNCHANGED <<locals, keys, claims>>

-----------------------------------------------------------------------------
\* An exception at any await; "delete_failed" is "done" for a deletion that has
\* dropped the index.
Fail(r) ==
    /\ pc[r] \notin {"new"} \cup Final
    /\ Goto(r, pc[r], IF pc[r] = "delete_commit" THEN "delete_failed" ELSE "done")
    /\ overtaken' = [overtaken EXCEPT ![r] = {}]
    /\ UNCHANGED <<locals, rows, keys, claims>>

Quiet ==
    /\ \A r \in Request : pc[r] \in Final
    /\ UNCHANGED vars

Next ==
    \/ \E r \in Request :
        \/ \E n \in Name : RegisterCheck(r, n) \/ RegisterUsed(r, n)
        \/ RegisterCommit(r) \/ RegisterConflict(r)
        \/ \E u \in Id : \/ UpdateUser(r, u) \/ Login(r, u)
                         \/ DeleteUser(r, u) \/ DeleteUserGone(r, u)
                         \/ \E role \in Role : SetRole(r, u, role) \/ SetRoleRefused(r, u, role)
        \/ \E t \in Id : RefreshDelete(r, t)
        \/ RefreshUser(r) \/ RefreshUserGone(r) \/ IssueSet(r) \/ IssueAdd(r)
        \/ SetRoleCommit(r) \/ SetRoleGone(r)
        \/ DeleteIndex(r) \/ DeleteCommit(r)
        \/ Fail(r)
    \/ Quiet

Spec == Init /\ [][Next]_vars

-----------------------------------------------------------------------------
Stage == {"new", "register", "refresh_user", "issue_set", "issue_add",
          "set_role", "delete_index", "delete_commit"} \cup Final

TypeOK ==
    /\ pc \in [Request -> Stage]
    /\ who \in [Request -> Id]
    /\ data \in [Request -> Name \cup {NoName}]
    /\ seen \in [Request -> SUBSET Role]
    /\ name \in [Id -> Name \cup {NoName}]
    /\ roles \in [Id -> SUBSET Role]
    /\ granted \in [Id -> SUBSET Role]
    /\ stored \subseteq Id
    /\ index \in [Id -> SUBSET Id]
    /\ claims \in [Id -> SUBSET Role]
    /\ overtaken \in [Request -> SUBSET {"role", "deletion"}]

\* A role once committed is lost only to a set_role that has read the array
\* before the role was added to it and has written it since.
RoleLostOnlyByOverlap ==
    \A u \in Registered : \A role \in granted[u] \ roles[u] :
        \E r \in Request :
            /\ who[r] = u /\ pc[r] = "done"
            /\ "role" \in overtaken[r] /\ role \notin seen[r]

\* While the user exists, a session he can refresh is one a revocation finds,
\* unless a deletion of the account has dropped the index and is not over or
\* has failed.
SessionUnindexedOnlyByDeletion ==
    \A t \in stored :
        claims[t] # {} /\ Holder(t) \in Registered =>
            \/ t \in index[Holder(t)]
            \/ \E r \in Request : /\ who[r] = Holder(t)
                                  /\ pc[r] \in {"delete_commit", "delete_failed"}

\* Every access token handed out claims roles that were committed for its user,
\* and goes to a user that exists, unless he was deleted after the request had
\* read his row.  Sessions survive the deletion of the account; this is what
\* keeps them from being renewed.
TokenOnlyToTheLiving ==
    [][\A r \in Request : claims'[r] # claims[r] =>
        \/ who[r] \in Registered /\ claims'[r] \subseteq granted'[who[r]]
        \/ "deletion" \in overtaken[r]]_vars
=============================================================================
