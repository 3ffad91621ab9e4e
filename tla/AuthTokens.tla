----------------------------- MODULE AuthTokens -----------------------------
(***************************************************************************)
(* The refresh tokens of one user in Redis (core/auth.py and login, logout *)
(* and refresh_tokens of services/user_service.py).  Tokens of different   *)
(* users share no key.  Every Redis call is a step: nothing is pipelined   *)
(* and nothing is compared and set.                                        *)
(*                                                                         *)
(* A token is named after the request that creates it, its jti and family  *)
(* being fresh uuids.  A genuine token always carries the family stored    *)
(* under its jti, so the comparison of the two is whether the key is there. *)
(* gone and missed are history variables.                                  *)
(***************************************************************************)
EXTENDS Naturals, FiniteSets

CONSTANTS Request,
          Seed,      \* tokens issued by earlier logins
          Clock,     \* Redis dropping the index, as one who overtakes requests
          Old        \* tokens so old that they may lapse (bound for model checking)

Token == Request \cup Seed

ASSUME AuthTokensAssumption ==
    Request \cap Seed = {} /\ Clock \notin Request /\ Old \subseteq Token

VARIABLES stored,    \* refresh_token:{jti} keys
          black,     \* blacklist:{jti} keys: "none", "short" (1 s), "full"
          index,     \* the set user_tokens:{user_id}
          covered,   \* tokens set before the last EXPIRE of the index; {} without
          lapsed,    \* tokens past their exp claim
          pc,        \* pc[r]: the await request r stands at
          token,     \* token[r]: the token r presents (r itself: none)
          todo,      \* todo[r]: jtis of a revocation not yet handled
          jti,       \* jti[r]: the one being handled (r itself: none)
          gone,      \* tokens whose key has been deleted
          missed     \* missed[r]: who wrote to Redis while r was open

redis == <<stored, black, index, covered, lapsed>>
locals == <<token, todo, jti>>
history == <<gone, missed>>
vars == <<redis, pc, locals, history>>

Final == {"done", "out", "reuse", "refused"}

Init ==
    /\ stored = Seed /\ index = Seed /\ covered = Seed
    /\ black = [t \in Token |-> "none"]
    /\ lapsed = {}
    /\ pc = [r \in Request |-> "new"]
    /\ token = [r \in Request |-> r]
    /\ todo = [r \in Request |-> {}]
    /\ jti = [r \in Request |-> r]
    /\ gone = {}
    /\ missed = [r \in Request |-> {}]

Goto(r, from, to) == pc[r] = from /\ pc' = [pc EXCEPT ![r] = to]

\* r has written to Redis: the open requests have not seen it.
Overtakes(r) ==
    missed' = [q \in Request |->
                 IF q # r /\ pc[q] \notin Final \cup {"new"}
                 THEN missed[q] \cup {r} ELSE missed[q]]

\* r leaves: refused, or an exception.
Refuse(r, from) ==
    /\ Goto(r, from, "refused")
    /\ UNCHANGED <<redis, locals, history>>

\* SET blacklist:{t} and DEL refresh_token:{t}.
Blacklist(r, t, entry, from, to) ==
    /\ Goto(r, from, to)
    /\ black' = [black EXCEPT ![t] = entry]
    /\ Overtakes(r)
    /\ UNCHANGED <<stored, index, covered, lapsed, locals, gone>>

Delete(r, t, from, to) ==
    /\ Goto(r, from, to)
    /\ stored' = stored \ {t}
    /\ gone' = gone \cup {t}
    /\ Overtakes(r)
    /\ UNCHANGED <<black, index, covered, lapsed, token>>

-----------------------------------------------------------------------------
(* create_refresh_token, and the login that ends in it *)

\* The credentials are right.
Login(r) ==
    /\ Goto(r, "new", "issue_set")
    /\ UNCHANGED <<redis, locals, history>>

IssueSet(r) ==
    /\ Goto(r, "issue_set", "issue_add")
    /\ stored' = stored \cup {r}
    /\ Overtakes(r)
    /\ UNCHANGED <<black, index, covered, lapsed, locals, gone>>

IssueAdd(r) ==
    /\ Goto(r, "issue_add", "issue_expire")
    /\ index' = index \cup {r}
    /\ Overtakes(r)
    /\ UNCHANGED <<stored, black, covered, lapsed, locals, gone>>

\* Mutants: the key is set again to give both the same lifetime; EXPIRE ... NX.
IssueExpireSettingAgain(r) ==
    /\ Goto(r, "issue_expire", "done")
    /\ stored' = stored \cup {r}
    /\ covered' = IF index = {} THEN {} ELSE stored \cup gone
    /\ UNCHANGED <<black, index, lapsed, locals, history>>
IssueExpireNX(r) ==
    /\ Goto(r, "issue_expire", "done")
    /\ covered' = IF index = {} THEN {} ELSE IF covered # {} THEN covered ELSE stored \cup gone
    /\ UNCHANGED <<stored, black, index, lapsed, locals, history>>

\* The index lives as long as a token set now; EXPIRE of a missing key does nothing.
IssueExpire(r) ==
    /\ Goto(r, "issue_expire", "done")
    /\ covered' = IF index = {} THEN {} ELSE stored \cup gone
    /\ UNCHANGED <<stored, black, index, lapsed, locals, history>>

-----------------------------------------------------------------------------
(* revoke_all_user_tokens *)

RevokeMembers(r) ==
    /\ Goto(r, "revoke_members", "revoke")
    /\ todo' = [todo EXCEPT ![r] = index]
    /\ UNCHANGED <<redis, token, jti, history>>

RevokeTTL(r, t) ==
    /\ t \in todo[r]
    /\ Goto(r, "revoke", IF t \in stored THEN "revoke_black" ELSE "revoke_delete")
    /\ jti' = [jti EXCEPT ![r] = t]
    /\ todo' = [todo EXCEPT ![r] = @ \ {t}]
    /\ UNCHANGED <<redis, token, history>>

\* Mutant: the entry gets a lifetime of one second.
RevokeBlacklistBriefly(r) ==
    Blacklist(r, jti[r], "short", "revoke_black", "revoke_delete")

RevokeBlacklist(r) == Blacklist(r, jti[r], "full", "revoke_black", "revoke_delete")

RevokeDelete(r) ==
    /\ Delete(r, jti[r], "revoke_delete", "revoke")
    /\ jti' = [jti EXCEPT ![r] = r]
    /\ UNCHANGED todo

\* The index goes whole, with what has been added since SMEMBERS; the caller
\* is answered that all sessions are revoked.
RevokeIndex(r) ==
    /\ todo[r] = {}
    /\ Goto(r, "revoke", "reuse")
    /\ index' = {} /\ covered' = {}
    /\ Overtakes(r)
    /\ UNCHANGED <<stored, black, lapsed, locals, gone>>

-----------------------------------------------------------------------------
(* refresh_tokens *)

\* What a client can present: a token it was given.
Given == Seed \cup {q \in Request : pc[q] = "done"}

\* The signature and exp are checked, then EXISTS blacklist:{jti}.
RefreshCheck(r, t) ==
    /\ t \in Given \ lapsed
    /\ Goto(r, "new", IF black[t] = "none" THEN "refresh_get" ELSE "revoke_members")
    /\ token' = [token EXCEPT ![r] = t]
    /\ UNCHANGED <<redis, todo, jti, history>>

RefreshGet(r) ==
    \/ /\ token[r] \in stored
       /\ Goto(r, "refresh_get", "refresh_ttl")
       /\ UNCHANGED <<redis, locals, history>>
    \/ token[r] \notin stored /\ Refuse(r, "refresh_get")

RefreshTTL(r) ==
    /\ Goto(r, "refresh_ttl",
            IF token[r] \in stored THEN "refresh_black" ELSE "refresh_black_short")
    /\ UNCHANGED <<redis, locals, history>>

\* Mutant: the jti of the new pair goes on the blacklist.
RefreshBlacklistNew(r) ==
    \/ Blacklist(r, r, "full", "refresh_black", "refresh_delete")
    \/ Blacklist(r, r, "short", "refresh_black_short", "refresh_delete")

\* ex=max(remaining_ttl, 1): a token deleted since the lookup gets one second,
\* whatever its entry was.
RefreshBlacklist(r) ==
    \/ Blacklist(r, token[r], "full", "refresh_black", "refresh_delete")
    \/ Blacklist(r, token[r], "short", "refresh_black_short", "refresh_delete")

\* Mutant: the entry of the blacklist is deleted instead of the token's key.
RefreshDeleteBlacklist(r) ==
    Blacklist(r, token[r], "none", "refresh_delete", "issue_set")

\* The select of the user, which may refuse (see Fail), comes before the
\* creation of the new pair.
RefreshDelete(r) ==
    /\ Delete(r, token[r], "refresh_delete", "issue_set")
    /\ UNCHANGED <<todo, jti>>

-----------------------------------------------------------------------------
(* logout *)

\* An expired token raises an exception logout does not catch.
LogoutTTL(r, t) ==
    /\ t \in Given \ lapsed
    /\ Goto(r, "new", IF t \in stored THEN "logout_black" ELSE "logout_delete")
    /\ token' = [token EXCEPT ![r] = t]
    /\ UNCHANGED <<redis, todo, jti, history>>

LogoutBlacklist(r) ==
    Blacklist(r, token[r], "full", "logout_black", "logout_delete")

LogoutDelete(r) ==
    /\ Delete(r, token[r], "logout_delete", "out")
    /\ UNCHANGED <<todo, jti>>

-----------------------------------------------------------------------------
\* A call to Redis or PostgreSQL raises, the request is cancelled or the
\* process stops: what was done in Redis stays.
Fail(r) == pc[r] \notin Final \cup {"new"} /\ Refuse(r, pc[r])

\* The exp claim of a token passes ...
Lapse(t) ==
    /\ t \in (Old \cap (stored \cup gone)) \ lapsed
    /\ lapsed' = lapsed \cup {t}
    /\ UNCHANGED <<stored, black, index, covered, pc, locals, history>>

\* ... its key expires with it, a moment later ...
ExpireKey(t) ==
    /\ t \in stored \cap lapsed
    /\ stored' = stored \ {t}
    /\ UNCHANGED <<black, index, covered, lapsed, pc, locals, history>>

\* ... and so does an entry of the blacklist made with the token's TTL.
ExpireBlacklist(t) ==
    /\ black[t] = "short" \/ (black[t] = "full" /\ t \in lapsed)
    /\ black' = [black EXCEPT ![t] = "none"]
    /\ UNCHANGED <<stored, index, covered, lapsed, pc, locals, history>>

\* The index outlives every token set before its last EXPIRE.
ExpireIndex ==
    /\ covered # {} /\ covered \subseteq lapsed
    /\ index' = {} /\ covered' = {}
    /\ Overtakes(Clock)
    /\ UNCHANGED <<stored, black, lapsed, pc, locals, gone>>

Step(r) ==
    \/ Login(r) \/ IssueSet(r) \/ IssueAdd(r) \/ IssueExpire(r)
    \/ RevokeMembers(r) \/ \E t \in Token : RevokeTTL(r, t)
    \/ RevokeBlacklist(r) \/ RevokeDelete(r) \/ RevokeIndex(r)
    \/ \E t \in Token : RefreshCheck(r, t) \/ LogoutTTL(r, t)
    \/ RefreshGet(r) \/ RefreshTTL(r) \/ RefreshBlacklist(r) \/ RefreshDelete(r)
    \/ LogoutBlacklist(r) \/ LogoutDelete(r)
    \/ Fail(r)

\* Every request has been answered.
Quiet == (\A r \in Request : pc[r] \in Final) /\ UNCHANGED vars

Next ==
    \/ \E r \in Request : Step(r)
    \/ \E t \in Token : Lapse(t) \/ ExpireKey(t) \/ ExpireBlacklist(t)
    \/ ExpireIndex
    \/ Quiet

Spec == Init /\ [][Next]_vars

-----------------------------------------------------------------------------
Stage == Final \cup
    {"new", "issue_set", "issue_add", "issue_expire",
     "revoke_members", "revoke", "revoke_black", "revoke_delete",
     "refresh_get", "refresh_ttl", "refresh_black", "refresh_black_short",
     "refresh_delete", "logout_black", "logout_delete"}

TypeOK ==
    /\ stored \subseteq Token /\ index \subseteq Token
    /\ covered \subseteq Token /\ lapsed \subseteq Token /\ gone \subseteq Token
    /\ black \in [Token -> {"none", "short", "full"}]
    /\ pc \in [Request -> Stage]
    /\ token \in [Request -> Token] /\ jti \in [Request -> Token]
    /\ todo \in [Request -> SUBSET Token]
    /\ missed \in [Request -> SUBSET (Request \cup {Clock})]

\* A token that was spent, logged out or revoked never becomes valid again, in
\* whatever order the calls run: revoke_all_user_tokens can only find a jti whose
\* key create_refresh_token has set before.
DeadStaysDead == stored \cap gone = {}

Spent(r) == token[r] # r /\ pc[r] \in {"issue_set", "issue_add", "issue_expire", "done"}

\* One token is exchanged for two pairs only by two refreshes that overlapped:
\* nothing but the order of the calls makes the exchange happen once.
ExchangedTwiceOnlyByOverlap ==
    \A r, q \in Request :
        r # q /\ token[r] = token[q] /\ Spent(r) /\ Spent(q) =>
            r \in missed[q] \/ q \in missed[r]

\* A deleted token is on the blacklist until it lapses, so that reuse is noticed,
\* unless a refresh with it found the key deleted between its lookup and its TTL.
DeadIsBlacklisted ==
    \A t \in gone \ lapsed :
        black[t] = "full" \/ \E r, q \in Request : token[r] = t /\ q \in missed[r]

\* r has been sent with token t.
Presents(r, t) == token[r] = t /\ t # r

\* All sessions of a user end only after some token of his was presented twice:
\* logout and revocations put tokens on the blacklist too, and what they put there
\* raises the alarm of user_service.py:189 as if it were reused, but a user who
\* presents each token once is never logged out, however his requests overlap,
\* fail or are too late.
AlarmOnlyAfterReplay ==
    (\E r \in Request : pc[r] \in {"revoke_members", "revoke", "revoke_black",
                                   "revoke_delete", "reuse"})
    => \E q, r \in Request : q # r /\ Presents(q, token[r]) /\ Presents(r, token[r])

\* A session a client holds is in the index, where a revocation finds it, unless
\* one was under way when it was added or the index ran out just then.
LiveIsIndexed ==
    \A r \in Request :
        pc[r] = "done" /\ r \in stored \ lapsed =>
            \/ r \in index
            \/ \E q \in Request : pc[q] = "reuse" /\ r \in missed[q]
            \/ Clock \in missed[r]
=============================================================================
