---------------------------- MODULE RateLimiter ----------------------------
(***************************************************************************)
(* The sliding window of db/rate_limiter.py for one key rate_limit:scope:id *)
(* (keys share nothing).  A request is stamped by the API process before    *)
(* the await that sends the Lua script to Redis, so scripts may run in      *)
(* another order than their stamps; Redis runs each one atomically.  A      *)
(* script runs at most Delay after its stamp, or not at all.                *)
(***************************************************************************)
EXTENDS Integers, FiniteSets

CONSTANTS Call,      \* every call of check
          Window,    \* window_seconds
          Limit,     \* limit
          Delay,     \* longest time from time.time() to the script
          Horizon    \* the clock stops here (bound for model checking)

ASSUME RateLimiterAssumption ==
    /\ IsFiniteSet(Call)
    /\ Window \in Nat \ {0}
    /\ Limit \in Nat
    /\ Delay \in Nat
    /\ Horizon \in Nat

VARIABLES clock,
          at,         \* at[r]: "new", "stamped", "granted", "refused" or "lost"
          stamp,      \* stamp[r]: `now` of r, and its score in the sorted set
          zset,       \* the members of the sorted set
          expires,    \* when Redis drops the key
          remaining   \* X-RateLimit-Remaining of the answer to r

limiterVars == <<clock, at, stamp, zset, expires, remaining>>

LimiterInit ==
    /\ clock = 0
    /\ at = [r \in Call |-> "new"]
    /\ stamp = [r \in Call |-> 0]
    /\ zset = {}
    /\ expires = 0
    /\ remaining = [r \in Call |-> 0]

\* now = time.time()
Stamp(r) ==
    /\ at[r] = "new"
    /\ at' = [at EXCEPT ![r] = "stamped"]
    /\ stamp' = [stamp EXCEPT ![r] = clock]
    /\ UNCHANGED <<clock, zset, expires, remaining>>

\* What ZREMRANGEBYSCORE key 0 (now - window) leaves.
Kept(r) == {q \in zset : stamp[q] > stamp[r] - Window}

Grant(r, expiry) ==
    /\ at[r] = "stamped"
    /\ Cardinality(Kept(r)) < Limit
    /\ at' = [at EXCEPT ![r] = "granted"]
    /\ zset' = Kept(r) \cup {r}
    /\ expires' = expiry
    /\ remaining' = [remaining EXCEPT ![r] = Limit - Cardinality(Kept(r)) - 1]
    /\ UNCHANGED <<clock, stamp>>

\* Mutant: EXPIRE only when the key is created.
ScriptGrantsExpireNX(r) ==
    Grant(r, IF zset = {} THEN clock + Window ELSE expires)

ScriptGrants(r) == Grant(r, clock + Window)

\* Mutant: a refused request is recorded too.
ScriptRefusesRecording(r) ==
    /\ at[r] = "stamped"
    /\ Cardinality(Kept(r)) >= Limit
    /\ at' = [at EXCEPT ![r] = "refused"]
    /\ zset' = Kept(r) \cup {r}
    /\ UNCHANGED <<clock, stamp, expires, remaining>>

ScriptRefuses(r) ==
    /\ at[r] = "stamped"
    /\ Cardinality(Kept(r)) >= Limit
    /\ at' = [at EXCEPT ![r] = "refused"]
    /\ zset' = Kept(r)
    /\ remaining' = [remaining EXCEPT ![r] = 0]
    /\ UNCHANGED <<clock, stamp, expires>>

\* The call fails before the script has run.
Lose(r) ==
    /\ at[r] = "stamped"
    /\ at' = [at EXCEPT ![r] = "lost"]
    /\ UNCHANGED <<clock, stamp, zset, expires, remaining>>

\* Time passes, but not past the Delay of a script under way; a key whose time
\* has come is gone.
Tick ==
    /\ clock < Horizon
    /\ \A r \in Call : at[r] = "stamped" => clock < stamp[r] + Delay
    /\ clock' = clock + 1
    /\ zset' = IF clock + 1 >= expires THEN {} ELSE zset
    /\ UNCHANGED <<at, stamp, expires, remaining>>

LimiterQuiet ==
    /\ clock = Horizon
    /\ \A r \in Call : at[r] \notin {"new", "stamped"}
    /\ UNCHANGED limiterVars

LimiterNext ==
    \/ \E r \in Call :
         Stamp(r) \/ ScriptGrants(r) \/ ScriptRefuses(r) \/ Lose(r)
    \/ Tick
    \/ LimiterQuiet

LimiterSpec == LimiterInit /\ [][LimiterNext]_limiterVars

-----------------------------------------------------------------------------
LimiterTypeOK ==
    /\ clock \in Nat
    /\ at \in [Call -> {"new", "stamped", "granted", "refused", "lost"}]
    /\ stamp \in [Call -> Nat]
    /\ zset \subseteq Call
    /\ expires \in Nat
    /\ remaining \in [Call -> Nat]

Granted == {r \in Call : at[r] = "granted"}

\* Among the requests stamped within Window - Delay of each other at most Limit
\* are granted, in whatever order their scripts run; with Delay = 0 that is the
\* sliding window RateLimiter.check promises.  Losing count would take a script
\* that trims entries another one still needs, or a key dropped too early.
WindowCap ==
    \A t \in 0..clock :
        Cardinality({r \in Granted : t - (Window - Delay) < stamp[r] /\ stamp[r] <= t})
            <= Limit

\* Nobody is refused for his refused requests: a request is refused only if Limit
\* requests stamped after now - window have been granted.
RefusalJustified ==
    [][\A r \in Call : at[r] = "stamped" /\ at'[r] = "refused" =>
          Cardinality({q \in Granted : stamp[q] > stamp[r] - Window}) >= Limit]_limiterVars
=============================================================================
