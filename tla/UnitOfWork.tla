----------------------------- MODULE UnitOfWork -----------------------------
(***************************************************************************)
(* The unit of work every service goes through (app/uow/orm.py) over       *)
(* PostgreSQL at READ COMMITTED, reduced to the integer columns that       *)
(* several requests change: users.balance, apps.times_purchased.           *)
(*                                                                         *)
(* A session loads a row when a repository selects it, keeps the object in *)
(* its identity map, lets the service change the object, and on commit     *)
(* writes the resulting ABSOLUTE value.  A row is written only if its net  *)
(* change is not zero.  Nothing is locked and nothing is compared with the *)
(* value that was read.  A session that is left without commit() writes    *)
(* nothing.  The flush holds the row locks until the COMMIT, so flush and  *)
(* commit are one step here.                                               *)
(*                                                                         *)
(* stale, ledger and raced are history variables: no code reads them.      *)
(***************************************************************************)
EXTENDS Integers

CONSTANTS Row,      \* the rows whose column is modelled
          Request   \* every request the service ever serves

VARIABLES db,       \* db[x]: the committed value of row x
          loaded,   \* loaded[r]: the rows in the identity map of r's session
          base,     \* base[r][x]: the value of x when r's session loaded it
          delta,    \* delta[r][x]: what r's service added to it since
          stale,    \* stale[r]: loaded rows another request has rewritten
          ledger,   \* ledger[x]: initial value plus every committed change
          raced     \* rows some commit wrote from a stale value

vars == <<db, loaded, base, delta, stale, ledger, raced>>

Zero == [x \in Row |-> 0]

\* An empty identity map.
Init ==
    /\ db \in [Row -> Int]
    /\ ledger = db
    /\ loaded = [r \in Request |-> {}]
    /\ base = [r \in Request |-> Zero]
    /\ delta = [r \in Request |-> Zero]
    /\ stale = [r \in Request |-> {}]
    /\ raced = {}

\* The rows the flush of r issues an UPDATE for.
Dirty(r) == {x \in loaded[r] : delta[r][x] # 0}

\* Request r selects the rows S and adds d to the objects it holds, with no
\* await between the two.  A row already in the identity map keeps the value
\* it has there: a second select does not refresh it.
Touch(r, S, d) ==
    /\ \A x \in Row : d[x] # 0 => x \in loaded[r] \cup S
    /\ loaded' = [loaded EXCEPT ![r] = @ \cup S]
    /\ base' = [base EXCEPT ![r] =
                  [x \in Row |-> IF x \in S \ loaded[r] THEN db[x] ELSE @[x]]]
    /\ delta' = [delta EXCEPT ![r] = [x \in Row |-> @[x] + d[x]]]
    /\ UNCHANGED <<db, stale, ledger, raced>>

\* The session is closed: its identity map is dropped.
Close(r) ==
    /\ loaded' = [loaded EXCEPT ![r] = {}]
    /\ base' = [base EXCEPT ![r] = Zero]
    /\ delta' = [delta EXCEPT ![r] = Zero]

\* commit() followed by the end of the `async with` block.
Commit(r) ==
    /\ db' = [x \in Row |-> IF x \in Dirty(r) THEN base[r][x] + delta[r][x]
                                              ELSE db[x]]
    /\ ledger' = [x \in Row |-> IF x \in Dirty(r) THEN ledger[x] + delta[r][x]
                                                  ELSE ledger[x]]
    /\ stale' = [q \in Request |-> IF q = r THEN {}
                                   ELSE stale[q] \cup (Dirty(r) \cap loaded[q])]
    /\ raced' = raced \cup (Dirty(r) \cap stale[r])
    /\ Close(r)

\* Mutant: leaving the block writes the changed objects after all.
RollbackFlushes(r) ==
    /\ db' = [x \in Row |-> IF x \in Dirty(r) THEN base[r][x] + delta[r][x]
                                              ELSE db[x]]
    /\ Close(r)
    /\ stale' = [stale EXCEPT ![r] = {}]
    /\ UNCHANGED <<ledger, raced>>

\* The block is left without commit(): by an exception (explicit rollback) or
\* by a return (the session's close() rolls back).
Rollback(r) ==
    /\ Close(r)
    /\ stale' = [stale EXCEPT ![r] = {}]
    /\ UNCHANGED <<db, ledger, raced>>

\* Some Touch of r.  The rows and the change are read off the step itself, so
\* that the formula can be evaluated on the steps of a composing module.
Touches(r) ==
    /\ loaded'[r] \subseteq Row
    /\ delta'[r] \in [Row -> Int]
    /\ Touch(r, loaded'[r] \ loaded[r],
                [x \in Row |-> delta'[r][x] - delta[r][x]])

Next == \E r \in Request : Touches(r) \/ Commit(r) \/ Rollback(r)

Spec == Init /\ [][Next]_vars

-----------------------------------------------------------------------------
TypeOK ==
    /\ db \in [Row -> Int]
    /\ loaded \in [Request -> SUBSET Row]
    /\ base \in [Request -> [Row -> Int]]
    /\ delta \in [Request -> [Row -> Int]]
    /\ stale \in [Request -> SUBSET Row]
    /\ ledger \in [Row -> Int]
    /\ raced \subseteq Row

\* What a session holds is still what the database holds, unless another
\* request has committed that row since the select (orm.py keeps no lock).
SnapshotCurrent ==
    \A r \in Request : \A x \in loaded[r] \ stale[r] : base[r][x] = db[x]

\* A column equals its initial value plus every change ever committed to it,
\* unless a commit overwrote it with a value computed from a stale read: the
\* read-modify-write of the services loses updates in no other way.
LedgerAgrees == \A x \in Row \ raced : db[x] = ledger[x]
=============================================================================
