-------------------------------- MODULE Pool --------------------------------
(***************************************************************************)
(* The connection pool of an API process (db/postgres.py) and the requests *)
(* that draw on it.  The engine is created with max_overflow=0, so the     *)
(* pool never grows past its size; a session takes a connection with its   *)
(* first statement and returns it with commit, rollback or close.          *)
(*                                                                         *)
(* A request may hold two: the session get_session yields to the           *)
(* repositories, open until the response is sent, and the one of its unit  *)
(* of work.  A WebSocket holds the first for as long as it is open.        *)
(***************************************************************************)
EXTENDS Naturals, FiniteSets

CONSTANTS Connection,   \* the connections of the pool
          Request,      \* HTTP requests and WebSockets served by one process
          None          \* the owner of an idle connection

\* session: get_session; uow: OrmUnitOfWork.session; orphan: the session a
\* nested `async with self.uow` has replaced, which nobody will close.
Part == {"session", "uow", "orphan"}

ASSUME PoolAssumption == None \notin Request \X Part

VARIABLES pc,      \* pc[r]: the await r stands at
          owner    \* owner[c]: whose connection c is, and for which session

vars == <<pc, owner>>

Init ==
    /\ pc = [r \in Request |-> "new"]
    /\ owner = [c \in Connection |-> None]

Free == {c \in Connection : owner[c] = None}
Held(r) == {c \in Connection : \E part \in Part : owner[c] = <<r, part>>}

Goto(r, from, to) == pc[r] = from /\ pc' = [pc EXCEPT ![r] = to]

\* Any waiter may get a returned connection: one that has just arrived finds it
\* before the one that was woken for it.
Take(r, part, from, to) ==
    /\ Goto(r, from, to)
    /\ \E c \in Free : owner' = [owner EXCEPT ![c] = <<r, part>>]

Released(r, parts) ==
    [c \in Connection |-> IF owner[c] \in {r} \X parts THEN None ELSE owner[c]]

Return(r, parts, from, to) ==
    /\ Goto(r, from, to)
    /\ owner' = Released(r, parts)

-----------------------------------------------------------------------------
(* Starting *)

\* get_current_user and every route that only reads: a select through the
\* session of the dependency.
StartReading(r) == Goto(r, "new", "ask_session") /\ UNCHANGED owner

\* Routes that take only the user's id from the token begin in their service.
StartWriting(r) == Goto(r, "new", "ask_uow") /\ UNCHANGED owner

Read(r) == Take(r, "session", "ask_session", "reading")

\* A read is answered, or an access is denied.
Respond(r) == Goto(r, "reading", "leaving") /\ UNCHANGED owner

\* Checkout and update_current_user, which depend on the user, and a cart read
\* for the first time go on into a unit of work; the select's transaction, and
\* its connection, stay open.
EnterUow(r) == Goto(r, "reading", "ask_uow") /\ UNCHANGED owner

\* A WebSocket has found its user and its discussion.
Open(r) == Goto(r, "reading", "open") /\ UNCHANGED owner

-----------------------------------------------------------------------------
(* The unit of work *)

Work(r) == Take(r, "uow", "ask_uow", "in_uow")

\* Commit and close, or rollback and close.
CloseUow(r) ==
    \E from \in {"in_uow", "in_app"} : Return(r, {"uow"}, from, "leaving")

\* add_app_to_cart finds no cart: get_or_create_cart enters the unit of work
\* again, which replaces its session without closing it.
EnterUowAgain(r) ==
    /\ \A c \in Connection : owner[c] # <<r, "session">>
    /\ Goto(r, "in_uow", "ask_cart")
    /\ owner' = [c \in Connection |->
                    IF owner[c] = <<r, "uow">> THEN <<r, "orphan">> ELSE owner[c]]

CreateCart(r) == Take(r, "uow", "ask_cart", "in_cart")

\* Back in the outer block the closed session is used again.
CommitCart(r) == Return(r, {"uow"}, "in_cart", "ask_app")
AddApp(r) == Take(r, "uow", "ask_app", "in_app")

\* What only the garbage collector returns, whenever it runs.
Collect(r) ==
    /\ \E c \in Connection : owner[c] = <<r, "orphan">>
    /\ owner' = Released(r, {"orphan"})
    /\ UNCHANGED pc

-----------------------------------------------------------------------------
(* WebSocket *)

\* The client sends a message, which is stored in a unit of work, or leaves.
ReceiveMessage(r) == Goto(r, "open", "ask_message") /\ UNCHANGED owner
CreateMessage(r) == Take(r, "uow", "ask_message", "in_message")
MessageCreated(r) == Return(r, {"uow"}, "in_message", "open")
Disconnect(r) == Goto(r, "open", "leaving") /\ UNCHANGED owner

-----------------------------------------------------------------------------
(* Ending *)

Asking == {"ask_session", "ask_uow", "ask_cart", "ask_app", "ask_message"}

\* Mutant: the session of the dependency is not closed.
LeaveOpen(r) == Return(r, {}, "leaving", "done")

\* get_session closes its session when the route has returned.
Leave(r) == Return(r, {"session"}, "leaving", "done")

\* Mutants: the request tries again; it gives up only what it has just asked for.
TimeoutRetries(r) ==
    /\ pc[r] \in Asking /\ Free = {}
    /\ UNCHANGED vars

TimeoutKeeps(r) ==
    /\ pc[r] \in Asking /\ Free = {}
    /\ Return(r, {"uow"}, pc[r], "done")

\* The pool has had no connection for 30 seconds: TimeoutError, which every
\* `async with` on the way out answers with a rollback and a close.
Timeout(r) ==
    /\ pc[r] \in Asking /\ Free = {}
    /\ Return(r, {"session", "uow"}, pc[r], "done")

\* Any other exception while the request holds or awaits something.
Fail(r) ==
    /\ pc[r] \notin {"new", "done"}
    /\ Return(r, {"session", "uow"}, pc[r], "done")

\* What the process does by itself when nothing fails; clients start requests,
\* write and leave.
Serve(r) ==
    \/ Read(r) \/ Respond(r) \/ EnterUow(r) \/ Open(r)
    \/ Work(r) \/ CloseUow(r) \/ EnterUowAgain(r)
    \/ CreateCart(r) \/ CommitCart(r) \/ AddApp(r)
    \/ CreateMessage(r) \/ MessageCreated(r)
    \/ Leave(r) \/ Timeout(r)

Quiet ==
    /\ \A r \in Request : pc[r] = "done"
    /\ UNCHANGED vars

Next ==
    \/ \E r \in Request : \/ StartReading(r) \/ StartWriting(r) \/ Serve(r)
                          \/ ReceiveMessage(r) \/ Disconnect(r) \/ Collect(r)
                          \/ Fail(r)
    \/ Quiet

Spec == Init /\ [][Next]_vars

\* The event loop resumes whoever may go on, and the pool's timeout always comes.
FairSpec == Spec /\ \A r \in Request : WF_vars(Serve(r))

-----------------------------------------------------------------------------
Stage == Asking \cup {"new", "reading", "in_uow", "in_cart", "in_app",
                      "open", "in_message", "leaving", "done"}

TypeOK ==
    /\ pc \in [Request -> Stage]
    /\ owner \in [Connection -> (Request \X Part) \cup {None}]

\* Nobody who holds a connection can go on without the pool or a client.
Stuck ==
    /\ Free = {}
    /\ \E r \in Request : pc[r] \in Asking
    /\ \A r \in Request : Held(r) # {} => pc[r] \in Asking \cup {"open", "done"}

\* It takes as many requests as there are connections to bring the process to a
\* stand: each connection then belongs to another request, which has read and
\* waits for its unit of work, or is an open socket, or has lost the session of
\* its unit of work to a nested one.  Routes that only read or only write never
\* do it.
StuckOnlyByHolders ==
    Stuck =>
      /\ \A c \in Connection : \E r \in Request :
           \/ owner[c] = <<r, "session">>
              /\ pc[r] \in {"ask_uow", "ask_message", "open"}
           \/ owner[c] = <<r, "orphan">> /\ pc[r] \in {"ask_cart", "ask_app", "done"}
      /\ \A r \in Request : \A c, d \in Held(r) : c = d

\* A connection outlives its request only as the session a nested unit of work
\* replaced, and no request loses two.
OnlyNestedUowLeaks ==
    \A r \in Request :
        pc[r] = "done" => \A c, d \in Held(r) : owner[c] = <<r, "orphan">> /\ c = d

\* However many sockets hold on to the pool, every request is answered, be it by
\* the pool's timeout.
Answered ==
    \A r \in Request :
        pc[r] \notin {"new", "open"} ~> pc[r] \in {"open", "done"}
=============================================================================
