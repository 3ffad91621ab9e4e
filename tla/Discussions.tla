---------------------------- MODULE Discussions -----------------------------
(***************************************************************************)
(* One discussion over WebSockets (api/v1/discussion_router.py,            *)
(* ws/discussion_manager.py, services/discussion_service.py): a client     *)
(* authenticates, its handler stores and publishes what it sends, and a    *)
(* listener task passes on what the channel of the discussion carries.     *)
(*                                                                         *)
(* get_discussion_manager makes a manager per connection, so every         *)
(* connection has a room of its own and a listener of its own.             *)
(*                                                                         *)
(* The client of a connection, its handler and its listener are three      *)
(* processes; Redis delivers to a subscription in order.  end, dropped,    *)
(* since, published and unshown are history variables.                     *)
(***************************************************************************)
EXTENDS Naturals, Sequences, FiniteSets

CONSTANTS Conn,      \* every connection ever opened
          Message,   \* every message and typing event ever sent
          None

ASSUME DiscussionsAssumption ==
    /\ None \notin Message
    /\ IsFiniteSet(Conn) /\ IsFiniteSet(Message)

VARIABLES exists,     \* the row in discussions
          stored,     \* rows in messages
          sent,       \* messages given to the server so far
          published,  \* what the channel has carried
          unshown,    \* stored messages that nobody will publish
          at,         \* at[c]: the await c's handler stands at
          peer,       \* peer[c]: the client still has its socket open
          msg,        \* msg[c]: what c's handler is working on
          room,       \* room[c]: the socket is in its manager's room
          listener,   \* listener[c]: the task in its manager's listeners
          queue,      \* queue[c]: delivered to c's subscription, not taken
          taken,      \* taken[c]: what broadcast_local is sending
          got,        \* got[c]: what the client has been sent
          gauge,      \* websocket_active_connections
          since,      \* since[c]: length of published when c subscribed
          end,        \* end[c]: how c's handler ended
          dropped     \* connections a send to which has failed

server == <<exists, stored, sent, published, unshown>>
task == <<room, listener, queue, taken, got, since, dropped>>
wsVars == <<server, task, at, peer, msg, gauge, end>>

WsInit ==
    /\ exists = TRUE
    /\ stored = {} /\ sent = {} /\ published = <<>> /\ unshown = {}
    /\ at = [c \in Conn |-> "new"]
    /\ peer = [c \in Conn |-> FALSE]
    /\ msg = [c \in Conn |-> None]
    /\ room = [c \in Conn |-> FALSE]
    /\ listener = [c \in Conn |-> "none"]
    /\ queue = [c \in Conn |-> <<>>]
    /\ taken = [c \in Conn |-> None]
    /\ got = [c \in Conn |-> <<>>]
    /\ gauge = 0
    /\ since = [c \in Conn |-> 0]
    /\ end = [c \in Conn |-> "none"]
    /\ dropped = {}

WsGoto(c, from, to) == at[c] = from /\ at' = [at EXCEPT ![c] = to]

\* The server closes the socket and the handler returns before connect().
Close(c, from, how, g) ==
    /\ WsGoto(c, from, "closed")
    /\ peer' = [peer EXCEPT ![c] = FALSE]
    /\ end' = [end EXCEPT ![c] = how]
    /\ gauge' = g
    /\ UNCHANGED <<server, task, msg>>

\* The handler waits for something else next.
Wait(c, from, to) ==
    /\ WsGoto(c, from, to)
    /\ UNCHANGED <<server, task, peer, msg, gauge, end>>

-----------------------------------------------------------------------------
(* The client goes away, sooner or later. *)

Leave(c) ==
    /\ peer[c]
    /\ peer' = [peer EXCEPT ![c] = FALSE]
    /\ UNCHANGED <<server, task, at, msg, gauge, end>>

-----------------------------------------------------------------------------
(* The handler up to the room: accept, the first message, user, discussion. *)

Accept(c) ==
    /\ WsGoto(c, "new", "auth")
    /\ peer' = [peer EXCEPT ![c] = TRUE]
    /\ gauge' = gauge + 1
    /\ UNCHANGED <<server, task, msg, end>>

\* WS_AUTH_TIMEOUT, a token that is not valid.
AuthTimeout(c) == Close(c, "auth", "timeout", gauge - 1)
InvalidToken(c) == Close(c, "auth", "token", gauge - 1)

\* Neither counts the connection out.
WrongType(c) == Close(c, "auth", "type", gauge)
AuthBroken(c) == Close(c, "auth", "error", gauge)

Authenticate(c) == peer[c] /\ Wait(c, "auth", "user")

FindUser(c) == Wait(c, "user", "discussion")

\* Closed and counted out; there is no return, and what comes next raises.
UserNotFound(c) ==
    /\ WsGoto(c, "user", "no_user")
    /\ peer' = [peer EXCEPT ![c] = FALSE]
    /\ gauge' = gauge - 1
    /\ UNCHANGED <<server, task, msg, end>>

UserNotFoundRaises(c) == Close(c, "no_user", "user", gauge)

FindDiscussion(c) == exists /\ Wait(c, "discussion", "auth_ok")

DiscussionNotFound(c) == ~exists /\ Close(c, "discussion", "discussion", gauge - 1)

\* The database fails, or auth_ok finds no client.
SetupFails(c) ==
    \/ at[c] \in {"user", "discussion"} /\ Close(c, at[c], "error", gauge)
    \/ ~peer[c] /\ Close(c, "auth_ok", "error", gauge)

\* auth_ok is sent, then connect(): nothing is awaited in between.  The listener
\* is a task that has yet to run.
Connect(c) ==
    /\ peer[c]
    /\ WsGoto(c, "auth_ok", "receive")
    /\ room' = [room EXCEPT ![c] = TRUE]
    /\ listener' = [listener EXCEPT ![c] = "starting"]
    /\ UNCHANGED <<server, peer, msg, gauge, end, queue, taken, got, since, dropped>>

-----------------------------------------------------------------------------
(* The message exchange. *)

\* receive_json, then the adapter: a message goes to the database first, a
\* typing event to the channel at once; any other answer is an error event.
Receive(c, m, next) ==
    /\ peer[c] /\ m \notin sent
    /\ WsGoto(c, "receive", next)
    /\ sent' = sent \cup {m}
    /\ msg' = [msg EXCEPT ![c] = m]
    /\ UNCHANGED <<exists, stored, published, unshown, task, peer, gauge, end>>

\* create_message commits.
CreateMessage(c) ==
    /\ exists
    /\ WsGoto(c, "create", "publish")
    /\ stored' = stored \cup {msg[c]}
    /\ UNCHANGED <<exists, sent, published, unshown, task, peer, msg, gauge, end>>

Subscribed(c) == listener[c] \in {"idle", "sending"}

\* PUBLISH: at most once to whoever has subscribed by now.
Publish(c) ==
    /\ WsGoto(c, "publish", "receive")
    /\ published' = Append(published, msg[c])
    /\ queue' = [q \in Conn |-> IF Subscribed(q) THEN Append(queue[q], msg[c])
                                                 ELSE queue[q]]
    /\ msg' = [msg EXCEPT ![c] = None]
    /\ UNCHANGED <<exists, stored, sent, unshown, room, listener, taken, got,
                   since, dropped, peer, gauge, end>>

\* Mutant: the room is left, the listener forgotten.
DisconnectRoomOnly(c) ==
    /\ room' = [room EXCEPT ![c] = FALSE]
    /\ UNCHANGED <<listener, queue, taken>>

\* disconnect(): the room is deleted and the listener cancelled, unless the
\* room is empty already.
Disconnect(c) ==
    IF room[c]
    THEN /\ room' = [room EXCEPT ![c] = FALSE]
         /\ listener' = [listener EXCEPT ![c] = "ended"]
         /\ queue' = [queue EXCEPT ![c] = <<>>]
         /\ taken' = [taken EXCEPT ![c] = None]
    ELSE UNCHANGED <<room, listener, queue, taken>>

\* The handler leaves the loop; g is what the gauge shows then.
LeaveLoop(c, from, how, g) ==
    /\ WsGoto(c, from, "closed")
    /\ Disconnect(c)
    /\ peer' = [peer EXCEPT ![c] = FALSE]
    /\ end' = [end EXCEPT ![c] = how]
    /\ msg' = [msg EXCEPT ![c] = None]
    /\ unshown' = IF msg[c] \in stored THEN unshown \cup {msg[c]} ELSE unshown
    /\ gauge' = g
    /\ UNCHANGED <<exists, stored, sent, published, got, since, dropped>>

\* WebSocketDisconnect is caught and counted.
ReceiveDisconnect(c) ==
    ~peer[c] /\ LeaveLoop(c, "receive", "disconnect", gauge - 1)

\* Anything else is not: no JSON, the discussion or the author is gone, the
\* database or Redis fails.  What is stored by then stays.
ExchangeFails(c) ==
    \/ at[c] \in {"create", "publish"} /\ LeaveLoop(c, at[c], "error", gauge)
    \/ peer[c] /\ LeaveLoop(c, "receive", "error", gauge)

-----------------------------------------------------------------------------
(* The listener. *)

Subscribe(c) ==
    /\ listener[c] = "starting"
    /\ listener' = [listener EXCEPT ![c] = "idle"]
    /\ since' = [since EXCEPT ![c] = Len(published)]
    /\ UNCHANGED <<server, at, peer, msg, gauge, end, room, queue, taken, got, dropped>>

\* The next message: to the sockets of the room, if there are any.
Listen(c) ==
    /\ listener[c] = "idle" /\ queue[c] # <<>>
    /\ queue' = [queue EXCEPT ![c] = Tail(@)]
    /\ IF room[c] THEN /\ taken' = [taken EXCEPT ![c] = Head(queue[c])]
                       /\ listener' = [listener EXCEPT ![c] = "sending"]
                  ELSE UNCHANGED <<taken, listener>>
    /\ UNCHANGED <<server, at, peer, msg, gauge, end, room, got, since, dropped>>

\* Mutant: after an error the message is taken as sent, the socket kept.
BroadcastLocalKeep(c) ==
    /\ listener[c] = "sending"
    /\ listener' = [listener EXCEPT ![c] = "idle"]
    /\ taken' = [taken EXCEPT ![c] = None]
    /\ IF peer[c] THEN got' = [got EXCEPT ![c] = Append(@, taken[c])]
                  ELSE UNCHANGED got
    /\ UNCHANGED <<server, at, peer, msg, gauge, end, queue, since, room, dropped>>

\* send_json; a socket that fails is discarded, the room stays, empty.
BroadcastLocal(c) ==
    /\ listener[c] = "sending"
    /\ listener' = [listener EXCEPT ![c] = "idle"]
    /\ taken' = [taken EXCEPT ![c] = None]
    /\ IF peer[c]
       THEN /\ got' = [got EXCEPT ![c] = Append(@, taken[c])]
            /\ UNCHANGED <<room, dropped>>
       ELSE /\ room' = [room EXCEPT ![c] = FALSE]
            /\ dropped' = dropped \cup {c}
            /\ UNCHANGED got
    /\ UNCHANGED <<server, at, peer, msg, gauge, end, queue, since>>

\* Redis closes the subscription, or never grants it: the task ends, and stays
\* in listeners.
ListenerFails(c) ==
    /\ listener[c] \in {"starting", "idle"}
    /\ listener' = [listener EXCEPT ![c] = "ended"]
    /\ queue' = [queue EXCEPT ![c] = <<>>]
    /\ UNCHANGED <<server, at, peer, msg, gauge, end, room, taken, got, since, dropped>>

-----------------------------------------------------------------------------
(* The same discussion over HTTP: nothing is published. *)

PostMessage(m) ==
    /\ exists /\ m \notin sent
    /\ sent' = sent \cup {m} /\ stored' = stored \cup {m}
    /\ unshown' = unshown \cup {m}
    /\ UNCHANGED <<exists, published, task, at, peer, msg, gauge, end>>

DeleteMessage(m) ==
    /\ m \in stored
    /\ stored' = stored \ {m} /\ unshown' = unshown \ {m}
    /\ UNCHANGED <<exists, sent, published, task, at, peer, msg, gauge, end>>

\* Its messages go by cascade.
DeleteDiscussion ==
    /\ exists /\ exists' = FALSE
    /\ stored' = {} /\ unshown' = {}
    /\ UNCHANGED <<sent, published, task, at, peer, msg, gauge, end>>

Done == (\A c \in Conn : at[c] = "closed") /\ UNCHANGED wsVars

WsNext ==
    \/ \E c \in Conn :
          \/ Leave(c) \/ Accept(c) \/ AuthTimeout(c) \/ InvalidToken(c)
          \/ WrongType(c) \/ AuthBroken(c) \/ Authenticate(c) \/ FindUser(c)
          \/ UserNotFound(c) \/ UserNotFoundRaises(c) \/ FindDiscussion(c)
          \/ DiscussionNotFound(c) \/ SetupFails(c) \/ Connect(c)
          \/ \E m \in Message : Receive(c, m, "create") \/ Receive(c, m, "publish")
          \/ CreateMessage(c) \/ Publish(c) \/ ReceiveDisconnect(c)
          \/ ExchangeFails(c)
          \/ Subscribe(c) \/ Listen(c) \/ BroadcastLocal(c) \/ ListenerFails(c)
    \/ \E m \in Message : PostMessage(m) \/ DeleteMessage(m)
    \/ DeleteDiscussion
    \/ Done

WsSpec == WsInit /\ [][WsNext]_wsVars

-----------------------------------------------------------------------------
WsStage == {"new", "auth", "user", "no_user", "discussion", "auth_ok", "receive",
            "create", "publish", "closed"}

\* Every variable has its type; a handler has something to store or publish
\* exactly while it does.
WsTypeOK ==
    /\ exists \in BOOLEAN
    /\ stored \subseteq sent /\ sent \subseteq Message /\ unshown \subseteq stored
    /\ published \in Seq(Message)
    /\ at \in [Conn -> WsStage] /\ peer \in [Conn -> BOOLEAN]
    /\ msg \in [Conn -> Message \cup {None}]
    /\ \A c \in Conn : msg[c] # None <=> at[c] \in {"create", "publish"}
    /\ room \in [Conn -> BOOLEAN]
    /\ listener \in [Conn -> {"none", "starting", "idle", "sending", "ended"}]
    /\ queue \in [Conn -> Seq(Message)] /\ got \in [Conn -> Seq(Message)]
    /\ taken \in [Conn -> Message \cup {None}]
    /\ gauge \in 0..Cardinality(Conn)
    /\ since \in [Conn -> 0..Cardinality(Message)]
    /\ end \in [Conn -> {"none", "disconnect", "timeout", "token", "type", "user",
                         "discussion", "error"}]
    /\ dropped \subseteq Conn

Carried == {published[i] : i \in 1..Len(published)}

\* What c has been sent, is being sent and has queued for it.
Line(c) == got[c] \o (IF taken[c] = None THEN <<>> ELSE <<taken[c]>>) \o queue[c]

\* A client sees the channel without gap, repetition or change of order from the
\* moment its listener has subscribed, and nothing on its way is lost while
\* socket and listener live; what was published between auth_ok and then it
\* never sees (discussion_manager.py:57).  A stored message is on the channel,
\* unless it is about to be, came by HTTP, or its handler failed in between
\* (discussion_service.py:138).
SeenWithoutGap ==
    /\ \A c \in Conn :
          /\ got[c] = SubSeq(published, since[c] + 1, since[c] + Len(got[c]))
          /\ room[c] /\ Subscribed(c) =>
                Line(c) = SubSeq(published, since[c] + 1, Len(published))
    /\ stored \subseteq Carried \cup unshown \cup {msg[c] : c \in Conn}

Running(c) == at[c] \notin {"new", "no_user", "closed"}

\* The gauge counts the handlers that run, and for ever those that ended at a
\* wrong first message or by an exception (discussion_router.py:73).  A listener
\* survives its handler only if a send failed first (discussion_manager.py:38).
OnlyFailuresLeak ==
    /\ gauge = Cardinality({c \in Conn : Running(c) \/ end[c] \in {"type", "error"}})
    /\ \A c \in Conn : at[c] = "closed" /\ listener[c] \notin {"none", "ended"} =>
          c \in dropped
=============================================================================
