------------------------------- MODULE WsServer -------------------------------
(***************************************************************************)
(* The websocket server (ws_server.py): one handler thread per connection, *)
(* the reader thread of a session, which broadcasts its output, and the    *)
(* pages at the other end, which may stop reading or go away at any time.  *)
(*                                                                         *)
(* The reader takes clients_lock in one step and releases it in a later    *)
(* one; a handler's regions under the lock, which wait for nothing, are    *)
(* one step each.  A frame is sent whole or not at all, and a page whose   *)
(* receive buffer is full is "full".  What the messages do to the sessions *)
(* is in Sessions; stop(), which only tests call, is left out.             *)
(***************************************************************************)
EXTENDS FiniteSets

CONSTANTS
  Pages,  \* pages, at most one connection each
  Reader  \* the reader thread of the active session

ASSUME WsAssumption == Reader \notin Pages

VARIABLES
  peer,     \* the other end of each connection
  open,     \* connections the server has not closed
  clients,  \* WebSocketServer.clients
  locked,   \* whether the reader holds clients_lock
  pc,       \* the step of the reader and of each connection's handler
  todo,     \* the clients a thread has still to send to
  dead,     \* the clients the reader will unregister
  lacks     \* the clients the last broadcast was due to and not sent to

socks == <<peer, open>>
sending == <<todo, dead, lacks>>
vars == <<socks, clients, locked, pc, sending>>

Threads == Pages \cup {Reader}

Init ==
  /\ peer = [c \in Pages |-> "out"] /\ open = {} /\ clients = {} /\ locked = FALSE
  /\ pc = [t \in Threads |-> "idle"] /\ todo = [t \in Threads |-> {}]
  /\ dead = {} /\ lacks = {}

-----------------------------------------------------------------------------
(* The other end *)

\* new WebSocket(...) and the accept loop, which starts a handler.
Connect(c) ==
  /\ peer[c] = "out" /\ peer' = [peer EXCEPT ![c] = "reading"]
  /\ open' = open \cup {c} /\ pc' = [pc EXCEPT ![c] = "request"]
  /\ UNCHANGED <<clients, locked, sending>>

Turns(c, from, to) ==
  /\ peer[c] = from /\ peer' = [peer EXCEPT ![c] = to]
  /\ UNCHANGED <<open, clients, locked, pc, sending>>

Suspend(c) == Turns(c, "reading", "full") /\ pc[c] # "request"
Resume(c) == Turns(c, "full", "reading")
Depart(c) == \E s \in {"reading", "full"} : Turns(c, s, "closed")

-----------------------------------------------------------------------------
(* The reader thread: broadcast *)

Goto(t, from, to) == pc[t] = from /\ pc' = [pc EXCEPT ![t] = to]

Emit ==
  /\ Goto(Reader, "idle", "snap")
  /\ UNCHANGED <<socks, clients, locked, sending>>

Acquire ==
  /\ pc[Reader] \in {"snap", "drop"} /\ ~ locked /\ locked' = TRUE
  /\ UNCHANGED <<socks, clients, pc, sending>>

Snapshot_Holds ==
  /\ Goto(Reader, "snap", "send") /\ locked
  /\ todo' = [todo EXCEPT ![Reader] = clients] /\ lacks' = clients
  /\ UNCHANGED <<socks, clients, locked, dead>>

\* The list is copied and the lock released before the first send.
Snapshot ==
  /\ Goto(Reader, "snap", "send") /\ locked /\ locked' = FALSE
  /\ todo' = [todo EXCEPT ![Reader] = clients] /\ lacks' = clients
  /\ UNCHANGED <<socks, clients, dead>>

Delivers(c) == c \in open /\ peer[c] = "reading"
\* Closed by either end, or SO_SNDTIMEO ran out.
Raises(c) == c \notin open \/ peer[c] \in {"full", "closed", "out"}

SendOutput == \E c \in todo[Reader] :
  /\ pc[Reader] = "send"
  /\ todo' = [todo EXCEPT ![Reader] = @ \ {c}]
  /\ \/ Delivers(c) /\ lacks' = lacks \ {c} /\ UNCHANGED dead
     \/ Raises(c) /\ dead' = dead \cup {c} /\ UNCHANGED lacks
  /\ UNCHANGED <<socks, clients, locked, pc>>

AllSent_Forgetful ==
  /\ Goto(Reader, "send", "idle") /\ todo[Reader] = {} /\ dead' = {}
  /\ UNCHANGED <<socks, clients, locked, todo, lacks>>

\* The dead are unregistered after the last send.
AllSent ==
  /\ Goto(Reader, "send", IF dead = {} THEN "idle" ELSE "drop") /\ todo[Reader] = {}
  /\ UNCHANGED <<socks, clients, locked, sending>>

\* _unregister_client
Unregister(c) ==
  /\ clients' = clients \ {c} /\ lacks' = lacks \ {c}
  /\ open' = IF c \in clients THEN open \ {c} ELSE open

Drop == \E c \in dead :
  /\ Goto(Reader, "drop", "send") /\ locked /\ locked' = FALSE
  /\ Unregister(c) /\ dead' = dead \ {c}
  /\ UNCHANGED <<peer, todo>>

\* The socket it was to drop is gone already.
DropNothing ==
  /\ Goto(Reader, "drop", "send") /\ locked /\ locked' = FALSE /\ dead = {}
  /\ UNCHANGED <<socks, clients, sending>>

Broadcast == Acquire \/ Snapshot \/ SendOutput \/ AllSent \/ Drop \/ DropNothing

-----------------------------------------------------------------------------
(* The handler of a connection: _handle_client *)

\* The handler is done and its socket closed.  The page may connect again with
\* a new one; sending to the old one, or unregistering it, has no effect, so it
\* leaves the lists of the other threads here.
Ends(c) ==
  /\ pc' = [pc EXCEPT ![c] = "idle"]
  /\ open' = open \ {c} /\ peer' = [peer EXCEPT ![c] = "out"]
  /\ todo' = [t \in Threads |-> todo[t] \ {c}] /\ dead' = dead \ {c}

\* The request is read and answered: an empty one, a wrong token (401) and a
\* missing key (400) end the connection, the rest is upgraded.
Reject(c) ==
  /\ pc[c] = "request" /\ Ends(c)
  /\ UNCHANGED <<clients, locked, lacks>>

Upgrade(c) ==
  /\ Goto(c, "request", "register") /\ peer[c] = "reading"
  /\ UNCHANGED <<socks, clients, locked, sending>>

Register(c) ==
  /\ Goto(c, "register", "hello") /\ ~ locked
  /\ clients' = clients \cup {c} /\ lacks' = lacks \ {c}
  /\ UNCHANGED <<socks, locked, todo, dead>>

\* The reset and the scrollback; a failure is logged and the client stays.
Hello(c) ==
  /\ Goto(c, "hello", IF Delivers(c) THEN "snap" ELSE "loop")
  /\ UNCHANGED <<socks, clients, locked, sending>>

\* The next frame is waited for; recv on a socket closed meanwhile raises.
ReadFrame(c) ==
  /\ Goto(c, "loop", IF c \in open THEN "recv" ELSE "leave")
  /\ UNCHANGED <<socks, clients, locked, sending>>

\* A frame arrives.  A close, or a ping that cannot be answered, ends the loop;
\* a session action pushes the tab strip; other input goes to the session.  A
\* close() by another thread does not wake a thread inside recv: its first byte
\* still arrives, and the recv for the next one raises.
Frame(c) ==
  /\ peer[c] = "reading"
  /\ \/ Goto(c, "recv", "leave")
     \/ c \in open /\ (Goto(c, "recv", "loop") \/ Goto(c, "recv", "snap"))
  /\ UNCHANGED <<socks, clients, locked, sending>>

EndOfStream(c) ==
  /\ Goto(c, "recv", "leave") /\ peer[c] = "closed"
  /\ UNCHANGED <<socks, clients, locked, sending>>

\* _send_sessions_state
StateSnapshot(c) ==
  /\ Goto(c, "snap", "push") /\ ~ locked
  /\ todo' = [todo EXCEPT ![c] = clients]
  /\ UNCHANGED <<socks, clients, locked, dead, lacks>>

PushState(c) == \E d \in todo[c] :
  /\ pc[c] = "push"
  /\ todo' = [todo EXCEPT ![c] = @ \ {d}]
  /\ \/ Delivers(d) /\ UNCHANGED <<open, clients, lacks>>
     \/ Raises(d) /\ ~ locked /\ Unregister(d)
  /\ UNCHANGED <<peer, locked, pc, dead>>

StatePushed(c) ==
  /\ Goto(c, "push", "loop") /\ todo[c] = {}
  /\ UNCHANGED <<socks, clients, locked, sending>>

Leave_Keeps(c) ==
  /\ pc[c] = "leave" /\ ~ locked
  /\ Ends(c)
  /\ UNCHANGED <<clients, locked, lacks>>

\* finally: _unregister_client
Leave(c) ==
  /\ pc[c] = "leave" /\ ~ locked
  /\ clients' = clients \ {c} /\ Ends(c) /\ lacks' = lacks \ {c}
  /\ UNCHANGED locked

Handle(c) ==
  \/ Reject(c) \/ Upgrade(c) \/ Register(c) \/ Hello(c) \/ ReadFrame(c)
  \/ EndOfStream(c) \/ Leave(c) \/ StateSnapshot(c) \/ PushState(c) \/ StatePushed(c)

-----------------------------------------------------------------------------
Next ==
  \/ Emit \/ Broadcast
  \/ \E c \in Pages : \/ Connect(c) \/ Suspend(c) \/ Resume(c) \/ Depart(c)
                      \/ Handle(c) \/ Frame(c)

\* Threads run, sends end or time out, and a waiter for clients_lock gets it in
\* the end.  Pages need not do anything.
Fairness == SF_vars(Broadcast) /\ \A c \in Pages : SF_vars(Handle(c))

Spec == Init /\ [][Next]_vars /\ Fairness

-----------------------------------------------------------------------------
(* Properties *)

\* A page that is still a client has been sent every broadcast made since it
\* registered: a client for which a send fails does not stay one (broadcast,
\* _send_sessions_state).
NothingMissed == pc[Reader] = "idle" => lacks \cap clients = {}

\* Output is never held up for good, neither by a page that has stopped reading
\* nor by clients_lock: every broadcast and every push ends ("deadlocked the
\* PTY reader thread permanently", broadcast).
OutputFlows ==
  /\ (pc[Reader] # "idle") ~> (pc[Reader] = "idle")
  /\ \A c \in Pages : (pc[c] = "push") ~> (pc[c] # "push")

\* A page that went away, at any point of its connection, is forgotten: its
\* handler ends and it is no client.
GoneIsForgotten ==
  \A c \in Pages : peer[c] = "closed" ~> pc[c] = "idle" /\ c \notin clients
=============================================================================
