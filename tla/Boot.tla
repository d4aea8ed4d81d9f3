--------------------------------- MODULE Boot ---------------------------------
(***************************************************************************)
(* The start of the application: main.py, the token of security.py and     *)
(* run_server of server.py, up to the moment a page has a terminal.  The   *)
(* app is launched several times; an earlier process may still be there,   *)
(* or be killed at any step.  Pages keep the port and the token that were  *)
(* rendered into them and try to connect again and again, also to a later  *)
(* process that has come by the same port.                                 *)
(*                                                                         *)
(* Port 0 stands for P4A_HTTP_PORT.  A token is named by the launch that   *)
(* generated it.  The best-effort listeners on ::1 are left out; what a    *)
(* connection does after it was let in is in WsServer.                     *)
(***************************************************************************)
EXTENDS Naturals

CONSTANTS
  Launches,    \* launches of the app, positive numbers
  Pages,       \* browser pages
  HttpRange,   \* further ports tried for HTTP elsewhere: 10
  WsRange,     \* ports tried for the websocket: 100
  Restricted,  \* CHROMIUM_RESTRICTED_PORTS
  Main, None

ASSUME BootAssumption ==
  /\ Launches \subseteq Nat \ {0}
  /\ HttpRange \in Nat /\ WsRange \in Nat /\ Restricted \subseteq Nat \ {0}
  /\ Main \notin Pages /\ None \notin Pages \cup {Main}

VARIABLES
  android,     \* whether the app runs on Android
  step,        \* the step of each launch's main thread
  tokenFile,   \* .zmux_auth_token; 0: missing, unreadable or too short
  token,       \* AUTH_TOKEN
  http, ws,    \* the ports of the two listeners
  advertised,  \* app.config["WS_PORT"]
  mgr,         \* the global _manager, named by the thread that constructed it
  route,       \* the manager behind the registered callbacks
  page,        \* what was rendered into each page
  conn,        \* the launch each page is connected to, 0: none
  pc,          \* the step of the handler of each page's connection
  mixed,       \* a token was not stored, or two launches chose one at once
  early        \* the launches that let a page in before they were ready

main == <<step, http, ws, advertised, mgr, route>>
tokens == <<android, tokenFile, token, mixed>>
web == <<page, conn, pc, early>>
vars == <<main, tokens, web>>

NoPage == [by |-> 0, token |-> 0, port |-> 0]
DefaultWsPort == 1

Init ==
  /\ android \in BOOLEAN
  /\ step = [l \in Launches |-> "off"] /\ tokenFile = 0 /\ token = [l \in Launches |-> 0]
  /\ http = [l \in Launches |-> 0] /\ ws = [l \in Launches |-> 0]
  /\ advertised = [l \in Launches |-> DefaultWsPort]
  /\ mgr = [l \in Launches |-> None] /\ route = [l \in Launches |-> None]
  /\ page = [c \in Pages |-> NoPage] /\ conn = [c \in Pages |-> 0]
  /\ pc = [c \in Pages |-> "out"] /\ mixed = FALSE /\ early = {}

Goto(l, from, to) == step[l] = from /\ step' = [step EXCEPT ![l] = to]

-----------------------------------------------------------------------------
(* _load_or_create_token, when zmux.security is imported *)

Choosing(l) == step[l] \in {"truncate", "store"}

ReadToken_Anew(l) ==
  /\ Goto(l, "off", "truncate")
  /\ UNCHANGED <<tokens, http, ws, advertised, mgr, route, web>>

ReadToken(l) ==
  /\ Goto(l, "off", IF tokenFile # 0 THEN "http" ELSE "truncate")
  /\ token' = [token EXCEPT ![l] = tokenFile]
  /\ mixed' = (mixed \/ (tokenFile = 0 /\ \E k \in Launches : Choosing(k)))
  /\ UNCHANGED <<android, tokenFile, http, ws, advertised, mgr, route, web>>

\* write_text empties the file before it writes.
Truncate(l) ==
  /\ Goto(l, "truncate", "store")
  /\ tokenFile' = 0 /\ token' = [token EXCEPT ![l] = l]
  /\ UNCHANGED <<android, mixed, http, ws, advertised, mgr, route, web>>

\* A token that cannot be stored is used all the same.
Store(l) ==
  /\ Goto(l, "store", "http")
  /\ tokenFile' \in {0, l} /\ mixed' = (mixed \/ tokenFile' = 0)
  /\ UNCHANGED <<android, token, http, ws, advertised, mgr, route, web>>

-----------------------------------------------------------------------------
(* run_server *)

\* The first of the candidates that nobody holds.
FirstFree(candidates, taken) ==
  {p \in candidates \ taken : \A q \in candidates \ taken : p <= q}

HasHttp(l) == step[l] \in {"ws", "publish", "start", "test", "create", "callbacks", "serving"}
HasWs(l) == HasHttp(l) /\ step[l] # "ws"

Held == {http[l] : l \in {k \in Launches : HasHttp(k)}} \cup {ws[l] : l \in {k \in Launches : HasWs(k)}}

\* _bind_http_socket.  On Android one port will do, shared with an earlier
\* process by SO_REUSEPORT; the wait for other apps ends in time or by Die.
HttpCandidates == IF android THEN {0} ELSE 0..HttpRange

BindHttp(l) == \E others \in SUBSET HttpCandidates :
  LET taken == IF android THEN others ELSE others \cup Held
  IN /\ Goto(l, "http", "ws")
     /\ \E p \in FirstFree(HttpCandidates, taken) : http' = [http EXCEPT ![l] = p]
     /\ UNCHANGED <<tokens, ws, advertised, mgr, route, web>>

\* _bind_ws_socket
WsCandidates(h) == {p \in (h + 1)..(h + WsRange) : p \notin Restricted}

BindWs(l) == \E others \in SUBSET WsCandidates(http[l]) :
  /\ Goto(l, "ws", "publish")
  /\ \E p \in FirstFree(WsCandidates(http[l]), others \cup Held) : ws' = [ws EXCEPT ![l] = p]
  /\ UNCHANGED <<tokens, http, advertised, mgr, route, web>>

Publish_Late(l) ==
  /\ Goto(l, "publish", "start")
  /\ UNCHANGED <<tokens, http, ws, advertised, mgr, route, web>>

Publish(l) ==
  /\ Goto(l, "publish", "start")
  /\ advertised' = [advertised EXCEPT ![l] = ws[l]]
  /\ UNCHANGED <<tokens, http, ws, mgr, route, web>>

\* WebSocketServer.start: from here on connections are accepted.
StartWs(l) ==
  /\ Goto(l, "start", "test")
  /\ UNCHANGED <<tokens, http, ws, advertised, mgr, route, web>>

\* get_manager: the test and the assignment are two steps.
TestManager(l) ==
  /\ Goto(l, "test", IF mgr[l] = None THEN "create" ELSE "callbacks")
  /\ UNCHANGED <<tokens, http, ws, advertised, mgr, route, web>>

CreateManager(l) ==
  /\ Goto(l, "create", "callbacks")
  /\ mgr' = [mgr EXCEPT ![l] = Main]
  /\ UNCHANGED <<tokens, http, ws, advertised, route, web>>

\* What get_manager returns is the global as it is by then.
RegisterCallbacks(l) ==
  /\ Goto(l, "callbacks", "serving")
  /\ route' = [route EXCEPT ![l] = mgr[l]]
  /\ UNCHANGED <<tokens, http, ws, advertised, mgr, web>>

\* The process is killed, or ends because no port could be had: the kernel
\* closes its sockets and its memory is gone.
Die(l) ==
  /\ step[l] \notin {"off", "dead"} /\ step' = [step EXCEPT ![l] = "dead"]
  /\ token' = [token EXCEPT ![l] = 0] /\ http' = [http EXCEPT ![l] = 0] /\ ws' = [ws EXCEPT ![l] = 0]
  /\ advertised' = [advertised EXCEPT ![l] = DefaultWsPort]
  /\ mgr' = [mgr EXCEPT ![l] = None] /\ route' = [route EXCEPT ![l] = None]
  /\ conn' = [c \in Pages |-> IF conn[c] = l THEN 0 ELSE conn[c]]
  /\ pc' = [c \in Pages |-> IF conn[c] = l THEN "out" ELSE pc[c]]
  /\ early' = early \ {l}
  /\ UNCHANGED <<android, tokenFile, mixed, page>>

RunServer(l) ==
  \/ Truncate(l) \/ Store(l) \/ BindHttp(l) \/ BindWs(l) \/ Publish(l) \/ StartWs(l)
  \/ TestManager(l) \/ CreateManager(l) \/ RegisterCallbacks(l)

-----------------------------------------------------------------------------
(* The pages and the handlers of their connections *)

\* GET /, answered by one of the processes that serve.
Load(c) == \E l \in Launches :
  /\ step[l] = "serving" /\ conn[c] = 0
  /\ page' = [page EXCEPT ![c] = [by |-> l, token |-> token[l], port |-> advertised[l]]]
  /\ UNCHANGED <<main, tokens, conn, pc, early>>

\* new WebSocket(...), when the page is loaded and whenever it is cut off.  The
\* browser refuses a restricted port.
Connect(c) == \E l \in Launches :
  /\ page[c] # NoPage /\ conn[c] = 0
  /\ HasWs(l) /\ ws[l] = page[c].port /\ page[c].port \notin Restricted
  /\ conn' = [conn EXCEPT ![c] = l] /\ pc' = [pc EXCEPT ![c] = "request"]
  /\ UNCHANGED <<main, tokens, page, early>>

Accepting(l) == step[l] \in {"test", "create", "callbacks", "serving"}

HandlerGoto(c, from, to) ==
  conn[c] # 0 /\ Accepting(conn[c]) /\ pc[c] = from /\ pc' = [pc EXCEPT ![c] = to]

\* _verify_token: 401 and closed, or let in.
Reject(c) ==
  /\ HandlerGoto(c, "request", "out") /\ page[c].token # token[conn[c]]
  /\ conn' = [conn EXCEPT ![c] = 0]
  /\ UNCHANGED <<main, tokens, page, early>>

LetIn(c) ==
  /\ HandlerGoto(c, "request", "test") /\ page[c].token = token[conn[c]]
  /\ early' = IF step[conn[c]] = "serving" THEN early ELSE early \cup {conn[c]}
  /\ UNCHANGED <<main, tokens, page, conn>>

HandlerTests_Nothing(c) ==
  /\ HandlerGoto(c, "test", "create")
  /\ UNCHANGED <<main, tokens, page, conn, early>>

\* get_manager again, for the scrollback to replay.
HandlerTests(c) ==
  /\ HandlerGoto(c, "test", IF mgr[conn[c]] = None THEN "create" ELSE "terminal")
  /\ UNCHANGED <<main, tokens, page, conn, early>>

HandlerCreates(c) ==
  /\ HandlerGoto(c, "create", "terminal")
  /\ mgr' = [mgr EXCEPT ![conn[c]] = c]
  /\ UNCHANGED <<step, http, ws, advertised, route, tokens, page, conn, early>>

\* The page is reloaded, or the connection ends.
Depart(c) ==
  /\ pc[c] = "terminal" /\ pc' = [pc EXCEPT ![c] = "out"] /\ conn' = [conn EXCEPT ![c] = 0]
  /\ UNCHANGED <<main, tokens, page, early>>

Handler(c) == Reject(c) \/ LetIn(c) \/ HandlerTests(c) \/ HandlerCreates(c)

-----------------------------------------------------------------------------
Next ==
  \/ \E l \in Launches : ReadToken(l) \/ RunServer(l) \/ Die(l)
  \/ \E c \in Pages : Load(c) \/ Connect(c) \/ Handler(c) \/ Depart(c)

\* Threads run and pages keep trying; nobody has to launch or load anything.
Fairness ==
  /\ \A l \in Launches : WF_vars(RunServer(l))
  /\ \A c \in Pages : WF_vars(Connect(c)) /\ WF_vars(Handler(c))

Spec == Init /\ [][Next]_vars /\ Fairness

-----------------------------------------------------------------------------
(* Properties *)

\* A page gets its terminal from the process that served it: while that one
\* lives and the page does not go away, it ends up connected, whatever other
\* processes hold ports and whichever the kernel had answer (run_server,
\* _bind_ws_socket, index).
PageGetsTerminal == \A c \in Pages, l \in Launches :
  page[c].by = l /\ step[l] = "serving" ~>
    \/ page[c].by # l \/ step[l] = "dead"
    \/ conn[c] = l /\ pc[c] = "terminal"

\* A page is turned away by no process, not even a later one on the same port,
\* unless a token could not be stored or two launches chose one at the same
\* time (_load_or_create_token).
OldPagesAccepted ==
  ~ mixed => \A c \in Pages : pc[c] = "request" => page[c].token = token[conn[c]]

\* What is typed goes to the sessions that are shown: the callbacks belong to
\* the manager every later handler finds, in each process that let nobody in
\* before it was ready (get_manager, register_callbacks).
InputReachesShown == \A l \in Launches \ early :
  step[l] = "serving" => route[l] = mgr[l] /\ mgr[l] = Main
=============================================================================
