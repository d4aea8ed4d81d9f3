------------------------------ MODULE BootProofs ------------------------------
(* Theorems about Boot, for any number of launches, pages and ports.       *)
EXTENDS Boot, TLAPS

Steps == {"off", "truncate", "store", "http", "ws", "publish", "start", "test",
          "create", "callbacks", "serving", "dead"}

Types ==
  /\ step \in [Launches -> Steps] /\ tokenFile \in Nat /\ token \in [Launches -> Nat]
  /\ http \in [Launches -> Nat] /\ ws \in [Launches -> Nat] /\ advertised \in [Launches -> Nat]
  /\ mgr \in [Launches -> Pages \cup {Main, None}]
  /\ route \in [Launches -> Pages \cup {Main, None}]
  /\ page \in [Pages -> [by : Nat, token : Nat, port : Nat]]
  /\ conn \in [Pages -> Launches \cup {0}]
  /\ pc \in [Pages -> {"out", "request", "test", "create", "terminal"}]
  /\ android \in BOOLEAN /\ mixed \in BOOLEAN /\ early \subseteq Launches

(* A connection is with a live process that listens, and belongs to a page *)
(* that some process has rendered.                                         *)
Connected ==
  \A c \in Pages : /\ pc[c] = "out" <=> conn[c] = 0
                   /\ conn[c] # 0 => HasWs(conn[c]) /\ page[c] # NoPage

-----------------------------------------------------------------------------
(* The token: while none is lost and no two launches choose one at once,   *)
(* the file is empty only as long as nobody uses a token.                  *)

HasToken(l) == step[l] = "http" \/ HasHttp(l)

ChosenOnce ==
  \A k, l \in Launches :
    /\ Choosing(k) => tokenFile = 0 /\ (Choosing(l) => k = l)
    /\ step[k] = "store" => token[k] = k

OneToken ==
  /\ \A l \in Launches : HasToken(l) => token[l] = tokenFile /\ tokenFile # 0
  /\ \A c \in Pages : page[c] # NoPage => page[c].token = tokenFile /\ tokenFile # 0

TokenInv == ~ mixed => ChosenOnce /\ OneToken

-----------------------------------------------------------------------------
(* The manager: a process that let nobody in early is the only one to make *)
(* one, before it registers the callbacks.                                 *)

ManagerOf(l) ==
  /\ mgr[l] = IF step[l] \in {"callbacks", "serving"} THEN Main ELSE None
  /\ step[l] = "serving" => route[l] = Main
  /\ \A c \in Pages : conn[c] = l =>
       pc[c] = "request" \/ (step[l] = "serving" /\ pc[c] # "create")

ManagerInv == \A l \in Launches \ early : ManagerOf(l)

-----------------------------------------------------------------------------
(* The ports: no two processes listen on the same one, and a page that was *)
(* rendered by a living process has the port that process listens on.      *)

Published(l) == HasWs(l) /\ step[l] # "publish"

PortInv ==
  /\ \A k, l \in Launches : HasWs(k) /\ HasWs(l) /\ ws[k] = ws[l] => k = l
  /\ \A l \in Launches : HasWs(l) => ws[l] \notin Restricted
  /\ \A l \in Launches : Published(l) => advertised[l] = ws[l]
  /\ \A c \in Pages, l \in Launches : page[c].by = l =>
       step[l] = "dead" \/ (step[l] = "serving" /\ page[c].port = ws[l])

(* A page is connected to the process that rendered it as long as that one *)
(* lives, on a port a browser lets it use.                                 *)
RightProcess ==
  \A c \in Pages, l \in Launches : page[c].by = l /\ step[l] # "dead" =>
    conn[c] \in {0, l} /\ page[c].port \notin Restricted

Inv == Types /\ Connected /\ TokenInv /\ ManagerInv /\ PortInv /\ RightProcess

-----------------------------------------------------------------------------
(* Nothing has been launched and no page loaded. *)
LEMMA InitInv == Init => Inv
<1> SUFFICES ASSUME Init PROVE Inv
  OBVIOUS
<1> USE BootAssumption DEF Init, Steps, NoPage, HasHttp, HasWs
<1>1. Types
  BY DEF Types, DefaultWsPort
<1>2. Connected
  BY DEF Connected
<1>3. TokenInv
  BY DEF TokenInv, ChosenOnce, OneToken, Choosing, HasToken
<1>4. ManagerInv
  BY DEF ManagerInv, ManagerOf
<1>5. PortInv /\ RightProcess
  BY DEF PortInv, RightProcess, Published
<1> QED
  BY <1>1, <1>2, <1>3, <1>4, <1>5 DEF Inv

(* A port that is chosen is one of the candidates, and nobody's. *)
LEMMA FirstFreeIsFree ==
  ASSUME NEW S, NEW T, NEW p \in FirstFree(S, T)
  PROVE  p \in S /\ p \notin T
  BY DEF FirstFree

(* The token file is read: if it is empty, and no other launch is choosing, this one will. *)
LEMMA ReadTokenInv ==
  ASSUME Inv, NEW l \in Launches, ReadToken(l)
  PROVE  Inv'
<1> USE BootAssumption DEF Inv, ReadToken, Goto, main, tokens, web
<1>1. Types'
  BY DEF Types, Steps
<1>2. Connected'
  BY DEF Types, Connected, HasHttp, HasWs
<1>3. TokenInv'
  BY DEF Types, Connected, TokenInv, ChosenOnce, OneToken, Choosing, HasToken, HasHttp
<1>4. ManagerInv'
  BY DEF Types, Connected, ManagerInv, ManagerOf, HasHttp, HasWs
<1>5. PortInv'
  BY DEF Types, PortInv, Published, HasHttp, HasWs
<1>6. RightProcess'
  BY DEF Types, Connected, PortInv, RightProcess, HasHttp, HasWs
<1> QED
  BY <1>1, <1>2, <1>3, <1>4, <1>5, <1>6 DEF Inv

(* The file is emptied, though it is so already. *)
LEMMA TruncateInv ==
  ASSUME Inv, NEW l \in Launches, Truncate(l)
  PROVE  Inv'
<1> USE BootAssumption DEF Inv, Truncate, Goto, main, tokens, web
<1>1. Types'
  BY DEF Types, Steps
<1>2. Connected'
  BY DEF Types, Connected, HasHttp, HasWs
<1>3. TokenInv'
  BY DEF Types, Connected, TokenInv, ChosenOnce, OneToken, Choosing, HasToken, HasHttp
<1>4. ManagerInv'
  BY DEF Types, Connected, ManagerInv, ManagerOf, HasHttp, HasWs
<1>5. PortInv'
  BY DEF Types, PortInv, Published, HasHttp, HasWs
<1>6. RightProcess'
  BY DEF Types, Connected, PortInv, RightProcess, HasHttp, HasWs
<1> QED
  BY <1>1, <1>2, <1>3, <1>4, <1>5, <1>6 DEF Inv

(* The token is stored, and is from now on the one every launch reads. *)
LEMMA StoreInv ==
  ASSUME Inv, NEW l \in Launches, Store(l)
  PROVE  Inv'
<1> USE BootAssumption DEF Inv, Store, Goto, main, tokens, web
<1>1. Types'
  BY DEF Types, Steps
<1>2. Connected'
  BY DEF Types, Connected, HasHttp, HasWs
<1>3. TokenInv'
  BY DEF Types, Connected, TokenInv, ChosenOnce, OneToken, Choosing, HasToken, HasHttp
<1>4. ManagerInv'
  BY DEF Types, Connected, ManagerInv, ManagerOf, HasHttp, HasWs
<1>5. PortInv'
  BY DEF Types, PortInv, Published, HasHttp, HasWs
<1>6. RightProcess'
  BY DEF Types, Connected, PortInv, RightProcess, HasHttp, HasWs
<1> QED
  BY <1>1, <1>2, <1>3, <1>4, <1>5, <1>6 DEF Inv

(* The HTTP port is bound. *)
LEMMA BindHttpInv ==
  ASSUME Inv, NEW l \in Launches, BindHttp(l)
  PROVE  Inv'
<1> USE BootAssumption DEF Inv, BindHttp, Goto, main, tokens, web
<1>1. Types'
  <2> PICK p \in HttpCandidates : step[l] = "http" /\ http' = [http EXCEPT ![l] = p]
    BY FirstFreeIsFree
  <2> p \in Nat
    BY DEF HttpCandidates
  <2> QED
    BY DEF Types, Steps
<1>2. Connected'
  BY DEF Types, Connected, HasHttp, HasWs
<1>3. TokenInv'
  BY DEF Types, Connected, TokenInv, ChosenOnce, OneToken, Choosing, HasToken, HasHttp
<1>4. ManagerInv'
  BY DEF Types, Connected, ManagerInv, ManagerOf, HasHttp, HasWs
<1>5. PortInv'
  BY DEF Types, PortInv, Published, HasHttp, HasWs
<1>6. RightProcess'
  BY DEF Types, Connected, PortInv, RightProcess, HasHttp, HasWs
<1> QED
  BY <1>1, <1>2, <1>3, <1>4, <1>5, <1>6 DEF Inv

(* The websocket port is bound: one that no other launch has and no browser refuses. *)
LEMMA BindWsInv ==
  ASSUME Inv, NEW l \in Launches, BindWs(l)
  PROVE  Inv'
<1> USE BootAssumption DEF Inv, BindWs, Goto, main, tokens, web
<1>0. PICK p \in WsCandidates(http[l]) \ Held :
        step[l] = "ws" /\ ws' = [ws EXCEPT ![l] = p] /\ p \in Nat /\ p \notin Restricted
  <2>1. PICK others \in SUBSET WsCandidates(http[l]) :
          /\ step[l] = "ws"
          /\ \E p \in FirstFree(WsCandidates(http[l]), others \cup Held) : ws' = [ws EXCEPT ![l] = p]
    OBVIOUS
  <2>2. PICK p \in FirstFree(WsCandidates(http[l]), others \cup Held) : ws' = [ws EXCEPT ![l] = p]
    BY <2>1
  <2>3. p \in WsCandidates(http[l]) /\ p \notin others \cup Held
    BY <2>2, FirstFreeIsFree
  <2>4. http[l] \in Nat
    BY DEF Types
  <2>5. p \in Nat /\ p \notin Restricted
    BY ONLY <2>3, <2>4, BootAssumption DEF WsCandidates
  <2> QED
    BY <2>1, <2>2, <2>3, <2>5
<1>1. Types'
  BY <1>0 DEF Types, Steps
<1>2. Connected'
  BY DEF Types, Connected, HasHttp, HasWs
<1>3. TokenInv'
  BY DEF Types, Connected, TokenInv, ChosenOnce, OneToken, Choosing, HasToken, HasHttp
<1>4. ManagerInv'
  BY DEF Types, Connected, ManagerInv, ManagerOf, HasHttp, HasWs
<1>5. PortInv'
  <2> HasWs(l)' /\ \A k \in Launches : k # l => HasWs(k)' = HasWs(k)
    BY <1>0 DEF Types, HasHttp, HasWs
  <2>1. \A k \in Launches : HasWs(k) => p # ws[k]
    BY <1>0 DEF Held
  <2> QED
    BY <1>0, <2>1 DEF Types, PortInv, Published, HasHttp, HasWs
<1>6. RightProcess'
  BY DEF Types, Connected, PortInv, RightProcess, HasHttp, HasWs
<1> QED
  BY <1>1, <1>2, <1>3, <1>4, <1>5, <1>6 DEF Inv

(* The port is published before any page can be served. *)
LEMMA PublishInv ==
  ASSUME Inv, NEW l \in Launches, Publish(l)
  PROVE  Inv'
<1> USE BootAssumption DEF Inv, Publish, Goto, main, tokens, web
<1>1. Types'
  BY DEF Types, Steps
<1>2. Connected'
  BY DEF Types, Connected, HasHttp, HasWs
<1>3. TokenInv'
  BY DEF Types, Connected, TokenInv, ChosenOnce, OneToken, Choosing, HasToken, HasHttp
<1>4. ManagerInv'
  BY DEF Types, Connected, ManagerInv, ManagerOf, HasHttp, HasWs
<1>5. PortInv'
  BY DEF Types, PortInv, Published, HasHttp, HasWs
<1>6. RightProcess'
  BY DEF Types, Connected, PortInv, RightProcess, HasHttp, HasWs
<1> QED
  BY <1>1, <1>2, <1>3, <1>4, <1>5, <1>6 DEF Inv

(* The listener accepts connections. *)
LEMMA StartWsInv ==
  ASSUME Inv, NEW l \in Launches, StartWs(l)
  PROVE  Inv'
<1> USE BootAssumption DEF Inv, StartWs, Goto, main, tokens, web
<1>1. Types'
  BY DEF Types, Steps
<1>2. Connected'
  BY DEF Types, Connected, HasHttp, HasWs
<1>3. TokenInv'
  BY DEF Types, Connected, TokenInv, ChosenOnce, OneToken, Choosing, HasToken, HasHttp
<1>4. ManagerInv'
  BY DEF Types, Connected, ManagerInv, ManagerOf, HasHttp, HasWs
<1>5. PortInv'
  BY DEF Types, PortInv, Published, HasHttp, HasWs
<1>6. RightProcess'
  BY DEF Types, Connected, PortInv, RightProcess, HasHttp, HasWs
<1> QED
  BY <1>1, <1>2, <1>3, <1>4, <1>5, <1>6 DEF Inv

(* get_manager() in the main thread, first the test, *)
LEMMA TestManagerInv ==
  ASSUME Inv, NEW l \in Launches, TestManager(l)
  PROVE  Inv'
<1> USE BootAssumption DEF Inv, TestManager, Goto, main, tokens, web
<1>1. Types'
  BY DEF Types, Steps
<1>2. Connected'
  BY DEF Types, Connected, HasHttp, HasWs
<1>3. TokenInv'
  BY DEF Types, Connected, TokenInv, ChosenOnce, OneToken, Choosing, HasToken, HasHttp
<1>4. ManagerInv'
  BY DEF Types, Connected, ManagerInv, ManagerOf, HasHttp, HasWs
<1>5. PortInv'
  BY DEF Types, PortInv, Published, HasHttp, HasWs
<1>6. RightProcess'
  BY DEF Types, Connected, PortInv, RightProcess, HasHttp, HasWs
<1> QED
  BY <1>1, <1>2, <1>3, <1>4, <1>5, <1>6 DEF Inv

(* then the assignment. *)
LEMMA CreateManagerInv ==
  ASSUME Inv, NEW l \in Launches, CreateManager(l)
  PROVE  Inv'
<1> USE BootAssumption DEF Inv, CreateManager, Goto, main, tokens, web
<1>1. Types'
  BY DEF Types, Steps
<1>2. Connected'
  BY DEF Types, Connected, HasHttp, HasWs
<1>3. TokenInv'
  BY DEF Types, Connected, TokenInv, ChosenOnce, OneToken, Choosing, HasToken, HasHttp
<1>4. ManagerInv'
  BY DEF Types, Connected, ManagerInv, ManagerOf, HasHttp, HasWs
<1>5. PortInv'
  BY DEF Types, PortInv, Published, HasHttp, HasWs
<1>6. RightProcess'
  BY DEF Types, Connected, PortInv, RightProcess, HasHttp, HasWs
<1> QED
  BY <1>1, <1>2, <1>3, <1>4, <1>5, <1>6 DEF Inv

(* The callbacks are registered and pages are served. *)
LEMMA RegisterCallbacksInv ==
  ASSUME Inv, NEW l \in Launches, RegisterCallbacks(l)
  PROVE  Inv'
<1> USE BootAssumption DEF Inv, RegisterCallbacks, Goto, main, tokens, web
<1>1. Types'
  BY DEF Types, Steps
<1>2. Connected'
  BY DEF Types, Connected, HasHttp, HasWs
<1>3. TokenInv'
  BY DEF Types, Connected, TokenInv, ChosenOnce, OneToken, Choosing, HasToken, HasHttp
<1>4. ManagerInv'
  BY DEF Types, Connected, ManagerInv, ManagerOf, HasHttp, HasWs
<1>5. PortInv'
  BY DEF Types, PortInv, Published, HasHttp, HasWs
<1>6. RightProcess'
  BY DEF Types, Connected, PortInv, RightProcess, HasHttp, HasWs
<1> QED
  BY <1>1, <1>2, <1>3, <1>4, <1>5, <1>6 DEF Inv

(* A process dies with its sockets, connections and memory. *)
LEMMA DieInv ==
  ASSUME Inv, NEW l \in Launches, Die(l)
  PROVE  Inv'
<1> USE BootAssumption DEF Inv, Die, main, tokens, web
<1>1. Types'
  <2>1. conn' \in [Pages -> Launches \cup {0}]
    BY DEF Types
  <2>2. pc' \in [Pages -> {"out", "request", "test", "create", "terminal"}]
    BY DEF Types
  <2>3. step' \in [Launches -> Steps] /\ advertised' \in [Launches -> Nat]
    BY DEF Types, Steps, DefaultWsPort
  <2> QED
    BY <2>1, <2>2, <2>3 DEF Types
<1>2. Connected'
  BY DEF Types, Connected, HasHttp, HasWs
<1>3. TokenInv'
  BY DEF Types, Connected, TokenInv, ChosenOnce, OneToken, Choosing, HasToken, HasHttp
<1>4. ManagerInv'
  BY DEF Types, Connected, ManagerInv, ManagerOf, HasHttp, HasWs
<1>5. PortInv'
  BY DEF Types, PortInv, Published, HasHttp, HasWs
<1>6. RightProcess'
  BY DEF Types, Connected, PortInv, RightProcess, HasHttp, HasWs
<1> QED
  BY <1>1, <1>2, <1>3, <1>4, <1>5, <1>6 DEF Inv

(* A page is loaded from a process that serves. *)
LEMMA LoadInv ==
  ASSUME Inv, NEW c \in Pages, Load(c)
  PROVE  Inv'
<1> USE BootAssumption DEF Inv, Load, main, tokens, web
<1> PICK l \in Launches :
      /\ step[l] = "serving" /\ conn[c] = 0
      /\ page' = [page EXCEPT ![c] = [by |-> l, token |-> token[l], port |-> advertised[l]]]
  OBVIOUS
<1>1. Types'
  BY DEF Types, Steps
<1>2. Connected'
  BY DEF Types, Connected, HasHttp, HasWs
<1>3. TokenInv'
  BY DEF Types, Connected, TokenInv, ChosenOnce, OneToken, Choosing, HasToken, HasHttp
<1>4. ManagerInv'
  BY DEF Types, Connected, ManagerInv, ManagerOf, HasHttp, HasWs
<1>5. PortInv'
  BY DEF Types, PortInv, Published, HasHttp, HasWs
<1>6. RightProcess'
  BY DEF Types, Connected, PortInv, Published, RightProcess, HasHttp, HasWs
<1> QED
  BY <1>1, <1>2, <1>3, <1>4, <1>5, <1>6 DEF Inv

(* A page connects to whoever has its port. *)
LEMMA ConnectInv ==
  ASSUME Inv, NEW c \in Pages, Connect(c)
  PROVE  Inv'
<1> USE BootAssumption DEF Inv, Connect, main, tokens, web
<1> PICK l \in Launches :
      /\ page[c] # NoPage /\ conn[c] = 0
      /\ HasWs(l) /\ ws[l] = page[c].port
      /\ conn' = [conn EXCEPT ![c] = l] /\ pc' = [pc EXCEPT ![c] = "request"]
  OBVIOUS
<1>1. Types'
  BY DEF Types, Steps
<1>2. Connected'
  BY DEF Types, Connected, HasHttp, HasWs
<1>3. TokenInv'
  BY DEF Types, Connected, TokenInv, ChosenOnce, OneToken, Choosing, HasToken, HasHttp
<1>4. ManagerInv'
  BY DEF Types, Connected, ManagerInv, ManagerOf, HasHttp, HasWs
<1>5. PortInv'
  BY DEF Types, PortInv, Published, HasHttp, HasWs
<1>6. RightProcess'
  BY DEF Types, Connected, PortInv, RightProcess, HasHttp, HasWs
<1> QED
  BY <1>1, <1>2, <1>3, <1>4, <1>5, <1>6 DEF Inv

(* A page is turned away. *)
LEMMA RejectInv ==
  ASSUME Inv, NEW c \in Pages, Reject(c)
  PROVE  Inv'
<1> USE BootAssumption DEF Inv, Reject, HandlerGoto, Accepting, main, tokens, web
<1>1. Types'
  BY DEF Types, Steps
<1>2. Connected'
  BY DEF Types, Connected, HasHttp, HasWs
<1>3. TokenInv'
  BY DEF Types, Connected, TokenInv, ChosenOnce, OneToken, Choosing, HasToken, HasHttp
<1>4. ManagerInv'
  BY DEF Types, Connected, ManagerInv, ManagerOf, HasHttp, HasWs
<1>5. PortInv'
  BY DEF Types, PortInv, Published, HasHttp, HasWs
<1>6. RightProcess'
  BY DEF Types, Connected, PortInv, RightProcess, HasHttp, HasWs
<1> QED
  BY <1>1, <1>2, <1>3, <1>4, <1>5, <1>6 DEF Inv

(* A page is let in, maybe before the process is ready. *)
LEMMA LetInInv ==
  ASSUME Inv, NEW c \in Pages, LetIn(c)
  PROVE  Inv'
<1> USE BootAssumption DEF Inv, LetIn, HandlerGoto, Accepting, main, tokens, web
<1>1. Types'
  BY DEF Types, Steps
<1>2. Connected'
  BY DEF Types, Connected, HasHttp, HasWs
<1>3. TokenInv'
  BY DEF Types, Connected, TokenInv, ChosenOnce, OneToken, Choosing, HasToken, HasHttp
<1>4. ManagerInv'
  BY DEF Types, Connected, ManagerInv, ManagerOf, HasHttp, HasWs
<1>5. PortInv'
  BY DEF Types, PortInv, Published, HasHttp, HasWs
<1>6. RightProcess'
  BY DEF Types, Connected, PortInv, RightProcess, HasHttp, HasWs
<1> QED
  BY <1>1, <1>2, <1>3, <1>4, <1>5, <1>6 DEF Inv

(* get_manager() in a handler, first the test, *)
LEMMA HandlerTestsInv ==
  ASSUME Inv, NEW c \in Pages, HandlerTests(c)
  PROVE  Inv'
<1> USE BootAssumption DEF Inv, HandlerTests, HandlerGoto, Accepting, main, tokens, web
<1>1. Types'
  BY DEF Types, Steps
<1>2. Connected'
  BY DEF Types, Connected, HasHttp, HasWs
<1>3. TokenInv'
  BY DEF Types, Connected, TokenInv, ChosenOnce, OneToken, Choosing, HasToken, HasHttp
<1>4. ManagerInv'
  BY DEF Types, Connected, ManagerInv, ManagerOf, HasHttp, HasWs
<1>5. PortInv'
  BY DEF Types, PortInv, Published, HasHttp, HasWs
<1>6. RightProcess'
  BY DEF Types, Connected, PortInv, RightProcess, HasHttp, HasWs
<1> QED
  BY <1>1, <1>2, <1>3, <1>4, <1>5, <1>6 DEF Inv

(* then the assignment. *)
LEMMA HandlerCreatesInv ==
  ASSUME Inv, NEW c \in Pages, HandlerCreates(c)
  PROVE  Inv'
<1> USE BootAssumption DEF Inv, HandlerCreates, HandlerGoto, Accepting, main, tokens, web
<1>1. Types'
  BY DEF Types, Steps
<1>2. Connected'
  BY DEF Types, Connected, HasHttp, HasWs
<1>3. TokenInv'
  BY DEF Types, Connected, TokenInv, ChosenOnce, OneToken, Choosing, HasToken, HasHttp
<1>4. ManagerInv'
  BY DEF Types, Connected, ManagerInv, ManagerOf, HasHttp, HasWs
<1>5. PortInv'
  BY DEF Types, PortInv, Published, HasHttp, HasWs
<1>6. RightProcess'
  BY DEF Types, Connected, PortInv, RightProcess, HasHttp, HasWs
<1> QED
  BY <1>1, <1>2, <1>3, <1>4, <1>5, <1>6 DEF Inv

(* A page goes away. *)
LEMMA DepartInv ==
  ASSUME Inv, NEW c \in Pages, Depart(c)
  PROVE  Inv'
<1> USE BootAssumption DEF Inv, Depart, main, tokens, web
<1>1. Types'
  BY DEF Types, Steps
<1>2. Connected'
  BY DEF Types, Connected, HasHttp, HasWs
<1>3. TokenInv'
  BY DEF Types, Connected, TokenInv, ChosenOnce, OneToken, Choosing, HasToken, HasHttp
<1>4. ManagerInv'
  BY DEF Types, Connected, ManagerInv, ManagerOf, HasHttp, HasWs
<1>5. PortInv'
  BY DEF Types, PortInv, Published, HasHttp, HasWs
<1>6. RightProcess'
  BY DEF Types, Connected, PortInv, RightProcess, HasHttp, HasWs
<1> QED
  BY <1>1, <1>2, <1>3, <1>4, <1>5, <1>6 DEF Inv

(* Inv is an inductive invariant of the start and of everything after it. *)
THEOREM Invariant == Spec => []Inv
<1>1. Inv /\ [Next]_vars => Inv'
  <2> SUFFICES ASSUME Inv, [Next]_vars PROVE Inv'
    OBVIOUS
  <2>1. CASE UNCHANGED vars
    BY <2>1 DEF vars, main, tokens, web, Inv, Types, Connected, HasWs, HasHttp, TokenInv, ChosenOnce,
                OneToken, Choosing, HasToken, ManagerInv, ManagerOf, PortInv, Published, RightProcess
  <2>2. CASE \E l \in Launches : ReadToken(l) \/ RunServer(l) \/ Die(l)
    BY <2>2, ReadTokenInv, TruncateInv, StoreInv, BindHttpInv, BindWsInv, PublishInv, StartWsInv,
       TestManagerInv, CreateManagerInv, RegisterCallbacksInv, DieInv DEF RunServer
  <2>3. CASE \E c \in Pages : Load(c) \/ Connect(c) \/ Handler(c) \/ Depart(c)
    BY <2>3, LoadInv, ConnectInv, RejectInv, LetInInv, HandlerTestsInv, HandlerCreatesInv, DepartInv
       DEF Handler
  <2> QED
    BY <2>1, <2>2, <2>3 DEF Next
<1> QED
  BY <1>1, InitInv, PTL DEF Spec

-----------------------------------------------------------------------------
(* No page is turned away by any process, an old page by a new one         *)
(* included, as long as every token could be stored and no two launches    *)
(* chose one at the same time (_load_or_create_token).                     *)
THEOREM OldPages == Spec => []OldPagesAccepted
<1>1. Inv => OldPagesAccepted
  BY BootAssumption DEF Inv, Types, Connected, TokenInv, OneToken, HasToken, HasWs, OldPagesAccepted
<1> QED
  BY <1>1, Invariant, PTL

(* In a process that let nobody in early, keys go to the manager whose     *)
(* output is shown, whichever handler called get_manager() when.           *)
THEOREM KeysReachShown == Spec => []InputReachesShown
<1>1. Inv => InputReachesShown
  BY DEF Inv, ManagerInv, ManagerOf, InputReachesShown
<1> QED
  BY <1>1, Invariant, PTL

(* The safety part of PageGetsTerminal: a page never ends up at another    *)
(* process than the one that rendered it while that one lives, and has a   *)
(* port browsers accept (_bind_ws_socket, run_server, index).              *)
THEOREM PagesReachTheirProcess == Spec => []RightProcess
<1>1. Inv => RightProcess
  BY DEF Inv
<1> QED
  BY <1>1, Invariant, PTL
=============================================================================
