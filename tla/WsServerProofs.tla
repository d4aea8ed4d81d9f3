---------------------------- MODULE WsServerProofs ----------------------------
(* Theorems about WsServer, for any number of pages.                       *)
EXTENDS WsServer, TLAPS

ReaderSteps == {"idle", "snap", "send", "drop"}
HandlerSteps ==
  {"idle", "request", "register", "hello", "loop", "recv", "snap", "push", "leave"}

Types ==
  /\ open \subseteq Pages /\ clients \subseteq Pages
  /\ dead \subseteq Pages /\ lacks \subseteq Pages
  /\ peer \in [Pages -> {"out", "reading", "full", "closed"}] /\ locked \in BOOLEAN
  /\ pc \in [Threads -> ReaderSteps \cup HandlerSteps]
  /\ pc[Reader] \in ReaderSteps /\ \A c \in Pages : pc[c] \in HandlerSteps
  /\ todo \in [Threads -> SUBSET Pages]

(* A handler that has not registered its client, or is done, has none, and *)
(* a page without a connection has no handler.                             *)
Fresh ==
  \A c \in Pages :
    /\ pc[c] \in {"idle", "request", "register"} => c \notin clients
    /\ peer[c] = "out" => pc[c] = "idle"

(* A client the broadcast has not reached is still to be sent to, or has   *)
(* failed and is still to be unregistered; between broadcasts both lists   *)
(* are empty.                                                              *)
Owed ==
  /\ lacks \cap clients \subseteq todo[Reader] \cup dead
  /\ pc[Reader] \in {"idle", "snap"} => todo[Reader] = {} /\ dead = {}

(* The reader holds clients_lock only to copy the list and to unregister a *)
(* client, never while it sends.                                           *)
NeverSendsLocked == locked => pc[Reader] \in {"snap", "drop"}

Inv == Types /\ Fresh /\ Owed /\ NeverSendsLocked

-----------------------------------------------------------------------------
(* The threads of the server start with nothing to do. *)
LEMMA InitInv == Init => Inv
  BY WsAssumption DEF Init, Inv, Types, Fresh, Owed, NeverSendsLocked, Threads, ReaderSteps, HandlerSteps

(* The pages at the other end change nothing the server has noted. *)
LEMMA PagesInv ==
  ASSUME Inv, NEW c \in Pages, Connect(c) \/ Suspend(c) \/ Resume(c) \/ Depart(c) \/ Frame(c)
  PROVE  Inv'
<1> USE WsAssumption DEF Inv, Types, Fresh, Owed, NeverSendsLocked, Threads, ReaderSteps, HandlerSteps
<1>1. CASE Connect(c)
  BY <1>1 DEF Connect, sending
<1>2. CASE Suspend(c)
  BY <1>2 DEF Suspend, Turns, sending
<1>3. CASE Resume(c)
  BY <1>3 DEF Resume, Turns, sending
<1>4. CASE Depart(c)
  BY <1>4 DEF Depart, Turns, sending
<1>5. CASE Frame(c)
  BY <1>5 DEF Frame, Goto, sending, socks
<1> QED
  BY <1>1, <1>2, <1>3, <1>4, <1>5

(* Every step of a broadcast keeps account of the clients it owes output. *)
LEMMA BroadcastInv ==
  ASSUME Inv, Emit \/ Broadcast
  PROVE  Inv'
<1> USE WsAssumption DEF Inv, Types, Fresh, Owed, NeverSendsLocked, Threads, ReaderSteps, HandlerSteps
<1>1. CASE Emit
  BY <1>1 DEF Emit, Goto, sending, socks
<1>2. CASE Acquire
  BY <1>2 DEF Acquire, sending, socks
<1>3. CASE Snapshot
  BY <1>3 DEF Snapshot, Goto, socks
<1>4. CASE SendOutput
  <2> PICK c \in todo[Reader] :
        /\ pc[Reader] = "send" /\ todo' = [todo EXCEPT ![Reader] = @ \ {c}]
        /\ \/ lacks' = lacks \ {c} /\ UNCHANGED dead
           \/ dead' = dead \cup {c} /\ UNCHANGED lacks
        /\ UNCHANGED <<socks, clients, locked, pc>>
    BY <1>4 DEF SendOutput
  <2>1. todo'[Reader] = todo[Reader] \ {c} /\ c \in Pages
    OBVIOUS
  <2>2. Types'
    BY <2>1 DEF socks
  <2>3. Fresh' /\ NeverSendsLocked'
    BY DEF socks
  <2>4. Owed'
    BY <2>1 DEF socks
  <2> QED
    BY <2>2, <2>3, <2>4
<1>5. CASE AllSent
  BY <1>5 DEF AllSent, Goto, sending, socks
<1>6. CASE Drop
  <2> PICK c \in dead :
        /\ Goto(Reader, "drop", "send") /\ locked' = FALSE
        /\ clients' = clients \ {c} /\ lacks' = lacks \ {c} /\ dead' = dead \ {c}
        /\ open' \subseteq open /\ UNCHANGED <<peer, todo>>
    BY <1>6 DEF Drop, Unregister
  <2> QED
    BY DEF Goto
<1>7. CASE DropNothing
  BY <1>7 DEF DropNothing, Goto, sending, socks
<1> QED
  BY <1>1, <1>2, <1>3, <1>4, <1>5, <1>6, <1>7 DEF Broadcast

(* Every step of a handler does: a client it unregisters is owed nothing,  *)
(* and a connection that ends leaves the lists only when it is no client.  *)
LEMMA HandleInv ==
  ASSUME Inv, NEW c \in Pages, Handle(c)
  PROVE  Inv'
<1> USE WsAssumption DEF Inv, Types, Fresh, Owed, NeverSendsLocked, Threads, ReaderSteps, HandlerSteps
<1>1. CASE Reject(c)
  BY <1>1 DEF Reject, Ends
<1>2. CASE Upgrade(c)
  BY <1>2 DEF Upgrade, Goto, sending, socks
<1>3. CASE Register(c)
  BY <1>3 DEF Register, Goto, socks
<1>4. CASE Hello(c)
  BY <1>4 DEF Hello, Goto, sending, socks
<1>5. CASE ReadFrame(c)
  BY <1>5 DEF ReadFrame, Goto, sending, socks
<1>6. CASE EndOfStream(c)
  BY <1>6 DEF EndOfStream, Goto, sending, socks
<1>7. CASE Leave(c)
  BY <1>7 DEF Leave, Ends
<1>8. CASE StateSnapshot(c)
  BY <1>8 DEF StateSnapshot, Goto, socks
<1>9. CASE PushState(c)
  <2> PICK d \in todo[c] :
        /\ pc[c] = "push" /\ todo' = [todo EXCEPT ![c] = @ \ {d}]
        /\ \/ UNCHANGED <<open, clients, lacks>>
           \/ Unregister(d)
        /\ UNCHANGED <<peer, locked, pc, dead>>
    BY <1>9 DEF PushState
  <2> QED
    BY DEF Unregister
<1>10. CASE StatePushed(c)
  BY <1>10 DEF StatePushed, Goto, sending, socks
<1> QED
  BY <1>1, <1>2, <1>3, <1>4, <1>5, <1>6, <1>7, <1>8, <1>9, <1>10 DEF Handle

(* Inv is an inductive invariant of the server. *)
THEOREM Invariant == Spec => []Inv
<1>1. Inv /\ [Next]_vars => Inv'
  <2>1. Inv /\ UNCHANGED vars => Inv'
    BY DEF vars, socks, sending, Inv, Types, Fresh, Owed, NeverSendsLocked
  <2> QED
    BY <2>1, PagesInv, BroadcastInv, HandleInv DEF Next
<1> QED
  BY <1>1, InitInv, PTL DEF Spec

-----------------------------------------------------------------------------
(* However pages stop reading, come and go, and whoever unregisters whom:  *)
(* a page that is still a client when a broadcast is over was sent it      *)
(* (broadcast, _send_sessions_state, _unregister_client).                  *)
THEOREM NoneMissed == Spec => []NothingMissed
<1>1. Inv => NothingMissed
  BY DEF Inv, Owed, NothingMissed
<1> QED
  BY <1>1, Invariant, PTL

(* No thread waits for clients_lock while a send is in progress: the       *)
(* reader has released it before its first send and takes it again after   *)
(* the last ("deadlocked the PTY reader thread permanently", broadcast).   *)
THEOREM LockFreeSends == Spec => []NeverSendsLocked
<1>1. Inv => NeverSendsLocked
  BY DEF Inv
<1> QED
  BY <1>1, Invariant, PTL
=============================================================================
