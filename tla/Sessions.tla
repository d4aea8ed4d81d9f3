------------------------------ MODULE Sessions ------------------------------
(***************************************************************************)
(* The tab manager of the terminal: SessionManager (app/zmux/sessions.py)  *)
(* driven by the websocket handler threads (app/zmux/ws_server.py), while  *)
(* the worker and PTY-reader threads of the sessions emit output.          *)
(*                                                                         *)
(* An operation is split where another thread can run: at every            *)
(* acquisition and release of the manager's lock, and between the unlocked *)
(* statements that read or write shared state.  A locked block that makes  *)
(* no call out of the manager is one step.  create() holds the lock while  *)
(* it broadcasts and starts the session, so it is several steps under      *)
(* `lock'; threads that use no lock run between them.                      *)
(*                                                                         *)
(* Output is abstracted to chunks <<session, n>>; a client's screen is the *)
(* set of chunks written to it since the last RESET_TERMINAL_SCREEN.  A    *)
(* broadcast reaches all registered clients in one step.                   *)
(***************************************************************************)
EXTENDS Integers, FiniteSets, SequencesExt

CONSTANTS
  Ops,          (* websocket handler threads, one per client connection    *)
  Emitters,     (* session worker and PTY reader threads                   *)
  MaxSessions,  (* SessionManager.MAX_SESSIONS                             *)
  Geoms,        (* terminal geometries a client may ask for                *)
  DefaultGeom,  (* 80 x 24                                                 *)
  IdBound,      (* bound: sessions ever created                            *)
  OutBound,     (* bound: chunks ever emitted by one session               *)
  DropBound,    (* bound: connections ever lost                            *)
  NoThread      (* the lock is free                                        *)

ASSUME SessionsAssumption ==
  /\ NoThread \notin Ops
  /\ Ops \cap Emitters = {}
  /\ MaxSessions \in Nat \ {0}
  /\ IdBound \in Nat \ {0}
  /\ OutBound \in Nat \ {0}
  /\ DropBound \in Nat
  /\ DefaultGeom \in Geoms /\ 0 \notin Geoms

VARIABLES
  sessions,   (* keys of SessionManager._sessions                          *)
  order,      (* SessionManager._order                                     *)
  active,     (* SessionManager._active, NoSession when None               *)
  counter,    (* SessionManager._counter                                   *)
  geom,       (* SessionManager._cols/_rows                                *)
  lock,       (* holder of SessionManager._lock across steps               *)
  running,    (* sessions started and not stopped                          *)
  sgeom,      (* the geometry each session was last resized to             *)
  out,        (* chunks in each session's scrollback_buffer                *)
  clients,    (* connections registered in WebSocketServer.clients         *)
  screen,     (* chunks on each client's terminal                          *)
  tabs,       (* the tab strip last pushed to each client                  *)
  drops,      (* connections lost so far                                   *)
  pc,         (* where each thread is                                      *)
  loc         (* the locals of the operation each thread runs              *)

manager == <<sessions, order, active, counter, geom>>
terminals == <<running, sgeom, out>>
views == <<clients, screen, tabs, drops>>
vars == <<manager, lock, terminals, views, pc, loc>>

NoSession == 0
Collapsed == 0               \* a geometry with no columns or no rows
Ids == 1 .. IdBound
Chunks == Ids \X (1 .. OutBound)
Actors == Ops \cup Emitters

Locals == [tgt : Ids \cup {NoSession}, was : BOOLEAN, n : 0 .. OutBound,
           g : Geoms, strip : SUBSET Ids, act : Ids \cup {NoSession},
           ret : {"switch", "snapshot"}]

NoLocals == [tgt |-> NoSession, was |-> FALSE, n |-> 0, g |-> DefaultGeom,
             strip |-> {}, act |-> NoSession, ret |-> "snapshot"]

Init ==                      \* get_manager() has created the first session
  /\ sessions = {1} /\ order = <<1>> /\ active = 1 /\ counter = 1
  /\ geom = DefaultGeom
  /\ lock = NoThread
  /\ running = {1}
  /\ sgeom = [s \in Ids |-> DefaultGeom]
  /\ out = [s \in Ids |-> IF s = 1 THEN 1 ELSE 0]
  /\ clients = {} /\ drops = 0
  /\ screen = [t \in Ops |-> {}]
  /\ tabs = [t \in Ops |-> [strip |-> {}, act |-> NoSession]]
  /\ pc = [a \in Actors |-> "idle"]
  /\ loc = [a \in Actors |-> NoLocals]

-----------------------------------------------------------------------------
(* Helpers                                                                 *)

Goto(a, from, to) == pc[a] = from /\ pc' = [pc EXCEPT ![a] = to]

LockFree == lock = NoThread

(* Locals that no later step reads are dropped, so that equal states merge *)
Forget(a) == loc' = [loc EXCEPT ![a] = NoLocals]
ForgetIf(a, p) == loc' = [loc EXCEPT ![a] = IF p THEN NoLocals ELSE @]

History(s, n) == {<<s, i>> : i \in 1 .. n}

Broadcast(data) ==
  screen' = [t \in Ops |-> IF t \in clients THEN screen[t] \cup data ELSE screen[t]]

BroadcastReset ==
  screen' = [t \in Ops |-> IF t \in clients THEN {} ELSE screen[t]]

Position(s) == CHOOSE i \in DOMAIN order : order[i] = s
Without(s) == RemoveAt(order, Position(s))

(* The right neighbour of s, else the new last tab, else None *)
Successor(s) ==
  LET rest == Without(s)
  IN  IF rest = <<>> THEN NoSession
      ELSE rest[IF Position(s) <= Len(rest) THEN Position(s) ELSE Len(rest)]

(* An operation creates at most one session: with this bound on starting   *)
(* one, a create() in progress is never stopped by its guard on IdBound    *)
CanCreate == counter + Cardinality({t \in Ops : pc[t] # "idle"}) < IdBound

-----------------------------------------------------------------------------
(* A client connects: _handle_client after the handshake.  Its terminal is *)
(* blank after a page load and keeps its content after a reconnect.        *)

Connect(t) ==
  /\ t \notin clients
  /\ Goto(t, "idle", "hello")
  /\ clients' = clients \cup {t}
  /\ \E before \in {{}, screen[t]} : screen' = [screen EXCEPT ![t] = before]
  /\ UNCHANGED <<manager, lock, terminals, tabs, drops, loc>>

HelloActive(t) ==                               \* get_manager(self).active
  /\ LockFree
  /\ Goto(t, "hello", "hello_history")
  /\ loc' = [loc EXCEPT ![t].tgt = active]
  /\ UNCHANGED <<manager, lock, terminals, views>>

HelloHistory(t) ==                              \* session.get_scrollback()
  /\ Goto(t, "hello_history", "hello_reset")
  /\ LET s == loc[t].tgt
     IN  loc' = [loc EXCEPT ![t].n = IF s = NoSession THEN 0 ELSE out[s]]
  /\ UNCHANGED <<manager, lock, terminals, views>>

HelloReset(t) ==                                \* sent to this client only
  /\ Goto(t, "hello_reset", "hello_replay")
  /\ screen' = [screen EXCEPT ![t] = IF t \in clients THEN {} ELSE @]
  /\ UNCHANGED <<manager, lock, terminals, clients, tabs, drops, loc>>

HelloReplay(t) ==
  /\ Goto(t, "hello_replay", "snapshot")
  /\ screen' = [screen EXCEPT ![t] =
       IF t \in clients THEN @ \cup History(loc[t].tgt, loc[t].n) ELSE @]
  /\ Forget(t)
  /\ UNCHANGED <<manager, lock, terminals, clients, tabs, drops>>

(* The connection is lost: a send to it fails or its handler's read does,  *)
(* and _unregister_client removes it.  The handler finishes its operation. *)
Drop(t) ==
  /\ t \in clients /\ drops < DropBound
  /\ clients' = clients \ {t}
  /\ drops' = drops + 1
  /\ UNCHANGED <<manager, lock, terminals, screen, tabs, pc, loc>>

-----------------------------------------------------------------------------
(* create()                                                                *)

New(t) ==                                       \* "session.new"
  /\ t \in clients /\ CanCreate
  /\ Goto(t, "idle", "create")
  /\ loc' = [loc EXCEPT ![t] = [NoLocals EXCEPT !.ret = "switch"]]
  /\ UNCHANGED <<manager, lock, terminals, views>>

CreateRefused(t) ==                             \* ValueError: session limit
  /\ LockFree
  /\ Cardinality(sessions) >= MaxSessions
  /\ Goto(t, "create", "snapshot")
  /\ Forget(t)
  /\ UNCHANGED <<manager, lock, terminals, views>>

CreateEnter(t) ==
  /\ LockFree
  /\ Cardinality(sessions) < MaxSessions
  /\ counter < IdBound
  /\ counter' = counter + 1
  /\ sessions' = sessions \cup {counter'}
  /\ order' = Append(order, counter')
  /\ active' = counter'
  /\ lock' = t
  /\ loc' = [loc EXCEPT ![t].tgt = counter']
  /\ Goto(t, "create", IF active = NoSession THEN "start" ELSE "wipe")
  /\ UNCHANGED <<geom, terminals, views>>

CreateWipe(t) ==                                \* RESET before the new banner
  /\ Goto(t, "wipe", "start")
  /\ BroadcastReset
  /\ UNCHANGED <<manager, lock, terminals, clients, tabs, drops, loc>>

(* resize() and start(); start() records the banner and emits it *)
CreateStart(t) ==
  LET s == loc[t].tgt IN
  /\ Goto(t, "start", "banner")
  /\ sgeom' = [sgeom EXCEPT ![s] = geom]
  /\ running' = running \cup {s}
  /\ out' = [out EXCEPT ![s] = 1]
  /\ loc' = [loc EXCEPT ![t].n = 1]
  /\ UNCHANGED <<manager, lock, views>>

(* Faulty variant: the tab opened by close() is not pushed to the clients *)
CreateLeave_NoPush(t) ==
  /\ Goto(t, "leave", IF loc[t].ret = "switch" THEN "switch" ELSE "idle")
  /\ lock' = NoThread
  /\ ForgetIf(t, loc[t].ret = "snapshot")
  /\ UNCHANGED <<manager, terminals, views>>

CreateLeave(t) ==
  /\ Goto(t, "leave", loc[t].ret)
  /\ lock' = NoThread
  /\ ForgetIf(t, loc[t].ret = "snapshot")
  /\ UNCHANGED <<manager, terminals, views>>

-----------------------------------------------------------------------------
(* switch()                                                                *)

Switch(t, s) ==                                 \* "session.switch"
  /\ t \in clients
  /\ Goto(t, "idle", "switch")
  /\ loc' = [loc EXCEPT ![t] = [NoLocals EXCEPT !.tgt = s]]
  /\ UNCHANGED <<manager, lock, terminals, views>>

SwitchNothing(t) ==                             \* unknown, or already active
  /\ LockFree
  /\ loc[t].tgt \notin sessions \/ loc[t].tgt = active
  /\ Goto(t, "switch", "snapshot")
  /\ Forget(t)
  /\ UNCHANGED <<manager, lock, terminals, views>>

SwitchSet(t) ==
  /\ LockFree
  /\ loc[t].tgt \in sessions /\ loc[t].tgt # active
  /\ Goto(t, "switch", "fit")
  /\ active' = loc[t].tgt
  /\ loc' = [loc EXCEPT ![t].g = geom]
  /\ UNCHANGED <<sessions, order, counter, geom, lock, terminals, views>>

(* Faulty variant: a tab that becomes visible keeps its old geometry *)
SwitchFit_Stale(t) ==
  /\ Goto(t, "fit", "reset")
  /\ loc' = [loc EXCEPT ![t].g = DefaultGeom]
  /\ UNCHANGED <<manager, lock, terminals, views>>

SwitchFit(t) ==                                 \* session.resize(cols, rows)
  /\ Goto(t, "fit", "reset")
  /\ sgeom' = [sgeom EXCEPT ![loc[t].tgt] = loc[t].g]
  /\ loc' = [loc EXCEPT ![t].g = DefaultGeom]
  /\ UNCHANGED <<manager, lock, running, out, views>>

SwitchReset(t) ==
  /\ Goto(t, "reset", "history")
  /\ BroadcastReset
  /\ UNCHANGED <<manager, lock, terminals, clients, tabs, drops, loc>>

SwitchHistory(t) ==                             \* session.get_scrollback()
  /\ Goto(t, "history", "replay")
  /\ loc' = [loc EXCEPT ![t].n = out[loc[t].tgt]]
  /\ UNCHANGED <<manager, lock, terminals, views>>

(* Faulty variant: the reset is sent after the replay *)
SwitchReplay_ResetLast(t) ==
  /\ Goto(t, "replay", "snapshot")
  /\ BroadcastReset
  /\ Forget(t)
  /\ UNCHANGED <<manager, lock, terminals, clients, tabs, drops>>

SwitchReplay(t) ==
  /\ Goto(t, "replay", "snapshot")
  /\ Broadcast(History(loc[t].tgt, loc[t].n))
  /\ Forget(t)
  /\ UNCHANGED <<manager, lock, terminals, clients, tabs, drops>>

-----------------------------------------------------------------------------
(* close()                                                                 *)

Close(t, s) ==                                  \* "session.close"
  /\ t \in clients /\ CanCreate
  /\ Goto(t, "idle", "close")
  /\ loc' = [loc EXCEPT ![t] = [NoLocals EXCEPT !.tgt = s]]
  /\ UNCHANGED <<manager, lock, terminals, views>>

CloseUnknown(t) ==
  /\ LockFree
  /\ loc[t].tgt \notin sessions
  /\ Goto(t, "close", "snapshot")
  /\ Forget(t)
  /\ UNCHANGED <<manager, lock, terminals, views>>

(* Faulty variant: the closed tab stays in _order *)
ClosePop_KeepsOrder(t) ==
  LET s == loc[t].tgt IN
  /\ LockFree
  /\ s \in sessions
  /\ Goto(t, "close", "stop")
  /\ sessions' = sessions \ {s}
  /\ active' = IF active = s THEN Successor(s) ELSE active
  /\ loc' = [loc EXCEPT ![t].was = (active = s)]
  /\ UNCHANGED <<order, counter, geom, lock, terminals, views>>

ClosePop(t) ==
  LET s == loc[t].tgt IN
  /\ LockFree
  /\ s \in sessions
  /\ Goto(t, "close", "stop")
  /\ sessions' = sessions \ {s}
  /\ order' = Without(s)
  /\ active' = IF active = s THEN Successor(s) ELSE active
  /\ loc' = [loc EXCEPT ![t].was = (active = s)]
  /\ UNCHANGED <<counter, geom, lock, terminals, views>>

(* Faulty variant: the session is dropped without stopping its threads *)
CloseStop_Leaks(t) ==
  /\ Goto(t, "stop", "check")
  /\ UNCHANGED <<manager, lock, terminals, views, loc>>

CloseStop(t) ==                                 \* session.stop()
  /\ Goto(t, "stop", "check")
  /\ running' = running \ {loc[t].tgt}
  /\ UNCHANGED <<manager, lock, sgeom, out, views, loc>>

(* Faulty variant: only the closer of the active tab looks for a successor *)
CloseCheck_OwnTabOnly(t) ==
  /\ Goto(t, "check", IF loc[t].was /\ active # NoSession THEN "reread" ELSE "snapshot")
  /\ Forget(t)
  /\ UNCHANGED <<manager, lock, terminals, views>>

(* if self._active is None: create()  elif was_active: ... -- no lock held *)
CloseCheck(t) ==
  /\ Goto(t, "check",
          IF active = NoSession THEN "create"
          ELSE IF loc[t].was THEN "reread" ELSE "snapshot")
  /\ Forget(t)
  /\ UNCHANGED <<manager, lock, terminals, views>>

CloseReread(t) ==                               \* active = self._active
  /\ Goto(t, "reread", "blank")
  /\ loc' = [loc EXCEPT ![t].tgt = active]
  /\ UNCHANGED <<manager, lock, terminals, views>>

CloseBlank(t) ==                                \* self._active = None
  /\ Goto(t, "blank", "switch")
  /\ active' = NoSession
  /\ UNCHANGED <<sessions, order, counter, geom, lock, terminals, views, loc>>

-----------------------------------------------------------------------------
(* resize(), and the tab strip pushed after every session action           *)

Resize(t, g) ==
  /\ t \in clients /\ LockFree
  /\ g # Collapsed                      \* if cols <= 0 or rows <= 0: return
  /\ Goto(t, "idle", "resize")
  /\ geom' = g
  /\ loc' = [loc EXCEPT ![t] = [NoLocals EXCEPT !.tgt = active, !.g = g]]
  /\ UNCHANGED <<sessions, order, active, counter, lock, terminals, views>>

ResizeApply(t) ==
  /\ Goto(t, "resize", "idle")
  /\ sgeom' = [s \in Ids |-> IF s = loc[t].tgt THEN loc[t].g ELSE sgeom[s]]
  /\ Forget(t)
  /\ UNCHANGED <<manager, lock, running, out, views>>

Snapshot(t) ==                                  \* manager.snapshot()
  /\ LockFree
  /\ Goto(t, "snapshot", "push")
  /\ loc' = [loc EXCEPT ![t] = [NoLocals EXCEPT !.strip = sessions, !.act = active]]
  /\ UNCHANGED <<manager, lock, terminals, views>>

Push(t) ==
  /\ Goto(t, "push", "idle")
  /\ tabs' = [c \in Ops |-> IF c \in clients
                            THEN [strip |-> loc[t].strip, act |-> loc[t].act]
                            ELSE tabs[c]]
  /\ Forget(t)
  /\ UNCHANGED <<manager, lock, terminals, clients, screen, drops>>

-----------------------------------------------------------------------------
(* PTYTerminalSession._emit, then the callback built by _emit_for          *)

EmitRecord(e, s) ==                             \* append to the scrollback
  /\ s \in running /\ out[s] < OutBound
  /\ Goto(e, "idle", "banner")
  /\ out' = [out EXCEPT ![s] = @ + 1]
  /\ loc' = [loc EXCEPT ![e].tgt = s, ![e].n = out[s] + 1]
  /\ UNCHANGED <<manager, lock, running, sgeom, views>>

(* if self._active == session_id -- no lock held *)
EmitTest(a) ==
  LET done == IF a \in Ops THEN "leave" ELSE "idle"
  IN  /\ Goto(a, "banner", IF active = loc[a].tgt THEN "send" ELSE done)
      /\ ForgetIf(a, a \in Emitters /\ active # loc[a].tgt)
      /\ UNCHANGED <<manager, lock, terminals, views>>

EmitSend(a) ==
  /\ Goto(a, "send", IF a \in Ops THEN "leave" ELSE "idle")
  /\ Broadcast({<<loc[a].tgt, loc[a].n>>})
  /\ ForgetIf(a, a \in Emitters)
  /\ UNCHANGED <<manager, lock, terminals, clients, tabs, drops>>

-----------------------------------------------------------------------------

ConnectStep(t) == Connect(t) \/ HelloActive(t) \/ HelloHistory(t)
                  \/ HelloReset(t) \/ HelloReplay(t) \/ Drop(t)
CreateStep(t) == New(t) \/ CreateRefused(t) \/ CreateEnter(t) \/ CreateWipe(t)
                 \/ CreateStart(t) \/ CreateLeave(t)
SwitchStep(t) == (\E s \in Ids : Switch(t, s)) \/ SwitchNothing(t) \/ SwitchSet(t)
                 \/ SwitchFit(t) \/ SwitchReset(t) \/ SwitchHistory(t) \/ SwitchReplay(t)
CloseStep(t) == (\E s \in Ids : Close(t, s)) \/ CloseUnknown(t) \/ ClosePop(t)
                \/ CloseStop(t) \/ CloseCheck(t) \/ CloseReread(t) \/ CloseBlank(t)
StateStep(t) == (\E g \in Geoms \cup {Collapsed} : Resize(t, g)) \/ ResizeApply(t)
                \/ Snapshot(t) \/ Push(t)
EmitStep(a) == (a \in Emitters /\ \E s \in Ids : EmitRecord(a, s))
               \/ EmitTest(a) \/ EmitSend(a)

Next ==
  \/ \E t \in Ops : ConnectStep(t) \/ CreateStep(t) \/ SwitchStep(t)
                    \/ CloseStep(t) \/ StateStep(t)
  \/ \E a \in Actors : EmitStep(a)

Spec == Init /\ [][Next]_vars

(* Every client connected while nothing else ran, so nothing raced its     *)
(* replay: the state a run of Connect .. Push reaches from Init.           *)
ConnectedInit ==
  /\ sessions = {1} /\ order = <<1>> /\ active = 1 /\ counter = 1
  /\ geom = DefaultGeom
  /\ lock = NoThread
  /\ running = {1}
  /\ sgeom = [s \in Ids |-> DefaultGeom]
  /\ out = [s \in Ids |-> IF s = 1 THEN 1 ELSE 0]
  /\ clients = Ops /\ drops = 0
  /\ screen = [t \in Ops |-> {<<1, 1>>}]
  /\ tabs = [t \in Ops |-> [strip |-> {1}, act |-> 1]]
  /\ pc = [a \in Actors |-> "idle"]
  /\ loc = [a \in Actors |-> NoLocals]

ConnectedSpec == ConnectedInit /\ [][Next]_vars
-----------------------------------------------------------------------------
(* Properties of any number of handler threads                             *)

Pcs == {"idle", "hello", "hello_history", "hello_reset", "hello_replay",
        "create", "wipe", "start", "banner", "send", "leave",
        "switch", "fit", "reset", "history", "replay",
        "close", "stop", "check", "reread", "blank",
        "resize", "snapshot", "push"}

ManagerTypes ==
  /\ sessions \subseteq Ids /\ order \in Seq(Ids)
  /\ active \in Ids \cup {NoSession} /\ counter \in Ids /\ geom \in Geoms
  /\ lock \in Ops \cup {NoThread}
TerminalTypes ==
  /\ running \subseteq Ids /\ sgeom \in [Ids -> Geoms]
  /\ out \in [Ids -> 0 .. OutBound]
ViewTypes ==
  /\ clients \subseteq Ops /\ screen \in [Ops -> SUBSET Chunks]
  /\ tabs \in [Ops -> [strip : SUBSET Ids, act : Ids \cup {NoSession}]]
  /\ drops \in 0 .. DropBound
ThreadTypes == pc \in [Actors -> Pcs] /\ loc \in [Actors -> Locals]

(* The types of the variables. *)
TypeOK == ManagerTypes /\ TerminalTypes /\ ViewTypes /\ ThreadTypes

Creating == {"wipe", "start", "banner", "send", "leave"}

(* _order lists every session exactly once, the cap holds, and _active is  *)
(* None or a session that exists, whatever closes, switches and creations  *)
(* run at the same time: _active is only ever set to a session under the   *)
(* lock, by the block that knows the session is there.                     *)
RegistryConsistent ==
  /\ Cardinality(sessions) <= MaxSessions
  /\ ToSet(order) = sessions /\ IsInjective(order)
  /\ active \in sessions \cup {NoSession}

(* close() "never leaves zero" (sessions.py:138): while there is no tab,   *)
(* some thread is in a close() that will find _active None and create one. *)
NeverLeavesZero ==
  sessions = {} => \E t \in Ops : pc[t] \in {"stop", "check", "create"}

(* No session outlives its tab and no tab lacks its worker: a session runs *)
(* and is not registered only while its close() is about to stop it, and   *)
(* is registered and not running only while its create() is to start it.   *)
NoOrphanSession ==
  /\ \A s \in running \ sessions : \E t \in Ops : pc[t] = "stop" /\ loc[t].tgt = s
  /\ \A s \in sessions \ running :
       \E t \in Ops : lock = t /\ pc[t] \in {"wipe", "start"} /\ loc[t].tgt = s

-----------------------------------------------------------------------------
(* What the user should see once the threads are at rest                   *)

AtRest == \A a \in Actors : pc[a] = "idle"

(* There is an active session: keystrokes have somewhere to go, no client  *)
(* is left at a dead terminal (sessions.py:155-156).                       *)
ActiveAtRest == AtRest => active \in sessions

(* Everything the active session has emitted is on the screen of each      *)
(* client: output of a background session is kept for the replay of        *)
(* switch() and nothing falls between the replay and the live broadcast.   *)
ScreenComplete ==
  AtRest => \A t \in clients : History(active, IF active = NoSession THEN 0 ELSE out[active])
                                  \subseteq screen[t]

(* The visible terminal has the geometry the clients asked for last: "apply *)
(* the latest geometry when that tab becomes visible again" (sessions.py:51-55). *)
GeometryFollows == AtRest /\ active # NoSession => sgeom[active] = geom

(* Each client's tab strip lists the tabs there are, with the right one lit *)
TabStripCurrent ==
  AtRest => \A t \in clients : tabs[t] = [strip |-> sessions, act |-> active]

=============================================================================
