------------------------------ MODULE PtyShell ------------------------------
(***************************************************************************)
(* The Alpine shell of one terminal session: PTYTerminalSession            *)
(* (app/zmux/pty_session.py) spawning, losing, replacing and killing       *)
(* RealPtyProcess children (app/zmux/realpty.py).                          *)
(*                                                                         *)
(* Four kinds of threads meet here: the websocket handlers that toggle and *)
(* stop the session (Callers), the session's command worker, one reader    *)
(* thread per pty, and the children, which exit when they like.  The       *)
(* session's RLock is modelled by its holder; what the code does without   *)
(* it is a step of its own.  A pty and its reader thread share a number.   *)
(***************************************************************************)
EXTENDS Integers, FiniteSets, Sequences

CONSTANTS
  Callers,      (* websocket handler threads                               *)
  Worker,       (* the thread of _exec_loop                                *)
  NoThread,     (* the lock is free                                        *)
  PtyBound,     (* bound: ptys ever spawned; beyond it fork() fails        *)
  QueueBound    (* bound: host commands waiting for the worker             *)

ASSUME PtyShellAssumption ==
  /\ PtyBound \in Nat \ {0} /\ QueueBound \in Nat
  /\ Worker \notin Callers /\ NoThread \notin Callers \cup {Worker}
  /\ (Callers \cup {Worker, NoThread}) \cap (0 .. PtyBound) = {}

VARIABLES
  life,       (* is_running, and whether start() ran: new, running, stopped *)
  pty,        (* self.pty, NoPty when None                                 *)
  lock,       (* holder of self.lock                                       *)
  awaiting,   (* _awaiting_alpine                                          *)
  after,      (* _start_alpine_after_command                               *)
  busy,       (* _busy                                                     *)
  intr,       (* shell._interrupt                                          *)
  queue,      (* _command_queue                                            *)
  installed,  (* linuxenv.is_installed() and proot_binary()                *)
  child,      (* each pty's child process                                  *)
  held,       (* ptys stored in the holder of their exit callback          *)
  pc,         (* where each thread is                                      *)
  tgt         (* the pty a thread is binding or killing                    *)

console == <<awaiting, after, busy, intr, queue, installed>>
processes == <<child, held>>
vars == <<life, pty, lock, console, processes, pc, tgt>>

NoPty == 0
Blank == ""
Ptys == 1 .. PtyBound
Threads == Callers \cup {Worker} \cup Ptys
Live(p) == child[p] \in {"alive", "detached"}

Init ==
  /\ life = "new" /\ pty = NoPty /\ lock = NoThread
  /\ awaiting = FALSE /\ after = FALSE /\ busy = FALSE /\ intr = FALSE
  /\ queue = <<>>
  /\ installed \in BOOLEAN
  /\ child = [p \in Ptys |-> "none"] /\ held = {}
  /\ pc = [a \in Threads |->
             IF a \in Callers THEN "idle" ELSE IF a = Worker THEN "get" ELSE "none"]
  /\ tgt = [a \in Threads |-> NoPty]

Goto(a, from, to) == pc[a] = from /\ pc' = [pc EXCEPT ![a] = to]
LockFree == lock = NoThread
MayLock(a) == lock \in {NoThread, a}          \* an RLock

-----------------------------------------------------------------------------
(* start(), called once by the session manager                             *)

Start(t) ==
  /\ life = "new" /\ LockFree
  /\ life' = "running"
  /\ IF installed
     THEN /\ Goto(t, "idle", "enter")
          /\ lock' = t
          /\ UNCHANGED awaiting
     ELSE /\ pc[t] = "idle" /\ awaiting' = TRUE
          /\ UNCHANGED <<pc, lock>>
  /\ UNCHANGED <<pty, after, busy, intr, queue, installed, processes, tgt>>

-----------------------------------------------------------------------------
(* _enter_linux_pty(), by a handler, the worker or the reader of a pty that *)
(* has exited                                                              *)

(* Faulty variants: a guard of _enter_linux_pty is missing *)
CanEnter_AfterStop == pty = NoPty /\ ~busy /\ installed
CanEnter_Twice == life = "running" /\ ~busy /\ installed

CanEnter == life = "running" /\ pty = NoPty /\ ~busy /\ installed

Leave(a) ==                         \* where a thread goes when it has returned
  pc' = [pc EXCEPT ![a] = IF a \in Callers THEN "idle"
                          ELSE IF a = Worker THEN "get" ELSE "gone"]

EnterRefused(a) ==
  /\ pc[a] = "enter" /\ MayLock(a)
  /\ ~CanEnter
  /\ Leave(a)
  /\ lock' = NoThread
  /\ UNCHANGED <<life, pty, console, processes, tgt>>

SpawnFails(a) ==                    \* RuntimeError: no proot, no pty, no process
  /\ pc[a] = "enter" /\ MayLock(a)
  /\ CanEnter
  /\ Leave(a)
  /\ lock' = NoThread
  /\ UNCHANGED <<life, pty, console, processes, tgt>>

(* RealPtyProcess(): the child runs and the reader has started, but the    *)
(* constructor has not returned                                            *)
Spawn(a, p) ==
  /\ pc[a] = "enter" /\ MayLock(a)
  /\ CanEnter
  /\ child[p] = "none" /\ \A q \in 1 .. p - 1 : child[q] # "none"
  /\ lock' = a
  /\ child' = [child EXCEPT ![p] = "alive"]
  /\ tgt' = [tgt EXCEPT ![a] = p]
  /\ pc' = [pc EXCEPT ![a] = "bind", ![p] = "read"]
  /\ UNCHANGED <<life, pty, console, held>>

Bind(a) ==                          \* holder["pty"] = pty; self.pty = pty
  /\ pc[a] = "bind"
  /\ held' = held \cup {tgt[a]}
  /\ pty' = tgt[a]
  /\ tgt' = [tgt EXCEPT ![a] = NoPty]
  /\ lock' = NoThread
  /\ Leave(a)
  /\ UNCHANGED <<life, console, child>>

-----------------------------------------------------------------------------
(* The child, and the reader thread: _read_loop, _reap, _pty_exited        *)

ChildExits(p) ==
  /\ Live(p)
  /\ child' = [child EXCEPT ![p] = "dead"]
  /\ UNCHANGED <<life, pty, lock, console, held, pc, tgt>>

ChildDetaches(p) ==                 \* closes its terminal and lives on
  /\ child[p] = "alive"
  /\ child' = [child EXCEPT ![p] = "detached"]
  /\ UNCHANGED <<life, pty, lock, console, held, pc, tgt>>

ReadEnds(p) ==                      \* EOF or EIO
  /\ Goto(p, "read", "reap")
  /\ child[p] # "alive"
  /\ UNCHANGED <<life, pty, lock, console, processes, tgt>>

(* Faulty variant: a child that is not a zombie yet is neither killed nor  *)
(* waited for                                                              *)
Reap_NoHang(p) ==
  /\ Goto(p, "reap", "exit")
  /\ child' = [child EXCEPT ![p] = IF @ = "dead" THEN "reaped" ELSE @]
  /\ UNCHANGED <<life, pty, lock, console, held, tgt>>

Reap(p) ==                          \* waitpid, after a SIGKILL if p survived
  /\ Goto(p, "reap", "exit")
  /\ child' = [child EXCEPT ![p] = "reaped"]
  /\ UNCHANGED <<life, pty, lock, console, held, tgt>>

(* on_exit() looks the pty up in the holder: a KeyError, which _read_loop  *)
(* discards, if the constructor of p has not returned yet                  *)
ExitCallback(p) ==
  /\ Goto(p, "exit", IF p \in held THEN "exited" ELSE "lost")
  /\ UNCHANGED <<life, pty, lock, console, processes, tgt>>

(* Faulty variant: an exit during a host command is ignored *)
ExitStale_OrBusy(p) ==
  /\ LockFree
  /\ pty # p \/ busy
  /\ Goto(p, "exited", "gone")
  /\ UNCHANGED <<life, pty, lock, console, processes, tgt>>

ExitStale(p) ==                     \* the session has moved on
  /\ LockFree
  /\ pty # p
  /\ Goto(p, "exited", "gone")
  /\ UNCHANGED <<life, pty, lock, console, processes, tgt>>

ExitClear(p) ==
  /\ LockFree
  /\ pty = p
  /\ Goto(p, "exited", "announce")
  /\ pty' = NoPty
  /\ UNCHANGED <<life, lock, console, processes, tgt>>

Announce(p) ==                      \* respawn, tested without the lock
  /\ Goto(p, "announce", IF life = "running" /\ installed THEN "enter" ELSE "gone")
  /\ UNCHANGED <<life, pty, lock, console, processes, tgt>>

-----------------------------------------------------------------------------
(* toggle_pty(), _leave_linux_pty(), stop(), RealPtyProcess.kill()         *)

ToggleEnter(t) ==                   \* so does the line `linux' at the console
  /\ life = "running" /\ LockFree /\ pty = NoPty
  /\ Goto(t, "idle", "enter")
  /\ lock' = t
  /\ UNCHANGED <<life, pty, console, processes, tgt>>

(* Faulty variant: the shell is forgotten, not killed *)
ToggleLeave_NoKill(t) ==
  /\ life = "running" /\ LockFree /\ pty # NoPty
  /\ pc[t] = "idle"
  /\ pty' = NoPty
  /\ UNCHANGED <<life, lock, console, processes, pc, tgt>>

ToggleLeave(t) ==
  /\ life = "running" /\ LockFree /\ pty # NoPty
  /\ Goto(t, "idle", "kill")
  /\ lock' = t
  /\ pty' = NoPty
  /\ tgt' = [tgt EXCEPT ![t] = pty]
  /\ UNCHANGED <<life, console, processes>>

Stop(t) ==
  /\ life = "running" /\ LockFree
  /\ life' = "stopped"
  /\ Goto(t, "idle", IF pty = NoPty THEN "poison" ELSE "kill")
  /\ lock' = t
  /\ pty' = NoPty
  /\ tgt' = [tgt EXCEPT ![t] = pty]
  /\ UNCHANGED <<console, processes>>

KillPty(t) ==                       \* killpg, close; nothing dies twice
  LET p == tgt[t] IN
  /\ Goto(t, "kill", IF life = "stopped" THEN "poison" ELSE "idle")
  /\ lock' = IF life = "stopped" THEN t ELSE NoThread
  /\ child' = [child EXCEPT ![p] = IF Live(p) THEN "dead" ELSE @]
  /\ tgt' = [tgt EXCEPT ![t] = NoPty]
  /\ UNCHANGED <<life, pty, console, held>>

(* Faulty variant: the worker is not told *)
Poison_None(t) ==
  /\ Goto(t, "poison", "idle")
  /\ lock' = NoThread
  /\ intr' = TRUE
  /\ UNCHANGED <<life, pty, awaiting, after, busy, queue, installed, processes, tgt>>

Poison(t) ==                        \* shell.interrupt(); _command_queue.put(None)
  /\ Goto(t, "poison", "idle")
  /\ lock' = NoThread
  /\ intr' = TRUE
  /\ queue' = Append(queue, "poison")
  /\ UNCHANGED <<life, pty, awaiting, after, busy, installed, processes, tgt>>

-----------------------------------------------------------------------------
(* The host console: write_input() while there is no pty, and the worker   *)

(* A line that the worker will run: not a blank one, and before Alpine is  *)
(* there only linux-setup; while a command runs, lines are its stdin.      *)
HostLine(t, line) ==
  /\ life = "running" /\ LockFree /\ pty = NoPty /\ pc[t] = "idle"
  /\ line # Blank
  /\ ~busy /\ (awaiting => line = "linux-setup")
  /\ Len(queue) < QueueBound
  /\ queue' = Append(queue, line)
  /\ UNCHANGED <<life, pty, lock, awaiting, after, busy, intr, installed, processes, pc, tgt>>

CtrlC(t) ==
  /\ life = "running" /\ LockFree /\ pty = NoPty /\ pc[t] = "idle"
  /\ busy
  /\ intr' = TRUE
  /\ UNCHANGED <<life, pty, lock, awaiting, after, busy, queue, installed, processes, pc, tgt>>

WorkerTakes ==
  /\ queue # <<>>
  /\ queue' = Tail(queue)
  /\ IF Head(queue) = "poison" \/ life # "running"
     THEN Goto(Worker, "get", "gone") /\ UNCHANGED <<busy, intr>>
     ELSE /\ Goto(Worker, "get", Head(queue))
          /\ busy' = TRUE /\ intr' = FALSE
  /\ UNCHANGED <<life, pty, lock, awaiting, after, installed, processes, tgt>>

(* The command returns.  linux-setup may have installed Alpine, or failed  *)
(* with or without the previous environment still in place.                *)
WorkerRuns ==
  /\ pc[Worker] \in {"linux-setup", "other"}
  /\ pc' = [pc EXCEPT ![Worker] = "finish"]
  /\ installed' \in IF pc[Worker] = "linux-setup" THEN BOOLEAN ELSE {installed}
  /\ awaiting' = (awaiting /\ ~installed')
  /\ after' = (after \/ (awaiting /\ installed'))
  /\ UNCHANGED <<life, pty, lock, busy, intr, queue, processes, tgt>>

WorkerInterrupted ==                \* KeyboardInterrupt out of the command
  /\ intr
  /\ pc[Worker] \in {"linux-setup", "other"}
  /\ pc' = [pc EXCEPT ![Worker] = "finish"]
  /\ installed' \in IF pc[Worker] = "linux-setup" THEN BOOLEAN ELSE {installed}
  /\ UNCHANGED <<life, pty, lock, awaiting, after, busy, intr, queue, processes, tgt>>

WorkerFinishes ==                   \* _finish_command
  /\ Goto(Worker, "finish", IF after /\ ~intr THEN "enter" ELSE "get")
  /\ busy' = FALSE
  /\ intr' = FALSE
  /\ after' = (after /\ intr)
  /\ UNCHANGED <<life, pty, lock, awaiting, queue, installed, processes, tgt>>

-----------------------------------------------------------------------------

Enter(a) == EnterRefused(a) \/ SpawnFails(a) \/ (\E p \in Ptys : Spawn(a, p)) \/ Bind(a)
Reader(p) == ReadEnds(p) \/ Reap(p) \/ ExitCallback(p) \/ ExitStale(p) \/ ExitClear(p)
             \/ Announce(p) \/ Enter(p)
WorkerStep == WorkerTakes \/ WorkerRuns \/ WorkerInterrupted \/ WorkerFinishes
              \/ Enter(Worker)
Kill(t) == KillPty(t) \/ Poison(t)
Request(t) == Start(t) \/ ToggleEnter(t) \/ ToggleLeave(t) \/ Stop(t) \/ CtrlC(t)
              \/ \E line \in {"linux-setup", "other", Blank} : HostLine(t, line)

Next ==
  \/ \E t \in Callers : Request(t) \/ Enter(t) \/ Kill(t)
  \/ WorkerStep
  \/ \E p \in Ptys : Reader(p) \/ ChildExits(p) \/ ChildDetaches(p)

(* Every thread goes on with what it has begun, as long as the lock lets   *)
(* it; nobody has to ask for anything, no child has to exit and no command *)
(* of the host console has to return, whether interrupted or not.          *)
Fairness ==
  /\ \A t \in Callers : WF_vars(Enter(t) \/ Kill(t))
  /\ WF_vars(WorkerTakes \/ WorkerFinishes \/ Enter(Worker))
  /\ \A p \in Ptys : WF_vars(Reader(p))

Spec == Init /\ [][Next]_vars /\ Fairness
-----------------------------------------------------------------------------
(* Properties                                                              *)

TypeOK ==
  /\ life \in {"new", "running", "stopped"}
  /\ pty \in Ptys \cup {NoPty} /\ lock \in Threads \cup {NoThread}
  /\ awaiting \in BOOLEAN /\ after \in BOOLEAN /\ busy \in BOOLEAN
  /\ intr \in BOOLEAN /\ installed \in BOOLEAN
  /\ queue \in Seq({"linux-setup", "other", "poison"})
  /\ child \in [Ptys -> {"none", "alive", "detached", "dead", "reaped"}]
  /\ held \subseteq Ptys
  /\ pc \in [Threads -> {"idle", "enter", "bind", "kill", "poison",
                         "none", "read", "reap", "exit", "exited", "announce",
                         "lost", "gone", "get", "linux-setup", "other", "finish"}]
  /\ tgt \in [Threads -> Ptys \cup {NoPty}]

(* A session has at most one live shell, however its ends, replacements    *)
(* and toggles interleave: two would write to the same screen.             *)
OneShell == \A p, q \in Ptys : Live(p) /\ Live(q) => p = q

(* No live shell is out of reach: it is the session's pty, or the thread   *)
(* that has the lock is about to make it that or to kill it.  A reader     *)
(* that clears another pty than its own would leave one running            *)
(* (pty_session.py:599-605).                                               *)
NoOrphanShell ==
  \A p \in Ptys : Live(p) =>
    \/ pty = p
    \/ \E a \in Threads : lock = a /\ tgt[a] = p /\ pc[a] \in {"bind", "kill"}

(* A session that has been stopped has no shell left, although readers of  *)
(* exited shells may still be about to open another one.                   *)
ShellDiesWithSession ==
  life = "stopped" /\ LockFree => pty = NoPty /\ \A p \in Ptys : ~Live(p)

(* The session does not keep a dead shell: if its pty is not alive, the    *)
(* reader is on its way to replace it, or has lost its callback.           *)
DeadShellNoticed ==
  LockFree /\ pty # NoPty =>
    Live(pty) \/ pc[pty] \in {"read", "reap", "exit", "exited", "lost"}

(* Every child that has died, by itself or killed, is waited for.          *)
ChildrenReaped == \A p \in Ptys : child[p] = "dead" ~> child[p] = "reaped"

(* After stop() the readers end, and so does the worker unless it is in a  *)
(* command: a closed tab costs no other threads, though the worker may be  *)
(* blocked on its queue or about to open a shell, and a reader about to    *)
(* respawn one.  stop() interrupts a command's child processes             *)
(* (pty_session.py:271) and raises nothing in Python code, so a command    *)
(* that never returns keeps its worker; one that returns later does not.   *)
StopEndsThreads ==
  /\ life = "stopped" /\ pc[Worker] \notin {"linux-setup", "other"} ~> pc[Worker] = "gone"
  /\ \A p \in Ptys : life = "stopped" ~> pc[p] \in {"none", "lost", "gone"}

=============================================================================
