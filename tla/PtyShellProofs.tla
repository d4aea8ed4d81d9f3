--------------------------- MODULE PtyShellProofs ---------------------------
(* Theorems about PtyShell, for any number of handler threads and ptys.    *)
EXTENDS PtyShell, SequenceTheorems, TLAPS

Holding == {"bind", "kill", "poison"}

(* The lock: who works on self.pty holds it, and who holds it works        *)
LockInv ==
  /\ \A a \in Threads : pc[a] \in Holding => lock = a
  /\ \A a \in Threads : lock = a => pc[a] \in Holding \cup {"enter"}
  /\ \A a \in Threads : pc[a] \in {"bind", "kill"} <=> tgt[a] # NoPty

(* While it does, the session has no pty; a stopped one never has          *)
PtyInv ==
  /\ \A a \in Threads : pc[a] \in Holding => pty = NoPty
  /\ \A a \in Threads : pc[a] = "bind" => life = "running"
  /\ \A a \in Threads : pc[a] = "poison" => life = "stopped"
  /\ life # "running" => pty = NoPty

(* A pty has a reader from its first moment, which answers for it until it *)
(* has cleared self.pty                                                    *)
Minding == {"read", "reap", "exit", "exited", "lost"}
Early == {"read", "reap", "exit", "lost"}
ReaderInv ==
  /\ \A p \in Ptys : child[p] = "none" <=> pc[p] = "none"
  /\ \A p \in Ptys : Live(p) => pc[p] \in {"read", "reap"}
  /\ \A p \in Ptys : pc[p] = "exited" => p \in held
  /\ \A a \in Threads : pc[a] = "bind" => pc[tgt[a]] \in Early /\ tgt[a] \notin held
  /\ pty # NoPty => pc[pty] \in Minding
  /\ \A p \in Ptys : pc[p] = "none" => p \notin held

(* Which places belong to which thread *)
PlaceInv ==
  /\ \A t \in Callers : pc[t] \in {"idle", "enter", "bind", "kill", "poison"}
  /\ pc[Worker] \in {"get", "linux-setup", "other", "finish", "enter", "bind", "gone"}
  /\ \A p \in Ptys : pc[p] \in Minding \cup {"none", "announce", "enter", "bind", "gone"}

Inv == TypeOK /\ PlaceInv /\ LockInv /\ PtyInv /\ ReaderInv /\ NoOrphanShell

USE PtyShellAssumption DEF Threads, Ptys, NoPty, Live, Blank, console, processes,
    Goto, Leave, LockFree, MayLock, CanEnter, Holding, Minding, Early

(* start(): the lock is taken only to open the shell.                      *)
LEMMA StartInv ==
  ASSUME Inv, NEW t \in Callers, Start(t)
  PROVE  Inv'
<1>1. TypeOK'
  <2>1. CASE installed
    BY <2>1 DEF Inv, Start, TypeOK
  <2>2. CASE ~installed
    BY <2>2 DEF Inv, Start, TypeOK
  <2>3. QED
    BY <2>1, <2>2 DEF Inv, TypeOK
<1>2. PlaceInv'
  BY DEF Inv, Start, PlaceInv, TypeOK
<1>3. LockInv'
  BY DEF Inv, Start, PlaceInv, LockInv, TypeOK
<1>4. PtyInv'
  BY DEF Inv, Start, PlaceInv, LockInv, PtyInv, TypeOK
<1>5. ReaderInv'
  BY DEF Inv, Start, PlaceInv, LockInv, PtyInv, ReaderInv, TypeOK
<1>6. NoOrphanShell'
  BY DEF Inv, Start, LockInv, PtyInv, ReaderInv, NoOrphanShell, TypeOK
<1>7. QED
  BY <1>1, <1>2, <1>3, <1>4, <1>5, <1>6 DEF Inv

(* _enter_linux_pty() returns early: the lock is given back.               *)
LEMMA EnterRefusedInv ==
  ASSUME Inv, NEW a \in Threads, EnterRefused(a)
  PROVE  Inv'
<1>1. TypeOK'
  BY DEF Inv, EnterRefused, TypeOK, PlaceInv, LockInv
<1>2. PlaceInv'
  BY DEF Inv, EnterRefused, PlaceInv, TypeOK
<1>3. LockInv'
  BY DEF Inv, EnterRefused, PlaceInv, LockInv, TypeOK
<1>4. PtyInv'
  BY DEF Inv, EnterRefused, PlaceInv, LockInv, PtyInv, TypeOK
<1>5. ReaderInv'
  BY DEF Inv, EnterRefused, PlaceInv, LockInv, PtyInv, ReaderInv, TypeOK
<1>6. NoOrphanShell'
  BY DEF Inv, EnterRefused, LockInv, PtyInv, ReaderInv, NoOrphanShell, TypeOK
<1>7. QED
  BY <1>1, <1>2, <1>3, <1>4, <1>5, <1>6 DEF Inv

(* _enter_linux_pty() fails: the lock is given back.                       *)
LEMMA SpawnFailsInv ==
  ASSUME Inv, NEW a \in Threads, SpawnFails(a)
  PROVE  Inv'
<1>1. TypeOK'
  BY DEF Inv, SpawnFails, TypeOK, PlaceInv, LockInv
<1>2. PlaceInv'
  BY DEF Inv, SpawnFails, PlaceInv, TypeOK
<1>3. LockInv'
  BY DEF Inv, SpawnFails, PlaceInv, LockInv, TypeOK
<1>4. PtyInv'
  BY DEF Inv, SpawnFails, PlaceInv, LockInv, PtyInv, TypeOK
<1>5. ReaderInv'
  BY DEF Inv, SpawnFails, PlaceInv, LockInv, PtyInv, ReaderInv, TypeOK
<1>6. NoOrphanShell'
  BY DEF Inv, SpawnFails, LockInv, PtyInv, ReaderInv, NoOrphanShell, TypeOK
<1>7. QED
  BY <1>1, <1>2, <1>3, <1>4, <1>5, <1>6 DEF Inv

(* A child is spawned under the lock: it is in the spawner's hands.        *)
LEMMA SpawnInv ==
  ASSUME Inv, NEW a \in Threads, NEW p \in Ptys, Spawn(a, p)
  PROVE  Inv'
<1>0. pc[p] = "none" /\ a # p
  BY DEF Inv, Spawn, ReaderInv
<1>1. TypeOK'
  BY <1>0 DEF Inv, Spawn, TypeOK, PlaceInv, LockInv
<1>2. PlaceInv'
  BY <1>0 DEF Inv, Spawn, PlaceInv, TypeOK
<1>3. LockInv'
  BY <1>0 DEF Inv, Spawn, PlaceInv, LockInv, TypeOK
<1>4. PtyInv'
  BY <1>0 DEF Inv, Spawn, PlaceInv, LockInv, PtyInv, TypeOK
<1>5. ReaderInv'
  <2>1. /\ pc'[p] = "read" /\ pc'[a] = "bind"
        /\ \A b \in Threads \ {a, p} : pc'[b] = pc[b]
    BY <1>0 DEF Inv, Spawn, TypeOK
  <2>2. /\ child'[p] = "alive" /\ \A q \in Ptys \ {p} : child'[q] = child[q]
        /\ \A b \in Threads : pc[b] # "bind"
    BY DEF Inv, Spawn, TypeOK, LockInv
  <2>3. tgt'[a] = p /\ pty' = NoPty /\ held' = held /\ p \notin held /\ pc[a] = "enter"
    BY <1>0 DEF Inv, Spawn, TypeOK, ReaderInv
  <2>4. \A b \in Threads : pc'[b] = "bind" => b = a
    BY <2>1, <2>2
  <2>5. QED
    BY <2>1, <2>2, <2>3, <2>4 DEF Inv, ReaderInv
<1>6. NoOrphanShell'
  BY <1>0 DEF Inv, Spawn, LockInv, PtyInv, ReaderInv, NoOrphanShell, TypeOK
<1>7. QED
  BY <1>1, <1>2, <1>3, <1>4, <1>5, <1>6 DEF Inv

(* The spawner makes its child the session's pty.                          *)
LEMMA BindInv ==
  ASSUME Inv, NEW a \in Threads, Bind(a)
  PROVE  Inv'
<1>1. TypeOK'
  <2>1. tgt[a] \in Ptys
    BY DEF Inv, Bind, TypeOK, LockInv
  <2>2. pc' \in [Threads -> {pc[b] : b \in Threads} \cup {"idle", "get", "gone"}]
    BY DEF Inv, Bind, TypeOK
  <2>3. QED
    BY <2>1, <2>2 DEF Inv, Bind, TypeOK
<1>2. PlaceInv'
  BY DEF Inv, Bind, PlaceInv, TypeOK
<1>3. LockInv'
  BY DEF Inv, Bind, PlaceInv, LockInv, TypeOK
<1>4. PtyInv'
  BY DEF Inv, Bind, PlaceInv, LockInv, PtyInv, TypeOK
<1>5. ReaderInv'
  BY DEF Inv, Bind, PlaceInv, LockInv, PtyInv, ReaderInv, TypeOK
<1>6. NoOrphanShell'
  BY DEF Inv, Bind, LockInv, PtyInv, ReaderInv, NoOrphanShell, TypeOK
<1>7. QED
  BY <1>1, <1>2, <1>3, <1>4, <1>5, <1>6 DEF Inv

(* A child dies by itself: one live shell less.                            *)
LEMMA ChildExitsInv ==
  ASSUME Inv, NEW p \in Ptys, ChildExits(p)
  PROVE  Inv'
<1>1. TypeOK'
  BY DEF Inv, ChildExits, TypeOK, PlaceInv, LockInv
<1>2. PlaceInv'
  BY DEF Inv, ChildExits, PlaceInv, TypeOK
<1>3. LockInv'
  BY DEF Inv, ChildExits, PlaceInv, LockInv, TypeOK
<1>4. PtyInv'
  BY DEF Inv, ChildExits, PlaceInv, LockInv, PtyInv, TypeOK
<1>5. ReaderInv'
  BY DEF Inv, ChildExits, PlaceInv, LockInv, PtyInv, ReaderInv, TypeOK
<1>6. NoOrphanShell'
  BY DEF Inv, ChildExits, LockInv, PtyInv, ReaderInv, NoOrphanShell, TypeOK
<1>7. QED
  BY <1>1, <1>2, <1>3, <1>4, <1>5, <1>6 DEF Inv

(* A child that has closed its terminal is still live.                     *)
LEMMA ChildDetachesInv ==
  ASSUME Inv, NEW p \in Ptys, ChildDetaches(p)
  PROVE  Inv'
<1>1. TypeOK'
  BY DEF Inv, ChildDetaches, TypeOK, PlaceInv, LockInv
<1>2. PlaceInv'
  BY DEF Inv, ChildDetaches, PlaceInv, TypeOK
<1>3. LockInv'
  BY DEF Inv, ChildDetaches, PlaceInv, LockInv, TypeOK
<1>4. PtyInv'
  BY DEF Inv, ChildDetaches, PlaceInv, LockInv, PtyInv, TypeOK
<1>5. ReaderInv'
  BY DEF Inv, ChildDetaches, PlaceInv, LockInv, PtyInv, ReaderInv, TypeOK
<1>6. NoOrphanShell'
  BY DEF Inv, ChildDetaches, LockInv, PtyInv, ReaderInv, NoOrphanShell, TypeOK
<1>7. QED
  BY <1>1, <1>2, <1>3, <1>4, <1>5, <1>6 DEF Inv

(* The reader sees the end of its child's output.                          *)
LEMMA ReadEndsInv ==
  ASSUME Inv, NEW p \in Ptys, ReadEnds(p)
  PROVE  Inv'
<1>1. TypeOK'
  BY DEF Inv, ReadEnds, TypeOK, PlaceInv, LockInv
<1>2. PlaceInv'
  BY DEF Inv, ReadEnds, PlaceInv, TypeOK
<1>3. LockInv'
  BY DEF Inv, ReadEnds, PlaceInv, LockInv, TypeOK
<1>4. PtyInv'
  BY DEF Inv, ReadEnds, PlaceInv, LockInv, PtyInv, TypeOK
<1>5. ReaderInv'
  BY DEF Inv, ReadEnds, PlaceInv, LockInv, PtyInv, ReaderInv, TypeOK
<1>6. NoOrphanShell'
  BY DEF Inv, ReadEnds, LockInv, PtyInv, ReaderInv, NoOrphanShell, TypeOK
<1>7. QED
  BY <1>1, <1>2, <1>3, <1>4, <1>5, <1>6 DEF Inv

(* The reader waits for its child, which is no longer live.                *)
LEMMA ReapInv ==
  ASSUME Inv, NEW p \in Ptys, Reap(p)
  PROVE  Inv'
<1>1. TypeOK'
  BY DEF Inv, Reap, TypeOK, PlaceInv, LockInv
<1>2. PlaceInv'
  BY DEF Inv, Reap, PlaceInv, TypeOK
<1>3. LockInv'
  BY DEF Inv, Reap, PlaceInv, LockInv, TypeOK
<1>4. PtyInv'
  BY DEF Inv, Reap, PlaceInv, LockInv, PtyInv, TypeOK
<1>5. ReaderInv'
  BY DEF Inv, Reap, PlaceInv, LockInv, PtyInv, ReaderInv, TypeOK
<1>6. NoOrphanShell'
  BY DEF Inv, Reap, LockInv, PtyInv, ReaderInv, NoOrphanShell, TypeOK
<1>7. QED
  BY <1>1, <1>2, <1>3, <1>4, <1>5, <1>6 DEF Inv

(* The callback runs or is lost; lost only before the pty is bound.        *)
LEMMA ExitCallbackInv ==
  ASSUME Inv, NEW p \in Ptys, ExitCallback(p)
  PROVE  Inv'
<1>1. TypeOK'
  BY DEF Inv, ExitCallback, TypeOK, PlaceInv, LockInv
<1>2. PlaceInv'
  BY DEF Inv, ExitCallback, PlaceInv, TypeOK
<1>3. LockInv'
  BY DEF Inv, ExitCallback, PlaceInv, LockInv, TypeOK
<1>4. PtyInv'
  BY DEF Inv, ExitCallback, PlaceInv, LockInv, PtyInv, TypeOK
<1>5. ReaderInv'
  BY DEF Inv, ExitCallback, PlaceInv, LockInv, PtyInv, ReaderInv, TypeOK
<1>6. NoOrphanShell'
  BY DEF Inv, ExitCallback, LockInv, PtyInv, ReaderInv, NoOrphanShell, TypeOK
<1>7. QED
  BY <1>1, <1>2, <1>3, <1>4, <1>5, <1>6 DEF Inv

(* The reader of a pty the session has left changes nothing.               *)
LEMMA ExitStaleInv ==
  ASSUME Inv, NEW p \in Ptys, ExitStale(p)
  PROVE  Inv'
<1>1. TypeOK'
  BY DEF Inv, ExitStale, TypeOK, PlaceInv, LockInv
<1>2. PlaceInv'
  BY DEF Inv, ExitStale, PlaceInv, TypeOK
<1>3. LockInv'
  BY DEF Inv, ExitStale, PlaceInv, LockInv, TypeOK
<1>4. PtyInv'
  BY DEF Inv, ExitStale, PlaceInv, LockInv, PtyInv, TypeOK
<1>5. ReaderInv'
  BY DEF Inv, ExitStale, PlaceInv, LockInv, PtyInv, ReaderInv, TypeOK
<1>6. NoOrphanShell'
  BY DEF Inv, ExitStale, LockInv, PtyInv, ReaderInv, NoOrphanShell, TypeOK
<1>7. QED
  BY <1>1, <1>2, <1>3, <1>4, <1>5, <1>6 DEF Inv

(* The reader clears its own pty, whose child is reaped.                   *)
LEMMA ExitClearInv ==
  ASSUME Inv, NEW p \in Ptys, ExitClear(p)
  PROVE  Inv'
<1>1. TypeOK'
  BY DEF Inv, ExitClear, TypeOK, PlaceInv, LockInv
<1>2. PlaceInv'
  BY DEF Inv, ExitClear, PlaceInv, TypeOK
<1>3. LockInv'
  BY DEF Inv, ExitClear, PlaceInv, LockInv, TypeOK
<1>4. PtyInv'
  BY DEF Inv, ExitClear, PlaceInv, LockInv, PtyInv, TypeOK
<1>5. ReaderInv'
  BY DEF Inv, ExitClear, PlaceInv, LockInv, PtyInv, ReaderInv, TypeOK
<1>6. NoOrphanShell'
  BY DEF Inv, ExitClear, LockInv, PtyInv, ReaderInv, NoOrphanShell, TypeOK
<1>7. QED
  BY <1>1, <1>2, <1>3, <1>4, <1>5, <1>6 DEF Inv

(* The reader decides whether to respawn, without the lock.                *)
LEMMA AnnounceInv ==
  ASSUME Inv, NEW p \in Ptys, Announce(p)
  PROVE  Inv'
<1>1. TypeOK'
  BY DEF Inv, Announce, TypeOK, PlaceInv, LockInv
<1>2. PlaceInv'
  BY DEF Inv, Announce, PlaceInv, TypeOK
<1>3. LockInv'
  BY DEF Inv, Announce, PlaceInv, LockInv, TypeOK
<1>4. PtyInv'
  BY DEF Inv, Announce, PlaceInv, LockInv, PtyInv, TypeOK
<1>5. ReaderInv'
  BY DEF Inv, Announce, PlaceInv, LockInv, PtyInv, ReaderInv, TypeOK
<1>6. NoOrphanShell'
  BY DEF Inv, Announce, LockInv, PtyInv, ReaderInv, NoOrphanShell, TypeOK
<1>7. QED
  BY <1>1, <1>2, <1>3, <1>4, <1>5, <1>6 DEF Inv

(* The handler takes the lock to open a shell.                             *)
LEMMA ToggleEnterInv ==
  ASSUME Inv, NEW t \in Callers, ToggleEnter(t)
  PROVE  Inv'
<1>1. TypeOK'
  BY DEF Inv, ToggleEnter, TypeOK, PlaceInv, LockInv
<1>2. PlaceInv'
  BY DEF Inv, ToggleEnter, PlaceInv, TypeOK
<1>3. LockInv'
  BY DEF Inv, ToggleEnter, PlaceInv, LockInv, TypeOK
<1>4. PtyInv'
  BY DEF Inv, ToggleEnter, PlaceInv, LockInv, PtyInv, TypeOK
<1>5. ReaderInv'
  BY DEF Inv, ToggleEnter, PlaceInv, LockInv, PtyInv, ReaderInv, TypeOK
<1>6. NoOrphanShell'
  BY DEF Inv, ToggleEnter, LockInv, PtyInv, ReaderInv, NoOrphanShell, TypeOK
<1>7. QED
  BY <1>1, <1>2, <1>3, <1>4, <1>5, <1>6 DEF Inv

(* The handler takes the pty away and will kill it.                        *)
LEMMA ToggleLeaveInv ==
  ASSUME Inv, NEW t \in Callers, ToggleLeave(t)
  PROVE  Inv'
<1>1. TypeOK'
  BY DEF Inv, ToggleLeave, TypeOK, PlaceInv, LockInv
<1>2. PlaceInv'
  BY DEF Inv, ToggleLeave, PlaceInv, TypeOK
<1>3. LockInv'
  BY DEF Inv, ToggleLeave, PlaceInv, LockInv, TypeOK
<1>4. PtyInv'
  BY DEF Inv, ToggleLeave, PlaceInv, LockInv, PtyInv, TypeOK
<1>5. ReaderInv'
  BY DEF Inv, ToggleLeave, PlaceInv, LockInv, PtyInv, ReaderInv, TypeOK
<1>6. NoOrphanShell'
  BY DEF Inv, ToggleLeave, LockInv, PtyInv, ReaderInv, NoOrphanShell, TypeOK
<1>7. QED
  BY <1>1, <1>2, <1>3, <1>4, <1>5, <1>6 DEF Inv

(* stop() does the same and ends the session.                              *)
LEMMA StopInv ==
  ASSUME Inv, NEW t \in Callers, Stop(t)
  PROVE  Inv'
<1>1. TypeOK'
  BY DEF Inv, Stop, TypeOK, PlaceInv, LockInv
<1>2. PlaceInv'
  BY DEF Inv, Stop, PlaceInv, TypeOK
<1>3. LockInv'
  BY DEF Inv, Stop, PlaceInv, LockInv, TypeOK
<1>4. PtyInv'
  BY DEF Inv, Stop, PlaceInv, LockInv, PtyInv, TypeOK
<1>5. ReaderInv'
  BY DEF Inv, Stop, PlaceInv, LockInv, PtyInv, ReaderInv, TypeOK
<1>6. NoOrphanShell'
  BY DEF Inv, Stop, LockInv, PtyInv, ReaderInv, NoOrphanShell, TypeOK
<1>7. QED
  BY <1>1, <1>2, <1>3, <1>4, <1>5, <1>6 DEF Inv

(* The pty that was taken away is killed.                                  *)
LEMMA KillPtyInv ==
  ASSUME Inv, NEW t \in Callers, KillPty(t)
  PROVE  Inv'
<1>1. TypeOK'
  BY DEF Inv, KillPty, TypeOK, PlaceInv, LockInv
<1>2. PlaceInv'
  BY DEF Inv, KillPty, PlaceInv, TypeOK
<1>3. LockInv'
  BY DEF Inv, KillPty, PlaceInv, LockInv, TypeOK
<1>4. PtyInv'
  BY DEF Inv, KillPty, PlaceInv, LockInv, PtyInv, TypeOK
<1>5. ReaderInv'
  BY DEF Inv, KillPty, PlaceInv, LockInv, PtyInv, ReaderInv, TypeOK
<1>6. NoOrphanShell'
  BY DEF Inv, KillPty, LockInv, PtyInv, ReaderInv, NoOrphanShell, TypeOK
<1>7. QED
  BY <1>1, <1>2, <1>3, <1>4, <1>5, <1>6 DEF Inv

(* stop() ends with the worker's poison pill.                              *)
LEMMA PoisonInv ==
  ASSUME Inv, NEW t \in Callers, Poison(t)
  PROVE  Inv'
<1>1. TypeOK'
  BY DEF Inv, Poison, TypeOK, PlaceInv, LockInv
<1>2. PlaceInv'
  BY DEF Inv, Poison, PlaceInv, TypeOK
<1>3. LockInv'
  BY DEF Inv, Poison, PlaceInv, LockInv, TypeOK
<1>4. PtyInv'
  BY DEF Inv, Poison, PlaceInv, LockInv, PtyInv, TypeOK
<1>5. ReaderInv'
  BY DEF Inv, Poison, PlaceInv, LockInv, PtyInv, ReaderInv, TypeOK
<1>6. NoOrphanShell'
  BY DEF Inv, Poison, LockInv, PtyInv, ReaderInv, NoOrphanShell, TypeOK
<1>7. QED
  BY <1>1, <1>2, <1>3, <1>4, <1>5, <1>6 DEF Inv

(* A step of the console: at most the worker moves, between places where it *)
(* has no business with self.pty.                                          *)
LEMMA ConsoleStep ==
  ASSUME Inv, UNCHANGED <<life, pty, lock, child, held, tgt>>,
         NEW x \in {"get", "linux-setup", "other", "finish", "enter", "gone"},
         pc' = pc \/ (pc[Worker] \in {"get", "linux-setup", "other", "finish"}
                      /\ pc' = [pc EXCEPT ![Worker] = x])
  PROVE  PlaceInv' /\ LockInv' /\ PtyInv' /\ ReaderInv' /\ NoOrphanShell'
<1>1. PlaceInv'
  BY DEF Inv, PlaceInv, TypeOK
<1>2. LockInv'
  BY DEF Inv, PlaceInv, LockInv, TypeOK
<1>3. PtyInv'
  BY DEF Inv, PlaceInv, LockInv, PtyInv, TypeOK
<1>4. ReaderInv'
  <2>1. \A p \in Ptys : pc'[p] = pc[p]
    BY DEF Inv, TypeOK
  <2>2. \A a \in Threads : pc'[a] = "bind" => pc[a] = "bind" /\ tgt[a] \in Ptys
    BY DEF Inv, TypeOK, LockInv
  <2>3. QED
    BY <2>1, <2>2 DEF Inv, ReaderInv, TypeOK
<1>5. NoOrphanShell'
  BY DEF Inv, LockInv, PtyInv, ReaderInv, NoOrphanShell, TypeOK
<1>6. QED
  BY <1>1, <1>2, <1>3, <1>4, <1>5

(* A line typed at the console waits for the worker.                       *)
LEMMA HostLineInv ==
  ASSUME Inv, NEW t \in Callers, NEW line \in {"linux-setup", "other", Blank}, HostLine(t, line)
  PROVE  Inv'
<1>1. TypeOK'
  <2>1. queue' \in Seq({"linux-setup", "other", "poison"})
    <3>1. line \in {"linux-setup", "other", "poison"}
      BY DEF HostLine
    <3>2. queue \in Seq({"linux-setup", "other", "poison"}) /\ queue' = Append(queue, line)
      BY DEF Inv, HostLine, TypeOK
    <3>3. QED
      BY <3>1, <3>2, AppendProperties
  <2>2. QED
    BY <2>1 DEF Inv, HostLine, TypeOK
<1>2. QED
  BY <1>1, ConsoleStep DEF Inv, HostLine, TypeOK

(* Ctrl+C at the console sets the interrupt flag.                          *)
LEMMA CtrlCInv ==
  ASSUME Inv, NEW t \in Callers, CtrlC(t)
  PROVE  Inv'
<1>1. TypeOK'
  BY DEF Inv, CtrlC, TypeOK, PlaceInv
<1>2. QED
  BY <1>1, ConsoleStep DEF Inv, CtrlC, TypeOK

(* The worker takes a line, or ends.                                       *)
LEMMA WorkerTakesInv ==
  ASSUME Inv, WorkerTakes
  PROVE  Inv'
<1>1. TypeOK'
  <2>1. /\ queue' \in Seq({"linux-setup", "other", "poison"})
        /\ Head(queue) \in {"linux-setup", "other", "poison"}
    BY DEF Inv, WorkerTakes, TypeOK
  <2>2. CASE Head(queue) = "poison" \/ life # "running"
    BY <2>1, <2>2 DEF Inv, WorkerTakes, TypeOK
  <2>3. CASE ~(Head(queue) = "poison" \/ life # "running")
    BY <2>1, <2>3 DEF Inv, WorkerTakes, TypeOK
  <2>4. QED
    BY <2>2, <2>3
<1>2. QED
  BY <1>1, ConsoleStep DEF Inv, WorkerTakes, TypeOK

(* A host command returns.                                                 *)
LEMMA WorkerRunsInv ==
  ASSUME Inv, WorkerRuns
  PROVE  Inv'
<1>1. TypeOK'
  BY DEF Inv, WorkerRuns, TypeOK, PlaceInv
<1>2. QED
  BY <1>1, ConsoleStep DEF Inv, WorkerRuns, TypeOK

(* A host command is interrupted.                                          *)
LEMMA WorkerInterruptedInv ==
  ASSUME Inv, WorkerInterrupted
  PROVE  Inv'
<1>1. TypeOK'
  BY DEF Inv, WorkerInterrupted, TypeOK, PlaceInv
<1>2. QED
  BY <1>1, ConsoleStep DEF Inv, WorkerInterrupted, TypeOK

(* The worker clears _busy and may go on to open Alpine.                   *)
LEMMA WorkerFinishesInv ==
  ASSUME Inv, WorkerFinishes
  PROVE  Inv'
<1>1. TypeOK'
  BY DEF Inv, WorkerFinishes, TypeOK, PlaceInv
<1>2. QED
  BY <1>1, ConsoleStep DEF Inv, WorkerFinishes, TypeOK

(* A session that has not started has no pty and holds no lock.            *)
LEMMA InitInv == Init => Inv
<1> SUFFICES ASSUME Init
             PROVE  Inv
  OBVIOUS
<1>1. pc \in [Threads -> {"idle", "get", "none"}]
  BY DEF Init
<1>2. TypeOK
  <2>1. queue \in Seq({"linux-setup", "other", "poison"})
    BY EmptySeq DEF Init
  <2>2. QED
    BY <1>1, <2>1 DEF Init, TypeOK
<1>3. PlaceInv /\ LockInv /\ PtyInv /\ ReaderInv /\ NoOrphanShell
  BY <1>1 DEF Init, PlaceInv, LockInv, PtyInv, ReaderInv, NoOrphanShell
<1>4. QED
  BY <1>2, <1>3 DEF Inv

(* _enter_linux_pty(), whichever thread calls it.                          *)
LEMMA EnterInv ==
  ASSUME Inv, NEW a \in Threads, Enter(a)
  PROVE  Inv'
  BY EnterRefusedInv, SpawnFailsInv, SpawnInv, BindInv DEF Enter

(* Every step of every thread keeps the invariant.                         *)
LEMMA StepInv == Inv /\ [Next]_vars => Inv'
<1> SUFFICES ASSUME Inv, [Next]_vars
             PROVE  Inv'
  OBVIOUS
<1>1. CASE UNCHANGED vars
  BY <1>1 DEF vars, Inv, TypeOK, PlaceInv, LockInv, PtyInv, ReaderInv, NoOrphanShell
<1>2. ASSUME NEW t \in Callers, Request(t) \/ Enter(t) \/ Kill(t)
      PROVE  Inv'
  BY <1>2, StartInv, ToggleEnterInv, ToggleLeaveInv, StopInv, CtrlCInv, HostLineInv,
     EnterInv, KillPtyInv, PoisonInv DEF Request, Kill
<1>3. CASE WorkerStep
  BY <1>3, WorkerTakesInv, WorkerRunsInv, WorkerInterruptedInv, WorkerFinishesInv,
     EnterInv DEF WorkerStep
<1>4. ASSUME NEW p \in Ptys, Reader(p) \/ ChildExits(p) \/ ChildDetaches(p)
      PROVE  Inv'
  BY <1>4, ReadEndsInv, ReapInv, ExitCallbackInv, ExitStaleInv, ExitClearInv, AnnounceInv,
     EnterInv, ChildExitsInv, ChildDetachesInv DEF Reader
<1>5. QED
  BY <1>1, <1>2, <1>3, <1>4 DEF Next

-----------------------------------------------------------------------------
(* The inductive invariant of the pty's life cycle: mutual exclusion on    *)
(* self.pty, a reader for every pty, and no live shell out of reach.       *)
THEOREM Invariant == Spec => []Inv
  BY InitInv, StepInv, PTL DEF Spec

(* Types of the variables, for any number of handlers and ptys.            *)
THEOREM TypeCorrect == Spec => []TypeOK
<1>1. Inv => TypeOK
  BY DEF Inv
<1>2. QED
  BY <1>1, Invariant, PTL

(* Every live child is the session's pty or in the hands of the thread     *)
(* that holds the lock: _pty_exited only clears its own pty.               *)
THEOREM NoOrphan == Spec => []NoOrphanShell
<1>1. Inv => NoOrphanShell
  BY DEF Inv
<1>2. QED
  BY <1>1, Invariant, PTL

(* Two live shells would have to be the pty and one in the lock holder's   *)
(* hands, but who holds the lock has taken the pty away first.             *)
THEOREM OneAtATime == Spec => []OneShell
<1>1. Inv => OneShell
  <2> SUFFICES ASSUME Inv, NEW p \in Ptys, NEW q \in Ptys, Live(p), Live(q)
               PROVE  p = q
    BY DEF OneShell
  <2>1. CASE \E a \in Threads : pc[a] \in Holding
    BY <2>1 DEF Inv, NoOrphanShell, LockInv, PtyInv
  <2>2. CASE \A a \in Threads : pc[a] \notin Holding
    BY <2>2 DEF Inv, NoOrphanShell
  <2>3. QED
    BY <2>1, <2>2
<1>2. QED
  BY <1>1, Invariant, PTL

(* stop() leaves no shell and none can be opened after it.                 *)
THEOREM StopKills == Spec => []ShellDiesWithSession
<1>1. Inv => ShellDiesWithSession
  BY DEF Inv, ShellDiesWithSession, NoOrphanShell, PtyInv
<1>2. QED
  BY <1>1, Invariant, PTL

(* Whatever happens to the child, the reader of the session's pty has yet  *)
(* to report its end, or has failed to: its callback ran too early.        *)
THEOREM Noticed == Spec => []DeadShellNoticed
<1>1. Inv => DeadShellNoticed
  BY DEF Inv, DeadShellNoticed, ReaderInv
<1>2. QED
  BY <1>1, Invariant, PTL

=============================================================================
