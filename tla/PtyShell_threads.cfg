CONSTANTS
  t1 = t1
  Callers = {t1}
  Worker = Worker
  NoThread = NoThread
  PtyBound = 3
  QueueBound = 1
SPECIFICATION Spec
INVARIANT OneShell
INVARIANT NoOrphanShell
INVARIANT ShellDiesWithSession
INVARIANT DeadShellNoticed
PROPERTY ChildrenReaped
PROPERTY StopEndsThreads
CHECK_DEADLOCK FALSE
