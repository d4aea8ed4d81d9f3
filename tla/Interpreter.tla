------------------------------ MODULE Interpreter ------------------------------
(***************************************************************************)
(* One Python process runs the commands of every tab and of the legacy     *)
(* REST endpoints.  A command that runs in process swaps what belongs to   *)
(* the process as a whole, sys.stdout, sys.stdin, the working directory    *)
(* and the progress sinks, and puts back what it found; nothing keeps two  *)
(* threads from doing so at the same time (python_shell.py).  The requests *)
(* share one TerminalSession with one shell (terminal.py).                 *)
(*                                                                         *)
(* sys.stderr goes with sys.stdout, the sink of linuxenv with that of      *)
(* zpip.  A stream is named by the thread it belongs to.  Left out: user   *)
(* code that changes these things itself, sys.argv, the lines of the rc    *)
(* file, and programs, which are given their directory and their streams   *)
(* (HostConsole, one tab's view of what happens here; no name is in both   *)
(* modules).                                                               *)
(***************************************************************************)
EXTENDS Naturals, SequencesExt

CONSTANTS
  Tabs,       \* the worker threads of the tabs' sessions
  Requests,   \* the threads of the HTTP server: 4
  Dirs, Home, \* directories
  MaxCommands,\* bound: commands that run in process or change the directory
  MaxOverlap, \* bound: commands that run in process at the same time
  None        \* no thread

ASSUME InterpreterAssumption ==
  /\ Tabs \cap Requests = {} /\ None \notin Tabs \cup Requests /\ Home \in Dirs
  /\ MaxCommands \in Nat /\ MaxOverlap \in Nat

Threads == Tabs \cup Requests

VARIABLES
  global,       \* what the process has now, for each thing that is swapped
  step,         \* the step of each thread
  todo, held,   \* what it has still to swap; what it will put back, last first
  saved,        \* what it found
  cwd,          \* PythonShell.cwd, of each tab and of each TerminalSession
  session,      \* _terminal_session, named by the thread that made it
  mine,         \* the session each request was given
  shown,        \* TerminalSession._cwd
  removed,      \* directories that were removed
  commands,     \* commands so far that ran in process or changed the directory
  order,        \* those that run in process now, by their start
  nested        \* whether they have been properly nested so far

swaps == <<global, todo, held, saved>>
legacy == <<session, mine, shown>>
history == <<commands, order, nested>>
processVars == <<swaps, step, cwd, legacy, removed, history>>

Things == {"stdout", "stdin", "dir", "progress"}

ProcessInit ==
  /\ global = [x \in Things |-> IF x = "dir" THEN Home ELSE None]
  /\ step = [t \in Threads |-> "idle"]
  /\ todo = [t \in Threads |-> <<>>] /\ held = [t \in Threads |-> <<>>]
  /\ saved = [t \in Threads |-> [x \in Things |-> None]]
  /\ cwd = [t \in Threads |-> Home] /\ shown = [t \in Threads |-> Home]
  /\ session = None /\ mine = [t \in Threads |-> None]
  /\ removed = {} /\ commands = 0 /\ order = <<>> /\ nested = TRUE

Moves(t, from, to) == step[t] = from /\ step' = [step EXCEPT ![t] = to]

\* The PythonShell a thread runs its command with.
Shell(t) == IF t \in Tabs THEN t ELSE mine[t]

-----------------------------------------------------------------------------
(* What a command swaps *)

InProcess == {"python", "zmux"}

\* _exec_python and _exec_zmux_command.  A request has no stdin provider.
Swapped(t, k) ==
  LET stdin == IF t \in Tabs THEN <<"stdin">> ELSE <<>>
  IN CASE k = "python" -> <<"stdout">> \o stdin \o <<"dir">>
       [] k = "zmux" -> <<"progress", "stdout">>

\* _chdir_context reads the directory, and makes do with home if it is gone.
Found(x) == IF x = "dir" /\ global.dir \in removed THEN Home ELSE global[x]

Save(t) ==
  /\ Moves(t, "save", "set")
  /\ saved' = [saved EXCEPT ![t][Head(todo[t])] = Found(Head(todo[t]))]
  /\ UNCHANGED <<global, todo, held, cwd, legacy, removed, history>>

\* chdir to a directory that is gone is given up silently; without an output
\* sink, as in a request, the progress sinks stay what they are.
Own(t, x) ==
  CASE x = "dir" -> IF cwd[Shell(t)] \in removed THEN global.dir ELSE cwd[Shell(t)]
    [] x = "progress" /\ t \in Requests -> global.progress
    [] OTHER -> t

Set(t) ==
  LET x == Head(todo[t])
  IN /\ Moves(t, "set", IF Len(todo[t]) = 1 THEN "body" ELSE "save")
     /\ global' = [global EXCEPT ![x] = Own(t, x)]
     /\ held' = [held EXCEPT ![t] = <<x>> \o @] /\ todo' = [todo EXCEPT ![t] = Tail(@)]
     /\ UNCHANGED <<saved, cwd, legacy, removed, history>>

\* The user's code or the command of cli.main is done.
Return(t) ==
  /\ Moves(t, "body", "finally")
  /\ nested' = (nested /\ Last(order) = t)
  /\ UNCHANGED <<swaps, cwd, legacy, removed, commands, order>>

Dropped(t) ==
  /\ held' = [held EXCEPT ![t] = Tail(@)]
  /\ saved' = [saved EXCEPT ![t][Head(held[t])] = None]

(* Faulty variant: a constant, rather than what was found, is put back *)
PutBack_Original(t) ==
  LET x == Head(held[t])
  IN /\ step[t] = "finally" /\ held[t] # <<>>
     /\ global' = [global EXCEPT ![x] = IF x = "dir" THEN Home ELSE None]
     /\ Dropped(t)
     /\ UNCHANGED <<step, todo, cwd, legacy, removed, history>>

\* The finally clauses, innermost first.
PutBack(t) ==
  LET x == Head(held[t])
  IN /\ step[t] = "finally" /\ held[t] # <<>>
     /\ global' = [global EXCEPT ![x] =
          IF x = "dir" /\ saved[t][x] \in removed THEN @ ELSE saved[t][x]]
     /\ Dropped(t)
     /\ UNCHANGED <<step, todo, cwd, legacy, removed, history>>

\* KeyboardInterrupt injected into a tab's worker, at any statement.  What was
\* swapped last stays as it is if the try statement that would put it back has
\* not begun, or its finally clause is cut short.
Interrupted(t) ==
  /\ t \in Tabs /\ step[t] \in {"save", "set", "body", "finally"}
  /\ step' = [step EXCEPT ![t] = "finally"] /\ todo' = [todo EXCEPT ![t] = <<>>]
  /\ \/ step[t] # "finally" /\ held' = held
     \/ step[t] # "set" /\ held[t] # <<>> /\ held' = [held EXCEPT ![t] = Tail(@)]
  /\ saved' = [saved EXCEPT ![t] = [x \in Things |->
       IF \E i \in DOMAIN held'[t] : held'[t][i] = x THEN saved[t][x] ELSE None]]
  /\ nested' = (nested /\ Len(order) = 1)
  /\ UNCHANGED <<global, cwd, legacy, removed, commands, order>>

\* The command is over; a request goes on in TerminalSession.
Done(t) ==
  /\ Moves(t, "finally", IF t \in Tabs THEN "idle" ELSE "collect") /\ held[t] = <<>>
  /\ \E i \in DOMAIN order : order[i] = t /\ order' = RemoveAt(order, i)
  /\ UNCHANGED <<swaps, cwd, legacy, removed, commands, nested>>

\* execute: where a command of each kind starts.
Begin(t, k) ==
  /\ Len(order) < MaxOverlap /\ commands < MaxCommands /\ commands' = commands + 1
  /\ step' = [step EXCEPT ![t] = "save"]
  /\ todo' = [todo EXCEPT ![t] = Swapped(t, k)]
  /\ order' = Append(order, t)
  /\ nested' = (order = <<>> \/ (nested /\ step[Last(order)] = "body"))
  /\ UNCHANGED <<global, held, saved, cwd, legacy, removed>>

\* _cmd_cd
Cd(t) ==
  /\ commands < MaxCommands /\ commands' = commands + 1
  /\ \E d \in Dirs \ removed : cwd' = [cwd EXCEPT ![Shell(t)] = d]

-----------------------------------------------------------------------------
(* The worker of a tab *)

TabRuns(t) == \E k \in InProcess : step[t] = "idle" /\ Begin(t, k)

TabCd(t) ==
  /\ step[t] = "idle" /\ Cd(t)
  /\ UNCHANGED <<swaps, step, legacy, removed, order, nested>>

-----------------------------------------------------------------------------
(* A request: the endpoints of server.py and TerminalSession *)

\* An endpoint that needs the session calls get_session: the global is tested,
\* assigned and returned in three steps.
GetSession(r) ==
  /\ Moves(r, "idle", IF session = None THEN "make" ELSE "given")
  /\ UNCHANGED <<swaps, cwd, legacy, removed, history>>

MakeSession(r) ==
  /\ Moves(r, "make", "given") /\ session' = r
  /\ UNCHANGED <<swaps, cwd, mine, shown, removed, history>>

\* Status and prompt only read, nor is there ever a process to send input to
\* or to stop; "exit" only sets the status.
GivenForAnswer(r) ==
  /\ Moves(r, "given", "idle")
  /\ UNCHANGED <<swaps, cwd, legacy, removed, history>>

GivenToExecute(r) ==
  /\ Moves(r, "given", "execute")
  /\ mine' = [mine EXCEPT ![r] = session]
  /\ UNCHANGED <<swaps, cwd, session, shown, removed, history>>

\* PythonShell.execute and execute_command.
ExecuteInProcess(r) == \E k \in InProcess : step[r] = "execute" /\ Begin(r, k)

ExecuteCd(r) ==
  /\ Moves(r, "execute", "collect") /\ Cd(r)
  /\ nested' = (nested /\ \A i \in DOMAIN order : Shell(order[i]) # mine[r])
  /\ UNCHANGED <<swaps, legacy, removed, order>>

\* A program, another built-in, an error: nothing here changes.
ExecuteOther(r) ==
  /\ Moves(r, "execute", "collect")
  /\ UNCHANGED <<swaps, cwd, legacy, removed, history>>

(* Faulty variant: only the request that made the session follows the shell *)
Collect_Once(r) ==
  /\ Moves(r, "collect", "idle")
  /\ shown' = [shown EXCEPT ![mine[r]] = IF session = r THEN cwd[mine[r]] ELSE @]
  /\ mine' = [mine EXCEPT ![r] = None]
  /\ UNCHANGED <<swaps, cwd, session, removed, history>>

\* After the command self._cwd follows the shell, a copy of one attribute to
\* another that CPython (3.14 in the app) does not interrupt; the prompt is
\* read, and the result sent.
Collect(r) ==
  /\ Moves(r, "collect", "idle")
  /\ shown' = [shown EXCEPT ![mine[r]] = cwd[mine[r]]]
  /\ mine' = [mine EXCEPT ![r] = None]
  /\ UNCHANGED <<swaps, cwd, session, removed, history>>

Request(r) ==
  \/ GetSession(r) \/ MakeSession(r) \/ GivenForAnswer(r) \/ GivenToExecute(r)
  \/ ExecuteInProcess(r) \/ ExecuteCd(r) \/ ExecuteOther(r) \/ Collect(r)

-----------------------------------------------------------------------------
\* rm -r, by anyone.
RmTree == \E d \in Dirs \ (removed \cup {Home}) :
  /\ removed' = removed \cup {d}
  /\ UNCHANGED <<swaps, step, cwd, legacy, history>>

ProcessNext ==
  \/ \E t \in Threads : Save(t) \/ Set(t) \/ Return(t) \/ PutBack(t) \/ Done(t)
  \/ \E t \in Tabs : TabRuns(t) \/ TabCd(t) \/ Interrupted(t)
  \/ \E r \in Requests : Request(r)
  \/ RmTree

ProcessSpec == ProcessInit /\ [][ProcessNext]_processVars

-----------------------------------------------------------------------------
(* Properties *)

\* What a command finds in the process is its own: its screen, its keyboard,
\* its progress bar and the directory its cd went to.
Isolated(t) ==
  \A i \in DOMAIN held[t] :
    CASE held[t][i] = "dir" -> cwd[Shell(t)] \in {global.dir} \cup removed
      [] held[t][i] = "progress" -> t \in Tabs => global.progress = t
      [] OTHER -> global[held[t][i]] = t

\* The process is shared and nothing is locked; all the same the command
\* started last has the process to itself as long as commands are nested, one
\* beginning and ending while another is in the user's code, and whatever
\* interrupted or interleaved commands left behind before (_exec_python,
\* _stdin_context, _chdir_context, _exec_zmux_command).
NestedRunsIsolated ==
  order # <<>> /\ nested /\ step[Last(order)] = "body" => Isolated(Last(order))

\* The prompt and the status of the REST session tell the directory its next
\* command will run in, once no request is busy with the session, however
\* requests overlapped (TerminalSession.execute).
PromptIsTrue ==
  \A s \in Requests : (\A r \in Requests : mine[r] # s) => shown[s] = cwd[s]
=============================================================================
