------------------------------ MODULE HostConsole ------------------------------
(***************************************************************************)
(* The host console of a terminal session, in use while no Alpine shell is *)
(* open: the keyboard thread of pty_session.py, which collects lines and   *)
(* handles Ctrl+C, and the single worker thread, which runs the lines with *)
(* python_shell.py, in process or as a child process.  The two share the   *)
(* queues, the busy event and the interrupt latch without a lock, so every *)
(* access to them is a step of its own.                                    *)
(*                                                                         *)
(* The lines 1..n of a script are typed in order; all the model knows of a *)
(* line is its kind.  One process stands for a pipeline; "missing" is a    *)
(* pipeline whose last program does not exist.                             *)
(***************************************************************************)
EXTENDS Naturals, Sequences, FiniteSets

CONSTANTS
  Scripts,        \* sequences of kinds of lines
  MaxInterrupts,  \* bound: how often Ctrl+C is pressed
  Ctypes          \* whether ctypes can be imported

Kinds == {"program", "missing", "builtin", "python", "input", "open", "blank", "enter", "leave"}

ASSUME ConsoleAssumption ==
  Scripts \subseteq Seq(Kinds) /\ MaxInterrupts \in Nat /\ Ctypes \in BOOLEAN

VARIABLES
  script, typed,      \* the lines, and how many have been typed
  kpc,                \* the step of the keyboard thread
  mode,               \* "shell" or "repl"
  cmdq, stdinq,       \* _command_queue and _stdin_queue
  queuedIn,           \* the mode each line was put in the command queue with
  busy, flag, epoch,  \* _busy, _interrupt and _interrupt_epoch
  block,              \* _python_lines: the open compound statement
  pc, cur,            \* the step of the worker, the line it holds
  snap, interrupted,  \* the worker's locals epoch and interrupted
  left,               \* the type-ahead it is resubmitting
  depth, procs,       \* _subprocess_depth and _procs
  proc,               \* what became of the process of each line
  sig,                \* the processes SIGINT was sent to
  victims,            \* the processes a timer is about to kill
  pending,            \* KeyboardInterrupt set for the worker, not yet raised
  ran, gone           \* lines executed; lines read as input, handled or discarded

keyboard == <<script, typed, kpc>>
latch == <<flag, epoch, pending>>
locals == <<snap, interrupted, left>>
children == <<depth, procs, proc, sig, victims>>
lines == <<mode, queuedIn, cmdq, stdinq, block, ran, gone>>

vars == <<keyboard, latch, locals, children, lines, busy, pc, cur>>

Init ==
  /\ script \in Scripts /\ typed = 0 /\ kpc = "idle" /\ mode = "shell"
  /\ cmdq = <<>> /\ stdinq = <<>> /\ block = <<>> /\ ran = <<>> /\ gone = <<>>
  /\ busy = FALSE /\ flag = FALSE /\ epoch = 0 /\ pending = FALSE
  /\ pc = "get" /\ cur = 0 /\ snap = 0 /\ interrupted = FALSE /\ left = <<>>
  /\ depth = 0 /\ procs = {} /\ sig = {} /\ victims = {}
  /\ proc = [l \in DOMAIN script |-> "none"]
  /\ queuedIn = [l \in DOMAIN script |-> "shell"]

Live(l) == proc[l] = "live"

-----------------------------------------------------------------------------
(* The keyboard thread *)

\* What _submit_line does with a line when no command runs: mode switches and
\* blank lines are dealt with at once, the rest is for the worker.
AtOnce(l) ==
  \/ script[l] = "blank" /\ block = <<>>
  \/ script[l] = "enter" /\ mode = "shell"
  \/ script[l] = "leave" /\ mode = "repl"

Submit(l) ==
  IF AtOnce(l)
  THEN /\ mode' = CASE script[l] = "enter" -> "repl" [] script[l] = "leave" -> "shell"
                    [] OTHER -> mode
       \* leaving the REPL forgets an open block
       /\ block' = IF script[l] = "leave" THEN <<>> ELSE block
       /\ gone' = gone \o (IF script[l] = "leave" THEN block ELSE <<>>) \o <<l>>
       /\ UNCHANGED <<cmdq, queuedIn>>
  ELSE /\ cmdq' = Append(cmdq, l) /\ queuedIn' = [queuedIn EXCEPT ![l] = mode]
       /\ UNCHANGED <<mode, block, gone>>

\* Enter: _submit_line looks at busy, and acts on it in the next step.
TypeLine ==
  /\ kpc = "idle" /\ typed < Len(script)
  /\ typed' = typed + 1
  /\ kpc' = IF busy THEN "stdin" ELSE "submit"
  /\ UNCHANGED <<script, latch, locals, children, lines, busy, pc, cur>>

PutStdin ==
  /\ kpc = "stdin" /\ kpc' = "idle"
  /\ stdinq' = Append(stdinq, typed)
  /\ UNCHANGED <<script, typed, latch, locals, children, mode, queuedIn, cmdq, block, ran, gone, busy, pc, cur>>

SubmitLine ==
  /\ kpc = "submit" /\ kpc' = "idle"
  /\ Submit(typed)
  /\ UNCHANGED <<script, typed, latch, locals, children, stdinq, ran, busy, pc, cur>>

\* Ctrl+C: _interrupt_running.  Busy, it goes on into interrupt().
CtrlC ==
  /\ kpc = "idle" /\ epoch < MaxInterrupts
  /\ gone' = gone \o block /\ block' = <<>>
  /\ kpc' = IF busy THEN "bump" ELSE "idle"
  /\ UNCHANGED <<script, typed, latch, locals, children, mode, queuedIn, cmdq, stdinq, ran, busy, pc, cur>>

Bump ==
  /\ kpc = "bump" /\ kpc' = "set"
  /\ epoch' = epoch + 1
  /\ UNCHANGED <<script, typed, flag, pending, locals, children, lines, busy, pc, cur>>

SetFlag ==
  /\ kpc = "set" /\ kpc' = "signal"
  /\ flag' = TRUE
  /\ UNCHANGED <<script, typed, epoch, pending, locals, children, lines, busy, pc, cur>>

\* SIGINT to every registered process, and a timer that will kill them.
Signal ==
  LET alive == {l \in procs : Live(l)}
  IN /\ kpc = "signal" /\ kpc' = "inject"
     /\ sig' = sig \cup alive
     /\ victims' = victims \cup alive
     /\ UNCHANGED <<script, typed, latch, locals, depth, procs, proc, lines, busy, pc, cur>>

HasRunningProcesses == depth > 0 \/ \E l \in procs : Live(l)

\* _inject_keyboard_interrupt, into pure Python only and into a live thread.
Inject ==
  /\ kpc = "inject" /\ kpc' = "idle"
  /\ pending' = (pending \/ (Ctypes /\ pc # "dead" /\ ~ HasRunningProcesses))
  /\ UNCHANGED <<script, typed, flag, epoch, locals, children, lines, busy, pc, cur>>

Keyboard ==
  TypeLine \/ PutStdin \/ SubmitLine \/ CtrlC \/ Bump \/ SetFlag \/ Signal \/ Inject

-----------------------------------------------------------------------------
(* The worker thread.  A pending KeyboardInterrupt is raised before its next *)
(* step.                                                                     *)

Goto(from, to) == pc = from /\ ~ pending /\ pc' = to

Get ==
  /\ Goto("get", "snap") /\ cmdq # <<>>
  /\ cur' = Head(cmdq) /\ cmdq' = Tail(cmdq)
  /\ UNCHANGED <<keyboard, latch, locals, children, mode, queuedIn, stdinq, block, ran, gone, busy>>

Snap ==
  /\ Goto("snap", "busy") /\ snap' = epoch
  /\ UNCHANGED <<keyboard, latch, interrupted, left, children, lines, busy, cur>>

SetBusy ==
  /\ Goto("busy", "compare") /\ busy' = TRUE
  /\ UNCHANGED <<keyboard, latch, locals, children, lines, cur>>

\* clear_interrupt(epoch) compares first and clears after.
Compare ==
  /\ Goto("compare", IF snap = epoch THEN "clear" ELSE "run")
  /\ UNCHANGED <<keyboard, latch, locals, children, lines, busy, cur>>

Clear ==
  /\ Goto("clear", "run") /\ flag' = FALSE
  /\ UNCHANGED <<keyboard, epoch, pending, locals, children, lines, busy, cur>>

\* _run_line and the dispatch of execute(), in the mode the line was queued
\* with: in the REPL everything is Python.
Executor(l) ==
  CASE queuedIn[l] = "shell" /\ script[l] \in {"program", "missing"} -> "process"
    [] queuedIn[l] = "shell" /\ script[l] = "builtin" -> "builtin"
    [] OTHER -> "python"

\* A compound statement stays open until a blank line.
StaysOpen(l) == script[l] = "open" \/ (block # <<>> /\ script[l] # "blank")

RunProcess ==
  /\ Goto("run", "spawn") /\ Executor(cur) = "process"
  /\ depth' = depth + 1
  /\ ran' = Append(ran, cur)
  /\ UNCHANGED <<keyboard, latch, locals, procs, proc, sig, victims, mode, queuedIn, cmdq, stdinq, block, gone, busy, cur>>

RunBuiltin ==
  /\ Goto("run", "finish") /\ Executor(cur) = "builtin"
  /\ ran' = Append(ran, cur)
  /\ UNCHANGED <<keyboard, latch, locals, children, mode, queuedIn, cmdq, stdinq, block, gone, busy, cur>>

\* _run_python_line
OpenBlock ==
  /\ Goto("run", "finish") /\ Executor(cur) = "python" /\ StaysOpen(cur)
  /\ block' = Append(block, cur) /\ busy' = FALSE
  /\ UNCHANGED <<keyboard, latch, locals, children, mode, queuedIn, cmdq, stdinq, ran, gone, cur>>

RunPython ==
  /\ Goto("run", IF script[cur] = "input" THEN "input" ELSE "python")
  /\ Executor(cur) = "python" /\ ~ StaysOpen(cur)
  /\ ran' = ran \o Append(block, cur) /\ block' = <<>>
  /\ UNCHANGED <<keyboard, latch, locals, children, mode, queuedIn, cmdq, stdinq, gone, busy, cur>>

PythonEnds ==
  /\ Goto("python", "finish")
  /\ UNCHANGED <<keyboard, latch, locals, children, lines, busy, cur>>

\* _QueueInput.readline polls the latch before the queue.
ReadStdin ==
  /\ Goto("input", "python") /\ ~ flag /\ stdinq # <<>>
  /\ gone' = Append(gone, Head(stdinq)) /\ stdinq' = Tail(stdinq)
  /\ UNCHANGED <<keyboard, latch, locals, children, mode, queuedIn, cmdq, block, ran, busy, cur>>

InputInterrupted ==
  /\ Goto("input", "finish") /\ flag
  /\ UNCHANGED <<keyboard, latch, locals, children, lines, busy, cur>>

\* _exec_subprocess_inner: start, register, look at the latch, wait.
Spawn ==
  /\ Goto("spawn", "register") /\ proc' = [proc EXCEPT ![cur] = "live"]
  /\ UNCHANGED <<keyboard, latch, locals, depth, procs, sig, victims, lines, busy, cur>>

Register ==
  /\ Goto("register", "poll") /\ procs' = procs \cup {cur}
  /\ UNCHANGED <<keyboard, latch, locals, depth, proc, sig, victims, lines, busy, cur>>

PollFlag_Never ==
  /\ Goto("poll", IF script[cur] = "missing" THEN "leave" ELSE "wait")
  /\ UNCHANGED <<keyboard, latch, locals, children, lines, busy, cur>>

PollFlag ==
  /\ Goto("poll", IF script[cur] = "missing" THEN "leave" ELSE "wait")
  /\ sig' = IF flag /\ Live(cur) THEN sig \cup {cur} ELSE sig
  /\ UNCHANGED <<keyboard, latch, locals, depth, procs, proc, victims, lines, busy, cur>>

Wait ==
  /\ Goto("wait", "leave") /\ proc[cur] = "dead"
  /\ UNCHANGED <<keyboard, latch, locals, children, lines, busy, cur>>

\* The two finally clauses: forget the processes, alive or not.
LeaveSubprocess ==
  /\ Goto("leave", "finish")
  /\ procs' = procs \ {cur} /\ depth' = depth - 1
  /\ UNCHANGED <<keyboard, latch, locals, proc, sig, victims, lines, busy, cur>>

\* _finish_command
ReadInterrupted ==
  /\ Goto("finish", "unbusy") /\ interrupted' = flag
  /\ UNCHANGED <<keyboard, latch, snap, left, children, lines, busy, cur>>

ClearBusy ==
  /\ Goto("unbusy", "drain") /\ busy' = FALSE
  /\ UNCHANGED <<keyboard, latch, locals, children, lines, cur>>

Drain_Keeps ==
  /\ Goto("drain", IF interrupted THEN "unlatch" ELSE "resubmit")
  /\ left' = IF interrupted THEN <<>> ELSE stdinq
  /\ UNCHANGED <<keyboard, latch, snap, interrupted, children, lines, busy, cur>>

Drain ==
  /\ Goto("drain", IF interrupted THEN "unlatch" ELSE "resubmit")
  /\ stdinq' = <<>>
  /\ left' = IF interrupted THEN <<>> ELSE stdinq
  /\ gone' = IF interrupted THEN gone \o stdinq ELSE gone
  /\ UNCHANGED <<keyboard, latch, snap, interrupted, children, mode, queuedIn, cmdq, block, ran, busy, cur>>

Unlatch ==
  /\ Goto("unlatch", "get") /\ flag' = FALSE
  /\ UNCHANGED <<keyboard, epoch, pending, locals, children, lines, busy, cur>>

Resubmit ==
  /\ Goto("resubmit", "resubmit") /\ left # <<>>
  /\ Submit(Head(left)) /\ left' = Tail(left)
  /\ UNCHANGED <<keyboard, latch, snap, interrupted, children, stdinq, ran, busy, cur>>

Finished ==
  /\ Goto("resubmit", "get") /\ left = <<>>
  /\ UNCHANGED <<keyboard, latch, locals, children, lines, busy, cur>>

Step ==
  \/ Get \/ Snap \/ SetBusy \/ Compare \/ Clear
  \/ RunProcess \/ RunBuiltin \/ OpenBlock \/ RunPython
  \/ PythonEnds \/ ReadStdin \/ InputInterrupted
  \/ Spawn \/ Register \/ PollFlag \/ Wait \/ LeaveSubprocess
  \/ ReadInterrupted \/ ClearBusy \/ Drain \/ Unlatch \/ Resubmit \/ Finished

-----------------------------------------------------------------------------
(* KeyboardInterrupt raised in the worker *)

Raised == pending /\ pending' = FALSE

\* Waiting for a line, the worker swallows it.
RaisedIdle ==
  /\ Raised /\ pc = "get" /\ cmdq # <<>>
  /\ UNCHANGED <<keyboard, flag, epoch, locals, children, lines, busy, pc, cur>>

\* In user code _exec_python turns it into exit status 130.
RaisedInPython ==
  /\ Raised /\ pc \in {"python", "input"} /\ pc' = "finish"
  /\ UNCHANGED <<keyboard, flag, epoch, locals, children, lines, busy, cur>>

\* Elsewhere in the command the loop catches it and sets the latch again; the
\* finally clauses have run.  A line not yet executed is lost.
Subprocess == {"spawn", "register", "poll", "wait", "leave"}

RaisedInCommand ==
  /\ Raised /\ pc \in {"run"} \cup Subprocess /\ pc' = "finish"
  /\ flag' = TRUE
  /\ gone' = IF pc = "run" THEN Append(gone, cur) ELSE gone
  /\ procs' = procs \ {cur}
  /\ depth' = IF pc \in Subprocess THEN depth - 1 ELSE depth
  /\ UNCHANGED <<keyboard, epoch, locals, proc, sig, victims, mode, queuedIn, cmdq, stdinq, block, ran, busy, cur>>

\* Before the try statement and in its finally clause nothing catches it, and
\* the thread ends with whatever it had in hand.
Unprotected == {"snap", "busy", "compare", "clear", "finish", "unbusy", "drain", "unlatch", "resubmit"}

RaisedUnprotected ==
  /\ Raised /\ pc \in Unprotected /\ pc' = "dead"
  /\ gone' = gone \o (IF pc \in {"snap", "busy", "compare", "clear"} THEN <<cur>> ELSE <<>>) \o left
  /\ left' = <<>>
  /\ UNCHANGED <<keyboard, flag, epoch, snap, interrupted, children, mode, queuedIn, cmdq, stdinq, block, ran, busy, cur>>

Raise == RaisedIdle \/ RaisedInPython \/ RaisedInCommand \/ RaisedUnprotected

-----------------------------------------------------------------------------
(* The processes and the timers *)

ProcessExits == \E l \in DOMAIN proc :
  /\ Live(l) /\ proc' = [proc EXCEPT ![l] = "dead"]
  /\ UNCHANGED <<keyboard, latch, locals, depth, procs, sig, victims, lines, busy, pc, cur>>

Escalate_Again ==
  /\ victims # {}
  /\ sig' = sig \cup victims /\ victims' = {}
  /\ UNCHANGED <<keyboard, latch, locals, depth, procs, proc, lines, busy, pc, cur>>

\* SIGKILL, 1.5 s after SIGINT.
Escalate ==
  /\ victims # {}
  /\ proc' = [l \in DOMAIN proc |-> IF l \in victims THEN "dead" ELSE proc[l]]
  /\ victims' = {}
  /\ UNCHANGED <<keyboard, latch, locals, depth, procs, sig, lines, busy, pc, cur>>

Next == Keyboard \/ Step \/ Raise \/ ProcessExits \/ Escalate

\* Threads run and timers fire; users, user code and child processes need not
\* do anything (PythonEnds and ProcessExits have no fairness of their own).
Fairness ==
  /\ WF_vars(Step /\ pc # "python") /\ WF_vars(Raise) /\ WF_vars(Escalate)
  /\ WF_vars(PutStdin \/ SubmitLine \/ Bump \/ SetFlag \/ Signal \/ Inject)

Spec == Init /\ [][Next]_vars /\ Fairness

-----------------------------------------------------------------------------
(* Properties *)

Held == IF pc \in {"snap", "busy", "compare", "clear", "run"} THEN <<cur>> ELSE <<>>
HandedOver == IF kpc \in {"stdin", "submit"} THEN typed - 1 ELSE typed

\* Every line typed is in exactly one place: waiting, held by the worker, part
\* of an open block, executed, read as input or discarded.  None is lost when
\* it is typed while a command ends, and none runs twice (_submit_line,
\* _finish_command, _run_python_line).
EachLineOnce ==
  LET all == cmdq \o stdinq \o left \o Held \o block \o ran \o gone
  IN Len(all) = HandedOver /\ {all[i] : i \in DOMAIN all} = 1..HandedOver

\* The spawn race of _exec_subprocess_inner is closed: with the latch set, and
\* interrupt() past its snapshot of the processes, a program that is still
\* waited for has been sent SIGINT.
LatchedMeansSignalled ==
  flag /\ pc = "wait" /\ kpc # "signal" => cur \in sig \/ proc[cur] = "dead"

\* Ctrl+C ends what it caught: a command that reads input with the latch set,
\* and a program that interrupt() found registered, even one that ignores
\* SIGINT.  (The SIGINT of the spawn race has no timer behind it.)
InterruptEnds ==
  /\ (pc = "input" /\ flag) ~> (pc # "input")
  /\ (pc = "wait" /\ cur \in victims) ~> (pc # "wait")

\* The worker survives: a Ctrl+C that lands just after the command finished
\* "must never kill the worker thread" (pty_session.py, _exec_loop).
WorkerSurvives == pc # "dead"
=============================================================================
