# ZMUX / ZABAWHEELS in TLA+

ZMUX is a terminal application for Android: a Python process with a WebView
front end. Behind the tab strip of the page it runs terminal sessions, each
with a real pseudo terminal around an Alpine Linux shell (proot). It comes with
a package manager (`zpip`) and, in the same repository, with the ZABAWHEELS
pipeline that builds, promotes and indexes wheels.

This directory holds TLA+ models of that code, TLC configurations that check
them and TLAPS proofs about them. `PROJECT.json` maps every definition to the
source lines it models, and lists the runs, the mutants that show each property
can fail, the hazards and the theorems.

## Inventory

| Component | State | Operations | Interacts with | What is hard |
|---|---|---|---|---|
| Session manager `app/zmux/sessions.py` | `_sessions`, `_order`, `_active`, `_counter`, `_cols/_rows`, one lock | create, switch, close, resize, snapshot, emit callback | called by websocket handler threads; calls sessions and `broadcast` | calls made after the lock is released, output emitted while the active tab changes |
| WebSocket server `ws_server.py` | `clients`, one lock; per client a thread | connect (hello, replay), broadcast, session actions, input and resize, drop | session manager, page | dead clients found during a broadcast, replay racing live output |
| Terminal session `pty_session.py` | `pty`, `is_running`, `_busy`, `_awaiting_alpine`, two queues, scrollback, line buffer | start, stop, toggle, write_input, worker loop, exit callback | handler threads, its worker, a reader thread per pty | four kinds of threads, one lock that not all of them take |
| Pseudo terminal `realpty.py` | master descriptor, pid, `_exited`, `_reaped` | spawn, read loop, reap, kill, write, resize | kernel, session's callback | a child that exits early, late, or leaves its terminal and lives on |
| Package manager `zpip.py` | `installed.json`, `user_packages/`, staging directories | install (recursive), uninstall, verify, search | network, worker thread, REST server | failure or Ctrl+C between any two file operations, shared dependencies |
| Host interpreter `python_shell.py`, `streams.py` | running processes, interrupt flag and epoch, cwd | run, pipelines, interrupt | session worker, REST server | interrupt against spawn, against the end of a command, timers |
| Alpine environment `linuxenv.py` | rootfs, staging, cached tarball | install, uninstall, build argv | session worker | crash in the swap, two set-ups at once |
| REST server and boot `main.py`, `server.py`, `terminal.py`, `security.py` | bound sockets, token file, global manager, legacy session | bind with retry, publish the port, register callbacks, requests | WebView loader, websocket server | a port still in use, an older process beside a new one, pages older than the process they reach |
| Package pipeline `scripts/`, `build-package.yml` | recipes, sources, locks, manifests, index, release assets | validate, build, inspect, index, release, push | CI jobs, developers | jobs on stale checkouts, a job that dies between the deletion, the upload and the push |
| Java bridge `javabridge.py` | class cache | prime, get | any thread | class loader depends on the thread |
| Storage, paths, keystore, diagnostics, CLI | files | set-up and reports | - | - |
| Web interface `templates/terminal.html` | xterm.js screen, tab strip, port and token rendered into it | connect, retry | websocket protocol | it can stop reading, vanish, outlive its process |

What makes them correct, in a sentence each: the registry of tabs is consistent
and never empty, and the page shows the active tab's output, whole and alone;
a session has one live shell, none out of reach, and leaves neither shell nor
thread behind; a package operation damages no other package, records only what
is in place and undoes what it began; every line typed is run once and Ctrl+C
ends what it caught and nothing else; a broadcast always ends and no client
misses one unnoticed; a page gets a terminal from the process that served it;
the index offers what was built from the locked sources and can be downloaded.

## The models

### Sessions (`Sessions.tla`, `MCSessions.tla`)

The session manager with the websocket handlers that call it and the threads
that emit output. A handler's operation is split at every acquisition and
release of the manager's lock and between unlocked statements that read or
write shared state; the place of each thread is in `pc`, its locals in `loc`.
`create()` holds the lock while it broadcasts and starts the session, so its
steps carry `lock`. `close()` is `ClosePop` (under the lock), then `CloseStop`,
`CloseCheck` (nothing left: create; otherwise switch), `CloseReread` and
`CloseBlank` (outside it), as in lines 139-163.

Output is abstracted to chunks `<<session, n>>`, a screen to the set of chunks
written since the last reset. An emitter tests `_active` in one step
(`EmitTest`) and broadcasts in a later one (`EmitSend`). A broadcast to all
clients is one step. A client that connects has either a blank terminal (page
load) or what it showed before (reconnect).

### One session's shell (`PtyShell.tla`)

The life of the Alpine shell: handlers (`Callers`) that start, toggle, stop
and type, the session's worker, one reader thread per pty, and the children,
which exit or close their terminal when they like. The session's RLock is
modelled by its holder; `_pty_exited` releases it before it announces and
respawns, which gives the reader the places "exited", "announce" and "enter".
`Spawn` and `Bind` are two steps because the child runs, and its reader may
call back, before `RealPtyProcess()` has returned to `_enter_linux_pty`.
`fork()` may fail at any time (`SpawnFails`), and does beyond `PtyBound`.

A killed child takes its descendants with it: proot runs with
`--kill-on-exit` (linuxenv.py:393-400), so nothing outside the process group
keeps the slave side of the pty open and the reader always sees the end.

### zpip (`Zpip.tla`, `MCZpip.tla`, `PackageStore.tla`)

`install()` and `uninstall()`. `install()` calls itself for dependencies and
`uninstall()` in its rollback: `stack` holds the calls in progress, each a
record of its locals and its phase. Every file that is moved, restored or
removed is a step; `Fail` is the exception that may follow any of them,
`Cancel` the KeyboardInterrupt or process death that no `except Exception`
sees. Download, checksum, extraction and smoke import work in the call's own
staging directory and are one step. A file's content is the release it came
from; the index may answer a request with any version, as the curated one does.

`PackageStore` says what the database promises: records come and go one at a
time, and a package is recorded only while everything it requires is recorded
in a version it accepts. `StoreSpec` checks that `Zpip` implements it, with `db`
for `db`.

### linux-setup (`LinuxEnv.tla`)

`install()` of `linuxenv.py`, run by any number of session workers (`Setups`) on
the same tarball and the same staging directory. Each file operation is a step;
`rmtree` lists a directory, removes what it listed and then the directory if it
is empty by then; extraction and `_bootstrap` recreate directories that are
missing. The tarball is an inode with content and a path, since one setup may
truncate or unlink it while another one writes or reads it. `Crash` kills the
process and keeps the disk; `Interrupted` is the KeyboardInterrupt of Ctrl+C, which
the `except Exception` of the download does not catch; `rmtree` ignores what it
cannot remove (`ClearSkips`) and a `mkdir` outside the `try` may fail (`MkdirFails`). The
live directory starts absent or broken by the user, who is root in it.

Two history variables, which the code has not, tell the cases apart: `overlapped`
is set when a setup begins while another one is in progress, and `stale` holds the
setups that were past their test of line 529 when another one's swap was made.

`PtyShell` uses this component through `installed` only: its `linux-setup` may
leave it TRUE or FALSE.

### The host console (`HostConsole.tla`, `MCHostConsole.tla`)

A session without an Alpine shell: the keyboard thread (`_submit_line`,
`_interrupt_running`, `interrupt()`), the worker (`_exec_loop`, `_run_line`,
`_exec_subprocess_inner`, `_finish_command`), the child processes and the kill
timers. The two threads share `_busy`, the queues, the interrupt flag and its
epoch without a lock, so every access is a step. A line is a number in a script
and its kind is what decides its path: a program, a pipeline with a missing
program, a built-in, Python, Python that reads input, an open block, a blank
line, entering and leaving the REPL. A KeyboardInterrupt injected by ctypes is
`pending` until the worker's next step, where `Raise` says which handler, if
any, catches it: that is decided by the statement the worker is at.

`PtyShell` has this worker as a queue of commands only; `HostConsole` is what one
of its commands does.

### One process for all (`Interpreter.tla`, `MCInterpreter.tla`)

The commands of all tabs and of the REST requests that run inside the Python
process (user code, and app commands such as `zpip`) and swap `sys.stdout`,
`sys.stdin`, the working directory and the progress sinks, which exist once.
Each swap is two steps, `Save` and `Set`, each restoration one, `PutBack`;
`Interrupted` is the KeyboardInterrupt that falls between any of them.
`get_session()` and `TerminalSession` are steps of a request. A stream is the name
of the thread it belongs to. `order` and `nested` record whether the commands
began and ended like brackets; the code has no such variables.

### The websocket server (`WsServer.tla`)

One handler thread per connection, the reader thread that broadcasts, and the
pages, which stop reading ("full"), resume and go away when they like.
`clients_lock` is a variable: the reader acquires and releases it in separate
steps, so what happens while it is held shows. `lacks` records to whom
the last broadcast was due and not sent. A send to a page that does not read
ends by the send timeout, never by blocking for good. `close()` of a descriptor
does not wake a thread that is inside `recv()` on it, and the connection stays
open at the other end until that thread leaves: `Frame` and `EndOfStream` follow
the kernel here.

`Sessions` takes a broadcast to be one step; `WsServer` shows what it consists of
and that it ends.

### The start (`Boot.tla`)

`main.py`, the token of `security.py` and `run_server()`, step by step, for
several launches that may live side by side (an old process not yet killed) or
one after the other, each killed at any step. Other programs may hold any port
at any time. On Android the HTTP port is fixed and shared by `SO_REUSEPORT`;
elsewhere the next ten are tried. The websocket port is the first free one above it that
Chromium does not restrict. A page keeps the port and the token rendered into it
and connects to whoever has that port. `get_manager()` is a test and an
assignment, in the main thread and in every handler.

### The wheel pipeline (`WheelPipeline.tla`, `MCWheelPipeline.tla`)

The `build-package` workflow over the scripts: `Dispatch` fixes the commit,
`Validate` is recipes, source locks and the dry run, then `BuildWheel`,
`InspectArtifact`, `ManifestAndIndex`, `DeleteAsset` and `UploadAsset` (what `gh release
upload --clobber` does, one after the other), `CommitIndex`. Each job has its
own checkout; the concurrency group admits one job per package, version and ABI;
`git push` is refused when the branch has moved. Developers commit recipes,
sources, runtime locks and a regenerated index in between. A hash is the thing it
is the hash of.

## What is checked

| Run | Question | Bounds |
|---|---|---|
| `registry` | any interleaving of two handlers: tab order, cap, `_active`, no empty tab strip at rest, no leaked session | 2 handlers, cap 2, 4 ids, 1 lost connection |
| `view` | what the client ends up seeing: an active session, its whole output, its geometry, a current strip | 1 handler, 2 emitters, cap 2, 4 ids, 2 chunks, 2 geometries |
| `shell` | one live shell, none orphaned or surviving stop(), dead shells noticed and reaped, readers end after stop(), and the worker unless a command keeps it | 1 handler, worker, 3 ptys, 1 queued command |
| `installs` | failures and cancels in install/uninstall with a diamond of dependencies, a collision, a cycle and a moving file; the database refines `PackageStore` | 4 packages, 2 versions, 4 files, 1 failure per call |
| `setup` | linux-setup by two workers, with failures, Ctrl+C and crashes: only a setup overtaken by another one's swap takes an environment away; as long as none have overlapped, what counts as installed is whole, success is real, a setup that ends by itself leaves nothing behind | 2 workers, any number of setups, 2 crashes, 2 parts of the tarball, 3 of the content |
| `console` | no line lost or run twice, the race of Ctrl+C and a starting program is closed, Ctrl+C ends what it caught | 8 scripts of 4 lines, 2 Ctrl+C |
| `web` | every broadcast and push ends, a client that missed one is no client, a page that went away is forgotten | 2 pages, any number of connections |
| `boot` | a page gets a terminal from its process, old pages are let in, keys reach the sessions shown | 2 launches, 2 pages, 2 HTTP and 3 websocket ports, one of them restricted, on Android and elsewhere |
| `wheels` | the index offers only wheels of locked sources, covers every manifest; a manifest is pushed only while its asset is there with its hash, and stays | 2 jobs, 1 package, 2 versions, 2 ABIs, 2 channels, 2 sources, 2 runtimes, 2 commits by developers |
| `overlap` | a command has its screen, keyboard and directory to itself when commands are nested, or alone after any mess; the REST prompt is true at rest | 2 tabs, 2 requests, 2 directories, 3 commands, 2 at once |
| `two_setups`, `late_interrupt` | statements of comments that the code does not keep (below) | 2 setups; as `console` |

Why the bounds are enough for the questions asked. Two handlers are what a race
of two operations needs, and a cap of two reaches the limit, the last tab and a
neighbour; four ids allow the initial tab, its replacement and one more
creation by each handler. Two chunks and two emitters separate "before" from
"after" a switch in each of two sessions. Three ptys give a shell, the stale
reader of the one before and a third spawned by a respawn that races a toggle;
the readers are themselves callers of `_enter_linux_pty`, so the race of two
openers needs no second handler. In `installs`, `a` requires `b` and `c`, `b`
requires another range of `c`: the version picked for one can be refused by the
other, and `c` is installed twice from one stale `db_before`; file `x` leaves
`a` in its second release and enters `b` in its own. In `setup`, "busybox" and
"release" are what `is_installed()` looks at and "rest" is all it does not see;
the second crash can hit the setup that follows the first. In `console`, four
lines allow a command, type-ahead during it, a line typed while it ends and one
after that; the second Ctrl+C can meet the command that follows the first. In
`web`, one page can fail in the middle of a broadcast to two, while the other's
handler pushes. In `boot`, the second launch can take the ports the first left
or has to go beside it, and port 2, restricted, lies among those it tries. In
`overlap`, the third command can run alone after two that were interleaved, or
inside one of them. In `wheels`, two jobs give a stale checkout, two ABIs let them run side by side and
two commits change the source and the runtime lock during a job.

Symmetry (`Permutations` of handlers and of emitters, of jobs, of tabs and of
requests, of setups) is used in the runs of `Sessions`, `WheelPipeline`, `Interpreter`
and in `setup`,
which check safety only. The runs of `Sessions` and `PtyShell` do not repeat
their `TypeOK`, which is proved. `view` starts in the state that a
`Connect .. Push` with nothing else running reaches (`ConnectedInit`), and so does
`ScreenWhenConnected`; `registry` and the other theorems start from `get_manager()`. Deadlock checking is off where the
system really may stop: `PtyShell` (a stopped session), `HostConsole` (the script
is typed), `Boot` (all launches dead), `WheelPipeline` (all jobs over), `Interpreter` (the
bound on commands).

### Fairness

`Sessions`, `Zpip`, `LinuxEnv`, `WheelPipeline` and `Interpreter` have none: all their properties are
safety, "at rest" where the code promises an outcome. Elsewhere:

* `PtyShell`: weak fairness of each thread for what it has begun. The operating
  system schedules every thread, and each step's guard is the code's own blocking
  (the lock, a queue, the reaping of a killed child). Nobody has to type, toggle
  or stop, and no child has to exit. No command has to return (`WorkerRuns`,
  `WorkerInterrupted` are not in it): `stop()` interrupts a command's child processes
  (pty_session.py:271) and, unlike Ctrl+C, raises nothing in Python code, so the worker of
  a closed tab that runs `while True: pass` stays. `StopEndsThreads` promises the end of
  the worker only from outside a command.
* `HostConsole`: the worker and the keyboard thread go on with what they began, a
  pending exception is raised and a timer fires. User code (`PythonEnds`) and
  child processes (`ProcessExits`) need never end, and nobody has to type.
* `WsServer`: strong fairness of the broadcast and of each handler, since
  `clients_lock` is taken and released by others for ever and a waiter of a
  CPython lock gets it in the end; a send ends because the socket has a send
  timeout. The pages owe nothing: `Frame`, `Resume`, `Depart` are not in it.
* `Boot`: the main thread and the handlers run; a page connects on load and
  when it was cut off (ten tries 1.5 s apart, then on the user's tap). Nobody has
  to launch, load or kill anything.

### Disagreements

Statements of comments and documents that a run refutes:

| Run | The text says | The code does |
|---|---|---|
| `two_setups` | never a half-installed rootfs at the live path (linuxenv.py:589) | one staging directory for all sessions: a second setup clears it before the swap of the first |
| `late_interrupt` | a Ctrl+C that lands late must never kill the worker thread (pty_session.py:689) | `_finish_command()` is in the `finally`, where nothing catches the injected KeyboardInterrupt |

Others are visible in the models, without a run of their own:

| The text says | The code does |
|---|---|
| `close()` never leaves the user at a dead terminal (sessions.py:138, 157) | the re-read and the clearing of `_active` (161) are outside the lock: two closes by two clients leave tabs open and none active |
| switching never shows a mix of two sessions (sessions.py:129) | a chunk tested against the old `_active` (71) is broadcast after the reset |
| a new tab is a new page, wiped first (sessions.py:91) | the tab that replaces the last one is created with `_active` None (90) and no reset is sent |
| an exited shell is replaced with a fresh pty (pty_session.py:611) | `holder["pty"]` is set after the reader started (583): an immediate exit loses its callback |
| any failure is fully rolled back (docs/ARCHITECTURE.md:81) | obsolete files are removed without a backup (zpip.py:741) before the database is saved |
| cancel must roll back (ZABAWHEELS.md:1180) | KeyboardInterrupt is not an `Exception` (zpip.py:778) |
| install() is idempotent (linuxenv.py:528) | the test (529) comes before a download of minutes: the swap (590-592) of a setup in another tab, begun before the first one's, removes the environment the first one installed |
| a wheel's SHA-256 matches the artifact (ZABAWHEELS.md:863), artifacts stay immutable (docs/COMPATIBILITY.md:62, toolchain/README.md:28) | the asset is deleted and uploaded anew (build-package.yml:200), also for another runtime, whose id is in no asset's name, before the push that carries its new hash: a job that dies in between, or whose push is refused, leaves the index naming an asset that is gone or has another hash |
| a reconnect restores the screen (ws_server.py:195) | the scrollback is read (200) before the screen is reset (204), with the client registered: a chunk broadcast in between is wiped and not replayed |
| `get_manager()` returns the one manager (sessions.py:216) | test and assignment (218) are not under a lock: a page of an earlier launch that connects between server.py:443 and 446 can make a second one |
| a Ctrl+C after the snapshot survives (python_shell.py:155) | `clear_interrupt` compares (158) and then clears: one in between is wiped |
| a page retries, then shows an error, instead of silently spinning (terminal.html:349) | a dropped client's descriptor is closed (ws_server.py:114) under a handler inside `recv()`: the page is never told |
| Python globals, history and the running command are isolated per tab (sessions.py:9-11) | two commands at once swap `sys.stdin` and `sys.stdout` of the process (python_shell.py:561, 723): one tab reads the other's keyboard, and what is put back last may be a stream of a command that is over |
| one persistent session for REST (terminal.py:3) | test and assignment (305) are not under a lock: two first requests make two, and what one changed is lost |
| type-ahead is run when the command ends (pty_session.py:776) | a line that was found to be type-ahead (480) and is put in the queue after the drain waits for the next command |

`DeadShellNoticed`, `ActiveAtRest` (in `view`), `FailureKeepsRecords`,
`InstalledStays`, `PublishedWithItsAsset`, `InputReachesShown`, `EachLineOnce`, `NestedRunsIsolated` and
`PromptIsTrue` are the parts of these
promises that do hold.

## What is proved

Every safety property that a passing run checks is a theorem, for every value of
the constants. Each proof module first shows its
inductive invariant, with one lemma per action or group of actions; TLC checked
each of these invariants on the instance of the component's run before it was proved.

`SessionsProofs.tla`, for any number of handlers, emitters, sessions, geometries:

* `TypeCorrect`, `TypeInvariant`: types. They need `TypeInv`, which adds that a
  thread which acts on a session holds its id (`Addressed`) and that `_order`
  lists the sessions, none above `_counter` (`Listed`): without it
  `RemoveAt(order, ...)` need not be a sequence of ids, nor a new id new.
* `Registry`, `NeverZero`: by `RegistryInv`, which adds that `_active` exists and
  that the cap holds, with the cardinality lemmas for a session added under the
  guard of `create()` and one removed by `close()`.
* `NoneOrphaned`: by `OrphanInv`. A `create()` that has registered its tab and
  not started it yet holds the lock, so no `close()` can pop that tab; a `close()`
  that has not stopped its session yet is past the pop, and the id does not return.
* `ActiveWhenAlone`, `GeometryWhenAlone`, `StripWhenAlone`, under `OneHandler`:
  by `RestInv`, which says which step of the handler will still make up for what
  is missing (reopen or switch, refit, push). The hypothesis is the application
  as it is used, one page with one connection, and it is needed: two closes
  by two clients leave tabs open and none active.
* `ScreenWhenConnected`, under `OneHandler` and `DropBound = 0`, about
  `ConnectedSpec`: each chunk of the active session is on the screen, about to be
  written to it, or part of a replay to come (`ScreenInv`). A client that
  connects is excluded, because the hello reads the scrollback first and blanks
  the screen later (ws_server.py:200, 204): a chunk broadcast in between is lost.

`PtyShellProofs.tla`, for any number of handlers and ptys: `Inv` says which
places hold the lock (`LockInv`), that the session has no pty while a thread
binds or kills one (`PtyInv`), where each reader is relative to its child
(`ReaderInv`) and who reaches each live child (`NoOrphanShell`). It is inductive;
`OneAtATime`, `NoOrphan`, `StopKills`, `Noticed` follow. One lemma per action,
with a step per conjunct. `OneShell` alone is not inductive: that a second shell cannot be
spawned rests on the lock and on `pty` being the only live one.

`ZpipProofs.tla`, for any packages, wheels, requirements, depth of nesting and
number of exceptions:

* `Invariant`, `TypeCorrect`. `StackInv` is what nested installs need: each call
  is in order for its phase (`Shape`); what it read from the database long ago
  is still there (`Current`), though nothing is locked and the calls it made have
  written since; every call but the innermost waits (`Waits`); and a call made
  by another, at any depth, is never about a package the other relies on
  (`Below`), because a call is only made for a requirement that was not recorded
  when its caller read the database, and never for a package further out. `FilesInv` adds that a commit moves only files nobody else owns.
* `FilesHaveOneOwner`, `RecordsKept`, `OthersAreUntouched`, `RecordsAreComplete` from it.
* `RefinesStore`: every initial state is one of `PackageStore` and every step one
  of its steps or a stutter; `Current` makes a record's requirements true at
  the moment it is written.
* `NoStrayFiles`, under `FailBound <= 1`: by `StrayInv`, about the content the files would
  have at the end of the rollback (`Under`). The hypothesis is needed: a second
  exception, in the rollback itself, loses what it had not restored yet.

`LinuxEnvProofs.tla`, for any number of workers, overlapping or not, and of crashes: a
setup goes on only while nothing is installed, unless another one's swap has
overtaken it (`Needed`). This is all that `TakenOnlyByStale` needs, which holds however
many setups overlap and says exactly when "Idempotent" fails. The rest of `Inv` is about
setups that have not overlapped (`AloneInv`), the case outside which `two_setups`
refutes the claims: staging and what is still to be extracted make up the
whole content until the swap (`Staged`), and a finally clause that was not
interrupted has unlinked the tarball (`Left`). `WholeWhenAlone`, `SuccessIsReal` and
`TidyWhenAlone` follow. What is not promised: a setup that is killed, interrupted or
cannot make a directory leaves its tarball, which the next one truncates.

`HostConsoleProofs.tla`, for any script and any number of Ctrl+C: the places a
line can be in hold, together, as many lines as were handed over and all of
them (`Once`), so that they partition them, which is `LinesAreKept`. A program
that is waited for has been started and registered (`Registered`):
`SpawnRaceIsClosed` needs that, because a Ctrl+C that misses a program which is not
registered yet is caught by the flag that is polled after registration.

The same module has the theorems about `Interpreter`, which models the same
commands seen from the process they share (no name is in both models, hence
`ProcessSpec` and `ProcessNext` there), for any number of tabs, requests, commands and
directories, and any number of commands in progress at once:

* `ProcessInvariant`: `ProcessInv` says that `order` lists the commands in progress
  (`Bracketed`), that a command swaps nothing twice and keeps nothing of an earlier
  one (`Orderly`), that a request has its session from `get_session()` to its end
  (`Given`), and, for commands that are nested, where each thing a command swapped is
  now: in place, or noted by the first command after it that swapped the same
  thing (`Layered`). It is this that a nested command must leave as it found it, and
  each `Save`, `Set` and `PutBack` of the last command is shown to do so by one lemma
  (`LastLayer`). `NestedRunsIsolated` alone is not inductive: it says
  nothing of the commands below the last one, which come to be the last again.
  `Layered` is about nested commands only, because of nothing else can it be said
  (Disagreements); a command that starts alone finds it true again, whatever
  streams were left behind.
* `NestedAreIsolated`, `PromptTrue` follow from it.

`WsServerProofs.tla`, for any number of pages: a client that was due a broadcast
and not sent it is still on the reader's list or on its list of the dead (`Owed`),
and a handler that has not registered has no client (`Fresh`): `NoneMissed`.
`LockFreeSends`: no thread sends while it holds `clients_lock`.

`BootProofs.tla`, for any number of launches, pages and ports: an open connection
is with a live process (`Connected`); unless a token was lost or two launches chose one
at the same time, every process and page has the token on disk (`TokenInv`); a process that let
nobody in early has one manager (`ManagerInv`); no two processes listen on one
websocket port, and a page has the one of its process (`PortInv`). From them
`OldPages`, `KeysReachShown` and `PagesReachTheirProcess`, the safety part of `PageGetsTerminal`.

`WheelPipelineProofs.tla`, for any number of jobs, packages and commits by developers:
every manifest and index entry, on the branch and in each checkout, names a hash of the
locked source (`TreeInv`, `MainInv`); a job's checkout was the branch once and still is
if nobody pushed since (`Based`); to the manifests of that commit it adds its own only
(`Added`). `FromLockedSource` and `NothingUnpublished` follow. `PublishedIsThere` needs
`AssetInv` too: by the concurrency group no other job can delete or replace the asset of a
job that is past its upload. `NothingHidden` needs
`CoverInv` and, as a hypothesis, that developers regenerate the index for the
channel "all", the default of generate_index.py (173): with one channel's
index they drop the entries of the others.

Assumptions: the `ASSUME` of each component (`SessionsAssumption`,
`PtyShellAssumption`, `LinuxEnvAssumption`, `ZpipAssumption`, `ConsoleAssumption`,
`WsAssumption`, `BootAssumption`, `PipelineAssumption`, `InterpreterAssumption`): distinct names,
positive or natural bounds, the shape of the data. TLC evaluates them in
the runs. The bounds on ids, ptys, launches, crashes and failures are parameters
of the theorems; only the hypotheses named above restrict them.

Only model-checked: liveness, since the prover handles neither fairness nor ENABLED: `ChildrenReaped`,
`StopEndsThreads`, `InterruptEnds`, `OutputFlows`, `GoneIsForgotten`, `PageGetsTerminal`.

## What is not modelled, and why

* Sessions: a broadcast is atomic (`WsServer` has its parts); start failures in
  `create()`.
* PtyShell: bytes, window sizes, file descriptors, process numbers. A spawn that fails
  fails cleanly: a reader thread that cannot be started after the fork (realpty.py:140)
  would leave a live child, and an OSError of `openpty` leaves `_enter_linux_pty`
  (pty_session.py:584) instead of being reported.
* HostConsole: key-by-key line editing, history, OSC filtering; the built-in
  file commands and redirections, which change files and no shared state; the end of a
  command that opens the Alpine shell (pty_session.py:772-775, in `PtyShell`), which
  returns without moving the lines typed ahead to the queue.
* Interpreter: user code that changes the streams or the directory itself,
  `sys.argv`, the rc file. TLC has at most two commands in progress at once, the
  theorems any number.
* WsServer: the bytes of the handshake and of frames (a frame is sent whole or
  not at all, though a hello that times out, ws_server.py:208, can leave part of
  one on a client that stays registered); `stop()`, which only tests call. The environment
  is assumed to let the send timeout be set (without it, ws_server.py:387-390, a send may
  block) and a shell to read its terminal: `os.write` to the master (realpty.py:194)
  can block a handler inside one frame, with the session's lock held.
* Boot: a token file that cannot be read once and can be later, which is overwritten with
  a new token (security.py:37-38); the moment between the assignment of `_manager` and
  its first `create()` (sessions.py:219-220), in which a handler finds a manager
  without a session; the best-effort listeners on `::1`; formats and headers of the REST
  answers and the endpoints that only report.
* WheelPipeline: toolchains and compilers (a build succeeds or fails);
  `promote_release.py` and `verify_dependencies.py`, which print and change nothing.
* LinuxEnv: an `unlink` that fails; `uninstall()` (no caller), proot command lines and bind mounts, guest
  wrappers, the diagnostic gates.
* Zpip: an `installed.json` that cannot be read or parsed, which `_load_db` (zpip.py:212-218)
  takes for an empty one, so that the next save drops every record; two processes or threads installing at the same time, search, catalog
  cache, `verify`, directories, the "explicit" mark.
* Keystore, ELF scan, network context, diagnostics, paths, CLI dispatch: pure
  computations or set-up without interaction. proot and toolchain builds: one-shot
  CI scripts. Java bridge: a cache filled once.

## Plan

The order is by weight in the running program.

1. `Sessions`, `PtyShell`, `Zpip` with `PackageStore`, `LinuxEnv` (done).
2. `HostConsole`, `WsServer`, `Boot`, `WheelPipeline`, `Interpreter` (done).
3. Proofs of the safety properties of these modules and of the refinement of
   `PackageStore` by `Zpip` (done).
4. Two callers of `zpip` at once.
