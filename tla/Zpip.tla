-------------------------------- MODULE Zpip --------------------------------
(***************************************************************************)
(* The package manager: install() and uninstall() of app/zmux/zpip.py, the *)
(* files they put into user_packages/ and the database that records them.  *)
(*                                                                         *)
(* install() calls itself for missing dependencies and uninstall() in its  *)
(* rollback, so the state has a stack of calls; each call is a record of   *)
(* its locals and its place.  Every file moved or deleted is a step, since *)
(* an exception can follow any of them.  A file's content is the release   *)
(* it came from.  Download, checksum, extraction to staging and the smoke  *)
(* import touch nothing outside the staging directory of the call and are  *)
(* one step that succeeds or raises.                                       *)
(***************************************************************************)
EXTENDS Integers, FiniteSets, Sequences

CONSTANTS
  Pkgs,         (* package names                                           *)
  Versions,     (* version numbers                                         *)
  Files,        (* paths under user_packages/                              *)
  Wheel,        (* Wheel[p][v]: the files of a release                     *)
  Needs,        (* Needs[p][d]: versions of d that p accepts; {}: d unused *)
  FailBound,    (* bound: exceptions during one call from the user         *)
  Cancels       (* may the user press Ctrl+C, or Android kill the process? *)

None == 0

ASSUME ZpipAssumption ==
  /\ Versions \subseteq Nat \ {None}
  /\ Wheel \in [Pkgs -> [Versions -> SUBSET Files]]
  /\ Needs \in [Pkgs -> [Pkgs -> SUBSET Versions]]
  /\ FailBound \in Nat /\ Cancels \in BOOLEAN

VARIABLES
  db,         (* installed.json: the recorded version of each package      *)
  disk,       (* user_packages/: the release each file came from           *)
  stack,      (* calls in progress, the innermost last                     *)
  result,     (* outcome of the last call from the user                    *)
  start,      (* which command that was, with db and disk when it began    *)
  fails       (* exceptions during it                                      *)

vars == <<db, disk, stack, result, start, fails>>

Absent == <<>>
Recorded(p) == db[p] # None
FilesOf(p) == IF Recorded(p) THEN Wheel[p][db[p]] ELSE {}
NoFile == [f \in Files |-> Absent]

Call(p, phase, left) ==
  [pkg |-> p, phase |-> phase, ver |-> None,
   seen |-> [q \in Pkgs |-> None],  \* db_before
   todo |-> {}, dep |-> p,          \* requirements to meet; the one at hand
   news |-> {},                     \* new_dependencies
   left |-> left, old |-> {},       \* files to move or delete; obsolete ones
   done |-> {}, saved |-> NoFile]   \* committed, and the backup directory

Init ==
  /\ db = [p \in Pkgs |-> None] /\ disk = NoFile
  /\ stack = <<>> /\ result = "none" /\ fails = 0
  /\ start = [command |-> "none", db |-> db, disk |-> disk]

Idle == stack = <<>>
top == stack[Len(stack)]
At(phase) == ~Idle /\ top.phase = phase
SetTop(call) == stack' = [stack EXCEPT ![Len(stack)] = call]
GotoPhase(phase) == SetTop([top EXCEPT !.phase = phase])
Push(parent, call) == stack' = Append([stack EXCEPT ![Len(stack)] = parent], call)

(* The innermost call returns to its caller.  A failure makes an install() *)
(* roll back; during its rollback, it makes the rollback raise.            *)
Caller(outcome) ==
  LET c == stack[Len(stack) - 1]
  IN  [c EXCEPT !.phase =
         IF outcome = "ok" THEN IF @ = "deps" THEN "check" ELSE @
         ELSE IF @ = "deps" THEN "restore" ELSE "raise"]

Return(outcome) ==
  IF Len(stack) = 1
  THEN stack' = <<>> /\ result' = outcome
  ELSE /\ stack' = Append(SubSeq(stack, 1, Len(stack) - 2), Caller(outcome))
       /\ UNCHANGED result

-----------------------------------------------------------------------------
(* The user's commands                                                     *)

Begin(command, call) ==
  /\ Idle
  /\ stack' = <<call>> /\ result' = "none" /\ fails' = 0
  /\ start' = [command |-> command, db |-> db, disk |-> disk]
  /\ UNCHANGED <<db, disk>>

Install(p) == Begin("install", Call(p, "resolve", {}))

Uninstall(p) == Recorded(p) /\ Begin("uninstall", Call(p, "remove", FilesOf(p)))

-----------------------------------------------------------------------------
(* install(): resolution and dependencies                                  *)

(* The index has any version: a curated one whatever was asked for         *)
Resolve(v) ==
  /\ At("resolve")
  /\ SetTop([top EXCEPT !.phase = "deps", !.ver = v, !.seen = db,
                        !.todo = {d \in Pkgs : Needs[top.pkg][d] # {}}])
  /\ UNCHANGED <<db, disk, result, start, fails>>

Accepts(v, d) == v \in Needs[top.pkg][d]

(* Faulty variant: a dependency that was there is taken for a new one *)
DepSatisfied_AsNew(d) ==
  /\ At("deps") /\ d \in top.todo
  /\ Accepts(top.seen[d], d)
  /\ SetTop([top EXCEPT !.todo = @ \ {d}, !.news = @ \cup {d}])
  /\ UNCHANGED <<db, disk, result, start, fails>>

DepSatisfied(d) ==
  /\ At("deps") /\ d \in top.todo
  /\ Accepts(top.seen[d], d)
  /\ SetTop([top EXCEPT !.todo = @ \ {d}])
  /\ UNCHANGED <<db, disk, result, start, fails>>

DepConflict(d) ==                   \* "upgrade it explicitly"
  /\ At("deps") /\ d \in top.todo
  /\ top.seen[d] # None /\ ~Accepts(top.seen[d], d)
  /\ GotoPhase("restore")
  /\ UNCHANGED <<db, disk, result, start, fails>>

DepCycle(d) ==
  /\ At("deps") /\ d \in top.todo
  /\ top.seen[d] = None
  /\ \E i \in DOMAIN stack : stack[i].pkg = d
  /\ GotoPhase("restore")
  /\ UNCHANGED <<db, disk, result, start, fails>>

DepInstall(d) ==
  /\ At("deps") /\ d \in top.todo
  /\ top.seen[d] = None
  /\ \A i \in DOMAIN stack : stack[i].pkg # d
  /\ Push([top EXCEPT !.dep = d], Call(d, "resolve", {}))
  /\ UNCHANGED <<db, disk, result, start, fails>>

(* Faulty variant: whatever version was installed will do *)
DepInstalled_AnyVersion ==
  /\ At("check")
  /\ SetTop([top EXCEPT !.todo = @ \ {top.dep}, !.news = @ \cup {top.dep}, !.phase = "deps"])
  /\ UNCHANGED <<db, disk, result, start, fails>>

DepInstalled ==                     \* the database is read again
  /\ At("check")
  /\ SetTop([top EXCEPT !.todo = @ \ {top.dep}, !.news = @ \cup {top.dep}, !.phase =
               IF Accepts(db[top.dep], top.dep) THEN "deps" ELSE "restore"])
  /\ UNCHANGED <<db, disk, result, start, fails>>

Fetch ==                            \* _download, _extract, _smoke_test
  /\ At("deps") /\ top.todo = {}
  /\ GotoPhase("fetched")
  /\ UNCHANGED <<db, disk, result, start, fails>>

-----------------------------------------------------------------------------
(* install(): the commit                                                   *)

(* Faulty variant: nobody looks who owns the files *)
BeginCommit_NoOwners ==
  /\ At("fetched")
  /\ SetTop([top EXCEPT !.phase = "commit", !.left = Wheel[top.pkg][top.ver],
                        !.old = FilesOf(top.pkg) \ Wheel[top.pkg][top.ver]])
  /\ UNCHANGED <<db, disk, result, start, fails>>

(* Faulty variant: every file of the old release is obsolete *)
BeginCommit_AllObsolete ==
  LET files == Wheel[top.pkg][top.ver] IN
  /\ At("fetched")
  /\ IF \E q \in Pkgs \ {top.pkg} : FilesOf(q) \cap files # {}
     THEN GotoPhase("restore")
     ELSE SetTop([top EXCEPT !.phase = "commit", !.left = files, !.old = FilesOf(top.pkg)])
  /\ UNCHANGED <<db, disk, result, start, fails>>

BeginCommit ==                      \* "File ownership conflict"
  LET files == Wheel[top.pkg][top.ver] IN
  /\ At("fetched")
  /\ IF \E q \in Pkgs \ {top.pkg} : FilesOf(q) \cap files # {}
     THEN GotoPhase("restore")
     ELSE SetTop([top EXCEPT !.phase = "commit", !.left = files,
                             !.old = FilesOf(top.pkg) \ files])
  /\ UNCHANGED <<db, disk, result, start, fails>>

CommitFile(f) ==                    \* back up what is there, then os.replace
  /\ At("commit") /\ f \in top.left
  /\ disk' = [disk EXCEPT ![f] = <<top.pkg, top.ver>>]
  /\ SetTop([top EXCEPT !.left = @ \ {f}, !.done = @ \cup {f}, !.saved[f] = disk[f]])
  /\ UNCHANGED <<db, result, start, fails>>

RemoveObsolete(f) ==                \* not backed up
  /\ At("commit") /\ top.left = {} /\ f \in top.old
  /\ disk' = [disk EXCEPT ![f] = Absent]
  /\ SetTop([top EXCEPT !.old = @ \ {f}])
  /\ UNCHANGED <<db, result, start, fails>>

(* Faulty variant: the record is written before the files are in place *)
Save_First ==
  /\ At("commit")
  /\ db' = [db EXCEPT ![top.pkg] = top.ver]
  /\ Return("ok")
  /\ UNCHANGED <<disk, start, fails>>

Save ==                             \* _save_db replaces the file atomically
  /\ At("commit") /\ top.left = {} /\ top.old = {}
  /\ db' = [db EXCEPT ![top.pkg] = top.ver]
  /\ Return("ok")
  /\ UNCHANGED <<disk, start, fails>>

-----------------------------------------------------------------------------
(* install(): except Exception                                             *)

(* Faulty variant: files that replaced nothing stay behind *)
RestoreFile_KeepsNew(f) ==
  /\ At("restore") /\ f \in top.done
  /\ disk' = [disk EXCEPT ![f] = IF top.saved[f] = Absent THEN @ ELSE top.saved[f]]
  /\ SetTop([top EXCEPT !.done = @ \ {f}])
  /\ UNCHANGED <<db, result, start, fails>>

RestoreFile(f) ==                   \* from the backup, or deleted
  /\ At("restore") /\ f \in top.done
  /\ disk' = [disk EXCEPT ![f] = top.saved[f]]
  /\ SetTop([top EXCEPT !.done = @ \ {f}])
  /\ UNCHANGED <<db, result, start, fails>>

UnwindDep(d) ==                     \* uninstall(dependency)
  /\ At("restore") /\ top.done = {} /\ d \in top.news
  /\ LET rest == [top EXCEPT !.news = @ \ {d}]
     IN  IF Recorded(d) THEN Push(rest, Call(d, "remove", FilesOf(d))) ELSE SetTop(rest)
  /\ UNCHANGED <<db, disk, result, start, fails>>

RolledBack ==
  /\ At("restore") /\ top.done = {} /\ top.news = {}
  /\ Return("failed")
  /\ UNCHANGED <<db, disk, start, fails>>

Raise ==                            \* the rollback itself has failed
  /\ At("raise")
  /\ Return("failed")
  /\ UNCHANGED <<db, disk, start, fails>>

-----------------------------------------------------------------------------
(* uninstall()                                                             *)

RemoveFile(f) ==
  /\ At("remove") /\ f \in top.left
  /\ disk' = [disk EXCEPT ![f] = Absent]
  /\ SetTop([top EXCEPT !.left = @ \ {f}])
  /\ UNCHANGED <<db, result, start, fails>>

EraseRecord ==
  /\ At("remove") /\ top.left = {}
  /\ db' = [db EXCEPT ![top.pkg] = None]
  /\ Return("ok")
  /\ UNCHANGED <<disk, start, fails>>

-----------------------------------------------------------------------------
(* What can go wrong                                                       *)

(* Any statement of the try block raises: network, checksum, smoke import, *)
(* storage full.  In uninstall() and in a rollback nothing catches it.     *)
Fail ==
  /\ ~Idle /\ fails < FailBound
  /\ fails' = fails + 1
  /\ CASE top.phase \in {"resolve", "deps", "fetched", "commit"} ->
            GotoPhase("restore") /\ UNCHANGED result
       [] top.phase = "restore" -> GotoPhase("raise") /\ UNCHANGED result
       [] top.phase = "remove" -> Return("failed")
       [] OTHER -> FALSE
  /\ UNCHANGED <<db, disk, start>>

(* A KeyboardInterrupt is no Exception: only the finally clauses run, and  *)
(* not even they when the process is killed.                               *)
Cancel ==
  /\ Cancels /\ ~Idle
  /\ stack' = <<>> /\ result' = "cancelled"
  /\ UNCHANGED <<db, disk, start, fails>>

DepStep(d) == DepSatisfied(d) \/ DepConflict(d) \/ DepCycle(d) \/ DepInstall(d) \/ UnwindDep(d)
FileStep(f) == CommitFile(f) \/ RemoveObsolete(f) \/ RestoreFile(f) \/ RemoveFile(f)

Next ==
  \/ \E p \in Pkgs : Install(p) \/ Uninstall(p)
  \/ \E v \in Versions : Resolve(v)
  \/ \E d \in Pkgs : DepStep(d)
  \/ \E f \in Files : FileStep(f)
  \/ DepInstalled \/ Fetch \/ BeginCommit \/ Save \/ RolledBack \/ Raise \/ EraseRecord
  \/ Fail \/ Cancel

Spec == Init /\ [][Next]_vars
-----------------------------------------------------------------------------
(* Properties                                                              *)

Releases == Pkgs \X Versions
Calls ==
  [pkg : Pkgs, ver : Versions \cup {None}, dep : Pkgs,
   phase : {"resolve", "deps", "check", "fetched", "commit", "restore", "raise", "remove"},
   seen : [Pkgs -> Versions \cup {None}], todo : SUBSET Pkgs, news : SUBSET Pkgs,
   left : SUBSET Files, old : SUBSET Files, done : SUBSET Files,
   saved : [Files -> Releases \cup {Absent}]]

(* A commit has moved or will move each file of the release and no other;  *)
(* none of them is obsolete.                                               *)
CommitOK(call) ==
  call.phase = "commit" =>
    /\ call.done \cup call.left = Wheel[call.pkg][call.ver]
    /\ call.old \cap Wheel[call.pkg][call.ver] = {}

(* Types, with CommitOK for every call in progress.                        *)
TypeOK ==
  /\ db \in [Pkgs -> Versions \cup {None}]
  /\ disk \in [Files -> Releases \cup {Absent}]
  /\ stack \in Seq(Calls)
  /\ \A i \in DOMAIN stack : CommitOK(stack[i])
  /\ result \in {"none", "ok", "failed", "cancelled"}
  /\ start \in [command : {"none", "install", "uninstall"}, db : [Pkgs -> Versions \cup {None}],
                disk : [Files -> Releases \cup {Absent}]]
  /\ fails \in 0 .. FailBound

Intact(p) == \A f \in FilesOf(p) : disk[f] = <<p, db[p]>>

(* Every file has one owner: a package that could take another one's file  *)
(* would delete it when it is uninstalled (zpip.py:705-714).               *)
OneOwner == \A p, q \in Pkgs : p # q => FilesOf(p) \cap FilesOf(q) = {}

(* Only the package being installed or removed can be damaged: no step     *)
(* breaks the files of another recorded package, also not in a rollback.   *)
OthersUntouched ==
  [][\A p \in Pkgs : Intact(p) /\ (Recorded(p) /\ ~Intact(p))' => ~Idle /\ top.pkg = p]_vars

(* A record appears only when all the files of the release are in place.   *)
RecordedComplete ==
  [][\A p \in Pkgs : db'[p] # db[p] /\ db'[p] # None => Intact(p)']_vars

(* A failed call leaves nothing half-installed: a file is as it was, or    *)
(* gone, or of a release that is recorded.  (With a second failure, in the *)
(* rollback, this is lost: the runs inject one failure per call.)          *)
FailureLeavesNoStray ==
  Idle /\ result = "failed" =>
    \A f \in Files :
      \/ disk[f] \in {start.disk[f], Absent}
      \/ \E p \in Pkgs : f \in FilesOf(p) /\ disk[f] = <<p, db[p]>>

(* A failed call loses no record: what the rollback uninstalls was not     *)
(* there before, whichever dependencies it shares with other packages.     *)
FailureKeepsRecords ==
  Idle /\ result = "failed" =>
    \A p \in Pkgs : start.db[p] # None => db[p] = start.db[p]

(* The database behaves as PackageStore says: calls, files and failures    *)
(* are hidden.                                                             *)
Store ==
  INSTANCE PackageStore WITH Pkgs <- Pkgs, Versions <- Versions, Needs <- Needs, None <- None, db <- db
StoreSpec == Store!Spec

=============================================================================
