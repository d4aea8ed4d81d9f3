------------------------------ MODULE LinuxEnv ------------------------------
(***************************************************************************)
(* The command linux-setup: install() of app/zmux/linuxenv.py, which       *)
(* downloads the Alpine root file system, verifies it, extracts it to a    *)
(* staging directory and swaps that for the live one.                      *)
(*                                                                         *)
(* Every terminal session runs commands on a worker of its own, and all of *)
(* them use the same tarball and the same staging directory, so each file  *)
(* operation is a step and the tarball is a file that may be truncated or  *)
(* unlinked while another setup writes or reads it.  A directory is the    *)
(* set of what it holds, with "dir" for the directory itself.              *)
(***************************************************************************)
EXTENDS Integers, FiniteSets

CONSTANTS
  Setups,       (* workers that may run linux-setup                        *)
  None,         (* no file                                                 *)
  CrashBound    (* bound: times the process is killed                      *)

ASSUME LinuxEnvAssumption ==
  IsFiniteSet(Setups) /\ None \notin Setups /\ CrashBound \in Nat

VARIABLES
  rootfs,       (* the live directory                                      *)
  staging,      (* linux/.staging                                          *)
  data,         (* what each inode of a tarball holds                      *)
  tarball,      (* the inode at the tarball's path, None when absent       *)
  pc,           (* where each setup is                                     *)
  file,         (* the tarball it has open                                 *)
  todo,         (* what it has still to download, extract or remove        *)
  result,       (* "ok", "failed", or "none": not yet, killed, interrupted  *)
                (* or unable to make a directory                           *)
  crashes,      (* times the process was killed                            *)
  overlapped,   (* history: a setup began while another was in progress    *)
  stale         (* history: those that another's swap has overtaken        *)

history == <<overlapped, stale>>

vars == <<rootfs, staging, data, tarball, pc, file, todo, result, crashes, history>>

Inodes == Setups                   \* enough: one each can have open
Chunks == {"head", "tail"}         \* of the tarball
Content == {"busybox", "release", "rest"}
Absent == {}
Present(dir) == "dir" \in dir

Installed == {"busybox", "release"} \subseteq rootfs
Whole == Content \subseteq rootfs

(* Not set up yet, or broken by the user, who is root in it *)
Init ==
  /\ rootfs \in {Absent, {"dir", "release", "rest"}}
  /\ staging = Absent
  /\ data = [i \in Inodes |-> {}] /\ tarball = None
  /\ pc = [t \in Setups |-> "idle"]
  /\ file = [t \in Setups |-> None]
  /\ todo = [t \in Setups |-> {}]
  /\ result = [t \in Setups |-> "none"]
  /\ crashes = 0
  /\ overlapped = FALSE /\ stale = {}

Goto(t, from, to) == pc[t] = from /\ pc' = [pc EXCEPT ![t] = to]
ToDo(t, work) == todo' = [todo EXCEPT ![t] = work]
Done(t, item) == ToDo(t, todo[t] \ {item})
Has(t, inode) == file' = [file EXCEPT ![t] = inode]
Closed(t) == Has(t, None)
(* An inode without a name that nobody has open is gone. *)
Reclaim ==
  data' = [i \in Inodes |-> IF tarball' = i \/ \E t \in Setups : file'[t] = i THEN data[i] ELSE {}]

Ends(t, how) == result' = [result EXCEPT ![t] = how]

-----------------------------------------------------------------------------
(* Download and verification                                               *)

Noted(t) ==
  /\ overlapped' = (overlapped \/ \E u \in Setups \ {t} : pc[u] # "idle")
  /\ stale' = stale \ {t}

(* Faulty variant: set up again whatever there is *)
Begin_Always(t) ==
  /\ Goto(t, "idle", "open")
  /\ Ends(t, "none")
  /\ Noted(t)
  /\ UNCHANGED <<rootfs, staging, data, tarball, file, todo, crashes>>

Begin(t) ==
  /\ ~Installed
  /\ Goto(t, "idle", "open")
  /\ Ends(t, "none")
  /\ Noted(t)
  /\ UNCHANGED <<rootfs, staging, data, tarball, file, todo, crashes>>

Already(t) ==                      \* install() returns at once
  /\ Installed
  /\ pc[t] = "idle"
  /\ Ends(t, "ok")
  /\ UNCHANGED <<rootfs, staging, data, tarball, pc, file, todo, crashes, history>>

Unused == {i \in Inodes : \A t \in Setups : file[t] # i}

Open(t) ==                         \* creates the tarball, or truncates it
  /\ Goto(t, "open", "download")
  /\ tarball' \in IF tarball = None THEN Unused ELSE {tarball}
  /\ data' = [data EXCEPT ![tarball'] = {}]
  /\ Has(t, tarball') /\ ToDo(t, Chunks)
  /\ UNCHANGED <<rootfs, staging, result, crashes, history>>

Receive(t, chunk) ==                   \* each writer has an offset of its own
  /\ pc[t] = "download" /\ chunk \in todo[t]
  /\ chunk = "tail" => "head" \notin todo[t]
  /\ data' = [data EXCEPT ![file[t]] = @ \cup {chunk}]
  /\ Done(t, chunk)
  /\ UNCHANGED <<rootfs, staging, tarball, pc, file, result, crashes, history>>

(* No network, too large, or the digest of what was received is wrong: the *)
(* tarball is unlinked, whoever wrote it                                   *)
DownloadFails(t) ==
  /\ pc[t] \in {"open", "download"}
  /\ pc' = [pc EXCEPT ![t] = "idle"]
  /\ tarball' = None
  /\ Closed(t) /\ ToDo(t, {}) /\ Ends(t, "failed")
  /\ UNCHANGED <<rootfs, staging, crashes, history>>
  /\ Reclaim

Verify(t) ==                       \* the digest is of the stream, not the file
  /\ todo[t] = {}
  /\ Goto(t, "download", "clear")
  /\ Closed(t) /\ ToDo(t, staging)
  /\ UNCHANGED <<rootfs, staging, tarball, result, crashes, history>>
  /\ Reclaim

-----------------------------------------------------------------------------
(* rmtree removes what it has listed and can remove, then the directory if *)
(* that is empty; errors are ignored                                       *)

Emptied(dir) == IF dir = {"dir"} THEN Absent ELSE dir

ClearStaging(t, item) ==
  /\ pc[t] \in {"clear", "finally"}
  /\ item \in todo[t] \ {"dir"}
  /\ staging' = staging \ {item}
  /\ Done(t, item)
  /\ UNCHANGED <<rootfs, data, tarball, pc, file, result, crashes, history>>

ClearRootfs(t, item) ==
  /\ pc[t] = "swap" /\ item \in todo[t] \ {"dir"}
  /\ rootfs' = rootfs \ {item}
  /\ Done(t, item)
  /\ UNCHANGED <<staging, data, tarball, pc, file, result, crashes, history>>

StagingCleared(t) ==
  /\ todo[t] = {"dir"}
  /\ pc[t] \in {"clear", "finally"}
  /\ staging' = Emptied(staging)
  /\ ToDo(t, {})
  /\ UNCHANGED <<rootfs, data, tarball, pc, file, result, crashes, history>>

ClearSkips(t, item) ==              \* what cannot be removed stays
  /\ pc[t] \in {"clear", "finally", "swap"}
  /\ item \in todo[t]
  /\ Done(t, item)
  /\ UNCHANGED <<rootfs, staging, data, tarball, pc, file, result, crashes, history>>

RootfsCleared(t) ==
  /\ todo[t] = {"dir"} /\ pc[t] = "swap"
  /\ rootfs' = Emptied(rootfs)
  /\ ToDo(t, {})
  /\ UNCHANGED <<staging, data, tarball, pc, file, result, crashes, history>>

MakeStaging(t) ==
  /\ todo[t] = {}
  /\ ~Present(staging)
  /\ Goto(t, "clear", "scan")
  /\ staging' = {"dir"}
  /\ UNCHANGED <<rootfs, data, tarball, file, todo, result, crashes, history>>

(* A mkdir outside the two try statements fails: that of the cache, of the *)
(* directory of rootfs, or of a staging directory that is still there      *)
MkdirFails(t) ==
  /\ pc[t] = "open" \/ (pc[t] \in {"download", "clear"} /\ todo[t] = {})
  /\ pc' = [pc EXCEPT ![t] = "idle"]
  /\ Closed(t) /\ Ends(t, "none")
  /\ UNCHANGED <<rootfs, staging, tarball, todo, crashes, history>>
  /\ Reclaim

-----------------------------------------------------------------------------
(* Extraction                                                              *)

Readable(inode) == inode # None /\ data[inode] = Chunks

OpenArchive(t) ==                  \* getmembers() reads it to the end
  /\ Readable(tarball)
  /\ Goto(t, "scan", "extract")
  /\ Has(t, tarball) /\ ToDo(t, Content)
  /\ UNCHANGED <<rootfs, staging, data, tarball, result, crashes, history>>

Extract(t, item) ==                \* missing directories are made
  /\ pc[t] = "extract" /\ item \in todo[t]
  /\ Readable(file[t])
  /\ staging' = staging \cup {"dir", item}
  /\ Done(t, item)
  /\ UNCHANGED <<rootfs, data, tarball, pc, file, result, crashes, history>>

(* Faulty variant: ready as soon as the release is there *)
Bootstrap_Early(t) ==
  /\ "release" \notin todo[t]
  /\ Goto(t, "extract", "exists")
  /\ staging' = staging \cup {"dir", "release"}
  /\ Closed(t) /\ ToDo(t, {})
  /\ UNCHANGED <<rootfs, tarball, result, crashes, history>>
  /\ Reclaim

Bootstrap(t) ==                    \* so does _bootstrap; it adds the release
  /\ todo[t] = {}
  /\ Goto(t, "extract", "exists")
  /\ staging' = staging \cup {"dir", "release"}
  /\ Closed(t)
  /\ UNCHANGED <<rootfs, tarball, todo, result, crashes, history>>
  /\ Reclaim

-----------------------------------------------------------------------------
(* The swap, and the finally clause                                        *)

Swap(t) ==                         \* rmtree of a rootfs that exists
  /\ Goto(t, "exists", "swap")
  /\ ToDo(t, rootfs)
  /\ UNCHANGED <<rootfs, staging, data, tarball, file, result, crashes, history>>

CanReplace == Present(staging) /\ rootfs \subseteq {"dir"}

Replace(t) ==                      \* os.replace
  /\ todo[t] = {} /\ CanReplace
  /\ Goto(t, "swap", "unlink")
  /\ rootfs' = staging /\ staging' = Absent
  /\ Ends(t, "ok")
  /\ stale' = stale \cup {u \in Setups \ {t} : pc[u] \notin {"idle", "unlink", "finally"}}
  /\ UNCHANGED <<data, tarball, file, todo, crashes, overlapped>>

(* Faulty variant: the error is swallowed *)
SetupFails_Quietly(t) ==
  /\ pc[t] \in {"scan", "extract"} \/ (pc[t] = "swap" /\ todo[t] = {} /\ ~CanReplace)
  /\ pc' = [pc EXCEPT ![t] = "unlink"]
  /\ Closed(t) /\ ToDo(t, {}) /\ Ends(t, "ok")
  /\ UNCHANGED <<rootfs, staging, tarball, crashes, history>>
  /\ Reclaim

(* A truncated or missing tarball, a full disk, a directory that is gone   *)
(* or not empty                                                            *)
SetupFails(t) ==
  /\ pc[t] \in {"scan", "extract"} \/ (pc[t] = "swap" /\ todo[t] = {} /\ ~CanReplace)
  /\ pc' = [pc EXCEPT ![t] = "unlink"]
  /\ Closed(t) /\ ToDo(t, {}) /\ Ends(t, "failed")
  /\ UNCHANGED <<rootfs, staging, tarball, crashes, history>>
  /\ Reclaim

(* Faulty variant: the tarball is kept *)
Unlink_Keeps(t) ==
  /\ Goto(t, "unlink", "finally")
  /\ ToDo(t, staging)
  /\ UNCHANGED <<rootfs, staging, data, tarball, file, result, crashes, history>>

Unlink(t) ==
  /\ Goto(t, "unlink", "finally")
  /\ tarball' = None
  /\ ToDo(t, staging)
  /\ UNCHANGED <<rootfs, staging, file, result, crashes, history>>
  /\ Reclaim

Return(t) ==
  /\ todo[t] = {}
  /\ Goto(t, "finally", "idle")
  /\ UNCHANGED <<rootfs, staging, data, tarball, file, todo, result, crashes, history>>

Crash ==                           \* Android kills the process
  /\ crashes < CrashBound
  /\ crashes' = crashes + 1
  /\ \E t \in Setups : pc[t] # "idle"
  /\ pc' = [t \in Setups |-> "idle"]
  /\ file' = [t \in Setups |-> None]
  /\ todo' = [t \in Setups |-> {}]
  /\ result' = [t \in Setups |-> "none"]
  /\ stale' = {}
  /\ UNCHANGED <<rootfs, staging, tarball, overlapped>>
  /\ Reclaim

(* Ctrl+C in the session raises a KeyboardInterrupt in its worker.  It is  *)
(* no Exception: the download ends without the removal of its tarball.     *)
(* From the extraction on the finally clause runs, and another one can cut *)
(* that short.                                                             *)
Interrupted(t) ==
  /\ pc[t] # "idle"
  /\ \E then \in {"idle", "unlink"} :
       /\ then = "idle" => pc[t] \notin {"extract", "exists", "swap"}
       /\ then = "unlink" => pc[t] \in {"scan", "extract", "exists", "swap", "unlink"}
       /\ pc' = [pc EXCEPT ![t] = then]
  /\ Closed(t) /\ ToDo(t, {}) /\ Ends(t, "none")
  /\ UNCHANGED <<rootfs, staging, tarball, crashes, history>>
  /\ Reclaim

Download(t) == Begin(t) \/ Already(t) \/ Open(t) \/ (\E chunk \in Chunks : Receive(t, chunk))
               \/ DownloadFails(t) \/ Verify(t) \/ MkdirFails(t)
Unpack(t) == MakeStaging(t) \/ OpenArchive(t) \/ Bootstrap(t) \/ SetupFails(t)
             \/ StagingCleared(t) \/ RootfsCleared(t)
             \/ (\E item \in Content :
                   ClearStaging(t, item) \/ ClearRootfs(t, item) \/ Extract(t, item))
             \/ (\E item \in Content \cup {"dir"} : ClearSkips(t, item))
Finish(t) == Swap(t) \/ Replace(t) \/ Unlink(t) \/ Return(t) \/ Interrupted(t)

Next == Crash \/ \E t \in Setups : Download(t) \/ Unpack(t) \/ Finish(t)

Spec == Init /\ [][Next]_vars
-----------------------------------------------------------------------------
(* Properties                                                              *)

AtRest == \A t \in Setups : pc[t] = "idle"

(* "never leave a half-installed rootfs at the live path" (linuxenv.py:589) *)
(* While setups do not overlap, what the program takes for an installed    *)
(* environment is a whole one, at any moment and after any crash or Ctrl+C:*)
(* nothing else would ever repair it, as install() returns early.          *)
InstalledIsWhole == ~overlapped => (Installed => Whole)

(* "Idempotent" (linuxenv.py:528): a setup takes no environment away that  *)
(* is in use, whatever others run at the same time, except one that had    *)
(* looked for it (529) before another setup swapped it in.                 *)
InstalledStays ==
  [][Installed /\ ~Installed' => \E t \in stale : pc[t] = "swap" /\ todo'[t] # todo[t]]_vars

(* A setup that says it succeeded has installed the environment, also when *)
(* an earlier one was killed or interrupted half-way; while setups do not  *)
(* overlap.                                                                *)
SetupInstalls ==
  ~overlapped => \A t \in Setups : result[t] = "ok" => Whole

(* A setup that ends by itself, from the download on, leaves no tarball,   *)
(* and one that succeeds no staging directory, whatever earlier ones that  *)
(* were killed, interrupted or could not make a directory left there       *)
(* (linuxenv.py:569-595); while setups do not overlap.                     *)
NothingLeftBehind ==
  [][\A t \in Setups : ~overlapped /\ pc[t] # "idle" /\ pc'[t] = "idle" =>
       /\ result'[t] \in {"ok", "failed"} => tarball' = None
       /\ result'[t] = "ok" => staging' = Absent]_vars

(* The promise of line 589 for any number of setups, once all have ended.  *)
NeverHalfInstalled == AtRest => (Installed => Whole)

=============================================================================
