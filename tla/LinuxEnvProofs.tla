--------------------------- MODULE LinuxEnvProofs ---------------------------
(* Theorems about LinuxEnv, for any number of workers and of crashes.      *)
EXTENDS LinuxEnv, TLAPS

Steps == {"idle", "open", "download", "clear", "scan", "extract", "exists", "swap",
          "unlink", "finally"}

(* The steps between the test of line 529 and the end of the swap. *)
Underway(t) == pc[t] \notin {"idle", "unlink", "finally"}

Types ==
  /\ rootfs \in SUBSET (Content \cup {"dir"}) /\ staging \in SUBSET (Content \cup {"dir"})
  /\ pc \in [Setups -> Steps]
  /\ todo \in [Setups -> SUBSET (Chunks \cup Content \cup {"dir"})]
  /\ result \in [Setups -> {"none", "ok", "failed"}]
  /\ overlapped \in BOOLEAN /\ stale \in SUBSET Setups

(* A setup that no swap has overtaken has found no installed environment,  *)
(* and there still is none.                                                *)
Needed == \A t \in Setups \ stale : Underway(t) => ~Installed

-----------------------------------------------------------------------------
(* While setups do not overlap                                             *)

Alone == stale = {} /\ \A s, t \in Setups : pc[s] # "idle" /\ pc[t] # "idle" => s = t

(* What is in the staging directory and what is still to be extracted make *)
(* up the whole content, until the swap takes it.                          *)
Staged ==
  \A t \in Setups :
    /\ pc[t] = "extract" => Content \subseteq staging \cup todo[t]
    /\ pc[t] \in {"exists", "swap"} => Content \subseteq staging

(* One that says it succeeded is past the swap. *)
Reported ==
  \A t \in Setups :
    /\ Underway(t) => result[t] = "none"
    /\ result[t] = "ok" => Installed

(* The finally clause of one that was not interrupted has unlinked the     *)
(* tarball, and the swap of one that succeeded has taken the staging       *)
(* directory.                                                              *)
Left ==
  \A t \in Setups :
    /\ pc[t] = "finally" /\ result[t] \in {"ok", "failed"} => tarball = None
    /\ pc[t] \in {"unlink", "finally"} /\ result[t] = "ok" => staging = Absent

AloneInv == Alone /\ Staged /\ Reported /\ Left /\ (Installed => Whole)

Inv == Types /\ Needed /\ (~overlapped => AloneInv)

(* Nothing is staged, installed or reported before the first setup.        *)
LEMMA InitInv == Init => Inv
<1> SUFFICES ASSUME Init
             PROVE  Inv
  OBVIOUS
<1>1. Types
  BY DEF Init, Types, Absent, Content, Steps
<1>2. ~Installed
  BY DEF Init, Installed, Absent
<1>3. \A t \in Setups : pc[t] = "idle" /\ result[t] = "none"
  BY DEF Init
<1>4. AloneInv
  BY <1>2, <1>3 DEF Init, AloneInv, Alone, Staged, Reported, Left, Underway
<1> QED
  BY <1>1, <1>2, <1>4 DEF Inv, Needed

-----------------------------------------------------------------------------
(* Steps that keep the directories                                         *)

(* Setups that go on, end or begin where the test at the start holds.      *)
LEMMA DownloadGeneral ==
  ASSUME Types, Needed, NEW t \in Setups, Download(t)
  PROVE  Types' /\ Needed'
<1> USE DEF Types, Needed, Underway, Installed, Goto, Ends, ToDo, Done, Closed, Has, history, Steps
<1>1. CASE Begin(t)
  BY <1>1 DEF Begin, Noted
<1>2. CASE Already(t)
  BY <1>2 DEF Already
<1>3. CASE Open(t)
  BY <1>3 DEF Open
<1>4. ASSUME NEW chunk \in Chunks, Receive(t, chunk) PROVE Types' /\ Needed'
  BY <1>4 DEF Receive
<1>5. CASE DownloadFails(t)
  BY <1>5 DEF DownloadFails
<1>6. CASE Verify(t)
  BY <1>6 DEF Verify
<1>7. CASE MkdirFails(t)
  BY <1>7 DEF MkdirFails
<1> QED
  BY <1>1, <1>2, <1>3, <1>4, <1>5, <1>6, <1>7 DEF Download

(* Clearing takes away from the live directory, extracting adds to the     *)
(* other one.                                                              *)
LEMMA UnpackGeneral ==
  ASSUME Types, Needed, NEW t \in Setups, Unpack(t)
  PROVE  Types' /\ Needed'
<1> USE DEF Types, Needed, Underway, Installed, Goto, Ends, ToDo, Done, Closed, Has, history, Steps
<1>0. "release" \in Content
  BY DEF Content
<1>1. CASE MakeStaging(t)
  BY <1>1 DEF MakeStaging
<1>2. CASE OpenArchive(t)
  BY <1>2 DEF OpenArchive
<1>3. CASE Bootstrap(t)
  BY <1>0, <1>3 DEF Bootstrap
<1>4. CASE SetupFails(t)
  BY <1>4 DEF SetupFails
<1>5. CASE StagingCleared(t)
  BY <1>5 DEF StagingCleared, Emptied, Absent
<1>6. CASE RootfsCleared(t)
  BY <1>6 DEF RootfsCleared, Emptied, Absent
<1>7. ASSUME NEW item \in Content, ClearStaging(t, item) PROVE Types' /\ Needed'
  BY <1>7 DEF ClearStaging
<1>8. ASSUME NEW item \in Content, ClearRootfs(t, item) PROVE Types' /\ Needed'
  BY <1>8 DEF ClearRootfs
<1>9. ASSUME NEW item \in Content, Extract(t, item) PROVE Types' /\ Needed'
  BY <1>9 DEF Extract
<1>10. ASSUME NEW item \in Content \cup {"dir"}, ClearSkips(t, item) PROVE Types' /\ Needed'
  BY <1>10 DEF ClearSkips
<1> QED
  BY <1>1, <1>2, <1>3, <1>4, <1>5, <1>6, <1>7, <1>8, <1>9, <1>10 DEF Unpack

(* The swap overtakes every other setup that is underway.                  *)
LEMMA FinishGeneral ==
  ASSUME Types, Needed, NEW t \in Setups, Finish(t)
  PROVE  Types' /\ Needed'
<1> USE DEF Types, Needed, Underway, Installed, Goto, Ends, ToDo, Done, Closed, Has, history, Steps
<1>1. CASE Swap(t)
  BY <1>1 DEF Swap
<1>2. CASE Replace(t)
  BY <1>2 DEF Replace, Absent
<1>3. CASE Unlink(t)
  BY <1>3 DEF Unlink
<1>4. CASE Return(t)
  BY <1>4 DEF Return
<1>5. CASE Interrupted(t)
  BY <1>5 DEF Interrupted
<1> QED
  BY <1>1, <1>2, <1>3, <1>4, <1>5 DEF Finish

-----------------------------------------------------------------------------
(* Steps of a setup that runs alone                                        *)

(* Who takes a step is the only one underway, and no swap has overtaken it. *)
LEMMA OnlyOne ==
  ASSUME Inv, ~overlapped, NEW t \in Setups, pc[t] # "idle"
  PROVE  /\ Types /\ AloneInv /\ \A u \in Setups : u # t => pc[u] = "idle"
         /\ Underway(t) => ~Installed /\ \A u \in Setups : result[u] # "ok"
  BY DEF Inv, AloneInv, Alone, Needed, Reported

(* Download and verification touch neither directory.                      *)
LEMMA DownloadAlone ==
  ASSUME Inv, NEW t \in Setups, Download(t), ~overlapped'
  PROVE  AloneInv'
<1> USE DEF AloneInv, Alone, Staged, Reported, Left, Underway, Installed, Whole, Types, Goto, Ends,
            ToDo, Done, Closed, Has, history, Steps
<1>1. CASE Begin(t)
  <2>1. ~overlapped /\ \A u \in Setups : pc[u] = "idle"
    BY <1>1 DEF Begin, Noted
  <2> QED
    BY <1>1, <2>1 DEF Begin, Noted, Inv
<1>2. CASE Already(t)
  BY <1>2 DEF Already, Inv
<1>3. CASE Open(t)
  BY <1>3, OnlyOne DEF Open
<1>4. ASSUME NEW chunk \in Chunks, Receive(t, chunk) PROVE AloneInv'
  BY <1>4, OnlyOne DEF Receive
<1>5. CASE DownloadFails(t)
  BY <1>5, OnlyOne DEF DownloadFails
<1>6. CASE Verify(t)
  BY <1>6, OnlyOne DEF Verify
<1>7. CASE MkdirFails(t)
  BY <1>7, OnlyOne DEF MkdirFails
<1> QED
  BY <1>1, <1>2, <1>3, <1>4, <1>5, <1>6, <1>7 DEF Download

(* Clearing and extracting keep what the swap needs.                       *)
LEMMA UnpackAlone ==
  ASSUME Inv, NEW t \in Setups, Unpack(t), ~overlapped'
  PROVE  AloneInv'
<1> USE DEF AloneInv, Alone, Staged, Reported, Left, Underway, Installed, Whole, Types, Goto, Ends,
            ToDo, Done, Closed, Has, history, Steps
<1>1. CASE MakeStaging(t)
  BY <1>1, OnlyOne DEF MakeStaging
<1>2. CASE OpenArchive(t)
  BY <1>2, OnlyOne DEF OpenArchive
<1>3. CASE Bootstrap(t)
  BY <1>3, OnlyOne DEF Bootstrap
<1>4. CASE SetupFails(t)
  BY <1>4, OnlyOne DEF SetupFails
<1>5. CASE StagingCleared(t)
  BY <1>5, OnlyOne DEF StagingCleared, Emptied, Absent
<1>6. CASE RootfsCleared(t)
  BY <1>6, OnlyOne DEF RootfsCleared, Emptied, Absent
<1>7. ASSUME NEW item \in Content, ClearStaging(t, item) PROVE AloneInv'
  BY <1>7, OnlyOne DEF ClearStaging, Absent
<1>8. ASSUME NEW item \in Content, ClearRootfs(t, item) PROVE AloneInv'
  BY <1>8, OnlyOne DEF ClearRootfs
<1>9. ASSUME NEW item \in Content, Extract(t, item) PROVE AloneInv'
  BY <1>9, OnlyOne DEF Extract
<1>10. ASSUME NEW item \in Content \cup {"dir"}, ClearSkips(t, item) PROVE AloneInv'
  BY <1>10, OnlyOne DEF ClearSkips
<1> QED
  BY <1>1, <1>2, <1>3, <1>4, <1>5, <1>6, <1>7, <1>8, <1>9, <1>10 DEF Unpack

(* The swap makes a whole staging directory the live one.                  *)
LEMMA FinishAlone ==
  ASSUME Inv, NEW t \in Setups, Finish(t), ~overlapped'
  PROVE  AloneInv'
<1> USE DEF AloneInv, Alone, Staged, Reported, Left, Underway, Installed, Whole, Types, Goto, Ends,
            ToDo, Done, Closed, Has, history, Steps
<1>1. CASE Swap(t)
  BY <1>1, OnlyOne DEF Swap
<1>2. CASE Replace(t)
  <2>1. Content \subseteq rootfs' /\ Installed'
    BY <1>2, OnlyOne DEF Replace, Content
  <2> QED
    BY <1>2, <2>1, OnlyOne DEF Replace
<1>3. CASE Unlink(t)
  BY <1>3, OnlyOne DEF Unlink
<1>4. CASE Return(t)
  BY <1>4, OnlyOne DEF Return
<1>5. CASE Interrupted(t)
  BY <1>5, OnlyOne DEF Interrupted
<1> QED
  BY <1>1, <1>2, <1>3, <1>4, <1>5 DEF Finish

(* A crash leaves the disk as it is, and no setup half-way.                *)
LEMMA CrashInv ==
  ASSUME Inv, Crash
  PROVE  Inv'
<1> USE DEF Inv, Types, Underway, Installed, Whole, Crash, Steps
<1>1. Types' /\ Needed'
  BY DEF Needed
<1>2. ASSUME ~overlapped' PROVE AloneInv'
  BY <1>2 DEF AloneInv, Alone, Staged, Reported, Left
<1> QED
  BY <1>1, <1>2

(* Every step keeps the invariant, whether setups overlap or not.          *)
LEMMA StepInv == Inv /\ [Next]_vars => Inv'
<1> SUFFICES ASSUME Inv, [Next]_vars
             PROVE  Inv'
  OBVIOUS
<1>1. CASE UNCHANGED vars
  BY <1>1 DEF vars, history, Inv, Types, Needed, AloneInv, Alone, Staged, Reported, Left, Underway,
              Installed, Whole
<1>2. CASE Crash
  BY <1>2, CrashInv
<1>3. ASSUME NEW t \in Setups, Download(t) \/ Unpack(t) \/ Finish(t)
      PROVE  Inv'
  <2>1. Types' /\ Needed'
    BY <1>3, DownloadGeneral, UnpackGeneral, FinishGeneral DEF Inv
  <2>2. ASSUME ~overlapped' PROVE AloneInv'
    BY <1>3, <2>2, DownloadAlone, UnpackAlone, FinishAlone
  <2> QED
    BY <2>1, <2>2 DEF Inv
<1> QED
  BY <1>1, <1>2, <1>3 DEF Next

-----------------------------------------------------------------------------
(* The invariant of install(): a setup that no swap has overtaken goes on  *)
(* only while nothing is installed, and, while setups do not overlap,      *)
(* reaches the swap only with all there is (linuxenv.py:529-592).          *)
THEOREM Invariant == Spec => []Inv
  BY InitInv, StepInv, PTL DEF Spec

(* While no two setups overlap, the environment that the program takes for *)
(* installed is whole, and what a killed or interrupted setup left half-way*)
(* is never taken for one (linuxenv.py:589).                               *)
THEOREM WholeWhenAlone == Spec => []InstalledIsWhole
<1>1. Inv => InstalledIsWhole
  BY DEF Inv, AloneInv, InstalledIsWhole
<1> QED
  BY <1>1, Invariant, PTL

(* While no two setups overlap, one that reports success has installed a   *)
(* whole environment (linuxenv.py:527-531, 596-597).                       *)
THEOREM SuccessIsReal == Spec => []SetupInstalls
<1>1. Inv => SetupInstalls
  BY DEF Inv, AloneInv, Reported, SetupInstalls
<1> QED
  BY <1>1, Invariant, PTL

(* Only the steps of a swap write to the live directory. *)
LEMMA WhoWrites ==
  ASSUME [Next]_vars
  PROVE  \/ rootfs' = rootfs
         \/ \E t \in Setups : \/ Replace(t) \/ RootfsCleared(t)
                              \/ \E item \in Content : ClearRootfs(t, item)
<1>1. CASE UNCHANGED vars
  BY <1>1 DEF vars
<1>2. CASE Crash
  BY <1>2 DEF Crash
<1>3. ASSUME NEW t \in Setups, Download(t)
      PROVE  rootfs' = rootfs
  BY <1>3 DEF Download, Begin, Already, Open, Receive, DownloadFails, Verify, MkdirFails
<1>4. ASSUME NEW t \in Setups, Unpack(t)
      PROVE  rootfs' = rootfs \/ RootfsCleared(t) \/ \E item \in Content : ClearRootfs(t, item)
  BY <1>4 DEF Unpack, MakeStaging, OpenArchive, Bootstrap, SetupFails, StagingCleared, ClearStaging,
              ClearSkips, Extract
<1>5. ASSUME NEW t \in Setups, Finish(t)
      PROVE  rootfs' = rootfs \/ Replace(t)
  BY <1>5 DEF Finish, Swap, Unlink, Return, Interrupted
<1> QED
  BY <1>1, <1>2, <1>3, <1>4, <1>5 DEF Next

(* However many setups run at the same time, an installed environment is   *)
(* taken away only by one that had tested for it (linuxenv.py:529) before  *)
(* another setup swapped it in: the exact limit of "Idempotent" (528).     *)
THEOREM TakenOnlyByStale == Spec => InstalledStays
<1>1. ASSUME Inv, [Next]_vars, Installed, ~Installed'
      PROVE  \E t \in stale : pc[t] = "swap" /\ todo'[t] # todo[t]
  <2>1. PICK t \in Setups : \/ Replace(t) \/ RootfsCleared(t)
                            \/ \E item \in Content : ClearRootfs(t, item)
    BY <1>1, WhoWrites DEF Installed
  <2>2. pc[t] = "swap"
    BY <2>1 DEF Replace, RootfsCleared, ClearRootfs, Goto
  <2>3. t \in stale
    BY <1>1, <2>2 DEF Inv, Needed, Underway
  <2>4. ~ Replace(t)
    BY <1>1 DEF Replace, CanReplace, Installed
  <2>5. todo'[t] # todo[t]
    BY <1>1, <2>1, <2>4 DEF Inv, Types, RootfsCleared, ClearRootfs, Done, ToDo
  <2> QED
    BY <2>2, <2>3, <2>5
<1>2. Inv /\ [Next]_vars =>
        [Installed /\ ~Installed' => \E t \in stale : pc[t] = "swap" /\ todo'[t] # todo[t]]_vars
  BY <1>1
<1> QED
  BY <1>2, Invariant, PTL DEF Spec, InstalledStays

(* A setup that ends by itself, from the download on, leaves no tarball,   *)
(* and one that succeeds no staging directory, whatever earlier ones that  *)
(* were killed, interrupted or stuck left there (linuxenv.py:569-595), as  *)
(* long as no two overlap.                                                 *)
THEOREM TidyWhenAlone == Spec => NothingLeftBehind
<1>1. ASSUME Inv, Next, NEW t \in Setups, ~overlapped, pc[t] # "idle", pc'[t] = "idle"
      PROVE  /\ result'[t] \in {"ok", "failed"} => tarball' = None
             /\ result'[t] = "ok" => staging' = Absent
  <2> USE DEF Goto, Ends, Closed, Has, ToDo, Done
  <2>0. Types /\ AloneInv /\ \A u \in Setups : u # t => pc[u] = "idle"
    BY <1>1, OnlyOne
  <2>1. CASE Crash
    BY <2>1 DEF Crash
  <2>2. ASSUME NEW u \in Setups, Download(u) \/ Unpack(u) \/ Finish(u), u # t
        PROVE  FALSE
    <3>1. pc[u] = "idle" /\ pc'[t] # pc[t]
      BY <1>1, <2>0, <2>2
    <3> QED
      BY <2>0, <2>2, <3>1 DEF Types, Download, Begin, Already, Open, Receive, DownloadFails, Verify,
         MkdirFails, Unpack, MakeStaging, OpenArchive, Bootstrap, SetupFails, StagingCleared,
         RootfsCleared, ClearStaging, ClearRootfs, Extract, ClearSkips, Finish, Swap, Replace, Unlink,
         Return, Interrupted
  <2>3. CASE Download(t)
    BY <1>1, <2>0, <2>3 DEF Types, Download, Begin, Already, Open, Receive, DownloadFails, Verify,
                            MkdirFails
  <2>4. CASE Unpack(t)
    BY <1>1, <2>0, <2>4 DEF Types, Unpack, MakeStaging, OpenArchive, Bootstrap, SetupFails,
       StagingCleared, RootfsCleared, ClearStaging, ClearRootfs, Extract, ClearSkips
  <2>5. CASE Finish(t)
    BY <1>1, <2>0, <2>5 DEF Types, AloneInv, Left, Finish, Swap, Replace, Unlink, Return, Interrupted
  <2> QED
    BY <1>1, <2>1, <2>2, <2>3, <2>4, <2>5 DEF Next
<1>2. Inv /\ [Next]_vars =>
        [\A t \in Setups : ~overlapped /\ pc[t] # "idle" /\ pc'[t] = "idle" =>
           /\ result'[t] \in {"ok", "failed"} => tarball' = None
           /\ result'[t] = "ok" => staging' = Absent]_vars
  BY <1>1
<1> QED
  BY <1>2, Invariant, PTL DEF Spec, NothingLeftBehind
=============================================================================
