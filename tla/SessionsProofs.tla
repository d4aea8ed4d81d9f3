--------------------------- MODULE SessionsProofs ---------------------------
(* Theorems about Sessions, for any number of handler threads, emitters,   *)
(* sessions and geometries.                                                *)
EXTENDS Sessions, FiniteSetTheorems, SequenceTheorems, TLAPS

(* A thread at p with locals r that acts on a session holds its id, and    *)
(* one that emits holds the number of a chunk.                             *)
Located(p, r) ==
  /\ p \in Creating \cup {"fit", "reset", "history", "replay"} => r.tgt \in Ids
  /\ p \in {"banner", "send"} => r.n \in 1 .. OutBound
  /\ p \in {"hello_reset", "hello_replay"} => r.tgt \in Ids \/ r.n = 0

Addressed == \A a \in Actors : Located(pc[a], loc[a])

(* _order enumerates the sessions, whose ids _counter has given out *)
Listed ==
  /\ ToSet(order) = sessions /\ IsInjective(order)
  /\ \A s \in sessions : s <= counter

TypeInv == TypeOK /\ Addressed /\ Listed

-----------------------------------------------------------------------------
(* What the helpers of the model return                                    *)

(* A thread at rest has well-typed locals.                                 *)
LEMMA NoLocalsType == NoLocals \in Locals
  BY SessionsAssumption DEF NoLocals, Locals

(* Assigning one local keeps the locals well-typed and the others as they were.*)
LEMMA UpdateType ==
  ASSUME NEW r \in Locals
  PROVE  /\ \A x \in Ids \cup {NoSession} :
              /\ [r EXCEPT !.tgt = x] \in Locals
              /\ [r EXCEPT !.tgt = x].tgt = x /\ [r EXCEPT !.tgt = x].n = r.n
         /\ \A x \in BOOLEAN :
              /\ [r EXCEPT !.was = x] \in Locals
              /\ [r EXCEPT !.was = x].tgt = r.tgt /\ [r EXCEPT !.was = x].n = r.n
         /\ \A x \in 0 .. OutBound :
              /\ [r EXCEPT !.n = x] \in Locals
              /\ [r EXCEPT !.n = x].tgt = r.tgt /\ [r EXCEPT !.n = x].n = x
         /\ \A x \in Geoms :
              /\ [r EXCEPT !.g = x] \in Locals
              /\ [r EXCEPT !.g = x].tgt = r.tgt /\ [r EXCEPT !.g = x].n = r.n
         /\ \A x \in {"switch", "snapshot"} : [r EXCEPT !.ret = x] \in Locals
         /\ \A x \in SUBSET Ids : [r EXCEPT !.strip = x] \in Locals
         /\ \A x \in Ids \cup {NoSession} : [r EXCEPT !.act = x] \in Locals
  BY DEF Locals

(* The locals an operation starts with, or keeps when it has nothing to    *)
(* remember, are well-typed.                                               *)
LEMMA FreshType ==
  ASSUME NEW s \in Ids \cup {NoSession}
  PROVE  /\ [NoLocals EXCEPT !.ret = "switch"] \in Locals
         /\ [NoLocals EXCEPT !.tgt = s] \in Locals
         /\ \A g \in Geoms : [NoLocals EXCEPT !.tgt = s, !.g = g] \in Locals
         /\ \A S \in SUBSET Ids : [NoLocals EXCEPT !.strip = S, !.act = s] \in Locals
<1>1. /\ [NoLocals EXCEPT !.ret = "switch"] \in Locals
      /\ [NoLocals EXCEPT !.tgt = s] \in Locals
  BY NoLocalsType, UpdateType
<1>2. ASSUME NEW g \in Geoms
      PROVE  [NoLocals EXCEPT !.tgt = s, !.g = g] \in Locals
  <2> DEFINE q == [NoLocals EXCEPT !.tgt = s]
  <2>1. q \in Locals
    BY <1>1
  <2> HIDE DEF q
  <2>2. [q EXCEPT !.g = g] \in Locals
    BY <2>1, UpdateType
  <2>3. QED
    BY <2>2 DEF q
<1>3. ASSUME NEW S \in SUBSET Ids
      PROVE  [NoLocals EXCEPT !.strip = S, !.act = s] \in Locals
  <2> DEFINE q == [NoLocals EXCEPT !.strip = S]
  <2>1. q \in Locals
    BY NoLocalsType, UpdateType
  <2> HIDE DEF q
  <2>2. [q EXCEPT !.act = s] \in Locals
    BY <2>1, UpdateType
  <2>3. QED
    BY <2>2 DEF q
<1>4. QED
  BY <1>1, <1>2, <1>3

(* Between operations, and where an operation begins, nothing is required  *)
(* of the locals.                                                          *)
LEMMA LocatedFree ==
  ASSUME NEW r, NEW p \in {"idle", "create", "snapshot", "switch", "close",
                          "resize", "push", "reread"}
  PROVE  Located(p, r)
  BY DEF Located, Creating

(* A replay of a session's scrollback consists of chunks.                  *)
LEMMA HistoryType ==
  ASSUME NEW s, NEW n \in 0 .. OutBound, s \in Ids \/ n = 0
  PROVE  History(s, n) \subseteq Chunks
  BY SessionsAssumption DEF History, Chunks

(* A broadcast leaves each screen a set of chunks.                         *)
LEMMA BroadcastType ==
  ASSUME ViewTypes, NEW data \in SUBSET Chunks, Broadcast(data)
  PROVE  screen' \in [Ops -> SUBSET Chunks]
  BY DEF ViewTypes, Broadcast

(* So does a reset.                                                        *)
LEMMA ResetType ==
  ASSUME ViewTypes, BroadcastReset
  PROVE  screen' \in [Ops -> SUBSET Chunks]
  BY DEF ViewTypes, BroadcastReset

(* A step of thread a that leaves its locals r where they are well placed  *)
LEMMA ThreadStep ==
  ASSUME TypeInv, NEW a \in Actors, NEW from, NEW to \in Pcs, NEW r \in Locals,
         Goto(a, from, to), loc' = [loc EXCEPT ![a] = r], Located(to, r)
  PROVE  ThreadTypes' /\ Addressed'
<1>1. ThreadTypes'
  BY DEF TypeInv, TypeOK, ThreadTypes, Goto
<1>2. \A b \in Actors : /\ pc'[b] = IF b = a THEN to ELSE pc[b]
                        /\ loc'[b] = IF b = a THEN r ELSE loc[b]
  BY DEF TypeInv, TypeOK, ThreadTypes, Goto
<1>3. QED
  BY <1>1, <1>2 DEF TypeInv, Addressed, Located

(* A step of thread a that leaves its locals alone.                        *)
LEMMA ThreadStepSame ==
  ASSUME TypeInv, NEW a \in Actors, NEW from, NEW to \in Pcs,
         Goto(a, from, to), UNCHANGED loc, Located(to, loc[a])
  PROVE  ThreadTypes' /\ Addressed'
<1>1. loc' = [loc EXCEPT ![a] = loc[a]] /\ loc[a] \in Locals
  BY DEF TypeInv, TypeOK, ThreadTypes
<1>2. QED
  BY <1>1, ThreadStep

(* tab removal: the order without position i                               *)
LEMMA RemoveAtType ==
  ASSUME NEW S, NEW q \in Seq(S), NEW i \in 1 .. Len(q)
  PROVE  /\ RemoveAt(q, i) \in Seq(S)
         /\ Len(RemoveAt(q, i)) = Len(q) - 1
         /\ \A j \in 1 .. Len(q) - 1 : RemoveAt(q, i)[j] = IF j < i THEN q[j] ELSE q[j + 1]
<1> DEFINE left == SubSeq(q, 1, i - 1)
           right == SubSeq(q, i + 1, Len(q))
<1>1. /\ left \in Seq(S) /\ Len(left) = i - 1
      /\ \A j \in 1 .. i - 1 : left[j] = q[j]
  BY SubSeqProperties
<1>2. /\ right \in Seq(S) /\ Len(right) = Len(q) - i
      /\ \A j \in 1 .. Len(q) - i : right[j] = q[i + j]
  BY SubSeqProperties
<1>3. RemoveAt(q, i) = left \o right
  BY DEF RemoveAt
<1> HIDE DEF left, right
<1>4. /\ left \o right \in Seq(S)
      /\ Len(left \o right) = Len(left) + Len(right)
      /\ \A j \in 1 .. Len(left) + Len(right) :
           (left \o right)[j] = IF j <= Len(left) THEN left[j] ELSE right[j - Len(left)]
  BY <1>1, <1>2, ConcatProperties
<1>5. ASSUME NEW j \in 1 .. Len(q) - 1
      PROVE  (left \o right)[j] = IF j < i THEN q[j] ELSE q[j + 1]
  <2>1. CASE j < i
    BY <2>1, <1>1, <1>2, <1>4
  <2>2. CASE ~(j < i)
    <3>1. j - (i - 1) \in 1 .. Len(q) - i /\ i + (j - (i - 1)) = j + 1
      BY <2>2
    <3>2. (left \o right)[j] = right[j - (i - 1)]
      BY <2>2, <1>1, <1>2, <1>4
    <3>3. right[j - (i - 1)] = q[i + (j - (i - 1))]
      BY <3>1, <1>2
    <3>4. QED
      BY <2>2, <3>1, <3>2, <3>3
  <2>3. QED
    BY <2>1, <2>2
<1>6. QED
  BY <1>1, <1>2, <1>3, <1>4, <1>5

(* What close() computes when it pops tab s                                *)
LEMMA WithoutType ==
  ASSUME TypeInv, NEW s \in sessions
  PROVE  /\ Without(s) \in Seq(Ids)
         /\ ToSet(Without(s)) = sessions \ {s}
         /\ IsInjective(Without(s))
         /\ Successor(s) \in (sessions \ {s}) \cup {NoSession}
<1> DEFINE i == Position(s)
           rest == Without(s)
<1>1. i \in 1 .. Len(order) /\ order[i] = s
  BY DEF TypeInv, TypeOK, ManagerTypes, Listed, ToSet, Position
<1>2. \A j, k \in 1 .. Len(order) : order[j] = order[k] => j = k
  BY DEF TypeInv, TypeOK, ManagerTypes, Listed, IsInjective
<1>3. order \in Seq(Ids) /\ sessions = {order[j] : j \in 1 .. Len(order)}
  BY DEF TypeInv, TypeOK, ManagerTypes, Listed, ToSet
<1>4. /\ rest \in Seq(Ids) /\ Len(rest) = Len(order) - 1
      /\ \A j \in 1 .. Len(order) - 1 : rest[j] = IF j < i THEN order[j] ELSE order[j + 1]
  BY <1>1, <1>3, RemoveAtType DEF Without
<1> HIDE DEF i, rest
<1>5. \A j \in 1 .. Len(rest) : rest[j] \in sessions \ {s}
  BY <1>1, <1>2, <1>3, <1>4
<1>6. ASSUME NEW x \in sessions \ {s}
      PROVE  \E j \in 1 .. Len(rest) : rest[j] = x
  <2>1. PICK k \in 1 .. Len(order) : order[k] = x
    BY <1>3
  <2>2. CASE k < i
    BY <2>1, <2>2, <1>1, <1>4
  <2>3. CASE k > i
    <3>1. k - 1 \in 1 .. Len(rest) /\ rest[k - 1] = x
      BY <2>1, <2>3, <1>1, <1>4
    <3>2. QED
      BY <3>1
  <2>4. QED
    BY <2>1, <2>2, <2>3, <1>1
<1>7. ToSet(rest) = sessions \ {s}
  BY <1>4, <1>5, <1>6 DEF ToSet
<1>8. IsInjective(rest)
  <2>1. \A j, k \in 1 .. Len(rest) : rest[j] = rest[k] => j = k
    BY <1>1, <1>2, <1>4
  <2>2. QED
    BY <2>1, <1>4 DEF IsInjective
<1>9. Successor(s) \in (sessions \ {s}) \cup {NoSession}
  <2>1. CASE rest = <<>>
    BY <2>1 DEF Successor, rest
  <2>2. CASE rest # <<>>
    <3>1. Len(rest) \in Nat /\ Len(rest) > 0
      BY <2>2, <1>4
    <3>2. (IF i <= Len(rest) THEN i ELSE Len(rest)) \in 1 .. Len(rest)
      BY <3>1, <1>1, <1>4
    <3>3. Successor(s) = rest[IF i <= Len(rest) THEN i ELSE Len(rest)]
      BY <2>2 DEF Successor, rest, i
    <3>4. QED
      BY <3>2, <3>3, <1>5
  <2>3. QED
    BY <2>1, <2>2
<1>10. QED
  BY <1>4, <1>7, <1>8, <1>9 DEF rest

(* Connecting and losing a connection *)
LEMMA ConnectStepTypes ==
  ASSUME TypeInv, NEW t \in Ops, ConnectStep(t)
  PROVE  TypeInv'
<1>1. t \in Actors
  BY DEF Actors
<1>2. loc[t] \in Locals /\ loc[t].tgt \in Ids \cup {NoSession} /\ Located(pc[t], loc[t])
  BY <1>1 DEF TypeInv, TypeOK, ThreadTypes, Locals, Addressed
<1>3. CASE Connect(t)
  <2>1. "hello" \in Pcs /\ Goto(t, "idle", "hello") /\ UNCHANGED loc
    BY <1>3 DEF Connect, Pcs
  <2>2. Located("hello", loc[t])
    BY <1>3, <1>1, <1>2 DEF Connect, Located, Creating, Goto, TypeInv, Addressed
  <2>3. ThreadTypes' /\ Addressed'
    BY <2>1, <2>2, <1>1, ThreadStepSame
  <2>4. QED
    BY <1>3, <2>3, <1>1, <1>2, SessionsAssumption DEF TypeInv, TypeOK, ManagerTypes,
         TerminalTypes, ViewTypes, Listed, manager, terminals, views, Connect
<1>4. CASE HelloActive(t)
  <2> DEFINE r == [loc[t] EXCEPT !.tgt = active]
  <2>1. /\ Goto(t, "hello", "hello_history") /\ "hello_history" \in Pcs
        /\ loc' = [loc EXCEPT ![t] = r]
    BY <1>4, <1>1, <1>2 DEF HelloActive, Forget, ForgetIf, Pcs, Locals
  <2>2. active \in Ids \cup {NoSession}
    BY <1>4, <1>2, SessionsAssumption DEF HelloActive, Located, Goto, Creating, TypeInv, TypeOK,
         ManagerTypes, TerminalTypes, Ids
  <2>3. r \in Locals /\ r.tgt = active /\ r.n = loc[t].n
    BY <2>2, <1>2, UpdateType
  <2>4. Located("hello_history", r)
    BY <1>4, <2>2, <2>3, <1>1, <1>2, SessionsAssumption DEF HelloActive, Located, Creating, Goto,
         TypeInv, TypeOK, ManagerTypes, TerminalTypes
  <2>5. ThreadTypes' /\ Addressed'
    BY <2>1, <2>2, <2>3, <2>4, <1>1, ThreadStep
  <2>6. QED
    BY <1>4, <2>5, <1>1, <1>2, SessionsAssumption DEF TypeInv, TypeOK, ManagerTypes,
         TerminalTypes, ViewTypes, Listed, manager, terminals, views, HelloActive
<1>5. CASE HelloHistory(t)
  <2> DEFINE r == [loc[t] EXCEPT !.n = (IF loc[t].tgt = NoSession THEN 0 ELSE out[loc[t].tgt])]
  <2>1. /\ Goto(t, "hello_history", "hello_reset") /\ "hello_reset" \in Pcs
        /\ loc' = [loc EXCEPT ![t] = r]
    BY <1>5, <1>1, <1>2 DEF HelloHistory, Forget, ForgetIf, Pcs, Locals
  <2>2. (IF loc[t].tgt = NoSession THEN 0 ELSE out[loc[t].tgt]) \in 0 .. OutBound
    BY <1>5, <1>2, SessionsAssumption DEF HelloHistory, Located, Goto, Creating, TypeInv, TypeOK,
         ManagerTypes, TerminalTypes, Ids
  <2>3. r \in Locals /\ r.n = (IF loc[t].tgt = NoSession THEN 0 ELSE out[loc[t].tgt]) /\ r.tgt = loc[t].tgt
    BY <2>2, <1>2, UpdateType
  <2>4. Located("hello_reset", r)
    BY <1>5, <2>2, <2>3, <1>1, <1>2, SessionsAssumption DEF HelloHistory, Located, Creating,
         Goto, TypeInv, TypeOK, ManagerTypes, TerminalTypes
  <2>5. ThreadTypes' /\ Addressed'
    BY <2>1, <2>2, <2>3, <2>4, <1>1, ThreadStep
  <2>6. QED
    BY <1>5, <2>5, <1>1, <1>2, SessionsAssumption DEF TypeInv, TypeOK, ManagerTypes,
         TerminalTypes, ViewTypes, Listed, manager, terminals, views, HelloHistory
<1>6. CASE HelloReset(t)
  <2>1. "hello_replay" \in Pcs /\ Goto(t, "hello_reset", "hello_replay") /\ UNCHANGED loc
    BY <1>6 DEF HelloReset, Pcs
  <2>2. Located("hello_replay", loc[t])
    BY <1>6, <1>1, <1>2 DEF HelloReset, Located, Creating, Goto, TypeInv, Addressed
  <2>3. ThreadTypes' /\ Addressed'
    BY <2>1, <2>2, <1>1, ThreadStepSame
  <2>4. QED
    BY <1>6, <2>3, <1>1, <1>2, SessionsAssumption DEF TypeInv, TypeOK, ManagerTypes,
         TerminalTypes, ViewTypes, Listed, manager, terminals, views, HelloReset
<1>7. CASE HelloReplay(t)
  <2> DEFINE r == NoLocals
  <2>1. /\ Goto(t, "hello_replay", "snapshot") /\ "snapshot" \in Pcs
        /\ loc' = [loc EXCEPT ![t] = r]
    BY <1>7, <1>1, <1>2 DEF HelloReplay, Forget, ForgetIf, Pcs, Locals
  <2>2. r \in Locals /\ Located("snapshot", r)
    <3>1. r \in Locals
      BY NoLocalsType
    <3>2. Located("snapshot", r)
      BY LocatedFree
    <3>3. QED
      BY <3>1, <3>2
  <2>3. ThreadTypes' /\ Addressed'
    BY <2>1, <2>2, <1>1, ThreadStep
  <2>4. screen' \in [Ops -> SUBSET Chunks]
    BY <1>7, <1>1, <1>2, HistoryType DEF HelloReplay, TypeInv, TypeOK, ViewTypes, Addressed,
         Located, Goto, Locals
  <2>5. QED
    BY <1>7, <2>3, <2>4, <1>1, <1>2, SessionsAssumption DEF TypeInv, TypeOK, ManagerTypes,
         TerminalTypes, ViewTypes, Listed, manager, terminals, views, HelloReplay
<1>8. CASE Drop(t)
  BY <1>8, SessionsAssumption DEF TypeInv, TypeOK, ManagerTypes, TerminalTypes, ViewTypes,
       ThreadTypes, Addressed, Listed, Drop, manager, terminals
<1>9. QED
  BY <1>3, <1>4, <1>5, <1>6, <1>7, <1>8 DEF ConnectStep

(* create() *)
LEMMA CreateStepTypes ==
  ASSUME TypeInv, NEW t \in Ops, CreateStep(t)
  PROVE  TypeInv'
<1>1. t \in Actors
  BY DEF Actors
<1>2. loc[t] \in Locals /\ loc[t].tgt \in Ids \cup {NoSession} /\ Located(pc[t], loc[t])
  BY <1>1 DEF TypeInv, TypeOK, ThreadTypes, Locals, Addressed
<1>3. CASE New(t)
  <2> DEFINE r == [NoLocals EXCEPT !.ret = "switch"]
  <2>1. /\ Goto(t, "idle", "create") /\ "create" \in Pcs
        /\ loc' = [loc EXCEPT ![t] = r]
    BY <1>3, <1>1, <1>2 DEF New, Forget, ForgetIf, Pcs, Locals
  <2>2. r \in Locals /\ Located("create", r)
    <3>1. r \in Locals
      BY FreshType
    <3>2. Located("create", r)
      BY LocatedFree
    <3>3. QED
      BY <3>1, <3>2
  <2>3. ThreadTypes' /\ Addressed'
    BY <2>1, <2>2, <1>1, ThreadStep
  <2>4. QED
    BY <1>3, <2>3, <1>1, <1>2, SessionsAssumption DEF TypeInv, TypeOK, ManagerTypes,
         TerminalTypes, ViewTypes, Listed, manager, terminals, views, New
<1>4. CASE CreateRefused(t)
  <2> DEFINE r == NoLocals
  <2>1. /\ Goto(t, "create", "snapshot") /\ "snapshot" \in Pcs
        /\ loc' = [loc EXCEPT ![t] = r]
    BY <1>4, <1>1, <1>2 DEF CreateRefused, Forget, ForgetIf, Pcs, Locals
  <2>2. r \in Locals /\ Located("snapshot", r)
    <3>1. r \in Locals
      BY NoLocalsType
    <3>2. Located("snapshot", r)
      BY LocatedFree
    <3>3. QED
      BY <3>1, <3>2
  <2>3. ThreadTypes' /\ Addressed'
    BY <2>1, <2>2, <1>1, ThreadStep
  <2>4. QED
    BY <1>4, <2>3, <1>1, <1>2, SessionsAssumption DEF TypeInv, TypeOK, ManagerTypes,
         TerminalTypes, ViewTypes, Listed, manager, terminals, views, CreateRefused
<1>5. CASE CreateEnter(t)
  <2> DEFINE r == [loc[t] EXCEPT !.tgt = counter']
  <2>1. /\ Goto(t, "create", (IF active = NoSession THEN "start" ELSE "wipe")) /\ (IF active = NoSession THEN "start" ELSE "wipe") \in Pcs
        /\ loc' = [loc EXCEPT ![t] = r]
    BY <1>5, <1>1, <1>2 DEF CreateEnter, Forget, ForgetIf, Pcs, Locals
  <2>2. counter' = counter + 1 /\ counter' \in Ids /\ counter' \notin sessions
    BY <1>5, SessionsAssumption DEF CreateEnter, TypeInv, TypeOK, ManagerTypes, Listed, Ids
  <2>3. counter' \in Ids \cup {NoSession}
    BY <1>5, <1>2, SessionsAssumption DEF CreateEnter, Located, Goto, Creating, TypeInv, TypeOK,
         ManagerTypes, TerminalTypes, Ids
  <2>4. r \in Locals /\ r.tgt = counter' /\ r.n = loc[t].n
    BY <2>3, <1>2, UpdateType
  <2>5. Located((IF active = NoSession THEN "start" ELSE "wipe"), r)
    BY <1>5, <2>3, <2>4, <2>2, <1>1, <1>2, SessionsAssumption DEF CreateEnter, Located, Creating,
         Goto, TypeInv, TypeOK, ManagerTypes, TerminalTypes
  <2>6. ThreadTypes' /\ Addressed'
    BY <2>1, <2>3, <2>4, <2>5, <1>1, ThreadStep
  <2>7. sessions' = sessions \cup {counter'} /\ order' = Append(order, counter') /\ active' = counter'
    BY <1>5 DEF CreateEnter
  <2>8. Listed'
    <3>1. /\ order' \in Seq(Ids) /\ Len(order') = Len(order) + 1
          /\ \A i \in 1 .. Len(order) : order'[i] = order[i]
          /\ order'[Len(order) + 1] = counter'
      BY <2>2, <2>7 DEF TypeInv, TypeOK, ManagerTypes
    <3>2. \A i \in 1 .. Len(order) : order[i] \in sessions
      BY DEF TypeInv, TypeOK, ManagerTypes, Listed, ToSet
    <3>3. \A i, j \in 1 .. Len(order) : order[i] = order[j] => i = j
      BY DEF TypeInv, TypeOK, ManagerTypes, Listed, IsInjective
    <3>4. IsInjective(order')
      <4>1. \A i, j \in 1 .. Len(order) + 1 : order'[i] = order'[j] => i = j
        BY <2>2, <3>1, <3>2, <3>3 DEF TypeInv, TypeOK, ManagerTypes
      <4>2. QED
        BY <3>1, <4>1 DEF IsInjective
    <3>5. ToSet(order') = sessions'
      <4>1. \A i \in 1 .. Len(order) + 1 : order'[i] \in sessions'
        BY <2>7, <3>1, <3>2 DEF TypeInv, TypeOK, ManagerTypes
      <4>2. ASSUME NEW s \in sessions
            PROVE  \E i \in 1 .. Len(order) + 1 : order'[i] = s
        <5>1. PICK i \in 1 .. Len(order) : order[i] = s
          BY DEF TypeInv, TypeOK, ManagerTypes, Listed, ToSet
        <5>2. QED
          BY <3>1, <5>1 DEF TypeInv, TypeOK, ManagerTypes
      <4>3. Len(order) + 1 \in 1 .. Len(order) + 1
        BY DEF TypeInv, TypeOK, ManagerTypes
      <4>4. QED
        BY <2>7, <3>1, <4>1, <4>2, <4>3 DEF ToSet
    <3>6. \A s \in sessions' : s <= counter'
      BY <2>2, <2>7 DEF TypeInv, TypeOK, ManagerTypes, Listed, Ids
    <3>7. QED
      BY <3>4, <3>5, <3>6 DEF Listed
  <2>9. ManagerTypes'
    BY <1>5, <2>2, <2>7 DEF CreateEnter, TypeInv, TypeOK, ManagerTypes
  <2>10. QED
    BY <1>5, <2>6, <2>8, <2>9 DEF CreateEnter, TypeInv, TypeOK, TerminalTypes, ViewTypes,
         terminals, views
<1>6. CASE CreateWipe(t)
  <2>1. "start" \in Pcs /\ Goto(t, "wipe", "start") /\ UNCHANGED loc
    BY <1>6 DEF CreateWipe, Pcs
  <2>2. Located("start", loc[t])
    BY <1>6, <1>1, <1>2 DEF CreateWipe, Located, Creating, Goto, TypeInv, Addressed
  <2>3. ThreadTypes' /\ Addressed'
    BY <2>1, <2>2, <1>1, ThreadStepSame
  <2>4. screen' \in [Ops -> SUBSET Chunks]
    BY <1>6, ResetType DEF CreateWipe, TypeInv, TypeOK
  <2>5. QED
    BY <1>6, <2>3, <2>4, <1>1, <1>2, SessionsAssumption DEF TypeInv, TypeOK, ManagerTypes,
         TerminalTypes, ViewTypes, Listed, manager, terminals, views, CreateWipe
<1>7. CASE CreateStart(t)
  <2> DEFINE r == [loc[t] EXCEPT !.n = 1]
  <2>1. /\ Goto(t, "start", "banner") /\ "banner" \in Pcs
        /\ loc' = [loc EXCEPT ![t] = r]
    BY <1>7, <1>1, <1>2 DEF CreateStart, Forget, ForgetIf, Pcs, Locals
  <2>2. 1 \in 0 .. OutBound
    BY <1>7, <1>2, SessionsAssumption DEF CreateStart, Located, Goto, Creating, TypeInv, TypeOK,
         ManagerTypes, TerminalTypes, Ids
  <2>3. r \in Locals /\ r.n = 1 /\ r.tgt = loc[t].tgt
    BY <2>2, <1>2, UpdateType
  <2>4. Located("banner", r)
    BY <1>7, <2>2, <2>3, <1>1, <1>2, SessionsAssumption DEF CreateStart, Located, Creating, Goto,
         TypeInv, TypeOK, ManagerTypes, TerminalTypes
  <2>5. ThreadTypes' /\ Addressed'
    BY <2>1, <2>2, <2>3, <2>4, <1>1, ThreadStep
  <2>6. /\ sgeom' \in [Ids -> Geoms] /\ out' \in [Ids -> 0 .. OutBound]
        /\ running' \subseteq Ids
    BY <1>7, <1>2, <2>2 DEF CreateStart, TypeInv, TypeOK, ManagerTypes, TerminalTypes, Located,
         Creating, Goto
  <2>7. QED
    BY <1>7, <2>5, <2>6 DEF CreateStart, TypeInv, TypeOK, ManagerTypes, TerminalTypes, ViewTypes,
         Listed, manager, views
<1>8. CASE CreateLeave(t)
  <2> DEFINE r == (IF loc[t].ret = "snapshot" THEN NoLocals ELSE loc[t])
  <2>1. /\ Goto(t, "leave", loc[t].ret) /\ loc[t].ret \in Pcs
        /\ loc' = [loc EXCEPT ![t] = r]
    BY <1>8, <1>1, <1>2 DEF CreateLeave, Forget, ForgetIf, Pcs, Locals
  <2>2. r \in Locals /\ Located(loc[t].ret, r)
    <3>1. r \in Locals
      BY <1>2, NoLocalsType
    <3>2. loc[t].ret \in {"switch", "snapshot"}
      BY <1>2 DEF Locals
    <3>3. Located(loc[t].ret, r)
      BY <3>2, LocatedFree
    <3>4. QED
      BY <3>1, <3>2, <3>3
  <2>3. ThreadTypes' /\ Addressed'
    BY <2>1, <2>2, <1>1, ThreadStep
  <2>4. QED
    BY <1>8, <2>3, <1>1, <1>2, SessionsAssumption DEF TypeInv, TypeOK, ManagerTypes,
         TerminalTypes, ViewTypes, Listed, manager, terminals, views, CreateLeave
<1>9. QED
  BY <1>3, <1>4, <1>5, <1>6, <1>7, <1>8 DEF CreateStep

(* switch() *)
LEMMA SwitchStepTypes ==
  ASSUME TypeInv, NEW t \in Ops, SwitchStep(t)
  PROVE  TypeInv'
<1>1. t \in Actors
  BY DEF Actors
<1>2. loc[t] \in Locals /\ loc[t].tgt \in Ids \cup {NoSession} /\ Located(pc[t], loc[t])
  BY <1>1 DEF TypeInv, TypeOK, ThreadTypes, Locals, Addressed
<1>3. ASSUME NEW s \in Ids, Switch(t, s)
      PROVE  TypeInv'
  <2> DEFINE r == [NoLocals EXCEPT !.tgt = s]
  <2>1. /\ Goto(t, "idle", "switch") /\ "switch" \in Pcs
        /\ loc' = [loc EXCEPT ![t] = r]
    BY <1>3, <1>1, <1>2 DEF Switch, Forget, ForgetIf, Pcs, Locals
  <2>2. r \in Locals /\ Located("switch", r)
    <3>1. r \in Locals
      BY <1>3, FreshType
    <3>2. Located("switch", r)
      BY LocatedFree
    <3>3. QED
      BY <3>1, <3>2
  <2>3. ThreadTypes' /\ Addressed'
    BY <2>1, <2>2, <1>1, ThreadStep
  <2>4. QED
    BY <1>3, <2>3, <1>1, <1>2, SessionsAssumption DEF TypeInv, TypeOK, ManagerTypes,
         TerminalTypes, ViewTypes, Listed, manager, terminals, views, Switch
<1>4. CASE SwitchNothing(t)
  <2> DEFINE r == NoLocals
  <2>1. /\ Goto(t, "switch", "snapshot") /\ "snapshot" \in Pcs
        /\ loc' = [loc EXCEPT ![t] = r]
    BY <1>4, <1>1, <1>2 DEF SwitchNothing, Forget, ForgetIf, Pcs, Locals
  <2>2. r \in Locals /\ Located("snapshot", r)
    <3>1. r \in Locals
      BY NoLocalsType
    <3>2. Located("snapshot", r)
      BY LocatedFree
    <3>3. QED
      BY <3>1, <3>2
  <2>3. ThreadTypes' /\ Addressed'
    BY <2>1, <2>2, <1>1, ThreadStep
  <2>4. QED
    BY <1>4, <2>3, <1>1, <1>2, SessionsAssumption DEF TypeInv, TypeOK, ManagerTypes,
         TerminalTypes, ViewTypes, Listed, manager, terminals, views, SwitchNothing
<1>5. CASE SwitchSet(t)
  <2> DEFINE r == [loc[t] EXCEPT !.g = geom]
  <2>1. /\ Goto(t, "switch", "fit") /\ "fit" \in Pcs
        /\ loc' = [loc EXCEPT ![t] = r]
    BY <1>5, <1>1, <1>2 DEF SwitchSet, Forget, ForgetIf, Pcs, Locals
  <2>2. geom \in Geoms
    BY <1>5, <1>2, SessionsAssumption DEF SwitchSet, Located, Goto, Creating, TypeInv, TypeOK,
         ManagerTypes, TerminalTypes, Ids
  <2>3. r \in Locals /\ r.tgt = loc[t].tgt /\ r.n = loc[t].n
    BY <2>2, <1>2, UpdateType
  <2>4. Located("fit", r)
    BY <1>5, <2>2, <2>3, <1>1, <1>2, SessionsAssumption DEF SwitchSet, Located, Creating, Goto,
         TypeInv, TypeOK, ManagerTypes, TerminalTypes
  <2>5. ThreadTypes' /\ Addressed'
    BY <2>1, <2>2, <2>3, <2>4, <1>1, ThreadStep
  <2>6. QED
    BY <1>5, <2>5, <1>1, <1>2, SessionsAssumption DEF TypeInv, TypeOK, ManagerTypes,
         TerminalTypes, ViewTypes, Listed, manager, terminals, views, SwitchSet
<1>6. CASE SwitchFit(t)
  <2> DEFINE r == [loc[t] EXCEPT !.g = DefaultGeom]
  <2>1. /\ Goto(t, "fit", "reset") /\ "reset" \in Pcs
        /\ loc' = [loc EXCEPT ![t] = r]
    BY <1>6, <1>1, <1>2 DEF SwitchFit, Forget, ForgetIf, Pcs, Locals
  <2>2. DefaultGeom \in Geoms
    BY <1>6, <1>2, SessionsAssumption DEF SwitchFit, Located, Goto, Creating, TypeInv, TypeOK,
         ManagerTypes, TerminalTypes, Ids
  <2>3. r \in Locals /\ r.tgt = loc[t].tgt /\ r.n = loc[t].n
    BY <2>2, <1>2, UpdateType
  <2>4. Located("reset", r)
    BY <1>6, <2>2, <2>3, <1>1, <1>2, SessionsAssumption DEF SwitchFit, Located, Creating, Goto,
         TypeInv, TypeOK, ManagerTypes, TerminalTypes
  <2>5. ThreadTypes' /\ Addressed'
    BY <2>1, <2>2, <2>3, <2>4, <1>1, ThreadStep
  <2>6. sgeom' \in [Ids -> Geoms]
    BY <1>6, <1>2 DEF SwitchFit, TypeInv, TypeOK, TerminalTypes, Locals
  <2>7. QED
    BY <1>6, <2>5, <2>6 DEF SwitchFit, TypeInv, TypeOK, ManagerTypes, TerminalTypes, ViewTypes,
         Listed, manager, views
<1>7. CASE SwitchReset(t)
  <2>1. "history" \in Pcs /\ Goto(t, "reset", "history") /\ UNCHANGED loc
    BY <1>7 DEF SwitchReset, Pcs
  <2>2. Located("history", loc[t])
    BY <1>7, <1>1, <1>2 DEF SwitchReset, Located, Creating, Goto, TypeInv, Addressed
  <2>3. ThreadTypes' /\ Addressed'
    BY <2>1, <2>2, <1>1, ThreadStepSame
  <2>4. screen' \in [Ops -> SUBSET Chunks]
    BY <1>7, ResetType DEF SwitchReset, TypeInv, TypeOK
  <2>5. QED
    BY <1>7, <2>3, <2>4, <1>1, <1>2, SessionsAssumption DEF TypeInv, TypeOK, ManagerTypes,
         TerminalTypes, ViewTypes, Listed, manager, terminals, views, SwitchReset
<1>8. CASE SwitchHistory(t)
  <2> DEFINE r == [loc[t] EXCEPT !.n = out[loc[t].tgt]]
  <2>1. /\ Goto(t, "history", "replay") /\ "replay" \in Pcs
        /\ loc' = [loc EXCEPT ![t] = r]
    BY <1>8, <1>1, <1>2 DEF SwitchHistory, Forget, ForgetIf, Pcs, Locals
  <2>2. out[loc[t].tgt] \in 0 .. OutBound
    BY <1>8, <1>2, SessionsAssumption DEF SwitchHistory, Located, Goto, Creating, TypeInv,
         TypeOK, ManagerTypes, TerminalTypes, Ids
  <2>3. r \in Locals /\ r.n = out[loc[t].tgt] /\ r.tgt = loc[t].tgt
    BY <2>2, <1>2, UpdateType
  <2>4. Located("replay", r)
    BY <1>8, <2>2, <2>3, <1>1, <1>2, SessionsAssumption DEF SwitchHistory, Located, Creating,
         Goto, TypeInv, TypeOK, ManagerTypes, TerminalTypes
  <2>5. ThreadTypes' /\ Addressed'
    BY <2>1, <2>2, <2>3, <2>4, <1>1, ThreadStep
  <2>6. QED
    BY <1>8, <2>5, <1>1, <1>2, SessionsAssumption DEF TypeInv, TypeOK, ManagerTypes,
         TerminalTypes, ViewTypes, Listed, manager, terminals, views, SwitchHistory
<1>9. CASE SwitchReplay(t)
  <2> DEFINE r == NoLocals
  <2>1. /\ Goto(t, "replay", "snapshot") /\ "snapshot" \in Pcs
        /\ loc' = [loc EXCEPT ![t] = r]
    BY <1>9, <1>1, <1>2 DEF SwitchReplay, Forget, ForgetIf, Pcs, Locals
  <2>2. r \in Locals /\ Located("snapshot", r)
    <3>1. r \in Locals
      BY NoLocalsType
    <3>2. Located("snapshot", r)
      BY LocatedFree
    <3>3. QED
      BY <3>1, <3>2
  <2>3. ThreadTypes' /\ Addressed'
    BY <2>1, <2>2, <1>1, ThreadStep
  <2>4. screen' \in [Ops -> SUBSET Chunks]
    BY <1>9, <1>1, <1>2, HistoryType, BroadcastType DEF SwitchReplay, TypeInv, TypeOK, Addressed,
         Located, Goto, Locals
  <2>5. QED
    BY <1>9, <2>3, <2>4, <1>1, <1>2, SessionsAssumption DEF TypeInv, TypeOK, ManagerTypes,
         TerminalTypes, ViewTypes, Listed, manager, terminals, views, SwitchReplay
<1>10. QED
  BY <1>3, <1>4, <1>5, <1>6, <1>7, <1>8, <1>9 DEF SwitchStep

(* close() *)
LEMMA CloseStepTypes ==
  ASSUME TypeInv, NEW t \in Ops, CloseStep(t)
  PROVE  TypeInv'
<1>1. t \in Actors
  BY DEF Actors
<1>2. loc[t] \in Locals /\ loc[t].tgt \in Ids \cup {NoSession} /\ Located(pc[t], loc[t])
  BY <1>1 DEF TypeInv, TypeOK, ThreadTypes, Locals, Addressed
<1>3. ASSUME NEW s \in Ids, Close(t, s)
      PROVE  TypeInv'
  <2> DEFINE r == [NoLocals EXCEPT !.tgt = s]
  <2>1. /\ Goto(t, "idle", "close") /\ "close" \in Pcs
        /\ loc' = [loc EXCEPT ![t] = r]
    BY <1>3, <1>1, <1>2 DEF Close, Forget, ForgetIf, Pcs, Locals
  <2>2. r \in Locals /\ Located("close", r)
    <3>1. r \in Locals
      BY <1>3, FreshType
    <3>2. Located("close", r)
      BY LocatedFree
    <3>3. QED
      BY <3>1, <3>2
  <2>3. ThreadTypes' /\ Addressed'
    BY <2>1, <2>2, <1>1, ThreadStep
  <2>4. QED
    BY <1>3, <2>3, <1>1, <1>2, SessionsAssumption DEF TypeInv, TypeOK, ManagerTypes,
         TerminalTypes, ViewTypes, Listed, manager, terminals, views, Close
<1>4. CASE CloseUnknown(t)
  <2> DEFINE r == NoLocals
  <2>1. /\ Goto(t, "close", "snapshot") /\ "snapshot" \in Pcs
        /\ loc' = [loc EXCEPT ![t] = r]
    BY <1>4, <1>1, <1>2 DEF CloseUnknown, Forget, ForgetIf, Pcs, Locals
  <2>2. r \in Locals /\ Located("snapshot", r)
    <3>1. r \in Locals
      BY NoLocalsType
    <3>2. Located("snapshot", r)
      BY LocatedFree
    <3>3. QED
      BY <3>1, <3>2
  <2>3. ThreadTypes' /\ Addressed'
    BY <2>1, <2>2, <1>1, ThreadStep
  <2>4. QED
    BY <1>4, <2>3, <1>1, <1>2, SessionsAssumption DEF TypeInv, TypeOK, ManagerTypes,
         TerminalTypes, ViewTypes, Listed, manager, terminals, views, CloseUnknown
<1>5. CASE ClosePop(t)
  <2> DEFINE r == [loc[t] EXCEPT !.was = (active = loc[t].tgt)]
  <2>1. /\ Goto(t, "close", "stop") /\ "stop" \in Pcs
        /\ loc' = [loc EXCEPT ![t] = r]
    BY <1>5, <1>1, <1>2 DEF ClosePop, Forget, ForgetIf, Pcs, Locals
  <2>2. (active = loc[t].tgt) \in BOOLEAN
    BY <1>5, <1>2, SessionsAssumption DEF ClosePop, Located, Goto, Creating, TypeInv, TypeOK,
         ManagerTypes, TerminalTypes, Ids
  <2>3. r \in Locals /\ r.tgt = loc[t].tgt /\ r.n = loc[t].n
    BY <2>2, <1>2, UpdateType
  <2>4. Located("stop", r)
    BY <1>5, <2>2, <2>3, <1>1, <1>2, SessionsAssumption DEF ClosePop, Located, Creating, Goto,
         TypeInv, TypeOK, ManagerTypes, TerminalTypes
  <2>5. ThreadTypes' /\ Addressed'
    BY <2>1, <2>2, <2>3, <2>4, <1>1, ThreadStep
  <2>6. /\ sessions' = sessions \ {loc[t].tgt} /\ order' = Without(loc[t].tgt)
        /\ active' \in {active, Successor(loc[t].tgt)} /\ loc[t].tgt \in sessions
    BY <1>5 DEF ClosePop
  <2>7. ManagerTypes' /\ Listed'
    BY <1>5, <2>6, WithoutType DEF ClosePop, TypeInv, TypeOK, ManagerTypes, Listed
  <2>8. QED
    BY <1>5, <2>5, <2>7 DEF ClosePop, TypeInv, TypeOK, TerminalTypes, ViewTypes, terminals, views
<1>6. CASE CloseStop(t)
  <2>1. "check" \in Pcs /\ Goto(t, "stop", "check") /\ UNCHANGED loc
    BY <1>6 DEF CloseStop, Pcs
  <2>2. Located("check", loc[t])
    BY <1>6, <1>1, <1>2 DEF CloseStop, Located, Creating, Goto, TypeInv, Addressed
  <2>3. ThreadTypes' /\ Addressed'
    BY <2>1, <2>2, <1>1, ThreadStepSame
  <2>4. QED
    BY <1>6, <2>3, <1>1, <1>2, SessionsAssumption DEF TypeInv, TypeOK, ManagerTypes,
         TerminalTypes, ViewTypes, Listed, manager, terminals, views, CloseStop
<1>7. CASE CloseCheck(t)
  <2> DEFINE r == NoLocals
  <2>1. /\ Goto(t, "check", (IF active = NoSession THEN "create" ELSE IF loc[t].was THEN "reread" ELSE "snapshot")) /\ (IF active = NoSession THEN "create" ELSE IF loc[t].was THEN "reread" ELSE "snapshot") \in Pcs
        /\ loc' = [loc EXCEPT ![t] = r]
    BY <1>7, <1>1, <1>2 DEF CloseCheck, Forget, ForgetIf, Pcs, Locals
  <2>2. r \in Locals /\ Located((IF active = NoSession THEN "create" ELSE IF loc[t].was THEN "reread" ELSE "snapshot"), r)
    <3>1. r \in Locals
      BY NoLocalsType
    <3>2. Located((IF active = NoSession THEN "create" ELSE IF loc[t].was THEN "reread" ELSE "snapshot"), r)
      BY LocatedFree
    <3>3. QED
      BY <3>1, <3>2
  <2>3. ThreadTypes' /\ Addressed'
    BY <2>1, <2>2, <1>1, ThreadStep
  <2>4. QED
    BY <1>7, <2>3, <1>1, <1>2, SessionsAssumption DEF TypeInv, TypeOK, ManagerTypes,
         TerminalTypes, ViewTypes, Listed, manager, terminals, views, CloseCheck
<1>8. CASE CloseReread(t)
  <2> DEFINE r == [loc[t] EXCEPT !.tgt = active]
  <2>1. /\ Goto(t, "reread", "blank") /\ "blank" \in Pcs
        /\ loc' = [loc EXCEPT ![t] = r]
    BY <1>8, <1>1, <1>2 DEF CloseReread, Forget, ForgetIf, Pcs, Locals
  <2>2. active \in Ids \cup {NoSession}
    BY <1>8, <1>2, SessionsAssumption DEF CloseReread, Located, Goto, Creating, TypeInv, TypeOK,
         ManagerTypes, TerminalTypes, Ids
  <2>3. r \in Locals /\ r.tgt = active /\ r.n = loc[t].n
    BY <2>2, <1>2, UpdateType
  <2>4. Located("blank", r)
    BY <1>8, <2>2, <2>3, <1>1, <1>2, SessionsAssumption DEF CloseReread, Located, Creating, Goto,
         TypeInv, TypeOK, ManagerTypes, TerminalTypes
  <2>5. ThreadTypes' /\ Addressed'
    BY <2>1, <2>2, <2>3, <2>4, <1>1, ThreadStep
  <2>6. QED
    BY <1>8, <2>5, <1>1, <1>2, SessionsAssumption DEF TypeInv, TypeOK, ManagerTypes,
         TerminalTypes, ViewTypes, Listed, manager, terminals, views, CloseReread
<1>9. CASE CloseBlank(t)
  <2>1. "switch" \in Pcs /\ Goto(t, "blank", "switch") /\ UNCHANGED loc
    BY <1>9 DEF CloseBlank, Pcs
  <2>2. Located("switch", loc[t])
    BY <1>9, <1>1, <1>2 DEF CloseBlank, Located, Creating, Goto, TypeInv, Addressed
  <2>3. ThreadTypes' /\ Addressed'
    BY <2>1, <2>2, <1>1, ThreadStepSame
  <2>4. QED
    BY <1>9, <2>3, <1>1, <1>2, SessionsAssumption DEF TypeInv, TypeOK, ManagerTypes,
         TerminalTypes, ViewTypes, Listed, manager, terminals, views, CloseBlank
<1>10. QED
  BY <1>3, <1>4, <1>5, <1>6, <1>7, <1>8, <1>9 DEF CloseStep

(* resize() and the tab strip *)
LEMMA StateStepTypes ==
  ASSUME TypeInv, NEW t \in Ops, StateStep(t)
  PROVE  TypeInv'
<1>1. t \in Actors
  BY DEF Actors
<1>2. loc[t] \in Locals /\ loc[t].tgt \in Ids \cup {NoSession} /\ Located(pc[t], loc[t])
  BY <1>1 DEF TypeInv, TypeOK, ThreadTypes, Locals, Addressed
<1>3. ASSUME NEW g \in Geoms \cup {Collapsed}, Resize(t, g)
      PROVE  TypeInv'
  <2> DEFINE r == [NoLocals EXCEPT !.tgt = active, !.g = g]
  <2>1. /\ Goto(t, "idle", "resize") /\ "resize" \in Pcs
        /\ loc' = [loc EXCEPT ![t] = r]
    BY <1>3, <1>1, <1>2 DEF Resize, Forget, ForgetIf, Pcs, Locals
  <2>2. r \in Locals /\ Located("resize", r)
    <3>1. active \in Ids \cup {NoSession} /\ g \in Geoms
      BY <1>3 DEF Resize, TypeInv, TypeOK, ManagerTypes
    <3>2. r \in Locals
      BY <3>1, FreshType
    <3>3. Located("resize", r)
      BY LocatedFree
    <3>4. QED
      BY <3>1, <3>2, <3>3
  <2>3. ThreadTypes' /\ Addressed'
    BY <2>1, <2>2, <1>1, ThreadStep
  <2>4. QED
    BY <1>3, <2>3, <1>1, <1>2, SessionsAssumption DEF TypeInv, TypeOK, ManagerTypes,
         TerminalTypes, ViewTypes, Listed, manager, terminals, views, Resize
<1>4. CASE ResizeApply(t)
  <2> DEFINE r == NoLocals
  <2>1. /\ Goto(t, "resize", "idle") /\ "idle" \in Pcs
        /\ loc' = [loc EXCEPT ![t] = r]
    BY <1>4, <1>1, <1>2 DEF ResizeApply, Forget, ForgetIf, Pcs, Locals
  <2>2. r \in Locals /\ Located("idle", r)
    <3>1. r \in Locals
      BY NoLocalsType
    <3>2. Located("idle", r)
      BY LocatedFree
    <3>3. QED
      BY <3>1, <3>2
  <2>3. ThreadTypes' /\ Addressed'
    BY <2>1, <2>2, <1>1, ThreadStep
  <2>4. sgeom' \in [Ids -> Geoms]
    BY <1>4, <1>2 DEF ResizeApply, TypeInv, TypeOK, TerminalTypes, Locals
  <2>5. QED
    BY <1>4, <2>3, <2>4 DEF ResizeApply, TypeInv, TypeOK, ManagerTypes, TerminalTypes, ViewTypes,
         Listed, manager, views
<1>5. CASE Snapshot(t)
  <2> DEFINE r == [NoLocals EXCEPT !.strip = sessions, !.act = active]
  <2>1. /\ Goto(t, "snapshot", "push") /\ "push" \in Pcs
        /\ loc' = [loc EXCEPT ![t] = r]
    BY <1>5, <1>1, <1>2 DEF Snapshot, Forget, ForgetIf, Pcs, Locals
  <2>2. r \in Locals /\ Located("push", r)
    <3>1. active \in Ids \cup {NoSession} /\ sessions \in SUBSET Ids
      BY DEF TypeInv, TypeOK, ManagerTypes
    <3>2. r \in Locals
      BY <3>1, FreshType
    <3>3. Located("push", r)
      BY LocatedFree
    <3>4. QED
      BY <3>1, <3>2, <3>3
  <2>3. ThreadTypes' /\ Addressed'
    BY <2>1, <2>2, <1>1, ThreadStep
  <2>4. QED
    BY <1>5, <2>3, <1>1, <1>2, SessionsAssumption DEF TypeInv, TypeOK, ManagerTypes,
         TerminalTypes, ViewTypes, Listed, manager, terminals, views, Snapshot
<1>6. CASE Push(t)
  <2> DEFINE r == NoLocals
  <2>1. /\ Goto(t, "push", "idle") /\ "idle" \in Pcs
        /\ loc' = [loc EXCEPT ![t] = r]
    BY <1>6, <1>1, <1>2 DEF Push, Forget, ForgetIf, Pcs, Locals
  <2>2. r \in Locals /\ Located("idle", r)
    <3>1. r \in Locals
      BY NoLocalsType
    <3>2. Located("idle", r)
      BY LocatedFree
    <3>3. QED
      BY <3>1, <3>2
  <2>3. ThreadTypes' /\ Addressed'
    BY <2>1, <2>2, <1>1, ThreadStep
  <2>4. tabs' \in [Ops -> [strip : SUBSET Ids, act : Ids \cup {NoSession}]]
    BY <1>6, <1>2 DEF Push, TypeInv, TypeOK, ViewTypes, Locals
  <2>5. QED
    BY <1>6, <2>3, <2>4 DEF Push, TypeInv, TypeOK, ManagerTypes, TerminalTypes, ViewTypes,
         Listed, manager, terminals
<1>7. QED
  BY <1>3, <1>4, <1>5, <1>6 DEF StateStep

(* Emission *)
LEMMA EmitStepTypes ==
  ASSUME TypeInv, NEW a \in Actors, EmitStep(a)
  PROVE  TypeInv'
<1>1. a \in Actors
  OBVIOUS
<1>2. loc[a] \in Locals /\ loc[a].tgt \in Ids \cup {NoSession} /\ Located(pc[a], loc[a])
  BY <1>1 DEF TypeInv, TypeOK, ThreadTypes, Locals, Addressed
<1>3. ASSUME NEW s \in Ids, EmitRecord(a, s)
      PROVE  TypeInv'
  <2> DEFINE r == [loc[a] EXCEPT !.tgt = s, !.n = out[s] + 1]
  <2>1. /\ Goto(a, "idle", "banner") /\ "banner" \in Pcs
        /\ loc' = [loc EXCEPT ![a] = r]
    BY <1>3, <1>1, <1>2 DEF EmitRecord, Forget, ForgetIf, Pcs, Locals
  <2>2. out[s] + 1 \in 1 .. OutBound
    BY <1>3, SessionsAssumption DEF EmitRecord, TypeInv, TypeOK, TerminalTypes
  <2>3. r \in Locals /\ r.tgt = s /\ r.n = out[s] + 1
    <3> DEFINE q == [loc[a] EXCEPT !.tgt = s]
    <3>1. q \in Locals /\ q.tgt = s
      BY <1>2, <1>3, UpdateType
    <3>2. out[s] + 1 \in 0 .. OutBound
      BY <2>2
    <3> HIDE DEF q
    <3>3. /\ [q EXCEPT !.n = out[s] + 1] \in Locals
          /\ [q EXCEPT !.n = out[s] + 1].tgt = q.tgt
          /\ [q EXCEPT !.n = out[s] + 1].n = out[s] + 1
      BY <3>1, <3>2, UpdateType
    <3>4. QED
      BY <3>1, <3>3 DEF q
  <2>4. Located("banner", r)
    BY <1>3, <2>2, <2>3 DEF Located, Creating
  <2>5. ThreadTypes' /\ Addressed'
    BY <2>1, <2>3, <2>4, <1>1, ThreadStep
  <2>6. QED
    BY <1>3, <2>5, <1>1, <1>2, SessionsAssumption DEF TypeInv, TypeOK, ManagerTypes,
         TerminalTypes, ViewTypes, Listed, manager, terminals, views, EmitRecord
<1>4. CASE EmitTest(a)
  <2> DEFINE r == (IF a \in Emitters /\ active # loc[a].tgt THEN NoLocals ELSE loc[a])
  <2>1. /\ Goto(a, "banner", (IF active = loc[a].tgt THEN "send" ELSE IF a \in Ops THEN "leave" ELSE "idle")) /\ (IF active = loc[a].tgt THEN "send" ELSE IF a \in Ops THEN "leave" ELSE "idle") \in Pcs
        /\ loc' = [loc EXCEPT ![a] = r]
    BY <1>4, <1>1, <1>2 DEF EmitTest, Forget, ForgetIf, Pcs, Locals
  <2>2. r \in Locals /\ Located((IF active = loc[a].tgt THEN "send" ELSE IF a \in Ops THEN "leave" ELSE "idle"), r)
    <3>1. r \in Locals
      BY <1>2, NoLocalsType
    <3>2. Located("idle", r)
      BY LocatedFree
    <3>3. a \in Emitters <=> a \notin Ops
      BY SessionsAssumption DEF Actors
    <3>4. Located("send", loc[a]) /\ Located("leave", loc[a])
      BY <1>4, <1>2 DEF EmitTest, Located, Creating, Goto
    <3>5. QED
      BY <3>1, <3>2, <3>3, <3>4
  <2>3. ThreadTypes' /\ Addressed'
    BY <2>1, <2>2, <1>1, ThreadStep
  <2>4. QED
    BY <1>4, <2>3, <1>1, <1>2, SessionsAssumption DEF TypeInv, TypeOK, ManagerTypes,
         TerminalTypes, ViewTypes, Listed, manager, terminals, views, EmitTest
<1>5. CASE EmitSend(a)
  <2> DEFINE r == (IF a \in Emitters THEN NoLocals ELSE loc[a])
  <2>1. /\ Goto(a, "send", (IF a \in Ops THEN "leave" ELSE "idle")) /\ (IF a \in Ops THEN "leave" ELSE "idle") \in Pcs
        /\ loc' = [loc EXCEPT ![a] = r]
    BY <1>5, <1>1, <1>2 DEF EmitSend, Forget, ForgetIf, Pcs, Locals
  <2>2. r \in Locals /\ Located((IF a \in Ops THEN "leave" ELSE "idle"), r)
    <3>1. r \in Locals
      BY <1>2, NoLocalsType
    <3>2. Located("idle", r)
      BY LocatedFree
    <3>3. a \in Emitters <=> a \notin Ops
      BY SessionsAssumption DEF Actors
    <3>4. a \in Ops => Located("leave", r)
      BY <3>3, <1>5, <1>2 DEF EmitSend, Located, Creating, Goto
    <3>5. QED
      BY <3>1, <3>2, <3>3, <3>4
  <2>3. ThreadTypes' /\ Addressed'
    BY <2>1, <2>2, <1>1, ThreadStep
  <2>4. screen' \in [Ops -> SUBSET Chunks]
    BY <1>5, <1>1, <1>2, BroadcastType DEF EmitSend, TypeInv, TypeOK, Addressed, Located, Goto,
         Creating, Chunks
  <2>5. QED
    BY <1>5, <2>3, <2>4, <1>1, <1>2, SessionsAssumption DEF TypeInv, TypeOK, ManagerTypes,
         TerminalTypes, ViewTypes, Listed, manager, terminals, views, EmitSend
<1>6. QED
  BY <1>3, <1>4, <1>5 DEF EmitStep

(* Every step keeps the type invariant.                                    *)
LEMMA StepTypeInv == TypeInv /\ [Next]_vars => TypeInv'
<1> SUFFICES ASSUME TypeInv, [Next]_vars
             PROVE  TypeInv'
  OBVIOUS
<1>1. CASE UNCHANGED vars
  BY <1>1 DEF vars, manager, terminals, views, TypeInv, TypeOK, ManagerTypes,
              TerminalTypes, ViewTypes, ThreadTypes, Addressed, Listed
<1>2. CASE Next
  BY <1>2, ConnectStepTypes, CreateStepTypes, SwitchStepTypes, CloseStepTypes,
     StateStepTypes, EmitStepTypes DEF Next
<1>3. QED
  BY <1>1, <1>2

(* It holds after get_manager() has created the first session.             *)
LEMMA InitTypeInv == Init => TypeInv
<1> SUFFICES ASSUME Init
             PROVE  TypeInv
  OBVIOUS
<1>1. 1 \in Ids /\ 1 \in 0 .. OutBound /\ 0 \in 0 .. OutBound
  BY SessionsAssumption DEF Ids
<1>2. TypeOK
  BY <1>1, SessionsAssumption, NoLocalsType
  DEF Init, TypeOK, ManagerTypes, TerminalTypes, ViewTypes, ThreadTypes, Pcs
<1>3. Addressed
  BY DEF Init, Addressed, Located, Creating
<1>4. Listed
  BY DEF Init, Listed, ToSet, IsInjective
<1>5. QED
  BY <1>2, <1>3, <1>4 DEF TypeInv

(* The type invariant, whatever the threads, bounds and geometries.        *)
THEOREM TypeCorrect == Spec => []TypeOK
<1>1. Spec => []TypeInv
  BY InitTypeInv, StepTypeInv, PTL DEF Spec
<1>2. TypeInv => TypeOK
  BY DEF TypeInv
<1>3. QED
  BY <1>1, <1>2, PTL

(* The strengthening: threads hold the ids they act on, _order lists the   *)
(* sessions and their ids are at most _counter.                            *)
THEOREM TypeInvariant == Spec => []TypeInv
  BY InitTypeInv, StepTypeInv, PTL DEF Spec

-----------------------------------------------------------------------------
(* The registry.  _active is only set to a session inside the lock, by a   *)
(* block that has just added it, found it or kept it; every other          *)
(* assignment writes None.  With it comes the promise of close(): once     *)
(* there is no tab, _active is None and stays so, so the thread that       *)
(* closed the last one is bound to create another.                         *)

Live == active \in sessions \cup {NoSession}
Capped == IsFiniteSet(sessions) /\ Cardinality(sessions) <= MaxSessions

RegistryInv == TypeInv /\ Live /\ Capped /\ NeverLeavesZero

(* The registry is consistent after get_manager().                         *)
LEMMA InitRegistryInv == Init => RegistryInv
<1> SUFFICES ASSUME Init
             PROVE  RegistryInv
  OBVIOUS
<1>1. TypeInv
  BY InitTypeInv
<1>2. Capped
  <2>1. sessions = {1}
    BY DEF Init
  <2>2. QED
    BY <2>1, FS_Singleton, SessionsAssumption DEF Capped
<1>3. Live /\ NeverLeavesZero
  BY DEF Init, Live, NeverLeavesZero
<1>4. QED
  BY <1>1, <1>2, <1>3 DEF RegistryInv

(* A step that leaves _sessions and _active alone, and is not one of a     *)
(* thread that has a tab to replace.                                       *)
LEMMA IdleStep ==
  ASSUME RegistryInv, TypeInv', UNCHANGED <<sessions, active>>,
         \A t \in Ops : pc[t] \in {"stop", "check", "create"} => pc'[t] \in {"stop", "check",
         "create"}
  PROVE  RegistryInv'
  BY DEF RegistryInv, Live, Capped, NeverLeavesZero

(* A step of thread a from `from', where it has no tab to replace *)
LEMMA IdleThreadStep ==
  ASSUME RegistryInv, TypeInv', UNCHANGED <<sessions, active>>, NEW a \in Actors,
         NEW from, NEW to, Goto(a, from, to), from \notin {"stop", "check", "create"}
  PROVE  RegistryInv'
<1>1. \A t \in Ops : t # a => pc'[t] = pc[t]
  BY DEF RegistryInv, TypeInv, TypeOK, ThreadTypes, Goto, Actors
<1>2. pc[a] \notin {"stop", "check", "create"}
  BY DEF Goto
<1>3. QED
  BY <1>1, <1>2, IdleStep

(* close() pops a tab *)
LEMMA ClosePopRegistry ==
  ASSUME RegistryInv, TypeInv', NEW t \in Ops, ClosePop(t)
  PROVE  RegistryInv'
<1> DEFINE s == loc[t].tgt
<1>1. /\ s \in sessions /\ sessions' = sessions \ {s}
      /\ active' = IF active = s THEN Successor(s) ELSE active
  BY DEF ClosePop
<1>2. Live'
  BY <1>1, WithoutType DEF Live, RegistryInv
<1>3. Capped'
  <2>1. IsFiniteSet(sessions') /\ Cardinality(sessions') = Cardinality(sessions) - 1
    BY <1>1, FS_RemoveElement DEF RegistryInv, Capped
  <2>2. Cardinality(sessions) \in Nat
    BY FS_CardinalityType DEF RegistryInv, Capped
  <2>3. QED
    BY <2>1, <2>2, SessionsAssumption DEF RegistryInv, Capped
<1>4. pc'[t] = "stop"
  BY DEF ClosePop, Goto, RegistryInv, TypeInv, TypeOK, ThreadTypes, Actors
<1>5. QED
  BY <1>2, <1>3, <1>4 DEF RegistryInv, NeverLeavesZero

(* create() registers a tab *)
LEMMA CreateEnterRegistry ==
  ASSUME RegistryInv, TypeInv', NEW t \in Ops, CreateEnter(t)
  PROVE  RegistryInv'
<1>1. /\ sessions' = sessions \cup {counter'} /\ active' = counter'
      /\ Cardinality(sessions) < MaxSessions
  BY DEF CreateEnter
<1>2. Capped'
  <2>1. /\ IsFiniteSet(sessions')
        /\ Cardinality(sessions') <= Cardinality(sessions) + 1
    <3>1. IsFiniteSet(sessions') /\ Cardinality(sessions') =
             IF counter' \in sessions THEN Cardinality(sessions) ELSE Cardinality(sessions) + 1
      BY <1>1, FS_AddElement DEF RegistryInv, Capped
    <3>2. QED
      BY <3>1, FS_CardinalityType DEF RegistryInv, Capped
  <2>2. Cardinality(sessions) \in Nat /\ Cardinality(sessions') \in Nat
    BY <2>1, FS_CardinalityType DEF RegistryInv, Capped
  <2>3. QED
    BY <1>1, <2>1, <2>2, SessionsAssumption DEF Capped
<1>3. QED
  BY <1>1, <1>2 DEF RegistryInv, Live, NeverLeavesZero

(* Every step keeps the registry consistent.                               *)
LEMMA StepRegistryInv == RegistryInv /\ [Next]_vars => RegistryInv'
<1> SUFFICES ASSUME RegistryInv, [Next]_vars
             PROVE  RegistryInv'
  OBVIOUS
<1>1. TypeInv'
  BY StepTypeInv DEF RegistryInv
<1>2. CASE UNCHANGED vars
  BY <1>1, <1>2, IdleStep DEF vars, manager
<1>3. ASSUME NEW t \in Ops, ConnectStep(t)
      PROVE  RegistryInv'
  <2>0. t \in Actors
    BY DEF Actors
  <2>1. CASE Connect(t)
    BY <2>1, <2>0, <1>1, IdleThreadStep DEF Connect, manager
  <2>2. CASE HelloActive(t)
    BY <2>2, <2>0, <1>1, IdleThreadStep DEF HelloActive, manager
  <2>3. CASE HelloHistory(t)
    BY <2>3, <2>0, <1>1, IdleThreadStep DEF HelloHistory, manager
  <2>4. CASE HelloReset(t)
    BY <2>4, <2>0, <1>1, IdleThreadStep DEF HelloReset, manager
  <2>5. CASE HelloReplay(t)
    BY <2>5, <2>0, <1>1, IdleThreadStep DEF HelloReplay, manager
  <2>6. CASE Drop(t)
    BY <2>6, <2>0, <1>1, IdleStep DEF Drop, manager
  <2>7. QED
    BY <1>3, <2>1, <2>2, <2>3, <2>4, <2>5, <2>6 DEF ConnectStep
<1>4. ASSUME NEW t \in Ops, CreateStep(t)
      PROVE  RegistryInv'
  <2>0. t \in Actors
    BY DEF Actors
  <2>1. CASE New(t)
    BY <2>1, <2>0, <1>1, IdleThreadStep DEF New, manager
  <2>2. CASE CreateWipe(t)
    BY <2>2, <2>0, <1>1, IdleThreadStep DEF CreateWipe, manager
  <2>3. CASE CreateStart(t)
    BY <2>3, <2>0, <1>1, IdleThreadStep DEF CreateStart, manager
  <2>4. CASE CreateLeave(t)
    BY <2>4, <2>0, <1>1, IdleThreadStep DEF CreateLeave, manager
  <2>5. CASE CreateRefused(t)
    <3>1. sessions # {}
      BY <2>5, FS_EmptySet, SessionsAssumption DEF CreateRefused
    <3>2. QED
      BY <2>5, <3>1, <1>1 DEF CreateRefused, manager, RegistryInv, Live, Capped, NeverLeavesZero
  <2>6. CASE CreateEnter(t)
    BY <2>6, <1>1, CreateEnterRegistry
  <2>7. QED
    BY <1>4, <2>1, <2>2, <2>3, <2>4, <2>5, <2>6 DEF CreateStep
<1>5. ASSUME NEW t \in Ops, SwitchStep(t)
      PROVE  RegistryInv'
  <2>0. t \in Actors
    BY DEF Actors
  <2>1. CASE SwitchNothing(t)
    BY <2>1, <2>0, <1>1, IdleThreadStep DEF SwitchNothing, manager
  <2>2. CASE SwitchFit(t)
    BY <2>2, <2>0, <1>1, IdleThreadStep DEF SwitchFit, manager
  <2>3. CASE SwitchReset(t)
    BY <2>3, <2>0, <1>1, IdleThreadStep DEF SwitchReset, manager
  <2>4. CASE SwitchHistory(t)
    BY <2>4, <2>0, <1>1, IdleThreadStep DEF SwitchHistory, manager
  <2>5. CASE SwitchReplay(t)
    BY <2>5, <2>0, <1>1, IdleThreadStep DEF SwitchReplay, manager
  <2>6. ASSUME NEW s \in Ids, Switch(t, s)
        PROVE  RegistryInv'
    BY <2>6, <2>0, <1>1, IdleThreadStep DEF Switch, manager
  <2>7. CASE SwitchSet(t)
    BY <2>7, <1>1 DEF SwitchSet, RegistryInv, Live, Capped, NeverLeavesZero
  <2>8. QED
    BY <1>5, <2>1, <2>2, <2>3, <2>4, <2>5, <2>6, <2>7 DEF SwitchStep
<1>6. ASSUME NEW t \in Ops, CloseStep(t)
      PROVE  RegistryInv'
  <2>0. t \in Actors
    BY DEF Actors
  <2>1. CASE CloseUnknown(t)
    BY <2>1, <2>0, <1>1, IdleThreadStep DEF CloseUnknown, manager
  <2>2. CASE CloseReread(t)
    BY <2>2, <2>0, <1>1, IdleThreadStep DEF CloseReread, manager
  <2>3. ASSUME NEW s \in Ids, Close(t, s)
        PROVE  RegistryInv'
    BY <2>3, <2>0, <1>1, IdleThreadStep DEF Close, manager
  <2>4. CASE ClosePop(t)
    BY <2>4, <1>1, ClosePopRegistry
  <2>5. CASE CloseStop(t)
    <3>1. pc'[t] = "check" /\ UNCHANGED <<sessions, active>> /\ \A u \in Ops : u # t => pc'[u] = pc[u]
      BY <2>5 DEF CloseStop, Goto, manager, RegistryInv, TypeInv, TypeOK, ThreadTypes, Actors
    <3>2. QED
      BY <3>1, <1>1, IdleStep
  <2>6. CASE CloseCheck(t)
    <3>1. /\ UNCHANGED <<sessions, active>> /\ \A u \in Ops : u # t => pc'[u] = pc[u]
          /\ active = NoSession => pc'[t] = "create"
      BY <2>6 DEF CloseCheck, Goto, manager, RegistryInv, TypeInv, TypeOK, ThreadTypes, Actors
    <3>2. Live' /\ Capped'
      BY <3>1 DEF RegistryInv, Live, Capped
    <3>3. NeverLeavesZero'
      BY <3>1 DEF RegistryInv, Live, NeverLeavesZero
    <3>4. QED
      BY <1>1, <3>2, <3>3 DEF RegistryInv
  <2>7. CASE CloseBlank(t)
    <3>1. /\ UNCHANGED sessions /\ active' = NoSession
          /\ \A u \in Ops : pc[u] \in {"stop", "check", "create"} => pc'[u] = pc[u]
      BY <2>7 DEF CloseBlank, Goto, RegistryInv, TypeInv, TypeOK, ThreadTypes, Actors
    <3>2. QED
      BY <1>1, <3>1 DEF RegistryInv, Live, Capped, NeverLeavesZero
  <2>8. QED
    BY <1>6, <2>1, <2>2, <2>3, <2>4, <2>5, <2>6, <2>7 DEF CloseStep
<1>7. ASSUME NEW t \in Ops, StateStep(t)
      PROVE  RegistryInv'
  <2>0. t \in Actors
    BY DEF Actors
  <2>1. CASE ResizeApply(t)
    BY <2>1, <2>0, <1>1, IdleThreadStep DEF ResizeApply, manager
  <2>2. CASE Snapshot(t)
    BY <2>2, <2>0, <1>1, IdleThreadStep DEF Snapshot, manager
  <2>3. CASE Push(t)
    BY <2>3, <2>0, <1>1, IdleThreadStep DEF Push, manager
  <2>4. ASSUME NEW g \in Geoms \cup {Collapsed}, Resize(t, g)
        PROVE  RegistryInv'
    BY <2>4, <2>0, <1>1, IdleThreadStep DEF Resize, manager
  <2>5. QED
    BY <1>7, <2>1, <2>2, <2>3, <2>4 DEF StateStep
<1>8. ASSUME NEW a \in Actors, EmitStep(a)
      PROVE  RegistryInv'
  <2>1. ASSUME a \in Emitters, NEW s \in Ids, EmitRecord(a, s)
        PROVE  RegistryInv'
    BY <2>1, <1>1, IdleThreadStep DEF EmitRecord, manager
  <2>2. CASE EmitTest(a)
    BY <2>2, <1>1, IdleThreadStep DEF EmitTest, manager
  <2>3. CASE EmitSend(a)
    BY <2>3, <1>1, IdleThreadStep DEF EmitSend, manager
  <2>4. QED
    BY <1>8, <2>1, <2>2, <2>3 DEF EmitStep
<1>9. QED
  BY <1>2, <1>3, <1>4, <1>5, <1>6, <1>7, <1>8 DEF Next

(* The inductive invariant of the registry.                                *)
LEMMA AlwaysRegistryInv == Spec => []RegistryInv
  BY InitRegistryInv, StepRegistryInv, PTL DEF Spec

(* _order is a duplicate-free list of the tabs, their number is at most    *)
(* MAX_SESSIONS, and _active is None or one of them, in every interleaving *)
(* of any number of handler threads.                                       *)
THEOREM Registry == Spec => []RegistryConsistent
<1>1. RegistryInv => RegistryConsistent
  BY DEF RegistryInv, RegistryConsistent, TypeInv, Listed, Live, Capped
<1>2. QED
  BY <1>1, AlwaysRegistryInv, PTL

(* While no tab is left, a close() is on its way to open one.              *)
THEOREM NeverZero == Spec => []NeverLeavesZero
<1>1. RegistryInv => NeverLeavesZero
  BY DEF RegistryInv
<1>2. QED
  BY <1>1, AlwaysRegistryInv, PTL

-----------------------------------------------------------------------------
(* No session outlives its tab. A create() in progress holds the lock, and *)
(* the tab it has registered stays: no close() can pop it before it        *)
(* started.  A close() about to stop a session is past the pop, and its id *)
(* does not come back.                                                     *)

InCreate == \A t \in Ops :
  /\ pc[t] \in Creating => lock = t
  /\ pc[t] \in {"wipe", "start"} => loc[t].tgt \in sessions

InClose == \A t \in Ops : pc[t] = "stop" => loc[t].tgt \notin sessions /\ loc[t].tgt <= counter

OrphanInv == InCreate /\ InClose /\ NoOrphanSession

(* A step of thread a, which is not about to start or stop a session       *)
(* before or after it, leaves the others where they are.                   *)
LEMMA OtherStep ==
  ASSUME OrphanInv, UNCHANGED <<sessions, running, counter, lock>>, NEW a \in Actors,
         \A b \in Ops : b # a => pc'[b] = pc[b] /\ loc'[b] = loc[b],
         pc[a] \notin {"stop", "wipe", "start"}, pc'[a] \notin {"stop", "wipe", "start"},
         pc'[a] \in Creating /\ a \in Ops => pc[a] \in Creating
  PROVE  OrphanInv'
<1>1. \A b \in Ops : pc'[b] \in {"stop", "wipe", "start"} => pc'[b] = pc[b] /\ loc'[b] = loc[b]
  OBVIOUS
<1>2. \A b \in Ops : pc[b] \in {"stop", "wipe", "start"} => pc'[b] = pc[b] /\ loc'[b] = loc[b]
  OBVIOUS
<1>3. InCreate'
  BY <1>1 DEF OrphanInv, InCreate
<1>4. InClose'
  BY <1>1 DEF OrphanInv, InClose
<1>5. NoOrphanSession'
  BY <1>2 DEF OrphanInv, NoOrphanSession
<1> QED
  BY <1>3, <1>4, <1>5 DEF OrphanInv

(* create() registers a tab, and has the lock until it has started it.     *)
LEMMA CreateOrphan ==
  ASSUME TypeInv, OrphanInv, NEW t \in Ops, CreateEnter(t) \/ CreateWipe(t) \/ CreateStart(t) \/ CreateLeave(t)
  PROVE  OrphanInv'
<1>0. /\ t \in Actors /\ t # NoThread /\ loc[t].tgt \in Ids \cup {NoSession} /\ counter \in Ids
      /\ pc \in [Actors -> Pcs] /\ loc \in [Actors -> Locals] /\ Ops \subseteq Actors
      /\ \A s \in sessions : s <= counter
  BY SessionsAssumption DEF TypeInv, TypeOK, ThreadTypes, ManagerTypes, Locals, Actors, Listed
<1>1. CASE CreateEnter(t)
  <2>1. /\ pc[t] = "create" /\ pc'[t] \in {"wipe", "start"} /\ lock = NoThread /\ lock' = t
        /\ sessions' = sessions \cup {counter'} /\ counter' = counter + 1 /\ loc'[t].tgt = counter'
        /\ running' = running
        /\ \A b \in Ops : b # t => pc'[b] = pc[b] /\ loc'[b] = loc[b]
    <3>1. /\ pc[t] = "create" /\ lock = NoThread /\ lock' = t /\ running' = running
          /\ sessions' = sessions \cup {counter'} /\ counter' = counter + 1
      BY <1>1 DEF CreateEnter, Goto, LockFree, terminals
    <3>2. pc'[t] \in {"wipe", "start"} /\ \A b \in Ops : b # t => pc'[b] = pc[b]
      BY <1>0, <1>1 DEF CreateEnter, Goto
    <3>3. loc' = [loc EXCEPT ![t].tgt = counter']
      BY <1>1 DEF CreateEnter
    <3>4. loc'[t] = [loc[t] EXCEPT !.tgt = counter'] /\ \A b \in Ops : b # t => loc'[b] = loc[b]
      BY <1>0, <3>3
    <3>5. loc'[t].tgt = counter'
      BY <1>0, <3>4 DEF Locals
    <3> QED
      BY <3>1, <3>2, <3>4, <3>5
  <2>2. \A b \in Ops : pc[b] \notin Creating
    BY <2>1, SessionsAssumption DEF OrphanInv, InCreate
  <2>3. InCreate'
    BY <2>1, <2>2 DEF InCreate, Creating
  <2>4. InClose'
    <3> SUFFICES ASSUME NEW b \in Ops, pc'[b] = "stop"
                 PROVE  loc'[b].tgt \notin sessions' /\ loc'[b].tgt <= counter'
      BY DEF InClose
    <3>1. b # t /\ pc[b] = "stop" /\ loc'[b] = loc[b]
      BY <2>1
    <3>2. loc[b].tgt \notin sessions /\ loc[b].tgt <= counter
      BY <3>1 DEF OrphanInv, InClose
    <3>3. loc[b].tgt \in Int /\ counter \in Int
      BY <1>0 DEF Locals, Ids, NoSession
    <3> QED
      BY <2>1, <3>1, <3>2, <3>3
  <2>5. sessions \subseteq running
    BY <2>2 DEF OrphanInv, NoOrphanSession, Creating
  <2>6. NoOrphanSession'
    <3>1. ASSUME NEW s \in running' \ sessions'
          PROVE  \E u \in Ops : pc'[u] = "stop" /\ loc'[u].tgt = s
      BY <2>1, <3>1 DEF OrphanInv, NoOrphanSession
    <3>2. ASSUME NEW s \in sessions' \ running'
          PROVE  lock' = t /\ pc'[t] \in {"wipe", "start"} /\ loc'[t].tgt = s
      BY <2>1, <2>5, <3>2
    <3> QED
      BY <3>1, <3>2 DEF NoOrphanSession
  <2> QED
    BY <2>3, <2>4, <2>6 DEF OrphanInv
<1>2. CASE CreateWipe(t)
  <2>1. /\ pc[t] = "wipe" /\ pc'[t] = "start" /\ UNCHANGED <<sessions, running, counter, lock, loc>>
        /\ \A b \in Ops : b # t => pc'[b] = pc[b]
    BY <1>0, <1>2 DEF CreateWipe, Goto, manager, terminals
  <2> QED
    BY <2>1 DEF OrphanInv, InCreate, InClose, NoOrphanSession, Creating
<1>3. CASE CreateStart(t)
  <2>1. /\ pc[t] = "start" /\ pc'[t] = "banner" /\ UNCHANGED <<sessions, counter, lock>>
        /\ running' = running \cup {loc[t].tgt}
        /\ \A b \in Ops : b # t => pc'[b] = pc[b] /\ loc'[b] = loc[b]
    BY <1>0, <1>3 DEF CreateStart, Goto, manager
  <2>2. lock = t /\ loc[t].tgt \in sessions
    BY <2>1 DEF OrphanInv, InCreate, Creating
  <2>3. InCreate' /\ InClose'
    BY <2>1, <2>2 DEF OrphanInv, InCreate, InClose, Creating
  <2>4. NoOrphanSession'
    BY <2>1, <2>2 DEF OrphanInv, NoOrphanSession
  <2> QED
    BY <2>3, <2>4 DEF OrphanInv
<1>4. CASE CreateLeave(t)
  <2>1. /\ pc[t] = "leave" /\ pc'[t] \in {"switch", "snapshot"} /\ UNCHANGED <<sessions, running, counter>>
        /\ \A b \in Ops : b # t => pc'[b] = pc[b] /\ loc'[b] = loc[b]
    BY <1>0, <1>4 DEF CreateLeave, Goto, ForgetIf, manager, terminals, Locals
  <2>2. \A b \in Ops : b # t => pc[b] \notin Creating
    BY <2>1 DEF OrphanInv, InCreate, Creating
  <2>3. sessions \subseteq running
    BY <2>1, <2>2 DEF OrphanInv, NoOrphanSession, Creating
  <2> QED
    BY <2>1, <2>2, <2>3 DEF OrphanInv, InCreate, InClose, NoOrphanSession, Creating
<1> QED
  BY <1>1, <1>2, <1>3, <1>4

(* close() takes a tab from the registry, and then stops its session.      *)
LEMMA CloseOrphan ==
  ASSUME TypeInv, OrphanInv, NEW t \in Ops, ClosePop(t) \/ CloseStop(t)
  PROVE  OrphanInv'
<1>0. /\ t \in Actors /\ pc \in [Actors -> Pcs] /\ loc \in [Actors -> Locals] /\ Ops \subseteq Actors
      /\ \A s \in sessions : s <= counter
  BY DEF TypeInv, TypeOK, ThreadTypes, Actors, Listed
<1>1. CASE ClosePop(t)
  <2>1. /\ pc[t] = "close" /\ pc'[t] = "stop" /\ lock = NoThread /\ UNCHANGED <<running, counter, lock>>
        /\ loc[t].tgt \in sessions /\ sessions' = sessions \ {loc[t].tgt} /\ loc'[t].tgt = loc[t].tgt
        /\ \A b \in Ops : b # t => pc'[b] = pc[b] /\ loc'[b] = loc[b]
    <3>1. /\ pc[t] = "close" /\ lock = NoThread /\ UNCHANGED <<running, counter, lock>>
          /\ loc[t].tgt \in sessions /\ sessions' = sessions \ {loc[t].tgt}
      BY <1>1 DEF ClosePop, Goto, LockFree, terminals
    <3>2. pc'[t] = "stop" /\ \A b \in Ops : b # t => pc'[b] = pc[b]
      BY <1>0, <1>1 DEF ClosePop, Goto
    <3>3. PICK w : loc' = [loc EXCEPT ![t].was = w]
      BY <1>1 DEF ClosePop
    <3>4. loc'[t] = [loc[t] EXCEPT !.was = w] /\ \A b \in Ops : b # t => loc'[b] = loc[b]
      BY <1>0, <3>3
    <3>5. loc'[t].tgt = loc[t].tgt
      BY <1>0, <3>4 DEF Locals
    <3> QED
      BY <3>1, <3>2, <3>4, <3>5
  <2>2. \A b \in Ops : pc[b] \notin Creating
    BY <2>1, SessionsAssumption DEF OrphanInv, InCreate
  <2>3. sessions \subseteq running
    BY <2>2 DEF OrphanInv, NoOrphanSession, Creating
  <2>4. InCreate'
    BY <2>1, <2>2 DEF InCreate, Creating
  <2>5. InClose'
    BY <1>0, <2>1 DEF OrphanInv, InClose
  <2>6. NoOrphanSession'
    BY <2>1, <2>3 DEF OrphanInv, NoOrphanSession
  <2> QED
    BY <2>4, <2>5, <2>6 DEF OrphanInv
<1>2. CASE CloseStop(t)
  <2>1. /\ pc[t] = "stop" /\ pc'[t] = "check" /\ UNCHANGED <<sessions, counter, lock, loc>>
        /\ running' = running \ {loc[t].tgt}
        /\ \A b \in Ops : b # t => pc'[b] = pc[b]
    BY <1>0, <1>2 DEF CloseStop, Goto, manager
  <2>2. loc[t].tgt \notin sessions
    BY <2>1 DEF OrphanInv, InClose
  <2>3. InCreate' /\ InClose'
    BY <2>1 DEF OrphanInv, InCreate, InClose, Creating
  <2>4. NoOrphanSession'
    BY <2>1, <2>2 DEF OrphanInv, NoOrphanSession
  <2> QED
    BY <2>3, <2>4 DEF OrphanInv
<1> QED
  BY <1>1, <1>2

(* The other steps of a handler leave the threads that create or close     *)
(* where they are.                                                         *)
LEMMA HandlerOrphan ==
  ASSUME TypeInv, OrphanInv, NEW t \in Ops,
         ConnectStep(t) \/ CreateStep(t) \/ SwitchStep(t) \/ CloseStep(t) \/ StateStep(t)
  PROVE  OrphanInv'
<1>0. t \in Actors /\ pc \in [Actors -> Pcs] /\ loc \in [Actors -> Locals] /\ Ops \subseteq Actors
  BY DEF TypeInv, TypeOK, ThreadTypes, Actors
<1>1. CASE Drop(t)
  BY <1>1 DEF Drop, manager, terminals, OrphanInv, InCreate, InClose, NoOrphanSession
<1>2. CASE ConnectStep(t) /\ ~ Drop(t)
  <2>1. UNCHANGED <<sessions, running, counter, lock>>
    BY <1>2 DEF ConnectStep, Connect, HelloActive, HelloHistory, HelloReset, HelloReplay, manager, terminals
  <2>2. \E from, to : /\ Goto(t, from, to) /\ from \notin {"stop", "wipe", "start"}
                      /\ to \notin Creating \cup {"stop"}
    BY <1>2 DEF ConnectStep, Connect, HelloActive, HelloHistory, HelloReset, HelloReplay, Goto, Creating
  <2>3. \A b \in Ops : b # t => loc'[b] = loc[b]
    BY <1>0, <1>2 DEF ConnectStep, Connect, HelloActive, HelloHistory, HelloReset, HelloReplay, Forget
  <2> QED
    BY <1>0, <2>1, <2>2, <2>3, OtherStep DEF Goto, Creating
<1>3. CASE CreateStep(t)
  <2>1. CASE New(t) \/ CreateRefused(t)
    <3>1. /\ UNCHANGED <<sessions, running, counter, lock>>
          /\ pc[t] \in {"idle", "create"} /\ pc'[t] \in {"create", "snapshot"}
          /\ \A b \in Ops : b # t => pc'[b] = pc[b] /\ loc'[b] = loc[b]
      BY <1>0, <2>1 DEF New, CreateRefused, Goto, Forget, manager, terminals
    <3> QED
      BY <1>0, <3>1, OtherStep DEF Creating
  <2> QED
    BY <1>3, <2>1, CreateOrphan DEF CreateStep
<1>4. CASE SwitchStep(t)
  <2>1. /\ UNCHANGED <<sessions, running, counter, lock>>
        /\ pc[t] \in {"idle", "switch", "fit", "reset", "history", "replay"}
        /\ pc'[t] \in {"switch", "fit", "reset", "history", "replay", "snapshot"}
        /\ \A b \in Ops : b # t => pc'[b] = pc[b]
    BY <1>0, <1>4 DEF SwitchStep, Switch, SwitchNothing, SwitchSet, SwitchFit, SwitchReset, SwitchHistory,
                      SwitchReplay, Goto, manager, terminals
  <2>2. \A b \in Ops : b # t => loc'[b] = loc[b]
    BY <1>0, <1>4 DEF SwitchStep, Switch, SwitchNothing, SwitchSet, SwitchFit, SwitchReset, SwitchHistory,
                      SwitchReplay, Forget
  <2> QED
    BY <1>0, <2>1, <2>2, OtherStep DEF Creating
<1>5. CASE CloseStep(t) /\ ~ (ClosePop(t) \/ CloseStop(t))
  <2>1. /\ UNCHANGED <<sessions, running, counter, lock>>
        /\ pc[t] \in {"idle", "close", "check", "reread", "blank"}
        /\ pc'[t] \in {"close", "snapshot", "create", "reread", "blank", "switch"}
        /\ \A b \in Ops : b # t => pc'[b] = pc[b]
    BY <1>0, <1>5 DEF CloseStep, Close, CloseUnknown, CloseCheck, CloseReread, CloseBlank, Goto, manager, terminals
  <2>2. \A b \in Ops : b # t => loc'[b] = loc[b]
    BY <1>0, <1>5 DEF CloseStep, Close, CloseUnknown, CloseCheck, CloseReread, CloseBlank, Forget
  <2> QED
    BY <1>0, <2>1, <2>2, OtherStep DEF Creating
<1>6. CASE StateStep(t)
  <2>1. /\ UNCHANGED <<sessions, running, counter, lock>>
        /\ pc[t] \in {"idle", "resize", "snapshot", "push"}
        /\ pc'[t] \in {"resize", "idle", "push"}
        /\ \A b \in Ops : b # t => pc'[b] = pc[b] /\ loc'[b] = loc[b]
    BY <1>0, <1>6 DEF StateStep, Resize, ResizeApply, Snapshot, Push, Goto, Forget, manager, terminals
  <2> QED
    BY <1>0, <2>1, OtherStep DEF Creating
<1> QED
  BY <1>1, <1>2, <1>3, <1>4, <1>5, <1>6, CloseOrphan

(* So does output, that of a session being started included.               *)
LEMMA EmitOrphan ==
  ASSUME TypeInv, OrphanInv, NEW a \in Actors, EmitStep(a)
  PROVE  OrphanInv'
<1>0. pc \in [Actors -> Pcs] /\ loc \in [Actors -> Locals] /\ Ops \subseteq Actors
  BY DEF TypeInv, TypeOK, ThreadTypes, Actors
<1>1. CASE EmitTest(a) \/ EmitSend(a)
  <2>1. /\ UNCHANGED <<sessions, running, counter, lock>>
        /\ pc[a] \in {"banner", "send"} /\ pc'[a] \in {"send", "leave", "idle"}
        /\ \A b \in Ops : b # a => pc'[b] = pc[b] /\ loc'[b] = loc[b]
    BY <1>0, <1>1 DEF EmitTest, EmitSend, Goto, ForgetIf, manager, terminals
  <2> QED
    BY <1>0, <2>1, OtherStep DEF Creating
<1>2. ASSUME a \in Emitters, NEW s \in Ids, EmitRecord(a, s)
      PROVE  OrphanInv'
  <2>1. a \notin Ops
    BY <1>2, SessionsAssumption
  <2>2. /\ UNCHANGED <<sessions, running, counter, lock>>
        /\ pc[a] = "idle" /\ pc'[a] = "banner"
        /\ \A b \in Ops : b # a => pc'[b] = pc[b] /\ loc'[b] = loc[b]
    BY <1>0, <1>2 DEF EmitRecord, Goto, manager
  <2> QED
    BY <1>0, <2>1, <2>2, OtherStep
<1> QED
  BY <1>1, <1>2 DEF EmitStep

(* No session outlives its tab and no tab lacks its worker, but while its  *)
(* close() is about to stop it or its create() is about to start it        *)
(* (sessions.py:75-163), for any number of handlers.                       *)
THEOREM NoneOrphaned == Spec => []NoOrphanSession
<1>1. Init => OrphanInv
  BY DEF Init, OrphanInv, InCreate, InClose, NoOrphanSession, Actors, Creating
<1>2. TypeInv /\ OrphanInv /\ [Next]_vars => OrphanInv'
  <2> SUFFICES ASSUME TypeInv, OrphanInv, [Next]_vars
               PROVE  OrphanInv'
    OBVIOUS
  <2>1. CASE UNCHANGED vars
    BY <2>1 DEF vars, manager, terminals, OrphanInv, InCreate, InClose, NoOrphanSession
  <2> QED
    BY <2>1, HandlerOrphan, EmitOrphan DEF Next
<1>3. OrphanInv => NoOrphanSession
  BY DEF OrphanInv
<1> QED
  BY <1>1, <1>2, <1>3, TypeInvariant, PTL DEF Spec

-----------------------------------------------------------------------------
(* One client, and with it one handler: what the user sees at rest. With   *)
(* two, two closes can leave tabs open and none active.                    *)

OneHandler == \A t, u \in Ops : t = u

(* While no tab is active, close() is about to open one or to switch back  *)
(* to the successor it has read.                                           *)
Reopens(t) ==
  \/ pc[t] \in {"stop", "check", "create"} /\ sessions = {}
  \/ pc[t] = "switch" /\ loc[t].tgt \in sessions

ActiveInv ==
  /\ active = NoSession => \E t \in Ops : Reopens(t)
  /\ \A t \in Ops : pc[t] = "blank" => loc[t].tgt = active

(* The active session has the current geometry unless the handler is about *)
(* to resize it, or to switch to it.                                       *)
Refits(t) ==
  \/ pc[t] \in {"wipe", "start"} /\ loc[t].tgt = active
  \/ pc[t] \in {"fit", "resize"}
  \/ pc[t] \in {"stop", "check"} /\ loc[t].was
  \/ pc[t] \in {"reread", "blank"}

GeomInv ==
  /\ active # NoSession => sgeom[active] = geom \/ \E t \in Ops : Refits(t)
  /\ \A t \in Ops : pc[t] \in {"fit", "resize"} => loc[t].tgt = active /\ loc[t].g = geom

(* Every operation that changes the tabs ends with a push of what it left. *)
StripInv == \A t \in Ops :
  /\ pc[t] \in {"idle", "resize"} /\ t \in clients => tabs[t] = [strip |-> sessions, act |-> active]
  /\ pc[t] = "push" => loc[t].strip = sessions /\ loc[t].act = active

RestInv == ActiveInv /\ GeomInv /\ StripInv

(* A chunk of a session is about to be written to every screen. *)
OnItsWay(s, i) == \E a \in Actors : pc[a] \in {"banner", "send"} /\ loc[a].tgt = s /\ loc[a].n = i

(* The handler is going to replay what there is, or to start a session     *)
(* that has written nothing.                                               *)
Repaints(t) ==
  \/ pc[t] \in {"wipe", "start", "fit", "reset", "history", "reread", "blank"}
  \/ pc[t] \in {"stop", "check"} /\ loc[t].was

Replays(t, i) == pc[t] = "replay" /\ i <= loc[t].n

Covered(t) == \A i \in 1 .. out[active] : <<active, i>> \in screen[t] \/ OnItsWay(active, i) \/ Replays(t, i)

(* A chunk of the active session is on the screen, or on its way there, or *)
(* part of the replay; but a connecting client blanks its screen after it  *)
(* has read the scrollback, and what is written in between is lost.        *)
ScreenInv ==
  /\ clients = Ops
  /\ \A t \in Ops :
       /\ pc[t] \notin {"hello", "hello_history", "hello_reset", "hello_replay"}
       /\ pc[t] \in {"wipe", "start", "fit", "reset", "history", "replay"} => loc[t].tgt = active
       /\ active # NoSession => Repaints(t) \/ Covered(t)

(* The handler and its locals. *)
LEMMA TheHandler ==
  ASSUME TypeInv, OneHandler, NEW t \in Ops
  PROVE  /\ Ops = {t} /\ t \in Actors /\ t \notin Emitters
         /\ pc \in [Actors -> Pcs] /\ loc \in [Actors -> Locals]
         /\ loc[t].tgt \in Ids \cup {NoSession} /\ loc[t].ret \in {"switch", "snapshot"}
         /\ NoSession \notin Ids /\ sessions \subseteq Ids /\ sgeom \in [Ids -> Geoms]
         /\ counter \in Ids /\ counter + 1 \in Nat \ {NoSession}
  BY SessionsAssumption
     DEF OneHandler, TypeInv, TypeOK, ThreadTypes, ManagerTypes, TerminalTypes, Actors, Locals, Ids, NoSession

(* Connecting changes no tab. *)
LEMMA ConnectRest ==
  ASSUME RegistryInv, OneHandler, RestInv, NEW t \in Ops, ConnectStep(t)
  PROVE  RestInv'
<1> USE DEF Goto, Forget, manager, terminals, RestInv, ActiveInv, GeomInv, StripInv, Reopens, Refits
<1>0. /\ Ops = {t} /\ t \in Actors /\ pc \in [Actors -> Pcs] /\ loc \in [Actors -> Locals]
  BY TheHandler DEF RegistryInv
<1>1. CASE Connect(t)
  BY <1>0, <1>1 DEF Connect
<1>2. CASE HelloActive(t)
  BY <1>0, <1>2 DEF HelloActive
<1>3. CASE HelloHistory(t)
  BY <1>0, <1>3 DEF HelloHistory
<1>4. CASE HelloReset(t)
  BY <1>0, <1>4 DEF HelloReset
<1>5. CASE HelloReplay(t)
  BY <1>0, <1>5 DEF HelloReplay
<1>6. CASE Drop(t)
  BY <1>0, <1>6 DEF Drop
<1> QED
  BY <1>1, <1>2, <1>3, <1>4, <1>5, <1>6 DEF ConnectStep

(* A new tab is active at once, and resized before it is started. *)
LEMMA CreateRest ==
  ASSUME RegistryInv, OneHandler, RestInv, NEW t \in Ops, CreateStep(t)
  PROVE  RestInv'
<1> USE DEF Goto, Forget, ForgetIf, terminals, views, RestInv, ActiveInv, GeomInv, StripInv, Reopens, Refits
<1>0. /\ Ops = {t} /\ t \in Actors /\ pc \in [Actors -> Pcs] /\ loc \in [Actors -> Locals]
      /\ loc[t].tgt \in Ids \cup {NoSession} /\ loc[t].ret \in {"switch", "snapshot"}
      /\ NoSession \notin Ids /\ sgeom \in [Ids -> Geoms] /\ counter + 1 # NoSession
      /\ active \in sessions \cup {NoSession} /\ sessions \subseteq Ids
  BY TheHandler DEF RegistryInv, Live
<1>1. CASE New(t)
  BY <1>0, <1>1 DEF New, manager
<1>2. CASE CreateRefused(t)
  <2>1. sessions # {}
    <3>1. Cardinality(sessions) >= MaxSessions
      BY <1>2 DEF CreateRefused
    <3> QED
      BY ONLY <3>1, FS_EmptySet, SessionsAssumption
  <2> QED
    BY <1>0, <1>2, <2>1 DEF CreateRefused, manager
<1>3. CASE CreateEnter(t)
  BY <1>0, <1>3 DEF CreateEnter, Locals
<1>4. CASE CreateWipe(t)
  BY <1>0, <1>4 DEF CreateWipe, manager
<1>5. CASE CreateStart(t)
  BY <1>0, <1>5 DEF CreateStart, manager
<1>6. CASE CreateLeave(t)
  BY <1>0, <1>6 DEF CreateLeave, manager
<1> QED
  BY <1>1, <1>2, <1>3, <1>4, <1>5, <1>6 DEF CreateStep

(* switch() resizes what it makes active. *)
LEMMA SwitchRest ==
  ASSUME RegistryInv, OneHandler, RestInv, NEW t \in Ops, SwitchStep(t)
  PROVE  RestInv'
<1> USE DEF Goto, Forget, terminals, views, RestInv, ActiveInv, GeomInv, StripInv, Reopens, Refits
<1>0. /\ Ops = {t} /\ t \in Actors /\ pc \in [Actors -> Pcs] /\ loc \in [Actors -> Locals]
      /\ loc[t].tgt \in Ids \cup {NoSession}
      /\ NoSession \notin Ids /\ sgeom \in [Ids -> Geoms]
      /\ active \in sessions \cup {NoSession} /\ sessions \subseteq Ids
  BY TheHandler DEF RegistryInv, Live
<1>1. ASSUME NEW s \in Ids, Switch(t, s)
      PROVE  RestInv'
  BY <1>0, <1>1 DEF Switch, manager
<1>2. CASE SwitchNothing(t)
  BY <1>0, <1>2 DEF SwitchNothing, manager
<1>3. CASE SwitchSet(t)
  BY <1>0, <1>3 DEF SwitchSet, Locals
<1>4. CASE SwitchFit(t)
  <2>1. /\ pc[t] = "fit" /\ pc' = [pc EXCEPT ![t] = "reset"]
        /\ sgeom' = [sgeom EXCEPT ![loc[t].tgt] = loc[t].g]
        /\ UNCHANGED <<sessions, active, geom, clients, tabs>>
    BY <1>4 DEF SwitchFit, manager
  <2>2. ASSUME active # NoSession
        PROVE  sgeom'[active] = geom
    <3>1. active \in Ids
      BY <1>0, <2>2
    <3>2. loc[t].tgt = active /\ loc[t].g = geom
      BY <1>0, <2>1, <2>2
    <3> QED
      BY ONLY <1>0, <2>1, <3>1, <3>2
  <2> QED
    BY <1>0, <2>1, <2>2
<1>5. CASE SwitchReset(t)
  BY <1>0, <1>5 DEF SwitchReset, manager
<1>6. CASE SwitchHistory(t)
  BY <1>0, <1>6 DEF SwitchHistory, manager, Locals
<1>7. CASE SwitchReplay(t)
  BY <1>0, <1>7 DEF SwitchReplay, manager
<1> QED
  BY <1>1, <1>2, <1>3, <1>4, <1>5, <1>6, <1>7 DEF SwitchStep

(* close() leaves no tab active only if there is none, and then creates    *)
(* one, or to switch to one.                                               *)
LEMMA CloseRest ==
  ASSUME RegistryInv, OneHandler, RestInv, NEW t \in Ops, CloseStep(t)
  PROVE  RestInv'
<1> USE DEF Goto, Forget, terminals, views, RestInv, ActiveInv, GeomInv, StripInv, Reopens, Refits
<1>0. /\ Ops = {t} /\ t \in Actors /\ pc \in [Actors -> Pcs] /\ loc \in [Actors -> Locals]
      /\ loc[t].tgt \in Ids \cup {NoSession}
      /\ NoSession \notin Ids /\ sgeom \in [Ids -> Geoms]
      /\ active \in sessions \cup {NoSession} /\ sessions \subseteq Ids
  BY TheHandler DEF RegistryInv, Live
<1>1. ASSUME NEW s \in Ids, Close(t, s)
      PROVE  RestInv'
  BY <1>0, <1>1 DEF Close, manager
<1>2. CASE CloseUnknown(t)
  BY <1>0, <1>2 DEF CloseUnknown, manager
<1>3. CASE ClosePop(t)
  <2>1. /\ pc[t] = "close" /\ pc'[t] = "stop" /\ loc[t].tgt \in sessions
        /\ sessions' = sessions \ {loc[t].tgt} /\ loc'[t].was = (active = loc[t].tgt)
        /\ active' = IF active = loc[t].tgt THEN Successor(loc[t].tgt) ELSE active
        /\ UNCHANGED <<geom, sgeom>>
    BY <1>0, <1>3 DEF ClosePop, Locals
  <2>2. /\ Successor(loc[t].tgt) \in sessions' \cup {NoSession}
        /\ Successor(loc[t].tgt) = NoSession => sessions' = {}
    <3>1. /\ Successor(loc[t].tgt) \in sessions' \cup {NoSession}
          /\ ToSet(Without(loc[t].tgt)) = sessions' /\ Without(loc[t].tgt) \in Seq(Ids)
      BY <2>1, WithoutType DEF RegistryInv
    <3>2. ASSUME Successor(loc[t].tgt) = NoSession
          PROVE  Without(loc[t].tgt) = <<>>
      <4> DEFINE rest == Without(loc[t].tgt)
                 i == Position(loc[t].tgt)
      <4>1. SUFFICES ASSUME rest # <<>>
                     PROVE  Successor(loc[t].tgt) \in Ids
        BY <1>0, <3>2
      <4>2. i \in 1 .. Len(order)
        BY <2>1 DEF RegistryInv, TypeInv, TypeOK, ManagerTypes, Listed, ToSet, Position
      <4> HIDE DEF i, rest
      <4>3. rest \in Seq(Ids) /\ Len(rest) \in Nat \ {0}
        BY <3>1, <4>1 DEF rest
      <4>4. (IF i <= Len(rest) THEN i ELSE Len(rest)) \in 1 .. Len(rest)
        BY <4>2, <4>3
      <4>5. Successor(loc[t].tgt) = rest[IF i <= Len(rest) THEN i ELSE Len(rest)]
        BY <4>1 DEF Successor, rest, i
      <4> QED
        BY <4>3, <4>4, <4>5
    <3>3. ToSet(<<>>) = {}
      BY DEF ToSet
    <3> QED
      BY <3>1, <3>2, <3>3
  <2>3. ActiveInv'
    BY <1>0, <2>1, <2>2
  <2>4. GeomInv'
    BY <1>0, <2>1
  <2>5. StripInv'
    BY <1>0, <2>1
  <2> QED
    BY <2>3, <2>4, <2>5
<1>4. CASE CloseStop(t)
  BY <1>0, <1>4 DEF CloseStop, manager
<1>5. CASE CloseCheck(t)
  BY <1>0, <1>5 DEF CloseCheck, manager
<1>6. CASE CloseReread(t)
  BY <1>0, <1>6 DEF CloseReread, manager, Locals
<1>7. CASE CloseBlank(t)
  BY <1>0, <1>7 DEF CloseBlank
<1> QED
  BY <1>1, <1>2, <1>3, <1>4, <1>5, <1>6, <1>7 DEF CloseStep

(* resize() changes the geometry of the active session after that of the   *)
(* manager, and a push takes what the snapshot found.                      *)
LEMMA StateRest ==
  ASSUME RegistryInv, OneHandler, RestInv, NEW t \in Ops, StateStep(t)
  PROVE  RestInv'
<1> USE DEF Goto, Forget, terminals, views, RestInv, ActiveInv, GeomInv, StripInv, Reopens, Refits
<1>0. /\ Ops = {t} /\ t \in Actors /\ pc \in [Actors -> Pcs] /\ loc \in [Actors -> Locals]
      /\ loc[t].tgt \in Ids \cup {NoSession}
      /\ NoSession \notin Ids /\ sgeom \in [Ids -> Geoms]
      /\ active \in sessions \cup {NoSession} /\ sessions \subseteq Ids
  BY TheHandler DEF RegistryInv, Live
<1>1. ASSUME NEW g \in Geoms \cup {Collapsed}, Resize(t, g)
      PROVE  RestInv'
  BY <1>0, <1>1 DEF Resize, NoLocals
<1>2. CASE ResizeApply(t)
  <2>1. /\ pc[t] = "resize" /\ pc' = [pc EXCEPT ![t] = "idle"]
        /\ sgeom' = [s \in Ids |-> IF s = loc[t].tgt THEN loc[t].g ELSE sgeom[s]]
        /\ UNCHANGED <<sessions, active, geom, clients, tabs>>
    BY <1>2 DEF ResizeApply, manager
  <2>2. ASSUME active # NoSession
        PROVE  sgeom'[active] = geom
    <3>1. active \in Ids
      BY <1>0, <2>2
    <3>2. loc[t].tgt = active /\ loc[t].g = geom
      BY <1>0, <2>1, <2>2
    <3> QED
      BY ONLY <1>0, <2>1, <3>1, <3>2
  <2> QED
    BY <1>0, <2>1, <2>2
<1>3. CASE Snapshot(t)
  BY <1>0, <1>3 DEF Snapshot, manager, NoLocals
<1>4. CASE Push(t)
  BY <1>0, <1>4 DEF Push, manager
<1> QED
  BY <1>1, <1>2, <1>3, <1>4 DEF StateStep

(* Output changes neither tabs nor geometry. *)
LEMMA EmitRest ==
  ASSUME RegistryInv, OneHandler, RestInv, NEW a \in Actors, EmitStep(a)
  PROVE  RestInv'
<1> USE DEF Goto, ForgetIf, manager, terminals, views, RestInv, ActiveInv, GeomInv, StripInv, Reopens, Refits
<1>0. /\ Ops \cap Emitters = {} /\ Ops \subseteq Actors /\ pc \in [Actors -> Pcs] /\ loc \in [Actors -> Locals]
  BY SessionsAssumption DEF RegistryInv, TypeInv, TypeOK, ThreadTypes, Actors
<1>1. ASSUME a \in Emitters, NEW s \in Ids, EmitRecord(a, s)
      PROVE  RestInv'
  BY <1>0, <1>1 DEF EmitRecord
<1>2. CASE EmitTest(a)
  BY <1>0, <1>2 DEF EmitTest
<1>3. CASE EmitSend(a)
  BY <1>0, <1>3 DEF EmitSend
<1> QED
  BY <1>1, <1>2, <1>3 DEF EmitStep

(* What holds at rest with one handler, and how it comes about. *)
LEMMA AlwaysRest ==
  ASSUME OneHandler
  PROVE  Spec => []RestInv
<1>1. Init => RestInv
  <2>1. Init => 1 \in Ids
    BY SessionsAssumption DEF Ids
  <2> QED
    BY <2>1 DEF Init, RestInv, ActiveInv, GeomInv, StripInv, NoSession, Actors
<1>2. RegistryInv /\ RestInv /\ [Next]_vars => RestInv'
  <2> SUFFICES ASSUME RegistryInv, RestInv, [Next]_vars
               PROVE  RestInv'
    OBVIOUS
  <2>1. CASE UNCHANGED vars
    BY <2>1 DEF vars, manager, terminals, views, RestInv, ActiveInv, GeomInv, StripInv, Reopens, Refits
  <2> QED
    BY <2>1, ConnectRest, CreateRest, SwitchRest, CloseRest, StateRest, EmitRest DEF Next
<1> QED
  BY <1>1, <1>2, AlwaysRegistryInv, PTL DEF Spec

(* With one client there is an active session at rest: closing tabs in any *)
(* order never leaves it at a dead terminal (sessions.py:138-163).         *)
THEOREM ActiveWhenAlone ==
  ASSUME OneHandler
  PROVE  Spec => []ActiveAtRest
<1>1. RegistryInv /\ RestInv => ActiveAtRest
  BY DEF RegistryInv, Live, RestInv, ActiveInv, Reopens, ActiveAtRest, AtRest, Actors
<1> QED
  BY <1>1, AlwaysRest, AlwaysRegistryInv, PTL

(* With one client the active session has the geometry that was asked for  *)
(* last, though a background session is not resized (sessions.py:51-55).   *)
THEOREM GeometryWhenAlone ==
  ASSUME OneHandler
  PROVE  Spec => []GeometryFollows
<1>1. RestInv => GeometryFollows
  BY DEF RestInv, GeomInv, Refits, GeometryFollows, AtRest, Actors
<1> QED
  BY <1>1, AlwaysRest, PTL

(* With one client its tab strip at rest shows the tabs there are and the  *)
(* active one, after any operation and any lost connection (ws_server.py). *)
THEOREM StripWhenAlone ==
  ASSUME OneHandler
  PROVE  Spec => []TabStripCurrent
<1>1. TypeInv /\ RestInv => TabStripCurrent
  BY DEF TypeInv, TypeOK, ViewTypes, RestInv, StripInv, TabStripCurrent, AtRest, Actors
<1> QED
  BY <1>1, AlwaysRest, TypeInvariant, PTL

-----------------------------------------------------------------------------
(* What the client has on its screen                                       *)

Facing == {"wipe", "start", "fit", "reset", "history", "replay"}
Hello == {"hello", "hello_history", "hello_reset", "hello_replay"}

(* A step of a thread that is not writing a chunk leaves the chunks of the *)
(* others on their way.                                                    *)
LEMMA StillOnItsWay ==
  ASSUME NEW a \in Actors, \A b \in Actors : b # a => pc'[b] = pc[b] /\ loc'[b] = loc[b],
         pc[a] \notin {"banner", "send"}, NEW s, NEW i, OnItsWay(s, i)
  PROVE  OnItsWay(s, i)'
  BY DEF OnItsWay

(* A step of the handler after which it repaints the screen. *)
LEMMA WillRepaint ==
  ASSUME ScreenInv, NEW t \in Ops, Ops = {t}, clients' = clients, pc'[t] \notin Hello,
         Repaints(t)' \/ active' = NoSession,
         pc'[t] \in Facing => loc'[t].tgt = active'
  PROVE  ScreenInv'
  BY DEF ScreenInv, Hello, Facing

(* A step of the handler that takes nothing from the screen and does not   *)
(* end a repaint.                                                          *)
LEMMA ScreenStays ==
  ASSUME ScreenInv, NEW t \in Ops, Ops = {t}, t \in Actors, UNCHANGED <<clients, active, out, screen>>,
         \A b \in Actors : b # t => pc'[b] = pc[b] /\ loc'[b] = loc[b],
         pc[t] \notin {"banner", "send", "replay"}, pc'[t] \notin Hello \cup Facing,
         Repaints(t) => Repaints(t)'
  PROVE  ScreenInv'
<1>1. ASSUME active # NoSession, ~ Repaints(t)
      PROVE  Covered(t)'
  <2> SUFFICES ASSUME NEW i \in 1 .. out[active]
               PROVE  <<active, i>> \in screen[t] \/ OnItsWay(active, i)' \/ Replays(t, i)'
    BY DEF Covered
  <2>1. <<active, i>> \in screen[t] \/ OnItsWay(active, i)
    BY <1>1 DEF ScreenInv, Covered, Replays
  <2>2. OnItsWay(active, i) => OnItsWay(active, i)'
    BY StillOnItsWay DEF OnItsWay
  <2> QED
    BY <2>1, <2>2
<1>2. active # NoSession => Repaints(t)' \/ Covered(t)'
  BY <1>1
<1> QED
  BY <1>2 DEF ScreenInv, Hello, Facing

(* The steps of the handler. *)
LEMMA HandlerScreen ==
  ASSUME TypeInv, OneHandler, DropBound = 0, ScreenInv, NEW t \in Ops,
         ConnectStep(t) \/ CreateStep(t) \/ SwitchStep(t) \/ CloseStep(t) \/ StateStep(t)
  PROVE  ScreenInv'
<1>0. /\ Ops = {t} /\ t \in Actors /\ pc \in [Actors -> Pcs] /\ loc \in [Actors -> Locals]
      /\ loc[t].tgt \in Ids \cup {NoSession} /\ loc[t].ret \in {"switch", "snapshot"}
      /\ NoSession \notin Ids /\ clients = Ops /\ pc[t] \notin Hello
      /\ out \in [Ids -> 0 .. OutBound] /\ screen \in [Ops -> SUBSET Chunks]
      /\ active \in Ids \cup {NoSession}
  BY TheHandler DEF TypeInv, TypeOK, TerminalTypes, ViewTypes, ManagerTypes, ScreenInv, Hello
<1>1. CASE ConnectStep(t)
  <2>1. drops = 0
    BY DEF TypeInv, TypeOK, ViewTypes
  <2> QED
    BY <1>0, <1>1, <2>1 DEF ConnectStep, Connect, HelloActive, HelloHistory, HelloReset, HelloReplay, Drop,
                            Goto, Hello
<1>2. CASE CreateStep(t)
  <2>1. CASE New(t) \/ CreateRefused(t) \/ CreateLeave(t)
    <3>1. /\ UNCHANGED <<clients, active, out, screen>>
          /\ pc[t] \in {"idle", "create", "leave"} /\ pc'[t] \in {"create", "snapshot", "switch"}
          /\ \A b \in Actors : b # t => pc'[b] = pc[b] /\ loc'[b] = loc[b]
      BY <1>0, <2>1 DEF New, CreateRefused, CreateLeave, Goto, Forget, ForgetIf, manager, terminals, views
    <3> QED
      BY <1>0, <3>1, ScreenStays DEF Hello, Facing, Repaints
  <2>2. CASE CreateEnter(t)
    <3>1. clients' = clients /\ pc'[t] \in {"wipe", "start"} /\ loc'[t].tgt = active'
      BY <1>0, <2>2 DEF CreateEnter, Goto, views, Locals
    <3> QED
      BY <1>0, <3>1, WillRepaint DEF Hello, Repaints
  <2>3. CASE CreateWipe(t)
    <3>1. pc[t] = "wipe" /\ pc'[t] = "start" /\ UNCHANGED <<clients, loc, active>>
      BY <1>0, <2>3 DEF CreateWipe, Goto, manager
    <3>2. loc[t].tgt = active
      BY <3>1 DEF ScreenInv
    <3> QED
      BY <1>0, <3>1, <3>2, WillRepaint DEF Hello, Repaints
  <2>4. CASE CreateStart(t)
    <3>1. /\ pc[t] = "start" /\ pc'[t] = "banner" /\ UNCHANGED <<clients, active, screen>>
          /\ out' = [out EXCEPT ![loc[t].tgt] = 1] /\ loc' = [loc EXCEPT ![t].n = 1]
      BY <1>0, <2>4 DEF CreateStart, Goto, manager, views
    <3>2. loc'[t].n = 1 /\ loc'[t].tgt = loc[t].tgt
      BY <1>0, <3>1 DEF Locals
    <3>3. loc[t].tgt = active
      BY <3>1 DEF ScreenInv
    <3>4. ASSUME active # NoSession
          PROVE  Covered(t)'
      <4>1. out'[active] = 1
        BY <1>0, <3>1, <3>3, <3>4
      <4>2. OnItsWay(active, 1)'
        BY <1>0, <3>1, <3>2, <3>3 DEF OnItsWay
      <4>3. 1 .. 1 = {1}
        OBVIOUS
      <4> QED
        BY <3>1, <4>1, <4>2, <4>3 DEF Covered
    <3> QED
      BY <1>0, <3>1, <3>4 DEF ScreenInv
  <2> QED
    BY <1>2, <2>1, <2>2, <2>3, <2>4 DEF CreateStep
<1>3. CASE SwitchStep(t)
  <2>1. CASE (\E s \in Ids : Switch(t, s)) \/ SwitchNothing(t)
    <3>1. /\ UNCHANGED <<clients, active, out, screen>>
          /\ pc[t] \in {"idle", "switch"} /\ pc'[t] \in {"switch", "snapshot"}
          /\ \A b \in Actors : b # t => pc'[b] = pc[b] /\ loc'[b] = loc[b]
      BY <1>0, <2>1 DEF Switch, SwitchNothing, Goto, Forget, manager, terminals, views
    <3> QED
      BY <1>0, <3>1, ScreenStays DEF Hello, Facing, Repaints
  <2>2. CASE SwitchSet(t) \/ SwitchFit(t) \/ SwitchReset(t)
    <3>1. /\ clients' = clients /\ pc'[t] \in {"fit", "reset", "history"}
          /\ (pc[t] = "switch" /\ active' = loc[t].tgt) \/ (pc[t] \in {"fit", "reset"} /\ active' = active)
      BY <1>0, <2>2 DEF SwitchSet, SwitchFit, SwitchReset, Goto, views, manager
    <3>2. loc'[t].tgt = loc[t].tgt
      <4>1. loc' = loc \/ \E g : loc' = [loc EXCEPT ![t].g = g]
        BY <2>2 DEF SwitchSet, SwitchFit, SwitchReset
      <4> QED
        BY <1>0, <4>1 DEF Locals
    <3>3. loc[t].tgt = active'
      BY <3>1 DEF ScreenInv
    <3> QED
      BY <1>0, <3>1, <3>2, <3>3, WillRepaint DEF Hello, Repaints
  <2>3. CASE SwitchHistory(t)
    <3>1. /\ pc[t] = "history" /\ pc'[t] = "replay" /\ UNCHANGED <<clients, active, out, screen>>
          /\ loc' = [loc EXCEPT ![t].n = out[loc[t].tgt]]
      BY <1>0, <2>3 DEF SwitchHistory, Goto, manager, terminals, views
    <3>2. loc[t].tgt = active
      BY <3>1 DEF ScreenInv
    <3>3. loc'[t].n = out[active] /\ loc'[t].tgt = active
      BY <1>0, <3>1, <3>2 DEF Locals
    <3>4. ASSUME active # NoSession
          PROVE  Covered(t)'
      BY <1>0, <3>1, <3>3, <3>4 DEF Covered, Replays
    <3> QED
      BY <1>0, <3>1, <3>3, <3>4 DEF ScreenInv
  <2>4. CASE SwitchReplay(t)
    <3>1. /\ pc[t] = "replay" /\ pc'[t] = "snapshot" /\ UNCHANGED <<clients, active, out>>
          /\ \A b \in Actors : b # t => pc'[b] = pc[b] /\ loc'[b] = loc[b]
          /\ screen'[t] = screen[t] \cup History(loc[t].tgt, loc[t].n)
      BY <1>0, <2>4 DEF SwitchReplay, Goto, Forget, Broadcast, manager, terminals
    <3>2. loc[t].tgt = active
      BY <3>1 DEF ScreenInv
    <3>3. ASSUME active # NoSession
          PROVE  Covered(t)'
      <4> SUFFICES ASSUME NEW i \in 1 .. out[active]
                   PROVE  <<active, i>> \in screen'[t] \/ OnItsWay(active, i)'
        BY <3>1 DEF Covered
      <4>1. <<active, i>> \in screen[t] \/ OnItsWay(active, i) \/ Replays(t, i)
        BY <3>1, <3>3 DEF ScreenInv, Repaints, Covered
      <4>2. Replays(t, i) => <<active, i>> \in History(loc[t].tgt, loc[t].n)
        <5>1. loc[t].n \in 0 .. OutBound /\ out[active] \in 0 .. OutBound
          BY <1>0, <3>3 DEF Locals
        <5>2. Replays(t, i) => i \in 1 .. loc[t].n
          BY <5>1, SessionsAssumption DEF Replays
        <5> QED
          BY <3>2, <5>2 DEF History
      <4>3. OnItsWay(active, i) => OnItsWay(active, i)'
        BY <1>0, <3>1, StillOnItsWay DEF OnItsWay
      <4> QED
        BY <3>1, <4>1, <4>2, <4>3
    <3> QED
      BY <1>0, <3>1, <3>3 DEF ScreenInv
  <2> QED
    BY <1>3, <2>1, <2>2, <2>3, <2>4 DEF SwitchStep
<1>4. CASE CloseStep(t)
  <2>1. CASE (\E s \in Ids : Close(t, s)) \/ CloseUnknown(t)
    <3>1. /\ UNCHANGED <<clients, active, out, screen>>
          /\ pc[t] \in {"idle", "close"} /\ pc'[t] \in {"close", "snapshot"}
          /\ \A b \in Actors : b # t => pc'[b] = pc[b] /\ loc'[b] = loc[b]
      BY <1>0, <2>1 DEF Close, CloseUnknown, Goto, Forget, manager, terminals, views
    <3> QED
      BY <1>0, <3>1, ScreenStays DEF Hello, Facing, Repaints
  <2>2. CASE ClosePop(t)
    <3>1. /\ pc[t] = "close" /\ pc'[t] = "stop" /\ UNCHANGED <<clients, out, screen>>
          /\ loc'[t].was = (active = loc[t].tgt)
          /\ \A b \in Actors : b # t => pc'[b] = pc[b] /\ loc'[b] = loc[b]
          /\ active # loc[t].tgt => active' = active
      BY <1>0, <2>2 DEF ClosePop, Goto, terminals, views, Locals
    <3>2. CASE active = loc[t].tgt
      BY <1>0, <3>1, <3>2, WillRepaint DEF Hello, Facing, Repaints
    <3>3. CASE active # loc[t].tgt
      BY <1>0, <3>1, <3>3, ScreenStays DEF Hello, Facing, Repaints
    <3> QED
      BY <3>2, <3>3
  <2>3. CASE CloseStop(t)
    <3>1. /\ UNCHANGED <<clients, active, out, screen, loc>> /\ pc[t] = "stop" /\ pc'[t] = "check"
          /\ \A b \in Actors : b # t => pc'[b] = pc[b]
      BY <1>0, <2>3 DEF CloseStop, Goto, manager, views
    <3> QED
      BY <1>0, <3>1, ScreenStays DEF Hello, Facing, Repaints
  <2>4. CASE CloseCheck(t)
    <3>1. /\ UNCHANGED <<clients, active, out, screen>> /\ pc[t] = "check"
          /\ pc'[t] = IF active = NoSession THEN "create" ELSE IF loc[t].was THEN "reread" ELSE "snapshot"
          /\ \A b \in Actors : b # t => pc'[b] = pc[b] /\ loc'[b] = loc[b]
      BY <1>0, <2>4 DEF CloseCheck, Goto, Forget, manager, terminals, views
    <3>2. CASE active = NoSession
      BY <1>0, <3>1, <3>2, WillRepaint DEF Hello, Facing
    <3>3. CASE active # NoSession
      BY <1>0, <3>1, <3>3, ScreenStays DEF Hello, Facing, Repaints
    <3> QED
      BY <3>2, <3>3
  <2>5. CASE CloseReread(t)
    <3>1. clients' = clients /\ pc'[t] = "blank"
      BY <1>0, <2>5 DEF CloseReread, Goto, views
    <3> QED
      BY <1>0, <3>1, WillRepaint DEF Hello, Facing, Repaints
  <2>6. CASE CloseBlank(t)
    <3>1. clients' = clients /\ pc'[t] = "switch" /\ active' = NoSession
      BY <1>0, <2>6 DEF CloseBlank, Goto, views
    <3> QED
      BY <1>0, <3>1, WillRepaint DEF Hello, Facing
  <2> QED
    BY <1>4, <2>1, <2>2, <2>3, <2>4, <2>5, <2>6 DEF CloseStep
<1>5. CASE StateStep(t)
  <2>1. /\ UNCHANGED <<clients, active, out, screen>>
        /\ pc[t] \in {"idle", "resize", "snapshot", "push"} /\ pc'[t] \in {"resize", "idle", "push"}
        /\ \A b \in Actors : b # t => pc'[b] = pc[b] /\ loc'[b] = loc[b]
    BY <1>0, <1>5 DEF StateStep, Resize, ResizeApply, Snapshot, Push, Goto, Forget, manager, terminals, views
  <2> QED
    BY <1>0, <2>1, ScreenStays DEF Hello, Facing, Repaints
<1> QED
  BY <1>1, <1>2, <1>3, <1>4, <1>5

(* Output of any thread: what is recorded is on its way, and a chunk is    *)
(* dropped on the way only if its session is not active.                   *)
LEMMA EmitScreen ==
  ASSUME TypeInv, ScreenInv, NEW a \in Actors, EmitStep(a)
  PROVE  ScreenInv'
<1>0. /\ Ops \cap Emitters = {} /\ Ops \subseteq Actors /\ pc \in [Actors -> Pcs] /\ loc \in [Actors -> Locals]
      /\ clients = Ops /\ out \in [Ids -> 0 .. OutBound] /\ screen \in [Ops -> SUBSET Chunks]
      /\ UNCHANGED <<clients, active>> /\ active \in Ids \cup {NoSession}
  BY SessionsAssumption DEF TypeInv, TypeOK, ThreadTypes, TerminalTypes, ViewTypes, ManagerTypes, Actors, ScreenInv,
     EmitStep, EmitRecord, EmitTest, EmitSend, manager, views
<1>1. \A b \in Actors : b # a => pc'[b] = pc[b] /\ loc'[b] = loc[b]
  BY <1>0 DEF EmitStep, EmitRecord, EmitTest, EmitSend, Goto, ForgetIf
<1>2. CASE a \in Emitters /\ \E s \in Ids : EmitRecord(a, s)
  <2>1. PICK s \in Ids : EmitRecord(a, s)
    BY <1>2
  <2>2. /\ pc[a] = "idle" /\ pc'[a] = "banner" /\ screen' = screen
        /\ out' = [out EXCEPT ![s] = out[s] + 1] /\ loc'[a].tgt = s /\ loc'[a].n = out[s] + 1
    <3>1. /\ pc[a] = "idle" /\ pc'[a] = "banner" /\ screen' = screen
          /\ out' = [out EXCEPT ![s] = out[s] + 1]
          /\ loc' = [loc EXCEPT ![a].tgt = s, ![a].n = out[s] + 1]
      BY <1>0, <2>1 DEF EmitRecord, Goto, views
    <3>2. loc'[a].tgt = s /\ loc'[a].n = out[s] + 1
      BY <1>0, <3>1 DEF Locals
    <3> QED
      BY <3>1, <3>2
  <2>3. ASSUME NEW t \in Ops, active # NoSession, Covered(t)
        PROVE  Covered(t)'
    <3> SUFFICES ASSUME NEW i \in 1 .. out'[active]
                 PROVE  <<active, i>> \in screen[t] \/ OnItsWay(active, i)' \/ Replays(t, i)'
      BY <1>0, <2>2 DEF Covered
    <3>1. CASE i \in 1 .. out[active]
      <4>1. <<active, i>> \in screen[t] \/ OnItsWay(active, i) \/ Replays(t, i)
        BY <2>3, <3>1 DEF Covered
      <4>2. OnItsWay(active, i) => OnItsWay(active, i)'
        BY <1>0, <1>1, <2>2, StillOnItsWay DEF OnItsWay
      <4>3. Replays(t, i) => Replays(t, i)'
        BY <1>0, <1>1, <1>2 DEF Replays
      <4> QED
        BY <4>1, <4>2, <4>3
    <3>2. CASE i \notin 1 .. out[active]
      <4>1. out[active] \in Nat /\ out'[active] \in {out[active], out[active] + 1}
        BY <1>0, <2>2, <2>3
      <4>2. i = out[active] + 1 /\ s = active
        BY <1>0, <2>2, <2>3, <3>2, <4>1
      <4>3. OnItsWay(active, i)'
        BY <1>0, <2>2, <4>2 DEF OnItsWay
      <4> QED
        BY <4>3
    <3> QED
      BY <3>1, <3>2
  <2>4. \A t \in Ops : pc'[t] = pc[t] /\ loc'[t] = loc[t]
    BY <1>0, <1>1, <1>2
  <2> QED
    BY <1>0, <2>3, <2>4 DEF ScreenInv, Repaints
<1>3. CASE EmitTest(a) \/ EmitSend(a)
  <2>1. out' = out /\ pc[a] \in {"banner", "send"} /\ pc'[a] \in {"send", "leave", "idle"}
    BY <1>0, <1>3 DEF EmitTest, EmitSend, Goto, terminals
  <2>2. ASSUME NEW t \in Ops, active # NoSession, Covered(t)
        PROVE  Covered(t)'
    <3> SUFFICES ASSUME NEW i \in 1 .. out[active]
                 PROVE  <<active, i>> \in screen'[t] \/ OnItsWay(active, i)' \/ Replays(t, i)'
      BY <1>0, <2>1 DEF Covered
    <3>1. <<active, i>> \in screen[t] \/ OnItsWay(active, i) \/ Replays(t, i)
      BY <2>2 DEF Covered
    <3>2. screen[t] \subseteq screen'[t]
      BY <1>0, <1>3 DEF EmitTest, EmitSend, Broadcast, views
    <3>3. Replays(t, i) => Replays(t, i)'
      BY <1>0, <1>1, <2>1 DEF Replays
    <3>4. CASE OnItsWay(active, i)
      <4>1. PICK b \in Actors : pc[b] \in {"banner", "send"} /\ loc[b].tgt = active /\ loc[b].n = i
        BY <3>4 DEF OnItsWay
      <4>2. CASE b # a
        BY <1>0, <1>1, <4>1, <4>2 DEF OnItsWay
      <4>3. CASE b = a /\ EmitTest(a)
        <5>1. pc'[a] = "send" /\ loc'[a] = loc[a]
          BY <1>0, <4>1, <4>3 DEF EmitTest, Goto, ForgetIf
        <5> QED
          BY <1>0, <4>1, <4>3, <5>1 DEF OnItsWay
      <4>4. CASE b = a /\ EmitSend(a)
        BY <1>0, <4>1, <4>4 DEF EmitSend, Broadcast
      <4> QED
        BY <1>3, <4>2, <4>3, <4>4
    <3> QED
      BY <3>1, <3>2, <3>3, <3>4
  <2>3. \A t \in Ops : /\ Repaints(t) => Repaints(t)'
                       /\ pc'[t] \in Hello \cup Facing => pc'[t] = pc[t] /\ loc'[t] = loc[t]
    BY <1>0, <1>1, <2>1 DEF Repaints, Hello, Facing
  <2> QED
    BY <1>0, <2>2, <2>3 DEF ScreenInv, Hello, Facing
<1> QED
  BY <1>2, <1>3 DEF EmitStep

(* With one client that stays connected, everything the active session has *)
(* written is on its screen at rest, whatever other sessions write and     *)
(* however often it switches (sessions.py:64-73, 118-136): no output falls *)
(* between the replay of the scrollback and the live broadcast.            *)
THEOREM ScreenWhenConnected ==
  ASSUME OneHandler, DropBound = 0
  PROVE  ConnectedSpec => []ScreenComplete
<1>0. ConnectedInit => TypeInv /\ ScreenInv
  <2> SUFFICES ASSUME ConnectedInit
               PROVE  TypeInv /\ ScreenInv
    OBVIOUS
  <2>1. 1 \in Ids /\ 1 \in 1 .. OutBound /\ NoLocals \in Locals
    BY SessionsAssumption, NoLocalsType DEF Ids
  <2>2. TypeOK
    BY <2>1, SessionsAssumption
       DEF ConnectedInit, TypeOK, ManagerTypes, TerminalTypes, ViewTypes, ThreadTypes, Chunks, Pcs
  <2>3. Addressed /\ Listed
    BY <2>1 DEF ConnectedInit, Addressed, Located, Creating, Listed, ToSet, IsInjective
  <2>4. ScreenInv
    BY <2>1 DEF ConnectedInit, ScreenInv, Covered, Actors
  <2> QED
    BY <2>2, <2>3, <2>4 DEF TypeInv
<1>1. TypeInv /\ [Next]_vars => TypeInv'
  BY StepTypeInv
<1>2. TypeInv /\ ScreenInv /\ [Next]_vars => ScreenInv'
  <2> SUFFICES ASSUME TypeInv, ScreenInv, [Next]_vars
               PROVE  ScreenInv'
    OBVIOUS
  <2>1. CASE UNCHANGED vars
    BY <2>1 DEF vars, manager, terminals, views, ScreenInv, Covered, OnItsWay, Replays, Repaints
  <2> QED
    BY <2>1, HandlerScreen, EmitScreen DEF Next
<1>3. TypeInv /\ ScreenInv => ScreenComplete
  <2> SUFFICES ASSUME TypeInv, ScreenInv, AtRest, NEW t \in Ops
               PROVE  History(active, IF active = NoSession THEN 0 ELSE out[active]) \subseteq screen[t]
    BY DEF ScreenComplete, TypeInv, TypeOK, ViewTypes
  <2>1. CASE active = NoSession
    BY <2>1 DEF History
  <2>2. CASE active # NoSession
    <3>1. Covered(t)
      BY <2>2 DEF ScreenInv, Repaints, AtRest, Actors
    <3>2. \A i \in 1 .. out[active] : <<active, i>> \in screen[t]
      BY <3>1 DEF Covered, OnItsWay, Replays, AtRest, Actors
    <3> QED
      BY <2>2, <3>2 DEF History
  <2> QED
    BY <2>1, <2>2
<1> QED
  BY <1>0, <1>1, <1>2, <1>3, PTL DEF ConnectedSpec
=============================================================================
