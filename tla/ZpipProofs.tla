------------------------------ MODULE ZpipProofs ------------------------------
(* Theorems about Zpip, for any packages, versions, files, wheels and      *)
(* requirements, and any number of exceptions.                             *)
EXTENDS Zpip, SequenceTheorems, TLAPS

-----------------------------------------------------------------------------
(* Each call in progress                                                   *)

Met == {"deps", "check", "fetched", "commit"}

(* The requirements a call has found to be met, *)
Settled(a) == {d \in Pkgs : Needs[a.pkg][d] # {} /\ d \notin a.todo}

(* the packages it relies on: those it saw in the database, and what it    *)
(* has settled while it waits for another requirement.                     *)
Kept(a) ==
  {d \in Pkgs : a.seen[d] # None} \cup (IF a.phase = "deps" THEN Settled(a) ELSE {})

(* It has read the database; a call without new dependencies that rolls    *)
(* back may have failed before.                                            *)
Resolved(a) == a.phase \in Met \/ a.news # {}

(* The requirement at hand was not there when the call began. *)
AtHand(a) == a.dep \in a.todo /\ a.seen[a.dep] = None

Shape(a) ==
  /\ a.phase \in {"resolve", "deps", "check", "fetched"} => a.done = {}
  /\ a.phase \in Met => a.ver \in Versions
  /\ a.phase \in {"fetched", "commit"} => a.todo = {}
  /\ a.phase = "check" => AtHand(a)
  /\ a.phase = "resolve" => a.news = {}
  /\ \A d \in a.news : a.seen[d] = None
  /\ CommitOK(a)

(* What a call read from the database long ago is still there. *)
Current(a) ==
  /\ \A d \in Pkgs : a.seen[d] # None => db[d] = a.seen[d]
  /\ a.phase \in Met => \A d \in Settled(a) : db[d] \in Needs[a.pkg][d]

Waits(a) ==
  /\ a.phase \in {"deps", "restore"} /\ a.done = {}
  /\ a.phase = "deps" => AtHand(a)

(* A call made by another, at any depth, is not about a package the other  *)
(* one relies on, and knows of all of those.                               *)
Below(a, b) ==
  /\ b.pkg \notin Kept(a)
  /\ Resolved(b) => \A d \in Kept(a) : b.seen[d] # None

StackInv ==
  /\ \A i \in 1 .. Len(stack) : Shape(stack[i]) /\ Current(stack[i])
  /\ \A i \in 1 .. Len(stack) - 1 : Waits(stack[i])
  /\ \A j \in 1 .. Len(stack) : \A i \in 1 .. j - 1 : Below(stack[i], stack[j])

-----------------------------------------------------------------------------
(* The files of the call that is running                                   *)

Owned(files, p) == \A q \in Pkgs \ {p} : FilesOf(q) \cap files = {}

Committing(a) ==
  /\ Owned(Wheel[a.pkg][a.ver], a.pkg)
  /\ \A f \in a.done : disk[f] = <<a.pkg, a.ver>>
  /\ a.old \subseteq FilesOf(a.pkg)
  /\ \A f \in FilesOf(a.pkg) \ Wheel[a.pkg][a.ver] : f \in a.old \/ disk[f] = Absent

Removing(a) ==
  /\ a.left \subseteq FilesOf(a.pkg)
  /\ \A f \in FilesOf(a.pkg) \ a.left : disk[f] = Absent

FilesInv ==
  ~Idle => /\ top.phase = "commit" => Committing(top)
           /\ top.phase = "restore" => Owned(top.done, top.pkg)
           /\ top.phase = "remove" => Removing(top)

-----------------------------------------------------------------------------
(* The records there were when the user's command began                    *)

StartInv ==
  /\ ~Idle \/ result = "failed" => \A p \in Pkgs : start.db[p] # None => db[p] = start.db[p]
  /\ ~Idle /\ stack[1].phase = "resolve" => db = start.db
  /\ ~Idle /\ (Resolved(stack[1]) \/ Len(stack) > 1) => stack[1].seen = start.db

CallsInv == StackInv /\ StartInv

Inv == TypeOK /\ CallsInv /\ FilesInv /\ OneOwner

-----------------------------------------------------------------------------
(* The content of the files, when no rollback is cut short                 *)

Good(f, x) ==
  \/ x \in {start.disk[f], Absent}
  \/ \E p \in Pkgs : f \in FilesOf(p) /\ x = <<p, db[p]>>

Moved == IF Idle \/ top.phase \notin {"commit", "restore"} THEN {} ELSE top.done

(* The content the end of a rollback would leave, *)
Under(f) == IF f \in Moved THEN top.saved[f] ELSE disk[f]

(* and what makes the rollback bring it back. *)
Undoable ==
  ~Idle => /\ top.phase = "commit" => top.done \cap top.left = {}
           /\ top.phase = "restore" /\ top.done # {} => fails = FailBound
           /\ top.phase = "raise" => top.done = {}

StrayInv ==
  /\ ~Idle \/ result = "failed" => \A f \in Files : Good(f, Under(f))
  /\ Undoable

-----------------------------------------------------------------------------
(* What a step does to the stack                                           *)

(* The innermost call is replaced, *)
LEMMA SetTopStack ==
  ASSUME stack \in Seq(Calls), ~Idle, NEW x \in Calls, SetTop(x)
  PROVE  /\ stack' \in Seq(Calls) /\ Len(stack') = Len(stack) /\ Len(stack) \in Nat \ {0}
         /\ stack'[Len(stack)] = x /\ top' = x /\ ~Idle'
         /\ \A i \in 1 .. Len(stack) - 1 : stack'[i] = stack[i]
  BY DEF SetTop, Idle, top

(* another one is added above it, *)
LEMMA PushStack ==
  ASSUME stack \in Seq(Calls), ~Idle, NEW x \in Calls, NEW y \in Calls, Push(x, y)
  PROVE  /\ stack' \in Seq(Calls) /\ Len(stack') = Len(stack) + 1 /\ Len(stack) \in Nat \ {0}
         /\ stack'[Len(stack)] = x /\ stack'[Len(stack) + 1] = y /\ top' = y /\ ~Idle'
         /\ \A i \in 1 .. Len(stack) - 1 : stack'[i] = stack[i]
<1> DEFINE s == [stack EXCEPT ![Len(stack)] = x]
<1>1. s \in Seq(Calls) /\ Len(s) = Len(stack) /\ Len(stack) \in Nat \ {0}
  BY DEF Idle
<1>2. s[Len(stack)] = x /\ \A i \in 1 .. Len(stack) - 1 : s[i] = stack[i]
  BY DEF Idle
<1>3. stack' = Append(s, y)
  BY DEF Push
<1> HIDE DEF s
<1> QED
  BY <1>1, <1>2, <1>3 DEF Idle, top

(* or it returns to its caller, for which the stack is cut short. *)
LEMMA Prefix ==
  ASSUME NEW S, NEW q \in Seq(S), NEW n \in Nat, n <= Len(q)
  PROVE  /\ SubSeq(q, 1, n) \in Seq(S) /\ Len(SubSeq(q, 1, n)) = n
         /\ \A i \in 1 .. n : SubSeq(q, 1, n)[i] = q[i]
<1>1. \A i \in 1 .. n : q[i] \in S
  OBVIOUS
<1>2. Len(SubSeq(q, 1, n)) = IF 1 <= n THEN n - 1 + 1 ELSE 0
  BY <1>1, SubSeqProperties
<1>3. Len(SubSeq(q, 1, n)) = n
  <2> DEFINE l == Len(SubSeq(q, 1, n))
  <2>1. l = IF 1 <= n THEN n - 1 + 1 ELSE 0
    BY <1>2
  <2> HIDE DEF l
  <2>2. l = n
    BY ONLY <2>1, n \in Nat
  <2> QED
    BY <2>2 DEF l
<1> QED
  BY <1>1, <1>3, SubSeqProperties

(* The caller takes the place of the call that returns. *)
LEMMA PopStack ==
  ASSUME stack \in Seq(Calls), Len(stack) > 1, NEW x \in Calls,
         stack' = Append(SubSeq(stack, 1, Len(stack) - 2), x)
  PROVE  /\ stack' \in Seq(Calls) /\ Len(stack') = Len(stack) - 1 /\ Len(stack) \in Nat
         /\ stack'[Len(stack) - 1] = x /\ top' = x /\ ~Idle'
         /\ \A i \in 1 .. Len(stack) - 2 : stack'[i] = stack[i]
<1> DEFINE n == Len(stack) - 2
           s == SubSeq(stack, 1, n)
<1>1. n \in Nat /\ n <= Len(stack) /\ Len(stack) = n + 2
  OBVIOUS
<1>2. stack' = Append(s, x)
  OBVIOUS
<1> HIDE DEF n
<1>3. s \in Seq(Calls) /\ Len(s) = n /\ \A i \in 1 .. n : s[i] = stack[i]
  BY <1>1, Prefix
<1> HIDE DEF s
<1>4. /\ stack' \in Seq(Calls) /\ Len(stack') = n + 1 /\ stack'[n + 1] = x
      /\ \A i \in 1 .. n : stack'[i] = stack[i]
  BY <1>1, <1>2, <1>3
<1>5. Len(stack) - 1 = n + 1 /\ Len(stack) - 2 = n
  BY <1>1
<1> QED
  BY <1>1, <1>4, <1>5 DEF Idle, top

-----------------------------------------------------------------------------
(* What a step does to the calls                                           *)

(* The innermost call goes on and keeps what the others rely on. *)
LEMMA TopKeeps ==
  ASSUME TypeOK, CallsInv, ~Idle, UNCHANGED <<db, start, result>>,
         NEW x \in Calls, SetTop(x), Shape(x), Current(x), x.phase # "resolve",
         \A i \in 1 .. Len(stack) - 1 : Below(stack[i], x),
         Len(stack) = 1 /\ Resolved(x) => x.seen = start.db
  PROVE  CallsInv'
<1> stack \in Seq(Calls) /\ Len(stack) \in Nat \ {0}
  BY DEF TypeOK, Idle
<1>1. /\ stack' \in Seq(Calls) /\ Len(stack') = Len(stack)
      /\ stack'[Len(stack)] = x /\ ~Idle'
      /\ \A i \in 1 .. Len(stack) - 1 : stack'[i] = stack[i]
  BY SetTopStack
<1>2. (\A i \in 1 .. Len(stack) : Shape(stack[i]) /\ Current(stack[i]))'
  BY <1>1 DEF CallsInv, StackInv, Current
<1>3. (\A i \in 1 .. Len(stack) - 1 : Waits(stack[i]))'
  BY <1>1 DEF CallsInv, StackInv
<1>4. (\A j \in 1 .. Len(stack) : \A i \in 1 .. j - 1 : Below(stack[i], stack[j]))'
  BY <1>1 DEF CallsInv, StackInv
<1>5. StartInv'
  BY <1>1 DEF CallsInv, StartInv, Idle
<1> QED
  BY <1>2, <1>3, <1>4, <1>5 DEF CallsInv, StackInv

(* In particular when it has neither read the database again nor become    *)
(* another call.                                                           *)
LEMMA TopGoesOn ==
  ASSUME TypeOK, CallsInv, ~Idle, UNCHANGED <<db, start, result>>,
         NEW x \in Calls, SetTop(x), Shape(x), Current(x), x.phase # "resolve",
         x.pkg = top.pkg, x.seen = top.seen, Resolved(x) => Resolved(top)
  PROVE  CallsInv'
<1> Len(stack) \in Nat \ {0}
  BY DEF TypeOK, Idle
<1>1. ASSUME NEW i \in 1 .. Len(stack) - 1
      PROVE  Below(stack[i], x)
  <2>1. Below(stack[i], top)
    BY <1>1 DEF CallsInv, StackInv, top
  <2> QED
    BY <2>1 DEF Below
<1>2. Len(stack) = 1 /\ Resolved(x) => x.seen = start.db
  BY DEF CallsInv, StartInv, top
<1> QED
  BY <1>1, <1>2, TopKeeps

(* A stack of more than one call has a caller below the innermost one. *)
LEMMA TwoOrMore ==
  ASSUME NEW n \in Nat \ {0}, n # 1
  PROVE  n > 1 /\ n - 1 \in 1 .. n /\ 1 \in 1 .. n - 1 /\ n - 2 \in Nat
  OBVIOUS

(* A call is made for a package nobody below relies on. *)
LEMMA PushKeeps ==
  ASSUME TypeOK, CallsInv, ~Idle, UNCHANGED <<db, start, result>>, Resolved(top),
         NEW x \in Calls, NEW y \in Calls, Push(x, y),
         Shape(x), Current(x), Waits(x), x.pkg = top.pkg, x.seen = top.seen,
         Resolved(x) => Resolved(top),
         Shape(y), Current(y), ~Resolved(y), y.pkg \notin Kept(x),
         \A i \in 1 .. Len(stack) - 1 : y.pkg \notin Kept(stack[i])
  PROVE  CallsInv'
<1> stack \in Seq(Calls) /\ Len(stack) \in Nat \ {0}
  BY DEF TypeOK, Idle
<1>1. /\ stack' \in Seq(Calls) /\ Len(stack') = Len(stack) + 1
      /\ stack'[Len(stack)] = x /\ stack'[Len(stack) + 1] = y /\ ~Idle'
      /\ \A i \in 1 .. Len(stack) - 1 : stack'[i] = stack[i]
  BY PushStack
<1>2. (\A i \in 1 .. Len(stack) : Shape(stack[i]) /\ Current(stack[i]))'
  BY <1>1 DEF CallsInv, StackInv, Current
<1>3. (\A i \in 1 .. Len(stack) - 1 : Waits(stack[i]))'
  BY <1>1 DEF CallsInv, StackInv
<1>4. (\A j \in 1 .. Len(stack) : \A i \in 1 .. j - 1 : Below(stack[i], stack[j]))'
  <2>1. \A i \in 1 .. Len(stack) - 1 : Below(stack[i], top)
    BY DEF CallsInv, StackInv, top
  <2>2. \A i \in 1 .. Len(stack) - 1 : Below(stack[i], x)
    BY <2>1 DEF Below
  <2>3. Below(x, y) /\ \A i \in 1 .. Len(stack) - 1 : Below(stack[i], y)
    BY DEF Below
  <2>4. \A j \in 1 .. Len(stack) - 1 : \A i \in 1 .. j - 1 : Below(stack[i], stack[j])
    BY DEF CallsInv, StackInv
  <2> SUFFICES ASSUME NEW j \in 1 .. Len(stack) + 1, NEW i \in 1 .. j - 1
               PROVE  Below(stack'[i], stack'[j])
    BY <1>1
  <2>5. CASE j = Len(stack) + 1
    BY <2>5, <1>1, <2>3
  <2>6. CASE j = Len(stack)
    BY <2>6, <1>1, <2>2
  <2>7. CASE j < Len(stack)
    BY <2>7, <1>1, <2>4
  <2> QED
    BY <2>5, <2>6, <2>7
<1>5. StartInv'
  <2>1. Len(stack) = 1 => x.seen = start.db
    BY DEF CallsInv, StartInv, top
  <2>2. ASSUME Len(stack) # 1
        PROVE  stack[1].seen = start.db /\ stack'[1] = stack[1]
    <3>1. Len(stack) > 1 /\ 1 \in 1 .. Len(stack) - 1
      BY <2>2, TwoOrMore
    <3> QED
      BY <1>1, <3>1 DEF CallsInv, StartInv
  <2>3. stack'[1].phase # "resolve"
    BY <1>1, <1>3 DEF Waits
  <2> QED
    BY <1>1, <2>1, <2>2, <2>3 DEF CallsInv, StartInv, Idle
<1> QED
  BY <1>2, <1>3, <1>4, <1>5 DEF CallsInv, StackInv

(* The innermost call returns.  It may have changed the record of its own  *)
(* package, which no call below relies on.                                 *)
LEMMA PopKeeps ==
  ASSUME TypeOK, CallsInv, ~Idle, UNCHANGED start, NEW o \in {"ok", "failed"}, Return(o),
         \A d \in Pkgs : d # top.pkg => db'[d] = db[d],
         o = "failed" => db' = db
  PROVE  CallsInv' /\ stack' \in Seq(Calls) /\ FilesInv'
<1> stack \in Seq(Calls) /\ Len(stack) \in Nat \ {0}
  BY DEF TypeOK, Idle
<1>1. CASE Len(stack) = 1
  <2>1. stack' = <<>> /\ result' = o
    BY <1>1 DEF Return
  <2>2. StackInv' /\ FilesInv'
    BY <2>1 DEF StackInv, FilesInv, Idle
  <2>3. StartInv'
    BY <2>1 DEF CallsInv, StartInv, Idle
  <2> QED
    BY <2>1, <2>2, <2>3 DEF CallsInv
<1>2. CASE Len(stack) # 1
  <2> Len(stack) > 1 /\ Len(stack) - 1 \in 1 .. Len(stack) /\ 1 \in 1 .. Len(stack) - 1
    BY <1>2, TwoOrMore
  <2> DEFINE c == stack[Len(stack) - 1]
  <2>1. c \in Calls /\ Waits(c) /\ Shape(c) /\ Current(c) /\ top \in Calls
    BY DEF CallsInv, StackInv, top
  <2>2. PICK x \in Calls :
          /\ x = Caller(o) /\ x.pkg = c.pkg /\ x.seen = c.seen /\ x.todo = c.todo
          /\ x.dep = c.dep /\ x.news = c.news /\ x.done = {} /\ x.ver = c.ver
          /\ x.phase \in {"check", "restore", "raise"}
          /\ x.phase = "check" => c.phase = "deps"
    <3>1. PICK ph \in {"check", "restore", "raise"} :
            Caller(o) = [c EXCEPT !.phase = ph] /\ (ph = "check" => c.phase = "deps")
      BY <2>1 DEF Caller, Waits
    <3>2. [c EXCEPT !.phase = ph] \in Calls
      BY <2>1 DEF Calls
    <3> QED
      BY <2>1, <3>1, <3>2 DEF Calls, Waits
  <2>3. stack' = Append(SubSeq(stack, 1, Len(stack) - 2), x) /\ UNCHANGED result
    BY <1>2, <2>2 DEF Return
  <2>4. /\ stack' \in Seq(Calls) /\ Len(stack') = Len(stack) - 1
        /\ stack'[Len(stack) - 1] = x /\ top' = x /\ ~Idle'
        /\ \A i \in 1 .. Len(stack) - 2 : stack'[i] = stack[i]
    BY <2>3, PopStack
  <2>5. \A i \in 1 .. Len(stack) - 1 : top.pkg \notin Kept(stack[i])
    BY DEF CallsInv, StackInv, Below, top
  <2>6. (\A i \in 1 .. Len(stack) : Shape(stack[i]) /\ Current(stack[i]))'
    <3>1. Shape(x)
      BY <2>1, <2>2 DEF Shape, AtHand, Waits, CommitOK, Met
    <3>2. Current(x)'
      <4>1. top.pkg \notin Kept(c)
        BY <2>5
      <4> QED
        BY <2>1, <2>2, <4>1 DEF Current, Kept, Settled, Met
    <3>3. ASSUME NEW i \in 1 .. Len(stack) - 2
          PROVE  Shape(stack[i]) /\ (\A a : a = stack[i] => Current(a)')
      <4>1. Shape(stack[i]) /\ Current(stack[i]) /\ top.pkg \notin Kept(stack[i]) /\ Waits(stack[i])
        BY <3>3, <2>5 DEF CallsInv, StackInv
      <4> QED
        BY <4>1 DEF Current, Kept, Settled, Met, Waits
    <3> SUFFICES ASSUME NEW i \in 1 .. Len(stack) - 1
                 PROVE  (Shape(stack[i]) /\ Current(stack[i]))'
      BY <2>4
    <3>4. CASE i = Len(stack) - 1
      BY <3>4, <2>4, <3>1, <3>2
    <3>5. CASE i # Len(stack) - 1
      BY <3>5, <2>4, <3>3
    <3> QED
      BY <3>4, <3>5
  <2>7. (\A i \in 1 .. Len(stack) - 1 : Waits(stack[i]))'
    BY <2>4 DEF CallsInv, StackInv
  <2>8. (\A j \in 1 .. Len(stack) : \A i \in 1 .. j - 1 : Below(stack[i], stack[j]))'
    <3>1. ASSUME NEW i \in 1 .. Len(stack) - 2
          PROVE  Below(stack[i], x)
      <4>1. Below(stack[i], c)
        BY <3>1 DEF CallsInv, StackInv
      <4> QED
        BY <4>1, <2>2 DEF Below, Resolved, Met
    <3>2. \A j \in 1 .. Len(stack) - 2 : \A i \in 1 .. j - 1 : Below(stack[i], stack[j])
      BY DEF CallsInv, StackInv
    <3> SUFFICES ASSUME NEW j \in 1 .. Len(stack) - 1, NEW i \in 1 .. j - 1
                 PROVE  Below(stack'[i], stack'[j])
      BY <2>4
    <3>3. CASE j = Len(stack) - 1
      BY <3>3, <2>4, <3>1
    <3>4. CASE j # Len(stack) - 1
      <4>1. j \in 1 .. Len(stack) - 2 /\ i \in 1 .. Len(stack) - 2
        BY <3>4
      <4> QED
        BY <4>1, <2>4, <3>2
    <3> QED
      BY <3>3, <3>4
  <2>9. StartInv'
    <3>1. stack[1].seen = start.db /\ stack'[1].seen = start.db /\ stack'[1].phase # "resolve"
      BY <1>2, <2>2, <2>4 DEF CallsInv, StartInv, StackInv, Waits
    <3>2. start.db[top.pkg] = None
      <4>1. top.pkg \notin Kept(stack[1])
        BY <2>5
      <4> QED
        BY <4>1, <3>1, <2>1 DEF Kept, Calls
    <3> QED
      BY <2>3, <2>4, <3>1, <3>2 DEF CallsInv, StartInv
  <2>10. FilesInv'
    BY <2>2, <2>4 DEF FilesInv, Owned
  <2> QED
    BY <2>4, <2>6, <2>7, <2>8, <2>9, <2>10 DEF CallsInv, StackInv
<1> QED
  BY <1>1, <1>2

-----------------------------------------------------------------------------
(* Steps of install() up to the commit                                     *)

(* What the invariant says of the innermost call. *)
LEMMA TopCall ==
  ASSUME Inv, ~Idle
  PROVE  top \in Calls /\ Shape(top) /\ Current(top) /\ stack \in Seq(Calls) /\ Len(stack) \in Nat \ {0}
<1>1. stack \in Seq(Calls) /\ Len(stack) \in Nat \ {0}
  BY DEF Inv, TypeOK, Idle
<1>2. Len(stack) \in 1 .. Len(stack)
  BY <1>1
<1> QED
  BY <1>1, <1>2 DEF Inv, CallsInv, StackInv, top

(* A step whose new calls are in shape keeps the types. *)
LEMMA TypeKept ==
  ASSUME Inv, stack' \in Seq(Calls), CallsInv',
         db' \in [Pkgs -> Versions \cup {None}], disk' \in [Files -> Releases \cup {Absent}],
         result' \in {"none", "ok", "failed", "cancelled"}, fails' \in 0 .. FailBound,
         start' \in [command : {"none", "install", "uninstall"}, db : [Pkgs -> Versions \cup {None}],
                    disk : [Files -> Releases \cup {Absent}]]
  PROVE  TypeOK'
<1>1. (\A i \in 1 .. Len(stack) : CommitOK(stack[i]))'
  BY DEF CallsInv, StackInv, Shape
<1>2. DOMAIN stack' = 1 .. Len(stack')
  OBVIOUS
<1> QED
  BY <1>1, <1>2 DEF TypeOK

(* A step that touches neither database nor files, and leaves the call     *)
(* with no more files to restore than it had, keeps the invariant.         *)
LEMMA Quiet ==
  ASSUME Inv, ~Idle, UNCHANGED <<db, disk, result, start>>, fails' \in 0 .. FailBound,
         NEW x \in Calls, SetTop(x), Shape(x), Current(x),
         x.pkg = top.pkg, x.seen = top.seen, Resolved(x) => Resolved(top),
         x.phase \notin {"resolve", "commit", "remove"},
         x.phase = "restore" => x.done = {} \/ (x.done = top.done /\ top.phase \in {"commit", "restore"})
  PROVE  Inv'
<1>0. top \in Calls /\ Shape(top) /\ stack \in Seq(Calls)
  BY TopCall
<1>1. CallsInv'
  BY TopGoesOn DEF Inv
<1>2. stack' \in Seq(Calls) /\ top' = x
  BY <1>0, SetTopStack
<1>3. TypeOK'
  BY <1>1, <1>2, TypeKept DEF Inv, TypeOK
<1>4. FilesInv'
  <2>1. ASSUME x.phase = "restore" PROVE Owned(x.done, x.pkg)
    <3>1. top.phase = "commit" => top.done \subseteq Wheel[top.pkg][top.ver]
      BY <1>0 DEF Shape, CommitOK
    <3> QED
      BY <2>1, <3>1 DEF Inv, FilesInv, Committing, Owned
  <2> QED
    BY <1>2, <2>1 DEF FilesInv, Owned, FilesOf, Recorded
<1>5. OneOwner'
  BY DEF Inv, OneOwner, FilesOf, Recorded
<1> QED
  BY <1>1, <1>3, <1>4, <1>5 DEF Inv

(* A call that gives up before its commit has nothing to restore. *)
LEMMA GivesUp ==
  ASSUME Inv, ~Idle, UNCHANGED <<db, disk, result, start>>, fails' \in 0 .. FailBound,
         GotoPhase("restore"), top.phase \in {"resolve", "deps", "check", "fetched", "commit", "restore"}
  PROVE  Inv'
<1>0. top \in Calls /\ Shape(top) /\ Current(top)
  BY TopCall
<1>1. PICK x \in Calls :
        /\ SetTop(x) /\ x.phase = "restore" /\ x.pkg = top.pkg /\ x.seen = top.seen
        /\ x.news = top.news /\ x.done = top.done /\ x.todo = top.todo
  BY <1>0 DEF GotoPhase, Calls
<1>2. Shape(x) /\ Current(x)
  BY <1>0, <1>1 DEF Shape, Current, CommitOK, Met
<1>3. Resolved(x) => Resolved(top)
  BY <1>1 DEF Resolved, Met
<1>4. x.done = {} \/ top.phase \in {"commit", "restore"}
  BY <1>0, <1>1 DEF Shape
<1> QED
  BY <1>1, <1>2, <1>3, <1>4, Quiet

(* A version some package needs is a version. *)
LEMMA NeedsVersions ==
  ASSUME NEW p \in Pkgs, NEW d \in Pkgs, NEW v \in Needs[p][d]
  PROVE  v \in Versions /\ v # None
  BY ZpipAssumption

(* The database is read: whatever a call below relies on is in it. *)
LEMMA ResolveInv ==
  ASSUME Inv, NEW v \in Versions, Resolve(v)
  PROVE  Inv'
<1>0. ~Idle /\ top.phase = "resolve" /\ top \in Calls /\ Shape(top) /\ Len(stack) \in Nat \ {0} /\ stack \in Seq(Calls)
  BY TopCall DEF Resolve, At
<1> UNCHANGED <<db, disk, result, start, fails>>
  BY DEF Resolve
<1> DEFINE needed == {d \in Pkgs : Needs[top.pkg][d] # {}}
<1>1. PICK x \in Calls :
        /\ SetTop(x) /\ x.phase = "deps" /\ x.pkg = top.pkg /\ x.ver = v /\ x.seen = db
        /\ x.todo = needed /\ x.news = top.news /\ x.done = {}
  <2>1. [top EXCEPT !.phase = "deps", !.ver = v, !.seen = db, !.todo = needed] \in Calls
    BY <1>0 DEF Calls, Inv, TypeOK
  <2> QED
    BY <1>0, <2>1 DEF Resolve, Calls, Shape
<1>2. Current(x)
  BY <1>1 DEF Current, Settled
<1>3. Shape(x)
  BY <1>0, <1>1 DEF Shape, CommitOK
<1>4. ASSUME NEW i \in 1 .. Len(stack) - 1
      PROVE  Below(stack[i], x)
  <2>1. i \in 1 .. Len(stack) /\ Current(stack[i]) /\ Below(stack[i], top) /\ stack[i] \in Calls
    BY <1>0, <1>4 DEF Inv, CallsInv, StackInv, top
  <2>2. ASSUME NEW d \in Kept(stack[i])
        PROVE  d \in Pkgs /\ db[d] # None
    <3>1. CASE stack[i].seen[d] # None
      BY <2>1, <2>2, <3>1 DEF Kept, Settled, Current
    <3>2. CASE stack[i].seen[d] = None
      <4>1. d \in Pkgs /\ stack[i].pkg \in Pkgs /\ db[d] \in Needs[stack[i].pkg][d]
        BY <2>1, <2>2, <3>2 DEF Kept, Settled, Current, Met, Calls
      <4> QED
        BY <4>1, NeedsVersions
    <3> QED
      BY <3>1, <3>2
  <2> QED
    BY <2>1, <2>2, <1>1 DEF Below
<1>5. Len(stack) = 1 => x.seen = start.db
  BY <1>0, <1>1 DEF Inv, CallsInv, StartInv, top
<1>6. CallsInv'
  BY <1>0, <1>1, <1>2, <1>3, <1>4, <1>5, TopKeeps DEF Inv
<1>7. stack' \in Seq(Calls) /\ top' = x
  BY <1>0, <1>1, SetTopStack
<1>8. TypeOK'
  BY <1>6, <1>7, TypeKept DEF Inv, TypeOK
<1>9. FilesInv' /\ OneOwner'
  BY <1>1, <1>7 DEF Inv, FilesInv, OneOwner, FilesOf, Recorded
<1> QED
  BY <1>6, <1>8, <1>9 DEF Inv

(* A requirement is met by what the call saw, which is still there. *)
LEMMA DepSatisfiedInv ==
  ASSUME Inv, NEW d \in Pkgs, DepSatisfied(d)
  PROVE  Inv'
<1>0. /\ ~Idle /\ top.phase = "deps" /\ top \in Calls /\ Shape(top) /\ Current(top)
      /\ top.seen[d] \in Needs[top.pkg][d]
      /\ UNCHANGED <<db, disk, result, start, fails>>
  BY TopCall DEF DepSatisfied, At, Accepts
<1>1. PICK x \in Calls :
        /\ SetTop(x) /\ x.phase = "deps" /\ x.pkg = top.pkg /\ x.ver = top.ver /\ x.seen = top.seen
        /\ x.todo = top.todo \ {d} /\ x.news = top.news /\ x.done = top.done
  BY <1>0 DEF DepSatisfied, Calls
<1>2. db[d] \in Needs[top.pkg][d]
  <2>1. top.seen[d] # None
    BY <1>0, NeedsVersions DEF Calls
  <2> QED
    BY <1>0, <2>1 DEF Current
<1>3. Shape(x) /\ Current(x)
  BY <1>0, <1>1, <1>2 DEF Shape, Current, Settled, CommitOK, Met
<1> QED
  BY <1>0, <1>1, <1>3, Quiet DEF Resolved, Met, Inv, TypeOK

(* A conflict or a cycle ends the call. *)
LEMMA DepRefusedInv ==
  ASSUME Inv, NEW d \in Pkgs, DepConflict(d) \/ DepCycle(d)
  PROVE  Inv'
  BY GivesUp DEF DepConflict, DepCycle, At, Inv, TypeOK

(* The dependency just installed is accepted as the database has it now. *)
LEMMA DepInstalledInv ==
  ASSUME Inv, DepInstalled
  PROVE  Inv'
<1>0. /\ ~Idle /\ top.phase = "check" /\ top \in Calls /\ Shape(top) /\ Current(top)
      /\ UNCHANGED <<db, disk, result, start, fails>>
  BY TopCall DEF DepInstalled, At
<1>1. PICK x \in Calls :
        /\ SetTop(x) /\ x.pkg = top.pkg /\ x.ver = top.ver /\ x.seen = top.seen
        /\ x.todo = top.todo \ {top.dep} /\ x.news = top.news \cup {top.dep} /\ x.done = top.done
        /\ x.phase \in {"deps", "restore"}
        /\ x.phase = "deps" => db[top.dep] \in Needs[top.pkg][top.dep]
  <2>1. PICK ph \in {"deps", "restore"} :
          /\ SetTop([top EXCEPT !.todo = @ \ {top.dep}, !.news = @ \cup {top.dep}, !.phase = ph])
          /\ ph = "deps" => db[top.dep] \in Needs[top.pkg][top.dep]
    BY <1>0 DEF DepInstalled, Accepts
  <2>2. [top EXCEPT !.todo = @ \ {top.dep}, !.news = @ \cup {top.dep}, !.phase = ph] \in Calls
    BY <1>0 DEF Calls
  <2> QED
    BY <1>0, <2>1, <2>2 DEF Calls
<1>2. Shape(x) /\ Current(x)
  BY <1>0, <1>1 DEF Shape, Current, Settled, CommitOK, AtHand, Met
<1>3. x.done = {}
  BY <1>0, <1>1 DEF Shape
<1> QED
  BY <1>0, <1>1, <1>2, <1>3, Quiet DEF Resolved, Met, Inv, TypeOK

(* With every requirement met the wheel is fetched. *)
LEMMA FetchInv ==
  ASSUME Inv, Fetch
  PROVE  Inv'
<1>0. /\ ~Idle /\ top.phase = "deps" /\ top \in Calls /\ Shape(top) /\ Current(top) /\ top.todo = {}
      /\ UNCHANGED <<db, disk, result, start, fails>>
  BY TopCall DEF Fetch, At
<1>1. PICK x \in Calls :
        /\ SetTop(x) /\ x.phase = "fetched" /\ x.pkg = top.pkg /\ x.ver = top.ver /\ x.seen = top.seen
        /\ x.todo = top.todo /\ x.news = top.news /\ x.done = top.done
  BY <1>0 DEF Fetch, GotoPhase, Calls
<1>2. Shape(x) /\ Current(x)
  BY <1>0, <1>1 DEF Shape, Current, Settled, CommitOK, Met
<1> QED
  BY <1>0, <1>1, <1>2, Quiet DEF Resolved, Met, Inv, TypeOK

(* A dependency that was not there is installed: no call below has it. *)
LEMMA DepInstallInv ==
  ASSUME Inv, NEW d \in Pkgs, DepInstall(d)
  PROVE  Inv'
<1>0. /\ ~Idle /\ top.phase = "deps" /\ top \in Calls /\ Shape(top) /\ Current(top)
      /\ d \in top.todo /\ top.seen[d] = None /\ stack \in Seq(Calls) /\ Len(stack) \in Nat \ {0}
      /\ UNCHANGED <<db, disk, result, start, fails>>
  BY TopCall DEF DepInstall, At
<1>1. PICK x \in Calls, y \in Calls :
        /\ Push(x, y)
        /\ x.phase = "deps" /\ x.pkg = top.pkg /\ x.ver = top.ver /\ x.seen = top.seen
        /\ x.todo = top.todo /\ x.news = top.news /\ x.done = top.done /\ x.dep = d
        /\ y = Call(d, "resolve", {})
  <2>1. [top EXCEPT !.dep = d] \in Calls
    BY <1>0 DEF Calls
  <2>2. Call(d, "resolve", {}) \in Calls
    BY ZpipAssumption DEF Calls, Call, NoFile
  <2> QED
    BY <1>0, <2>1, <2>2 DEF DepInstall, Calls
<1>2. Shape(x) /\ Current(x) /\ Waits(x)
  BY <1>0, <1>1 DEF Shape, Current, Settled, Waits, AtHand, CommitOK, Met
<1>3. Shape(y) /\ Current(y) /\ ~Resolved(y) /\ y.pkg = d /\ y.phase = "resolve"
  BY <1>1 DEF Call, Shape, Current, CommitOK, Resolved, Met
<1>4. d \notin Kept(x)
  BY <1>0, <1>1 DEF Kept, Settled
<1>5. ASSUME NEW i \in 1 .. Len(stack) - 1
      PROVE  d \notin Kept(stack[i])
  <2>1. Below(stack[i], top)
    BY <1>0, <1>5 DEF Inv, CallsInv, StackInv, top
  <2> QED
    BY <2>1, <1>0 DEF Below, Resolved, Met
<1>6. Resolved(top)
  BY <1>0 DEF Resolved, Met
<1>7. CallsInv'
  BY <1>0, <1>1, <1>2, <1>3, <1>4, <1>5, <1>6, PushKeeps DEF Inv
<1>8. stack' \in Seq(Calls) /\ top' = y
  BY <1>0, <1>1, PushStack
<1>9. TypeOK'
  BY <1>0, <1>7, <1>8, TypeKept DEF Inv, TypeOK
<1>10. FilesInv' /\ OneOwner'
  BY <1>0, <1>3, <1>8 DEF Inv, FilesInv, OneOwner, FilesOf, Recorded
<1> QED
  BY <1>7, <1>9, <1>10 DEF Inv

-----------------------------------------------------------------------------
(* Steps that commit, restore and remove files                             *)

(* A step of the innermost call that changes only that call and the disk.  *)
LEMMA FileStepKeeps ==
  ASSUME Inv, ~Idle, UNCHANGED <<db, result, start, fails>>, disk' \in [Files -> Releases \cup {Absent}],
         NEW x \in Calls, SetTop(x), Shape(x), Current(x), x.phase # "resolve",
         x.pkg = top.pkg, x.seen = top.seen, Resolved(x) => Resolved(top)
  PROVE  CallsInv' /\ TypeOK' /\ OneOwner' /\ top' = x /\ ~Idle'
<1>1. CallsInv'
  BY TopGoesOn DEF Inv
<1>2. stack' \in Seq(Calls) /\ top' = x /\ ~Idle'
  BY TopCall, SetTopStack
<1>3. TypeOK'
  BY <1>1, <1>2, TypeKept DEF Inv, TypeOK
<1>4. OneOwner'
  BY DEF Inv, OneOwner, FilesOf, Recorded
<1> QED
  BY <1>1, <1>2, <1>3, <1>4

(* The files of a release are files. *)
LEMMA WheelFiles ==
  ASSUME NEW p \in Pkgs, NEW v \in Versions
  PROVE  Wheel[p][v] \subseteq Files
  BY ZpipAssumption

(* The commit begins when no other package owns a file of the release. *)
LEMMA BeginCommitInv ==
  ASSUME Inv, BeginCommit
  PROVE  Inv'
<1>0. /\ ~Idle /\ top.phase = "fetched" /\ top \in Calls /\ Shape(top) /\ Current(top)
      /\ UNCHANGED <<db, disk, result, start, fails>>
  BY TopCall DEF BeginCommit, At
<1> DEFINE files == Wheel[top.pkg][top.ver]
<1>1. CASE \E q \in Pkgs \ {top.pkg} : FilesOf(q) \cap files # {}
  BY <1>0, <1>1, GivesUp DEF BeginCommit, Inv, TypeOK
<1>2. CASE ~ \E q \in Pkgs \ {top.pkg} : FilesOf(q) \cap files # {}
  <2>1. top.pkg \in Pkgs /\ top.ver \in Versions
    BY <1>0 DEF Shape, Calls, Met
  <2>2. files \subseteq Files /\ FilesOf(top.pkg) \subseteq Files
    BY <2>1, WheelFiles DEF FilesOf, Recorded, Inv, TypeOK
  <2>3. PICK x \in Calls :
          /\ SetTop(x) /\ x.phase = "commit" /\ x.pkg = top.pkg /\ x.ver = top.ver /\ x.seen = top.seen
          /\ x.todo = top.todo /\ x.news = top.news /\ x.done = top.done
          /\ x.left = files /\ x.old = FilesOf(top.pkg) \ files
    <3>1. [top EXCEPT !.phase = "commit", !.left = files, !.old = FilesOf(top.pkg) \ files] \in Calls
      BY <1>0, <2>2 DEF Calls
    <3> QED
      BY <1>0, <1>2, <3>1 DEF BeginCommit, Calls
  <2>4. x.done = {} /\ Shape(x) /\ Current(x)
    BY <1>0, <2>3 DEF Shape, Current, Settled, CommitOK, Met
  <2>5. Resolved(x) => Resolved(top)
    BY <1>0, <2>3 DEF Resolved, Met
  <2>6. CallsInv' /\ TypeOK' /\ OneOwner' /\ top' = x
    BY <1>0, <2>3, <2>4, <2>5, FileStepKeeps DEF Inv, TypeOK
  <2>7. Committing(x)
    BY <1>2, <2>3, <2>4 DEF Committing, Owned
  <2>8. FilesInv'
    BY <1>0, <2>3, <2>6, <2>7 DEF FilesInv, Committing, Owned, FilesOf, Recorded
  <2> QED
    BY <2>6, <2>8 DEF Inv
<1> QED
  BY <1>1, <1>2

(* A file is moved into place, *)
LEMMA CommitFileInv ==
  ASSUME Inv, NEW f \in Files, CommitFile(f)
  PROVE  Inv'
<1>0. /\ ~Idle /\ top.phase = "commit" /\ top \in Calls /\ Shape(top) /\ Current(top)
      /\ f \in top.left /\ disk' = [disk EXCEPT ![f] = <<top.pkg, top.ver>>]
      /\ UNCHANGED <<db, result, start, fails>>
  BY TopCall DEF CommitFile, At
<1>1. disk \in [Files -> Releases \cup {Absent}] /\ disk' \in [Files -> Releases \cup {Absent}]
  BY <1>0 DEF Inv, TypeOK, Releases, Shape, Calls, Met
<1>2. PICK x \in Calls :
        /\ SetTop(x) /\ x.phase = "commit" /\ x.pkg = top.pkg /\ x.ver = top.ver /\ x.seen = top.seen
        /\ x.todo = top.todo /\ x.news = top.news /\ x.done = top.done \cup {f}
        /\ x.left = top.left \ {f} /\ x.old = top.old
  <2> DEFINE y == [top EXCEPT !.left = @ \ {f}, !.done = @ \cup {f}, !.saved[f] = disk[f]]
  <2>1. y \in Calls
    BY <1>0, <1>1 DEF Calls
  <2>2. SetTop(y)
    BY DEF CommitFile
  <2> QED
    BY <1>0, <2>1, <2>2 DEF Calls
<1>3. Shape(x) /\ Current(x) /\ (Resolved(x) => Resolved(top))
  BY <1>0, <1>2 DEF Shape, Current, Settled, CommitOK, Met, Resolved
<1>4. CallsInv' /\ TypeOK' /\ OneOwner' /\ top' = x
  BY <1>0, <1>1, <1>2, <1>3, FileStepKeeps
<1>5. Committing(x)'
  <2>1. Committing(top) /\ f \in Wheel[top.pkg][top.ver]
    BY <1>0 DEF Inv, FilesInv, Shape, CommitOK
  <2>2. \A g \in x.done : g \in Files /\ disk'[g] = <<x.pkg, x.ver>>
    BY <1>0, <1>1, <1>2, <2>1 DEF Committing, Calls
  <2>3. FilesOf(x.pkg)' = FilesOf(top.pkg)
    BY <1>0, <1>2 DEF FilesOf, Recorded
  <2>4. Owned(Wheel[x.pkg][x.ver], x.pkg)'
    BY <1>0, <1>2, <2>1 DEF Committing, Owned, FilesOf, Recorded
  <2>5. \A g \in FilesOf(top.pkg) \ Wheel[x.pkg][x.ver] : g \in x.old \/ disk'[g] = Absent
    <3> SUFFICES ASSUME NEW g \in FilesOf(top.pkg) \ Wheel[x.pkg][x.ver], g \notin x.old
                 PROVE  disk'[g] = Absent
      OBVIOUS
    <3>1. g # f /\ disk[g] = Absent
      BY <1>2, <2>1 DEF Committing
    <3> QED
      BY <3>1, <1>0, <1>1
  <2> QED
    BY <1>2, <2>1, <2>2, <2>3, <2>4, <2>5 DEF Committing
<1>6. FilesInv'
  BY <1>2, <1>4, <1>5 DEF FilesInv
<1> QED
  BY <1>4, <1>6 DEF Inv

(* an obsolete one is removed, *)
LEMMA RemoveObsoleteInv ==
  ASSUME Inv, NEW f \in Files, RemoveObsolete(f)
  PROVE  Inv'
<1>0. /\ ~Idle /\ top.phase = "commit" /\ top \in Calls /\ Shape(top) /\ Current(top)
      /\ f \in top.old /\ disk' = [disk EXCEPT ![f] = Absent]
      /\ UNCHANGED <<db, result, start, fails>>
  BY TopCall DEF RemoveObsolete, At
<1>1. disk \in [Files -> Releases \cup {Absent}] /\ disk' \in [Files -> Releases \cup {Absent}]
  BY <1>0 DEF Inv, TypeOK
<1>2. PICK x \in Calls :
        /\ SetTop(x) /\ x.phase = "commit" /\ x.pkg = top.pkg /\ x.ver = top.ver /\ x.seen = top.seen
        /\ x.todo = top.todo /\ x.news = top.news /\ x.done = top.done
        /\ x.left = top.left /\ x.old = top.old \ {f}
  BY <1>0 DEF RemoveObsolete, Calls
<1>3. Shape(x) /\ Current(x) /\ (Resolved(x) => Resolved(top))
  BY <1>0, <1>2 DEF Shape, Current, Settled, CommitOK, Met, Resolved
<1>4. CallsInv' /\ TypeOK' /\ OneOwner' /\ top' = x
  BY <1>0, <1>1, <1>2, <1>3, FileStepKeeps
<1>5. Committing(x)'
  <2>1. Committing(top) /\ f \notin top.done
    BY <1>0 DEF Inv, FilesInv, Shape, CommitOK
  <2>2. FilesOf(x.pkg)' = FilesOf(top.pkg) /\ Owned(Wheel[x.pkg][x.ver], x.pkg)'
    BY <1>0, <1>2, <2>1 DEF Committing, Owned, FilesOf, Recorded
  <2>3. \A g \in x.done : disk'[g] = <<x.pkg, x.ver>>
    BY <1>0, <1>1, <1>2, <2>1 DEF Committing, Calls
  <2>4. \A g \in FilesOf(top.pkg) \ Wheel[x.pkg][x.ver] : g \in x.old \/ disk'[g] = Absent
    BY <1>0, <1>1, <1>2, <2>1 DEF Committing
  <2> QED
    BY <1>2, <2>1, <2>2, <2>3, <2>4 DEF Committing
<1>6. FilesInv'
  BY <1>2, <1>4, <1>5 DEF FilesInv
<1> QED
  BY <1>4, <1>6 DEF Inv

(* a rollback puts one back, *)
LEMMA RestoreFileInv ==
  ASSUME Inv, NEW f \in Files, RestoreFile(f)
  PROVE  Inv'
<1>0. /\ ~Idle /\ top.phase = "restore" /\ top \in Calls /\ Shape(top) /\ Current(top)
      /\ f \in top.done /\ disk' = [disk EXCEPT ![f] = top.saved[f]]
      /\ UNCHANGED <<db, result, start, fails>>
  BY TopCall DEF RestoreFile, At
<1>1. disk' \in [Files -> Releases \cup {Absent}]
  BY <1>0 DEF Inv, TypeOK, Calls
<1>2. PICK x \in Calls :
        /\ SetTop(x) /\ x.phase = "restore" /\ x.pkg = top.pkg /\ x.ver = top.ver /\ x.seen = top.seen
        /\ x.todo = top.todo /\ x.news = top.news /\ x.done = top.done \ {f}
  BY <1>0 DEF RestoreFile, Calls
<1>3. Shape(x) /\ Current(x) /\ (Resolved(x) => Resolved(top))
  BY <1>0, <1>2 DEF Shape, Current, Settled, CommitOK, Met, Resolved
<1>4. CallsInv' /\ TypeOK' /\ OneOwner' /\ top' = x
  BY <1>0, <1>1, <1>2, <1>3, FileStepKeeps
<1>5. FilesInv'
  BY <1>0, <1>2, <1>4 DEF Inv, FilesInv, Owned, FilesOf, Recorded
<1> QED
  BY <1>4, <1>5 DEF Inv

(* and uninstall() removes one. *)
LEMMA RemoveFileInv ==
  ASSUME Inv, NEW f \in Files, RemoveFile(f)
  PROVE  Inv'
<1>0. /\ ~Idle /\ top.phase = "remove" /\ top \in Calls /\ Shape(top) /\ Current(top)
      /\ f \in top.left /\ disk' = [disk EXCEPT ![f] = Absent]
      /\ UNCHANGED <<db, result, start, fails>>
  BY TopCall DEF RemoveFile, At
<1>1. disk \in [Files -> Releases \cup {Absent}] /\ disk' \in [Files -> Releases \cup {Absent}]
  BY <1>0 DEF Inv, TypeOK
<1>2. PICK x \in Calls :
        /\ SetTop(x) /\ x.phase = "remove" /\ x.pkg = top.pkg /\ x.seen = top.seen
        /\ x.todo = top.todo /\ x.news = top.news /\ x.left = top.left \ {f}
  BY <1>0 DEF RemoveFile, Calls
<1>3. Shape(x) /\ Current(x) /\ (Resolved(x) => Resolved(top))
  BY <1>0, <1>2 DEF Shape, Current, Settled, CommitOK, Met, Resolved
<1>4. CallsInv' /\ TypeOK' /\ OneOwner' /\ top' = x
  BY <1>0, <1>1, <1>2, <1>3, FileStepKeeps
<1>5. Removing(x)'
  <2>1. Removing(top) /\ FilesOf(x.pkg)' = FilesOf(top.pkg)
    BY <1>0, <1>2 DEF Inv, FilesInv, FilesOf, Recorded
  <2>2. FilesOf(top.pkg) \subseteq Files
    BY <1>0, WheelFiles DEF FilesOf, Recorded, Calls, Inv, TypeOK
  <2>3. \A g \in FilesOf(top.pkg) \ x.left : disk'[g] = Absent
    BY <1>0, <1>1, <1>2, <2>1, <2>2 DEF Removing
  <2> QED
    BY <1>2, <2>1, <2>3 DEF Removing
<1>6. FilesInv'
  BY <1>2, <1>4, <1>5 DEF FilesInv
<1> QED
  BY <1>4, <1>6 DEF Inv

-----------------------------------------------------------------------------
(* Commands, returns and failures                                          *)

(* What the database records of a package are files. *)
LEMMA OwnFiles ==
  ASSUME TypeOK, NEW p \in Pkgs
  PROVE  FilesOf(p) \subseteq Files
  BY WheelFiles DEF FilesOf, Recorded, TypeOK

(* A call that removes a package starts with all of its files. *)
LEMMA RemoveCall ==
  ASSUME Inv, NEW p \in Pkgs
  PROVE  /\ Call(p, "remove", FilesOf(p)) \in Calls
         /\ \A y : y = Call(p, "remove", FilesOf(p)) =>
              /\ Shape(y) /\ Current(y) /\ ~Resolved(y) /\ Removing(y)
              /\ y.phase = "remove" /\ y.pkg = p
<1>1. FilesOf(p) \subseteq Files
  BY OwnFiles DEF Inv
<1>2. Call(p, "remove", FilesOf(p)) \in Calls
  BY <1>1, ZpipAssumption DEF Calls, Call, NoFile
<1>3. ASSUME NEW y, y = Call(p, "remove", FilesOf(p))
      PROVE  /\ Shape(y) /\ Current(y) /\ ~Resolved(y) /\ Removing(y)
             /\ y.phase = "remove" /\ y.pkg = p
  BY <1>3 DEF Call, Shape, Current, CommitOK, Resolved, Met, Removing
<1> QED
  BY <1>2, <1>3

(* A command of the user starts with one call. *)
LEMMA BeginInv ==
  ASSUME Inv, NEW y \in Calls, NEW c \in {"install", "uninstall"}, Begin(c, y),
         Shape(y), Current(y), ~Resolved(y), y.phase \in {"resolve", "remove"},
         y.phase = "remove" => Removing(y)
  PROVE  Inv'
<1>0. /\ stack' = <<y>> /\ result' = "none" /\ fails' = 0 /\ UNCHANGED <<db, disk>>
      /\ start' = [command |-> c, db |-> db, disk |-> disk]
  BY DEF Begin
<1>1. stack' \in Seq(Calls) /\ Len(stack') = 1 /\ stack'[1] = y /\ top' = y /\ ~Idle'
  BY <1>0 DEF top, Idle
<1>2. StackInv'
  <2>1. (\A i \in 1 .. Len(stack) : Shape(stack[i]) /\ Current(stack[i]))'
    BY <1>0, <1>1 DEF Current
  <2>2. (\A i \in 1 .. Len(stack) - 1 : Waits(stack[i]))'
    BY <1>1
  <2>3. (\A j \in 1 .. Len(stack) : \A i \in 1 .. j - 1 : Below(stack[i], stack[j]))'
    BY <1>1
  <2> QED
    BY <2>1, <2>2, <2>3 DEF StackInv
<1>3. StartInv'
  BY <1>0, <1>1 DEF StartInv
<1>4. TypeOK'
  <2>1. /\ start' \in [command : {"none", "install", "uninstall"}, db : [Pkgs -> Versions \cup {None}],
                     disk : [Files -> Releases \cup {Absent}]]
        /\ fails' \in 0 .. FailBound
    BY <1>0, ZpipAssumption DEF Inv, TypeOK
  <2> QED
    BY <1>0, <1>1, <1>2, <1>3, <2>1, TypeKept DEF Inv, TypeOK, CallsInv
<1>5. FilesInv' /\ OneOwner'
  BY <1>0, <1>1 DEF Inv, FilesInv, OneOwner, FilesOf, Recorded, Removing
<1> QED
  BY <1>2, <1>3, <1>4, <1>5 DEF Inv, CallsInv

(* So do both commands. *)
LEMMA CommandInv ==
  ASSUME Inv, NEW p \in Pkgs, Install(p) \/ Uninstall(p)
  PROVE  Inv'
<1>1. CASE Install(p)
  <2>1. PICK y \in Calls : y = Call(p, "resolve", {})
    BY ZpipAssumption DEF Calls, Call, NoFile
  <2>2. Shape(y) /\ Current(y) /\ ~Resolved(y) /\ y.phase = "resolve"
    BY <2>1 DEF Call, Shape, Current, CommitOK, Resolved, Met
  <2>3. Begin("install", y)
    BY <1>1, <2>1 DEF Install
  <2> QED
    BY <2>2, <2>3, BeginInv
<1>2. CASE Uninstall(p)
  <2>1. PICK y \in Calls : y = Call(p, "remove", FilesOf(p))
    BY RemoveCall
  <2>2. Shape(y) /\ Current(y) /\ ~Resolved(y) /\ y.phase = "remove" /\ Removing(y)
    BY <2>1, RemoveCall
  <2>3. Begin("uninstall", y)
    BY <1>2, <2>1 DEF Uninstall
  <2> QED
    BY <2>2, <2>3, BeginInv
<1> QED
  BY <1>1, <1>2

(* A rollback uninstalls a dependency the call has installed: no call      *)
(* below relies on it.                                                     *)
LEMMA UnwindDepInv ==
  ASSUME Inv, NEW d \in Pkgs, UnwindDep(d)
  PROVE  Inv'
<1>0. /\ ~Idle /\ top.phase = "restore" /\ top \in Calls /\ Shape(top) /\ Current(top)
      /\ d \in top.news /\ top.done = {} /\ stack \in Seq(Calls) /\ Len(stack) \in Nat \ {0}
      /\ UNCHANGED <<db, disk, result, start, fails>>
  BY TopCall DEF UnwindDep, At
<1>1. PICK x \in Calls :
        /\ x = [top EXCEPT !.news = @ \ {d}]
        /\ x.phase = "restore" /\ x.pkg = top.pkg /\ x.seen = top.seen
        /\ x.todo = top.todo /\ x.news = top.news \ {d} /\ x.done = {}
  <2>1. [top EXCEPT !.news = @ \ {d}] \in Calls
    BY <1>0 DEF Calls
  <2> QED
    BY <1>0, <2>1 DEF Calls
<1>2. Shape(x) /\ Current(x) /\ Waits(x)
  BY <1>0, <1>1 DEF Shape, Current, Settled, Waits, CommitOK, Met
<1>3. Resolved(top)
  BY <1>0 DEF Resolved
<1>4. CASE Recorded(d)
  <2>1. PICK y \in Calls : y = Call(d, "remove", FilesOf(d))
    BY RemoveCall
  <2>2. Shape(y) /\ Current(y) /\ ~Resolved(y) /\ Removing(y) /\ y.phase = "remove" /\ y.pkg = d
    BY <2>1, RemoveCall
  <2>3. Push(x, y)
    BY <1>1, <1>4, <2>1 DEF UnwindDep
  <2>4. d \notin Kept(x)
    BY <1>0, <1>1 DEF Kept, Shape
  <2>5. ASSUME NEW i \in 1 .. Len(stack) - 1
        PROVE  d \notin Kept(stack[i])
    <3>1. Below(stack[i], top)
      BY <1>0, <2>5 DEF Inv, CallsInv, StackInv, top
    <3> QED
      BY <3>1, <1>0, <1>3 DEF Below, Shape
  <2>6. CallsInv'
    BY <1>0, <1>1, <1>2, <1>3, <2>2, <2>3, <2>4, <2>5, PushKeeps DEF Inv
  <2>7. stack' \in Seq(Calls) /\ top' = y
    BY <1>0, <2>3, PushStack
  <2>8. TypeOK'
    BY <1>0, <2>6, <2>7, TypeKept DEF Inv, TypeOK
  <2>9. FilesInv' /\ OneOwner'
    BY <1>0, <2>2, <2>7 DEF Inv, FilesInv, OneOwner, FilesOf, Recorded, Removing
  <2> QED
    BY <2>6, <2>8, <2>9 DEF Inv
<1>5. CASE ~Recorded(d)
  <2>1. SetTop(x)
    BY <1>1, <1>5 DEF UnwindDep
  <2> QED
    BY <1>0, <1>1, <1>2, <1>3, <2>1, Quiet DEF Inv, TypeOK
<1> QED
  BY <1>4, <1>5

(* The innermost call returns and its package's record is as db' says. *)
LEMMA ReturnInv ==
  ASSUME Inv, ~Idle, UNCHANGED <<disk, start>>, fails' \in 0 .. FailBound,
         NEW o \in {"ok", "failed"}, Return(o),
         db' \in [Pkgs -> Versions \cup {None}],
         \A d \in Pkgs : d # top.pkg => db'[d] = db[d],
         o = "failed" => db' = db, OneOwner'
  PROVE  Inv'
<1>1. CallsInv' /\ stack' \in Seq(Calls) /\ FilesInv'
  BY PopKeeps DEF Inv
<1>2. result' \in {"none", "ok", "failed", "cancelled"}
  BY DEF Return, Inv, TypeOK
<1>3. TypeOK'
  BY <1>1, <1>2, TypeKept DEF Inv, TypeOK
<1> QED
  BY <1>1, <1>3 DEF Inv

(* The database may change by the record of one package: the others keep   *)
(* their files.                                                            *)
LEMMA SaveInv ==
  ASSUME Inv, Save
  PROVE  Inv'
<1>0. /\ ~Idle /\ top.phase = "commit" /\ top \in Calls /\ Shape(top)
      /\ db' = [db EXCEPT ![top.pkg] = top.ver] /\ Return("ok") /\ UNCHANGED <<disk, start, fails>>
  BY TopCall DEF Save, At
<1>1. PICK p \in Pkgs, v \in Versions : p = top.pkg /\ v = top.ver /\ v # None
  BY <1>0, ZpipAssumption DEF Shape, Met, Calls
<1>2. /\ db \in [Pkgs -> Versions \cup {None}] /\ db' \in [Pkgs -> Versions \cup {None}]
      /\ db'[p] = v /\ \A d \in Pkgs : d # p => db'[d] = db[d]
  BY <1>0, <1>1 DEF Inv, TypeOK
<1>3. Owned(Wheel[p][v], p)
  BY <1>0, <1>1 DEF Inv, FilesInv, Committing
<1>4. FilesOf(p)' = Wheel[p][v] /\ \A d \in Pkgs : d # p => FilesOf(d)' = FilesOf(d)
  BY <1>1, <1>2 DEF FilesOf, Recorded
<1>5. OneOwner'
  BY <1>3, <1>4 DEF Inv, OneOwner, Owned
<1> QED
  BY <1>0, <1>1, <1>2, <1>5, ReturnInv DEF Inv, TypeOK

(* An erased record owns nothing. *)
LEMMA EraseRecordInv ==
  ASSUME Inv, EraseRecord
  PROVE  Inv'
<1>0. /\ ~Idle /\ top \in Calls
      /\ db' = [db EXCEPT ![top.pkg] = None] /\ Return("ok") /\ UNCHANGED <<disk, start, fails>>
  BY TopCall DEF EraseRecord, At
<1>1. PICK p \in Pkgs :
        /\ p = top.pkg /\ db' \in [Pkgs -> Versions \cup {None}]
        /\ db'[p] = None /\ \A d \in Pkgs : d # p => db'[d] = db[d]
  BY <1>0 DEF Inv, TypeOK, Calls
<1>2. FilesOf(p)' = {} /\ \A d \in Pkgs : d # p => FilesOf(d)' = FilesOf(d)
  BY <1>1 DEF FilesOf, Recorded
<1>3. OneOwner'
  BY <1>2 DEF Inv, OneOwner
<1> QED
  BY <1>0, <1>1, <1>3, ReturnInv DEF Inv, TypeOK

(* A call that fails returns without a change. *)
LEMMA FailedInv ==
  ASSUME Inv, ~Idle, Return("failed"), UNCHANGED <<db, disk, start>>, fails' \in 0 .. FailBound
  PROVE  Inv'
<1>1. OneOwner'
  BY DEF Inv, OneOwner, FilesOf, Recorded
<1> QED
  BY <1>1, ReturnInv DEF Inv, TypeOK

(* Any exception, *)
LEMMA FailInv ==
  ASSUME Inv, Fail
  PROVE  Inv'
<1>0. /\ ~Idle /\ top \in Calls /\ Shape(top) /\ Current(top) /\ UNCHANGED <<db, disk, start>>
      /\ fails' \in 0 .. FailBound
  BY TopCall, ZpipAssumption DEF Fail, Inv, TypeOK
<1>1. CASE top.phase \in {"resolve", "deps", "fetched", "commit"}
  BY <1>0, <1>1, GivesUp DEF Fail
<1>2. CASE top.phase = "restore"
  <2>1. PICK x \in Calls :
          /\ x = [top EXCEPT !.phase = "raise"]
          /\ x.phase = "raise" /\ x.pkg = top.pkg /\ x.seen = top.seen
          /\ x.todo = top.todo /\ x.news = top.news
    <3>1. [top EXCEPT !.phase = "raise"] \in Calls
      BY <1>0 DEF Calls
    <3> QED
      BY <1>0, <3>1 DEF Calls
  <2>2. SetTop(x) /\ UNCHANGED result
    BY <1>2, <2>1 DEF Fail, GotoPhase
  <2>3. Shape(x) /\ Current(x) /\ (Resolved(x) => Resolved(top))
    BY <1>0, <2>1 DEF Shape, Current, CommitOK, Met, Resolved
  <2> QED
    BY <1>0, <2>1, <2>2, <2>3, Quiet
<1>3. CASE top.phase = "remove"
  BY <1>0, <1>3, FailedInv DEF Fail
<1> QED
  BY <1>1, <1>2, <1>3 DEF Fail

(* and an end of the process. *)
LEMMA CancelInv ==
  ASSUME Inv, Cancel
  PROVE  Inv'
<1>0. stack' = <<>> /\ result' = "cancelled" /\ UNCHANGED <<db, disk, start, fails>>
  BY DEF Cancel
<1>1. CallsInv' /\ FilesInv'
  BY <1>0 DEF CallsInv, StackInv, StartInv, FilesInv, Idle
<1>2. OneOwner'
  BY <1>0 DEF Inv, OneOwner, FilesOf, Recorded
<1>3. TypeOK'
  BY <1>0, <1>1, TypeKept DEF Inv, TypeOK
<1> QED
  BY <1>1, <1>2, <1>3 DEF Inv

(* An empty database and no call. *)
LEMMA InitInv == Init => Inv
<1> SUFFICES ASSUME Init
             PROVE  Inv
  OBVIOUS
<1>1. CallsInv /\ FilesInv
  BY DEF Init, CallsInv, StackInv, StartInv, FilesInv, Idle
<1>2. OneOwner
  BY DEF Init, OneOwner, FilesOf, Recorded
<1>3. db \in [Pkgs -> Versions \cup {None}] /\ disk \in [Files -> Releases \cup {Absent}]
  BY DEF Init, NoFile
<1>4. TypeOK
  BY <1>3, ZpipAssumption DEF Init, TypeOK
<1> QED
  BY <1>1, <1>2, <1>4 DEF Inv

(* Every step keeps the invariant. *)
LEMMA NextInv == Inv /\ [Next]_vars => Inv'
<1> SUFFICES ASSUME Inv, [Next]_vars
             PROVE  Inv'
  OBVIOUS
<1>1. ASSUME NEW p \in Pkgs, Install(p) \/ Uninstall(p) PROVE Inv'
  BY <1>1, CommandInv
<1>2. ASSUME NEW v \in Versions, Resolve(v) PROVE Inv'
  BY <1>2, ResolveInv
<1>3. ASSUME NEW d \in Pkgs, DepStep(d) PROVE Inv'
  BY <1>3, DepSatisfiedInv, DepRefusedInv, DepInstallInv, UnwindDepInv DEF DepStep
<1>4. ASSUME NEW f \in Files, FileStep(f) PROVE Inv'
  BY <1>4, CommitFileInv, RemoveObsoleteInv, RestoreFileInv, RemoveFileInv DEF FileStep
<1>5. ASSUME RolledBack \/ Raise PROVE Inv'
  BY <1>5, FailedInv DEF RolledBack, Raise, At, Inv, TypeOK
<1>6. ASSUME UNCHANGED vars PROVE Inv'
  <2>1. UNCHANGED <<db, disk, stack, result, start, fails>>
    BY <1>6 DEF vars
  <2>2. CallsInv' /\ FilesInv'
    BY <2>1 DEF Inv, CallsInv, StackInv, StartInv, FilesInv, Idle, top, Current, Committing, Removing,
                Owned, FilesOf, Recorded
  <2>3. OneOwner'
    BY <2>1 DEF Inv, OneOwner, FilesOf, Recorded
  <2> QED
    BY <2>1, <2>2, <2>3, TypeKept DEF Inv, TypeOK
<1> QED
  BY <1>1, <1>2, <1>3, <1>4, <1>5, <1>6, DepInstalledInv, FetchInv, BeginCommitInv, SaveInv,
     EraseRecordInv, FailInv, CancelInv DEF Next

(* What every call knows of the database, its own files and its callers    *)
(* stays true through nested installs, rollbacks and exceptions.           *)
THEOREM Invariant == Spec => []Inv
  BY InitInv, NextInv, PTL DEF Spec

-----------------------------------------------------------------------------
(* What the runs check                                                     *)

(* Types, and what a commit has moved and will move. *)
THEOREM TypeCorrect == Spec => []TypeOK
<1>1. Inv => TypeOK
  BY DEF Inv
<1> QED
  BY <1>1, Invariant, PTL

(* No two recorded packages own the same file: the check before a commit   *)
(* still holds when the record is written.                                 *)
THEOREM FilesHaveOneOwner == Spec => []OneOwner
<1>1. Inv => OneOwner
  BY DEF Inv
<1> QED
  BY <1>1, Invariant, PTL

(* A failed command loses no record: what its rollbacks uninstall, at any  *)
(* depth of nested installs, was not there when it began.                  *)
THEOREM RecordsKept == Spec => []FailureKeepsRecords
<1>1. Inv => FailureKeepsRecords
  BY DEF Inv, CallsInv, StartInv, FailureKeepsRecords
<1> QED
  BY <1>1, Invariant, PTL

(* Only file steps change user_packages/ and only Save and EraseRecord     *)
(* the database.                                                           *)
LEMMA StepKinds ==
  ASSUME [Next]_vars
  PROVE  \/ UNCHANGED <<db, disk>>
         \/ \E f \in Files : FileStep(f)
         \/ Save \/ EraseRecord
  BY DEF Next, vars, Install, Uninstall, Begin, Resolve, DepStep, DepSatisfied, DepConflict, DepCycle,
         DepInstall, UnwindDep, DepInstalled, Fetch, BeginCommit, RolledBack, Raise, Fail, Cancel

(* A file that a step changes belongs to no other package than the one     *)
(* being installed or removed.                                             *)
LEMMA FileTouched ==
  ASSUME Inv, NEW f \in Files, FileStep(f)
  PROVE  /\ ~Idle /\ UNCHANGED db
         /\ \A p \in Pkgs : p # top.pkg => f \notin FilesOf(p)
         /\ \A g \in Files : g # f => disk'[g] = disk[g]
<1>0. /\ ~Idle /\ UNCHANGED db /\ top \in Calls /\ Shape(top)
      /\ \A g \in Files : g # f => disk'[g] = disk[g]
  BY TopCall DEF FileStep, CommitFile, RemoveObsolete, RestoreFile, RemoveFile, At, Inv, TypeOK
<1>1. CASE CommitFile(f)
  BY <1>0, <1>1 DEF CommitFile, At, Inv, FilesInv, Committing, Owned, Shape, CommitOK
<1>2. CASE RemoveObsolete(f) \/ RemoveFile(f)
  <2>1. f \in FilesOf(top.pkg) /\ top.pkg \in Pkgs
    BY <1>0, <1>2 DEF RemoveObsolete, RemoveFile, At, Inv, FilesInv, Committing, Removing, Calls
  <2> QED
    BY <1>0, <2>1 DEF Inv, OneOwner
<1>3. CASE RestoreFile(f)
  BY <1>0, <1>3 DEF RestoreFile, At, Inv, FilesInv, Owned
<1> QED
  BY <1>0, <1>1, <1>2, <1>3 DEF FileStep

(* The innermost call of a step that writes the database. *)
LEMMA RecordTouched ==
  ASSUME Inv, Save \/ EraseRecord
  PROVE  /\ ~Idle /\ UNCHANGED disk /\ top.pkg \in Pkgs
         /\ \A p \in Pkgs : p # top.pkg => db'[p] = db[p]
  BY TopCall DEF Save, EraseRecord, At, Inv, TypeOK, Calls

(* No step breaks the files of a recorded package other than the one being *)
(* installed or removed, also not a step of a rollback.                    *)
THEOREM OthersAreUntouched == Spec => OthersUntouched
<1>1. Inv /\ [Next]_vars =>
        [\A p \in Pkgs : Intact(p) /\ (Recorded(p) /\ ~Intact(p))' => ~Idle /\ top.pkg = p]_vars
  <2> SUFFICES ASSUME Inv, [Next]_vars, NEW p \in Pkgs, Intact(p), ~(~Idle /\ top.pkg = p)
               PROVE  Intact(p)'
    OBVIOUS
  <2>1. CASE UNCHANGED <<db, disk>>
    BY <2>1 DEF Intact, FilesOf, Recorded
  <2>2. ASSUME NEW f \in Files, FileStep(f)
        PROVE  Intact(p)'
    <3>1. UNCHANGED db /\ f \notin FilesOf(p) /\ \A g \in Files : g # f => disk'[g] = disk[g]
      BY <2>2, FileTouched
    <3>2. FilesOf(p) \subseteq Files /\ FilesOf(p)' = FilesOf(p)
      BY <3>1, OwnFiles DEF Inv, FilesOf, Recorded
    <3> QED
      BY <3>1, <3>2 DEF Intact
  <2>3. CASE Save \/ EraseRecord
    <3>1. UNCHANGED disk /\ db'[p] = db[p]
      BY <2>3, RecordTouched
    <3> QED
      BY <3>1 DEF Intact, FilesOf, Recorded
  <2> QED
    BY <2>1, <2>2, <2>3, StepKinds
<1> QED
  BY <1>1, Invariant, PTL DEF Spec, OthersUntouched

(* A record is written only when every file of the release is in place. *)
THEOREM RecordsAreComplete == Spec => RecordedComplete
<1>1. Inv /\ [Next]_vars =>
        [\A p \in Pkgs : db'[p] # db[p] /\ db'[p] # None => Intact(p)']_vars
  <2> SUFFICES ASSUME Inv, [Next]_vars, NEW p \in Pkgs, db'[p] # db[p], db'[p] # None
               PROVE  Intact(p)'
    OBVIOUS
  <2>1. Save
    <3>1. ~ UNCHANGED <<db, disk>> /\ ~ \E f \in Files : FileStep(f)
      BY FileTouched
    <3>2. ~ EraseRecord
      BY DEF EraseRecord, Inv, TypeOK
    <3> QED
      BY <3>1, <3>2, StepKinds
  <2>2. /\ ~Idle /\ top.phase = "commit" /\ top \in Calls /\ Shape(top) /\ Committing(top)
        /\ top.left = {} /\ p = top.pkg /\ UNCHANGED disk
    BY <2>1, TopCall, RecordTouched DEF Save, At, Inv, FilesInv
  <2>3. PICK v \in Versions : v = top.ver /\ v # None
    BY <2>2, ZpipAssumption DEF Shape, Met
  <2>4. \A f \in Wheel[p][v] : disk[f] = <<p, v>>
    BY <2>2, <2>3 DEF Shape, CommitOK, Committing
  <2>5. db'[p] = v
    BY <2>1, <2>2, <2>3 DEF Save, Inv, TypeOK
  <2> QED
    BY <2>2, <2>4, <2>5 DEF Intact, FilesOf, Recorded
<1> QED
  BY <1>1, Invariant, PTL DEF Spec, RecordedComplete

(* The database refines PackageStore: a package is recorded only while     *)
(* everything it requires is recorded in a version it accepts, although    *)
(* the requirements were read before the nested installs and the download. *)
THEOREM RefinesStore == Spec => StoreSpec
<1>1. Init => Store!Init
  BY DEF Init, Store!Init
<1>2. Inv /\ [Next]_vars => [Store!Next]_db
  <2> SUFFICES ASSUME Inv, [Next]_vars, db' # db
               PROVE  Store!Next
    OBVIOUS
  <2>1. Save \/ EraseRecord
    BY StepKinds, FileTouched
  <2>2. top \in Calls /\ Shape(top) /\ Current(top) /\ top.pkg \in Pkgs
    BY <2>1, TopCall, RecordTouched
  <2>3. CASE Save
    <3>1. top.phase = "commit" /\ top.todo = {} /\ top.ver \in Versions
      BY <2>2, <2>3 DEF Save, At, Shape, Met
    <3>2. Store!Satisfied(top.pkg)
      BY <2>2, <3>1 DEF Store!Satisfied, Current, Settled, Met
    <3> QED
      BY <2>2, <2>3, <3>1, <3>2 DEF Save, Store!Next, Store!Record
  <2>4. CASE EraseRecord
    BY <2>2, <2>4 DEF EraseRecord, Store!Next, Store!Erase
  <2> QED
    BY <2>1, <2>3, <2>4
<1> QED
  BY <1>1, <1>2, Invariant, PTL DEF Spec, StoreSpec, Store!Spec

-----------------------------------------------------------------------------
(* Files left behind.  With at most one exception per command no rollback  *)
(* is cut short.                                                           *)

(* A step that leaves the content a rollback would leave, or removes it.   *)
LEMMA StrayKept ==
  ASSUME StrayInv, ~Idle, UNCHANGED <<db, start>>, Undoable',
         \A f \in Files : Under(f)' \in {Under(f), Absent}
  PROVE  StrayInv'
<1>1. ASSUME NEW f \in Files
      PROVE  Good(f, Under(f))'
  <2>1. Good(f, Under(f)) /\ Under(f)' \in {Under(f), Absent}
    BY DEF StrayInv
  <2>2. PICK x : x = Under(f)'
    OBVIOUS
  <2>3. Good(f, x)
    BY <2>1, <2>2 DEF Good
  <2>4. Good(f, x)'
    BY <2>3 DEF Good, FilesOf, Recorded
  <2> QED
    BY <2>2, <2>4 DEF Good
<1> QED
  BY <1>1 DEF StrayInv

(* A step of the innermost call that moves nothing. *)
LEMMA StrayQuiet ==
  ASSUME Inv, StrayInv, ~Idle, UNCHANGED <<db, disk, start>>,
         NEW x \in Calls, top' = x, ~Idle', Undoable',
         \/ Moved = {} /\ (x.phase \in {"commit", "restore"} => x.done = {})
         \/ /\ top.phase \in {"commit", "restore"} /\ x.phase \in {"commit", "restore"}
            /\ x.done = top.done /\ x.saved = top.saved
  PROVE  StrayInv'
<1>1. \A f \in Files : Under(f)' = Under(f)
  BY DEF Under, Moved
<1> QED
  BY <1>1, StrayKept

(* After a return the call that goes on has moved nothing. *)
LEMMA ReturnMoved ==
  ASSUME Inv, ~Idle, NEW o \in {"ok", "failed"}, Return(o)
  PROVE  Moved' = {} /\ Undoable'
<1>0. stack \in Seq(Calls) /\ Len(stack) \in Nat \ {0}
  BY TopCall
<1>1. CASE Len(stack) = 1
  BY <1>1 DEF Return, Moved, Undoable, Idle
<1>2. CASE Len(stack) # 1
  <2> Len(stack) > 1 /\ Len(stack) - 1 \in 1 .. Len(stack)
    BY <1>0, <1>2, TwoOrMore
  <2> DEFINE c == stack[Len(stack) - 1]
  <2>1. c \in Calls /\ Waits(c)
    BY <1>0 DEF Inv, CallsInv, StackInv
  <2>2. PICK x \in Calls : x = Caller(o) /\ x.done = {}
    <3>1. PICK ph \in {"check", "restore", "raise"} : Caller(o) = [c EXCEPT !.phase = ph]
      BY <2>1 DEF Caller, Waits
    <3>2. [c EXCEPT !.phase = ph] \in Calls
      BY <2>1 DEF Calls
    <3> QED
      BY <2>1, <3>1, <3>2 DEF Calls, Waits
  <2>3. top' = x /\ ~Idle'
    BY <1>0, <1>2, <2>2, PopStack DEF Return
  <2> QED
    BY <2>2, <2>3 DEF Moved, Undoable
<1> QED
  BY <1>1, <1>2

(* A call that has moved nothing, or has put everything back, fails. *)
LEMMA StrayFailed ==
  ASSUME Inv, StrayInv, ~Idle, Return("failed"), UNCHANGED <<db, disk, start>>, Moved = {}
  PROVE  StrayInv'
<1>1. Moved' = {} /\ Undoable'
  BY ReturnMoved
<1>2. \A f \in Files : Under(f)' = Under(f)
  BY <1>1 DEF Under
<1> QED
  BY <1>1, <1>2, StrayKept

(* The record of a package is written: what was moved is of its release,   *)
(* and what there was of the old one is gone.                              *)
LEMMA StraySave ==
  ASSUME Inv, StrayInv, Save
  PROVE  StrayInv'
<1>0. /\ ~Idle /\ top.phase = "commit" /\ top \in Calls /\ Shape(top) /\ Committing(top)
      /\ top.left = {} /\ top.old = {} /\ UNCHANGED <<disk, start>> /\ Return("ok")
      /\ db' = [db EXCEPT ![top.pkg] = top.ver]
  BY TopCall DEF Save, At, Inv, FilesInv
<1>1. PICK p \in Pkgs, v \in Versions : p = top.pkg /\ v = top.ver /\ v # None
  BY <1>0, ZpipAssumption DEF Shape, Met, Calls
<1>2. db'[p] = v /\ \A q \in Pkgs : q # p => db'[q] = db[q]
  BY <1>0, <1>1 DEF Inv, TypeOK
<1>3. FilesOf(p)' = Wheel[p][v] /\ \A q \in Pkgs : q # p => FilesOf(q)' = FilesOf(q)
  BY <1>1, <1>2 DEF FilesOf, Recorded
<1>4. Moved = Wheel[p][v] /\ \A f \in Moved : disk[f] = <<p, v>>
  BY <1>0, <1>1 DEF Moved, Shape, CommitOK, Committing
<1>5. ASSUME NEW f \in Files
      PROVE  \A x : x = disk[f] => Good(f, x)'
  <2>1. CASE f \in Moved
    BY <2>1, <1>2, <1>3, <1>4 DEF Good
  <2>2. CASE f \notin Moved
    <3>1. Good(f, disk[f])
      BY <1>0, <2>2 DEF StrayInv, Under
    <3>2. f \in FilesOf(p) => disk[f] = Absent
      BY <1>0, <1>1, <1>4, <2>2 DEF Committing
    <3> QED
      BY <1>0, <1>2, <1>3, <3>1, <3>2 DEF Good
  <2> QED
    BY <2>1, <2>2
<1>6. Moved' = {} /\ Undoable'
  BY <1>0, ReturnMoved
<1> QED
  BY <1>0, <1>5, <1>6 DEF StrayInv, Under

(* The record of a package is erased after its last file. *)
LEMMA StrayErase ==
  ASSUME Inv, StrayInv, EraseRecord
  PROVE  StrayInv'
<1>0. /\ ~Idle /\ top.phase = "remove" /\ top \in Calls /\ Removing(top)
      /\ top.left = {} /\ UNCHANGED <<disk, start>> /\ Return("ok")
      /\ db' = [db EXCEPT ![top.pkg] = None]
  BY TopCall DEF EraseRecord, At, Inv, FilesInv
<1>1. PICK p \in Pkgs : p = top.pkg
  BY <1>0 DEF Calls
<1>2. \A q \in Pkgs : q # p => db'[q] = db[q]
  BY <1>0, <1>1 DEF Inv, TypeOK
<1>3. \A q \in Pkgs : q # p => FilesOf(q)' = FilesOf(q)
  BY <1>2 DEF FilesOf, Recorded
<1>4. ASSUME NEW f \in Files
      PROVE  \A x : x = disk[f] => Good(f, x)'
  <2>1. Good(f, disk[f])
    BY <1>0 DEF StrayInv, Under, Moved
  <2>2. f \in FilesOf(p) => disk[f] = Absent
    BY <1>0, <1>1 DEF Removing
  <2> QED
    BY <1>0, <1>2, <1>3, <2>1, <2>2 DEF Good
<1>5. Moved' = {} /\ Undoable'
  BY <1>0, ReturnMoved
<1> QED
  BY <1>0, <1>4, <1>5 DEF StrayInv, Under

(* Moving a file saves what was there, restoring brings it back. *)
LEMMA StrayFile ==
  ASSUME Inv, StrayInv, NEW f \in Files, FileStep(f)
  PROVE  StrayInv'
<1>0. /\ ~Idle /\ top \in Calls /\ Shape(top) /\ stack \in Seq(Calls) /\ UNCHANGED <<db, start, fails>>
      /\ disk \in [Files -> Releases \cup {Absent}] /\ Undoable
  BY TopCall DEF FileStep, CommitFile, RemoveObsolete, RestoreFile, RemoveFile, At, Inv, TypeOK, StrayInv
<1>1. CASE CommitFile(f)
  <2>1. top.phase = "commit" /\ f \in top.left /\ f \notin top.done /\ \A g \in Files : g # f => disk'[g] = disk[g]
    BY <1>0, <1>1 DEF CommitFile, At, Undoable
  <2> DEFINE y == [top EXCEPT !.left = @ \ {f}, !.done = @ \cup {f}, !.saved[f] = disk[f]]
  <2>2. y \in Calls
    BY <1>0 DEF Calls
  <2>3. SetTop(y)
    BY <1>1 DEF CommitFile
  <2>4. PICK x \in Calls :
          /\ SetTop(x) /\ x.phase = "commit" /\ x.left = top.left \ {f} /\ x.done = top.done \cup {f}
          /\ x.saved = [top.saved EXCEPT ![f] = disk[f]]
    BY <1>0, <2>1, <2>2, <2>3 DEF Calls
  <2>5. top' = x /\ ~Idle'
    BY <1>0, <2>4, SetTopStack
  <2>6. Undoable'
    BY <1>0, <2>1, <2>4, <2>5 DEF Undoable
  <2>7. Moved = top.done /\ Moved' = top.done \cup {f}
    BY <1>0, <2>1, <2>4, <2>5 DEF Moved
  <2>8. top.saved \in [Files -> Releases \cup {Absent}]
    BY <1>0 DEF Calls
  <2>9. \A g \in Files : Under(g)' = Under(g)
    BY <2>1, <2>4, <2>5, <2>7, <2>8 DEF Under
  <2> QED
    BY <1>0, <2>6, <2>9, StrayKept
<1>2. CASE RemoveObsolete(f)
  <2>1. top.phase = "commit" /\ disk' = [disk EXCEPT ![f] = Absent]
    BY <1>2 DEF RemoveObsolete, At
  <2>2. PICK x \in Calls :
          SetTop(x) /\ x.phase = "commit" /\ x.left = top.left /\ x.done = top.done /\ x.saved = top.saved
    <3>1. [top EXCEPT !.old = @ \ {f}] \in Calls
      BY <1>0 DEF Calls
    <3>2. SetTop([top EXCEPT !.old = @ \ {f}])
      BY <1>2 DEF RemoveObsolete
    <3> QED
      BY <1>0, <2>1, <3>1, <3>2 DEF Calls
  <2>3. top' = x /\ ~Idle'
    BY <1>0, <2>2, SetTopStack
  <2>4. Undoable'
    BY <1>0, <2>1, <2>2, <2>3 DEF Undoable
  <2>5. \A g \in Files : Under(g)' \in {Under(g), Absent}
    BY <1>0, <2>1, <2>2, <2>3 DEF Under, Moved
  <2> QED
    BY <1>0, <2>4, <2>5, StrayKept
<1>3. CASE RestoreFile(f)
  <2>1. top.phase = "restore" /\ f \in top.done /\ disk' = [disk EXCEPT ![f] = top.saved[f]]
    BY <1>3 DEF RestoreFile, At
  <2>2. PICK x \in Calls :
          SetTop(x) /\ x.phase = "restore" /\ x.done = top.done \ {f} /\ x.saved = top.saved
    <3>1. [top EXCEPT !.done = @ \ {f}] \in Calls
      BY <1>0 DEF Calls
    <3>2. SetTop([top EXCEPT !.done = @ \ {f}])
      BY <1>3 DEF RestoreFile
    <3> QED
      BY <1>0, <2>1, <3>1, <3>2 DEF Calls
  <2>3. top' = x /\ ~Idle'
    BY <1>0, <2>2, SetTopStack
  <2>4. Undoable'
    BY <1>0, <2>1, <2>2, <2>3 DEF Undoable
  <2>5. \A g \in Files : Under(g)' = Under(g)
    BY <1>0, <2>1, <2>2, <2>3 DEF Under, Moved
  <2> QED
    BY <1>0, <2>4, <2>5, StrayKept
<1>4. CASE RemoveFile(f)
  <2>1. top.phase = "remove" /\ disk' = [disk EXCEPT ![f] = Absent]
    BY <1>4 DEF RemoveFile, At
  <2>2. PICK x \in Calls : SetTop(x) /\ x.phase = "remove"
    <3>1. [top EXCEPT !.left = @ \ {f}] \in Calls
      BY <1>0 DEF Calls
    <3>2. SetTop([top EXCEPT !.left = @ \ {f}])
      BY <1>4 DEF RemoveFile
    <3> QED
      BY <1>0, <2>1, <3>1, <3>2 DEF Calls
  <2>3. top' = x /\ ~Idle'
    BY <1>0, <2>2, SetTopStack
  <2>4. Undoable'
    BY <2>2, <2>3 DEF Undoable
  <2>5. \A g \in Files : Under(g)' \in {Under(g), Absent}
    BY <1>0, <2>1, <2>2, <2>3 DEF Under, Moved
  <2> QED
    BY <1>0, <2>4, <2>5, StrayKept
<1> QED
  BY <1>1, <1>2, <1>3, <1>4 DEF FileStep

(* A call that ends before or during its commit rolls back. *)
LEMMA StrayGivesUp ==
  ASSUME Inv, StrayInv, ~Idle, UNCHANGED <<db, disk, start>>, GotoPhase("restore"),
         top.phase \in {"resolve", "deps", "check", "fetched", "commit"},
         top.phase = "commit" => fails' = FailBound
  PROVE  StrayInv'
<1>0. top \in Calls /\ Shape(top) /\ stack \in Seq(Calls)
  BY TopCall
<1>1. PICK x \in Calls : SetTop(x) /\ x.phase = "restore" /\ x.done = top.done /\ x.saved = top.saved
  BY <1>0 DEF GotoPhase, Calls
<1>2. top' = x /\ ~Idle'
  BY <1>0, <1>1, SetTopStack
<1>3. top.phase = "commit" \/ top.done = {}
  BY <1>0 DEF Shape
<1>4. Undoable'
  BY <1>1, <1>2, <1>3 DEF Undoable
<1> QED
  BY <1>1, <1>2, <1>3, <1>4, StrayQuiet DEF Moved

(* The requirements are worked through without moving a file. *)
LEMMA StrayDeps ==
  ASSUME Inv, StrayInv, NEW d \in Pkgs, DepStep(d)
  PROVE  StrayInv'
<1>0. /\ ~Idle /\ top \in Calls /\ Shape(top) /\ stack \in Seq(Calls) /\ UNCHANGED <<db, disk, start, fails>>
      /\ top.phase \in {"deps", "restore"} /\ top.done = {} /\ Moved = {}
  BY TopCall DEF DepStep, DepSatisfied, DepConflict, DepCycle, DepInstall, UnwindDep, At, Shape, Moved
<1>1. CASE DepSatisfied(d)
  <2>1. [top EXCEPT !.todo = @ \ {d}] \in Calls
    BY <1>0 DEF Calls
  <2>2. PICK x \in Calls : SetTop(x) /\ x.phase = "deps"
    BY <1>0, <1>1, <2>1 DEF DepSatisfied, At, Calls
  <2>3. top' = x /\ ~Idle' /\ Undoable'
    BY <1>0, <2>2, SetTopStack DEF Undoable
  <2> QED
    BY <1>0, <2>2, <2>3, StrayQuiet
<1>2. CASE DepConflict(d) \/ DepCycle(d)
  BY <1>0, <1>2, StrayGivesUp DEF DepConflict, DepCycle, At
<1>3. CASE DepInstall(d)
  <2>1. [top EXCEPT !.dep = d] \in Calls
    BY <1>0 DEF Calls
  <2>2. PICK y \in Calls : y = Call(d, "resolve", {}) /\ y.phase = "resolve"
    <3>1. Call(d, "resolve", {}) \in Calls
      BY ZpipAssumption DEF Calls, Call, NoFile
    <3> QED
      BY <3>1 DEF Call
  <2>3. top' = y /\ ~Idle' /\ Undoable'
    BY <1>0, <1>3, <2>1, <2>2, PushStack DEF DepInstall, Undoable
  <2> QED
    BY <1>0, <2>2, <2>3, StrayQuiet
<1>4. CASE UnwindDep(d)
  <2>1. PICK x \in Calls : x = [top EXCEPT !.news = @ \ {d}] /\ x.done = {} /\ x.phase = top.phase
    <3>1. [top EXCEPT !.news = @ \ {d}] \in Calls
      BY <1>0 DEF Calls
    <3> QED
      BY <1>0, <3>1 DEF Calls
  <2>2. PICK y \in Calls : y = Call(d, "remove", FilesOf(d)) /\ y.phase = "remove"
    BY RemoveCall
  <2>3. CASE Recorded(d)
    <3>1. top' = y /\ ~Idle' /\ Undoable'
      BY <1>0, <1>4, <2>1, <2>2, <2>3, PushStack DEF UnwindDep, Undoable
    <3> QED
      BY <1>0, <2>2, <3>1, StrayQuiet
  <2>4. CASE ~Recorded(d)
    <3>1. top' = x /\ ~Idle' /\ Undoable'
      BY <1>0, <1>4, <2>1, <2>4, SetTopStack DEF UnwindDep, Undoable
    <3> QED
      BY <1>0, <2>1, <3>1, StrayQuiet
  <2> QED
    BY <2>3, <2>4
<1> QED
  BY <1>1, <1>2, <1>3, <1>4 DEF DepStep

(* Nor does the rest of install() before its commit. *)
LEMMA StrayBefore ==
  ASSUME Inv, StrayInv, (\E v \in Versions : Resolve(v)) \/ DepInstalled \/ Fetch \/ BeginCommit
  PROVE  StrayInv'
<1>0. /\ ~Idle /\ top \in Calls /\ Shape(top) /\ stack \in Seq(Calls) /\ UNCHANGED <<db, disk, start, fails>>
      /\ top.phase \in {"resolve", "deps", "check", "fetched"} /\ top.done = {} /\ Moved = {}
  BY TopCall DEF Resolve, DepInstalled, Fetch, BeginCommit, At, Shape, Moved
<1>1. PICK x \in Calls : SetTop(x) /\ x.done = {} /\ x.phase # "raise"
  <2>1. ASSUME NEW v \in Versions, Resolve(v)
        PROVE  \E x \in Calls : SetTop(x) /\ x.done = {} /\ x.phase # "raise"
    <3> DEFINE needed == {e \in Pkgs : Needs[top.pkg][e] # {}}
    <3>1. [top EXCEPT !.phase = "deps", !.ver = v, !.seen = db, !.todo = needed] \in Calls
      BY <1>0 DEF Calls, Inv, TypeOK
    <3> QED
      BY <1>0, <2>1, <3>1 DEF Resolve, Calls
  <2>2. ASSUME DepInstalled
        PROVE  \E x \in Calls : SetTop(x) /\ x.done = {} /\ x.phase # "raise"
    <3>1. PICK ph \in {"deps", "restore"} :
            SetTop([top EXCEPT !.todo = @ \ {top.dep}, !.news = @ \cup {top.dep}, !.phase = ph])
      BY <2>2 DEF DepInstalled
    <3>2. [top EXCEPT !.todo = @ \ {top.dep}, !.news = @ \cup {top.dep}, !.phase = ph] \in Calls
      BY <1>0 DEF Calls
    <3> QED
      BY <1>0, <3>1, <3>2 DEF Calls
  <2>3. ASSUME NEW ph \in {"fetched", "restore"}, GotoPhase(ph)
        PROVE  \E x \in Calls : SetTop(x) /\ x.done = {} /\ x.phase # "raise"
    <3>1. [top EXCEPT !.phase = ph] \in Calls
      BY <1>0 DEF Calls
    <3> QED
      BY <1>0, <2>3, <3>1 DEF GotoPhase, Calls
  <2>4. ASSUME BeginCommit, ~GotoPhase("restore")
        PROVE  \E x \in Calls : SetTop(x) /\ x.done = {} /\ x.phase # "raise"
    <3> DEFINE files == Wheel[top.pkg][top.ver]
    <3>1. files \subseteq Files /\ FilesOf(top.pkg) \subseteq Files
      BY <1>0, <2>4, WheelFiles, OwnFiles DEF BeginCommit, At, Shape, Met, Calls, Inv
    <3>2. [top EXCEPT !.phase = "commit", !.left = files, !.old = FilesOf(top.pkg) \ files] \in Calls
      BY <1>0, <3>1 DEF Calls
    <3> QED
      BY <1>0, <2>4, <3>2 DEF BeginCommit, Calls
  <2> QED
    BY <2>1, <2>2, <2>3, <2>4 DEF Fetch
<1>2. top' = x /\ ~Idle' /\ Undoable'
  BY <1>0, <1>1, SetTopStack DEF Undoable
<1> QED
  BY <1>0, <1>1, <1>2, StrayQuiet

(* An exception in the commit is the last one: its rollback is not cut     *)
(* short.                                                                  *)
LEMMA StrayFail ==
  ASSUME Inv, StrayInv, FailBound <= 1, Fail
  PROVE  StrayInv'
<1>0. /\ ~Idle /\ top \in Calls /\ Shape(top) /\ stack \in Seq(Calls) /\ UNCHANGED <<db, disk, start>>
      /\ fails < FailBound /\ Undoable
  BY TopCall DEF Fail, StrayInv
<1>1. fails' = FailBound /\ fails # FailBound
  BY <1>0, ZpipAssumption DEF Fail, Inv, TypeOK
<1>2. CASE top.phase \in {"resolve", "deps", "fetched", "commit"}
  BY <1>0, <1>1, <1>2, StrayGivesUp DEF Fail
<1>3. CASE top.phase = "restore"
  <2>1. top.done = {}
    BY <1>0, <1>1, <1>3 DEF Undoable
  <2>2. PICK x \in Calls : SetTop(x) /\ x.phase = "raise" /\ x.done = {}
    <3>1. [top EXCEPT !.phase = "raise"] \in Calls
      BY <1>0 DEF Calls
    <3> QED
      BY <1>0, <1>3, <2>1, <3>1 DEF Fail, GotoPhase, Calls
  <2>3. top' = x /\ ~Idle' /\ Undoable'
    BY <1>0, <2>2, SetTopStack DEF Undoable
  <2> QED
    BY <1>0, <2>1, <2>2, <2>3, StrayQuiet DEF Moved
<1>4. CASE top.phase = "remove"
  BY <1>0, <1>4, StrayFailed DEF Fail, Moved
<1> QED
  BY <1>2, <1>3, <1>4 DEF Fail

(* A command begins with the files as they are. *)
LEMMA StrayBegin ==
  ASSUME NEW p \in Pkgs, Install(p) \/ Uninstall(p)
  PROVE  StrayInv'
<1>1. PICK y : /\ stack' = <<y>> /\ y.phase \in {"resolve", "remove"}
               /\ disk' = disk /\ start'.disk = disk
  BY DEF Install, Uninstall, Begin, Call
<1>2. top' = y /\ ~Idle'
  BY <1>1 DEF top, Idle
<1>3. Moved' = {} /\ Undoable'
  BY <1>1, <1>2 DEF Moved, Undoable
<1> QED
  BY <1>1, <1>2, <1>3 DEF StrayInv, Under, Good

(* Every step keeps what a rollback would leave. *)
LEMMA StrayNext ==
  ASSUME FailBound <= 1
  PROVE  Inv /\ StrayInv /\ [Next]_vars => StrayInv'
<1> SUFFICES ASSUME Inv, StrayInv, [Next]_vars
             PROVE  StrayInv'
  OBVIOUS
<1>1. ASSUME RolledBack \/ Raise PROVE StrayInv'
  <2>1. Moved = {}
    BY <1>1 DEF RolledBack, Raise, At, Moved
  <2> QED
    BY <1>1, <2>1, StrayFailed DEF RolledBack, Raise, At
<1>2. ASSUME Cancel PROVE StrayInv'
  BY <1>2 DEF Cancel, StrayInv, Undoable, Idle
<1>3. ASSUME UNCHANGED vars PROVE StrayInv'
  BY <1>3 DEF vars, StrayInv, Good, Under, Moved, Undoable, Idle, top, FilesOf, Recorded
<1> QED
  BY <1>1, <1>2, <1>3, StrayBegin, StrayDeps, StrayBefore, StrayFile, StraySave, StrayErase, StrayFail
     DEF Next

(* After a command that failed, with one exception at most, every file is  *)
(* as it was, or gone, or of a release the database records.               *)
THEOREM NoStrayFiles ==
  ASSUME FailBound <= 1
  PROVE  Spec => []FailureLeavesNoStray
<1>1. Init => StrayInv
  BY DEF Init, StrayInv, Undoable, Idle
<1>2. Inv /\ StrayInv /\ [Next]_vars => StrayInv'
  BY StrayNext
<1>3. StrayInv => FailureLeavesNoStray
  BY DEF StrayInv, FailureLeavesNoStray, Under, Moved, Good
<1> QED
  BY <1>1, <1>2, <1>3, Invariant, PTL DEF Spec
=============================================================================
