-------------------------- MODULE HostConsoleProofs --------------------------
(* Theorems about HostConsole, for any script and any number of Ctrl+C,    *)
(* and about Interpreter, the same commands seen from the process that     *)
(* all consoles and requests share, for any number of them.                *)
EXTENDS HostConsole, Interpreter, SequenceTheorems, TLAPS

Rng(s) == {s[i] : i \in DOMAIN s}

Steps ==
  {"get", "snap", "busy", "compare", "clear", "run", "input", "python", "finish", "unbusy", "drain",
   "unlatch", "resubmit", "dead"} \cup Subprocess

(* The worker holds a line, executed or not, from Get to the end of the    *)
(* program it starts.                                                      *)
Holds == {"snap", "busy", "compare", "clear", "run"} \cup Subprocess

Types ==
  /\ script \in Seq(Kinds) /\ typed \in 0 .. Len(script)
  /\ kpc \in {"idle", "stdin", "submit", "bump", "set", "signal", "inject"}
  /\ kpc \in {"stdin", "submit"} => typed > 0
  /\ pc \in Steps /\ cur \in Nat
  /\ pc \in Holds => cur \in 1 .. Len(script)
  /\ pc # "resubmit" => left = <<>>
  /\ proc \in [1 .. Len(script) -> {"none", "live", "dead"}]

Lists ==
  /\ cmdq \in Seq(Nat) /\ stdinq \in Seq(Nat) /\ left \in Seq(Nat)
  /\ block \in Seq(Nat) /\ ran \in Seq(Nat) /\ gone \in Seq(Nat)

(* The places of a line together hold as many lines as were handed over,   *)
(* and all of them: none is in two places.                                 *)
Once ==
  /\ Len(cmdq) + Len(stdinq) + Len(left) + Len(Held) + Len(block) + Len(ran) + Len(gone) = HandedOver
  /\ Rng(cmdq) \cup Rng(stdinq) \cup Rng(left) \cup Rng(Held) \cup Rng(block) \cup Rng(ran) \cup Rng(gone)
       = 1 .. HandedOver

(* A program that is waited for has been started and registered. *)
Registered ==
  /\ pc \in {"register", "poll", "wait"} => proc[cur] \in {"live", "dead"}
  /\ pc \in {"poll", "wait"} => cur \in procs

Inv == Types /\ Lists /\ Once /\ Registered /\ LatchedMeansSignalled

-----------------------------------------------------------------------------
(* Lines move between lists                                                *)

(* The elements of a sequence have an index.                               *)
LEMMA Elements ==
  ASSUME NEW S, NEW s \in Seq(S)
  PROVE  /\ \A i \in 1 .. Len(s) : s[i] \in Rng(s)
         /\ \A x \in Rng(s) : \E i \in 1 .. Len(s) : x = s[i]
  BY DEF Rng

(* The first line of a list is taken, *)
LEMMA Take ==
  ASSUME NEW s \in Seq(Nat), s # <<>>
  PROVE  /\ Head(s) \in Nat /\ Tail(s) \in Seq(Nat) /\ Len(s) = Len(Tail(s)) + 1
         /\ Rng(s) = {Head(s)} \cup Rng(Tail(s))
<1>1. Head(s) \in Nat /\ Tail(s) \in Seq(Nat) /\ Len(s) \in Nat \ {0} /\ Len(Tail(s)) = Len(s) - 1
  OBVIOUS
<1>2. Head(s) = s[1] /\ \A i \in 1 .. Len(s) - 1 : Tail(s)[i] = s[i + 1]
  OBVIOUS
<1>3. Rng(s) \subseteq {Head(s)} \cup Rng(Tail(s))
  <2> SUFFICES ASSUME NEW i \in 1 .. Len(s)
               PROVE  s[i] \in {Head(s)} \cup Rng(Tail(s))
    BY Elements
  <2>1. CASE i = 1
    BY <1>2, <2>1
  <2>2. CASE i # 1
    <3>1. i - 1 \in 1 .. Len(Tail(s)) /\ Tail(s)[i - 1] = s[i]
      BY <1>1, <1>2, <2>2
    <3> QED
      BY <1>1, <3>1, Elements
  <2> QED
    BY <2>1, <2>2
<1>4. {Head(s)} \cup Rng(Tail(s)) \subseteq Rng(s)
  <2>1. Head(s) \in Rng(s)
    BY <1>1, <1>2, Elements
  <2>2. ASSUME NEW i \in 1 .. Len(Tail(s))
        PROVE  Tail(s)[i] \in Rng(s)
    <3>1. i + 1 \in 1 .. Len(s) /\ Tail(s)[i] = s[i + 1]
      BY <1>1, <1>2
    <3> QED
      BY <3>1, Elements
  <2>3. \A x \in Rng(Tail(s)) : x \in Rng(s)
    BY <1>1, <2>2 DEF Rng
  <2> QED
    BY <2>1, <2>3
<1> QED
  BY <1>1, <1>3, <1>4

(* one is added to a list, *)
LEMMA Put ==
  ASSUME NEW s \in Seq(Nat), NEW l \in Nat
  PROVE  /\ Append(s, l) \in Seq(Nat) /\ Len(Append(s, l)) = Len(s) + 1
         /\ Rng(Append(s, l)) = Rng(s) \cup {l}
<1>1. Append(s, l) \in Seq(Nat) /\ Len(Append(s, l)) = Len(s) + 1 /\ Len(s) \in Nat
  OBVIOUS
<1>2. Append(s, l)[Len(s) + 1] = l /\ \A i \in 1 .. Len(s) : Append(s, l)[i] = s[i]
  OBVIOUS
<1> QED
  BY <1>1, <1>2 DEF Rng

(* a whole list is added to another, *)
LEMMA Join ==
  ASSUME NEW s \in Seq(Nat), NEW q \in Seq(Nat)
  PROVE  /\ s \o q \in Seq(Nat) /\ Len(s \o q) = Len(s) + Len(q)
         /\ Rng(s \o q) = Rng(s) \cup Rng(q)
<1>1. PICK z \in Seq(Nat), m \in Nat, n \in Nat :
        /\ z = s \o q /\ m = Len(s) /\ n = Len(q) /\ Len(z) = m + n
        /\ \A i \in 1 .. m : z[i] = s[i]
        /\ \A i \in 1 .. m + n : i > m => z[i] = q[i - m]
  <2>1. /\ s \o q \in Seq(Nat) /\ Len(s) \in Nat /\ Len(q) \in Nat
        /\ Len(s \o q) = Len(s) + Len(q)
    OBVIOUS
  <2>2. /\ \A i \in 1 .. Len(s) : (s \o q)[i] = s[i]
        /\ \A i \in 1 .. Len(s) + Len(q) : i > Len(s) => (s \o q)[i] = q[i - Len(s)]
    OBVIOUS
  <2> QED
    BY <2>1, <2>2
<1>2. ASSUME NEW x \in Rng(z)
      PROVE  x \in Rng(s) \cup Rng(q)
  <2>1. \E i \in 1 .. Len(z) : x = z[i]
    BY <1>1, <1>2, Elements
  <2>2. PICK i \in 1 .. m + n : x = z[i]
    BY <1>1, <2>1
  <2>3. CASE i <= m
    <3>1. i \in 1 .. m
      BY <2>3
    <3> QED
      BY <1>1, <2>2, <3>1, Elements
  <2>4. CASE i > m
    <3>1. i - m \in 1 .. n
      BY <2>4
    <3> QED
      BY <1>1, <2>2, <2>4, <3>1, Elements
  <2> QED
    BY <2>3, <2>4
<1>3. ASSUME NEW x \in Rng(s)
      PROVE  x \in Rng(z)
  <2>1. PICK i \in 1 .. m : x = s[i]
    BY <1>1, Elements
  <2>2. i \in 1 .. m + n
    OBVIOUS
  <2> QED
    BY <1>1, <2>1, <2>2, Elements
<1>4. ASSUME NEW x \in Rng(q)
      PROVE  x \in Rng(z)
  <2>1. PICK i \in 1 .. n : x = q[i]
    BY <1>1, Elements
  <2>2. PICK k \in 1 .. m + n : k > m /\ k - m = i
    <3>1. i + m \in 1 .. m + n /\ i + m > m /\ i + m - m = i
      OBVIOUS
    <3> QED
      BY <3>1
  <2> QED
    BY <1>1, <2>1, <2>2, Elements
<1> QED
  BY <1>1, <1>2, <1>3, <1>4

(* and there are short lists. *)
LEMMA Short ==
  ASSUME NEW l \in Nat
  PROVE  /\ <<>> \in Seq(Nat) /\ Len(<<>>) = 0 /\ Rng(<<>>) = {}
         /\ <<l>> \in Seq(Nat) /\ Len(<<l>>) = 1 /\ Rng(<<l>>) = {l}
  BY DEF Rng

(* What the worker holds is one line at most. *)
LEMMA HeldIs ==
  ASSUME Types
  PROVE  /\ Held \in Seq(Nat) /\ Len(Held) \in {0, 1}
         /\ pc \in {"snap", "busy", "compare", "clear", "run"} => Len(Held) = 1 /\ Rng(Held) = {cur}
         /\ pc \notin {"snap", "busy", "compare", "clear", "run"} => Len(Held) = 0 /\ Rng(Held) = {}
  BY Short DEF Types, Held

(* Every list has a length. *)
LEMMA Lengths ==
  ASSUME Types, Lists
  PROVE  /\ Len(cmdq) \in Nat /\ Len(stdinq) \in Nat /\ Len(left) \in Nat /\ Len(Held) \in Nat
         /\ Len(block) \in Nat /\ Len(ran) \in Nat /\ Len(gone) \in Nat
         /\ typed \in Nat /\ HandedOver \in Nat
<1>1. \A s \in Seq(Nat) : Len(s) \in Nat
  OBVIOUS
<1>2. typed \in Nat /\ HandedOver \in Nat
  BY DEF Types, HandedOver
<1>3. Held \in Seq(Nat)
  BY HeldIs
<1> QED
  BY <1>1, <1>2, <1>3 DEF Lists

(* A waiting line is one of the script's. *)
LEMMA LineOfScript ==
  ASSUME Types, Once, NEW l \in Rng(cmdq) \cup Rng(stdinq) \cup Rng(left)
  PROVE  l \in 1 .. Len(script)
<1>1. l \in 1 .. HandedOver
  BY DEF Once
<1> QED
  BY <1>1 DEF Types, HandedOver

-----------------------------------------------------------------------------
(* Steps that move lines                                                   *)

(* A step that leaves the lists and what the worker holds. *)
LEMMA NothingMoves ==
  ASSUME Lists, Once, UNCHANGED <<cmdq, stdinq, left, block, ran, gone>>,
         Held' = Held, HandedOver' = HandedOver
  PROVE  Lists' /\ Once'
  BY DEF Lists, Once

(* A line that is submitted is queued or dealt with, and may discard a     *)
(* block.                                                                  *)
LEMMA SubmitMoves ==
  ASSUME Types, Lists, NEW l \in Nat, Submit(l)
  PROVE  /\ cmdq' \in Seq(Nat) /\ block' \in Seq(Nat) /\ gone' \in Seq(Nat)
         /\ Len(cmdq') + Len(block') + Len(gone') = Len(cmdq) + Len(block) + Len(gone) + 1
         /\ Rng(cmdq') \cup Rng(block') \cup Rng(gone') = Rng(cmdq) \cup Rng(block) \cup Rng(gone) \cup {l}
<1>0. /\ cmdq \in Seq(Nat) /\ block \in Seq(Nat) /\ gone \in Seq(Nat)
      /\ Len(cmdq) \in Nat /\ Len(block) \in Nat /\ Len(gone) \in Nat
  BY Lengths DEF Lists
<1>1. CASE ~ AtOnce(l)
  <2>1. cmdq' = Append(cmdq, l) /\ block' = block /\ gone' = gone
    BY <1>1 DEF Submit
  <2> QED
    BY <1>0, <2>1, Put
<1>2. CASE AtOnce(l)
  <2>1. PICK b : /\ gone' = gone \o b \o <<l>> /\ cmdq' = cmdq
                 /\ \/ b = block /\ block' = <<>>
                    \/ b = <<>> /\ block' = block
    BY <1>2 DEF Submit
  <2>2. b \in Seq(Nat) /\ block' \in Seq(Nat) /\ Len(b) + Len(block') = Len(block)
        /\ Rng(b) \cup Rng(block') = Rng(block)
    <3>1. <<>> \in Seq(Nat) /\ Len(<<>>) = 0 /\ Rng(<<>>) = {}
      BY Short
    <3>2. CASE b = block /\ block' = <<>>
      BY <1>0, <3>1, <3>2
    <3>3. CASE b = <<>> /\ block' = block
      BY <1>0, <3>1, <3>3
    <3> QED
      BY <2>1, <3>2, <3>3
  <2>3. /\ gone \o b \in Seq(Nat) /\ Len(gone \o b) = Len(gone) + Len(b)
        /\ Rng(gone \o b) = Rng(gone) \cup Rng(b)
    BY <1>0, <2>2, Join
  <2>4. /\ gone' \in Seq(Nat) /\ Len(gone') = Len(gone) + Len(b) + 1
        /\ Rng(gone') = Rng(gone) \cup Rng(b) \cup {l}
    BY <2>1, <2>3, Join, Short
  <2>5. Len(b) \in Nat /\ Len(block') \in Nat
    BY <2>2
  <2>6. Len(cmdq') + Len(block') + Len(gone') = Len(cmdq) + Len(block) + Len(gone) + 1
    <3>1. Len(b) + Len(block') = Len(block) /\ Len(gone') = Len(gone) + Len(b) + 1 /\ cmdq' = cmdq
      BY <2>1, <2>2, <2>4
    <3>2. /\ Len(cmdq) \in Nat /\ Len(block) \in Nat /\ Len(gone) \in Nat
          /\ Len(b) \in Nat /\ Len(block') \in Nat
      BY <1>0, <2>5
    <3> QED
      BY ONLY <3>1, <3>2
  <2> QED
    BY <1>0, <2>1, <2>2, <2>4, <2>6
<1> QED
  BY <1>1, <1>2

(* The keyboard thread adds the line just typed, or discards a block.      *)
LEMMA KeyboardMoves ==
  ASSUME Types, Lists, Once, Keyboard
  PROVE  Lists' /\ Once'
<1>0. Held' = Held
  BY DEF Held, Keyboard, TypeLine, PutStdin, SubmitLine, CtrlC, Bump, SetFlag, Signal, Inject
<1>1. CASE TypeLine
  <2>1. HandedOver' = HandedOver
    BY <1>1 DEF TypeLine, HandedOver, Types
  <2> QED
    BY <1>0, <1>1, <2>1, NothingMoves DEF TypeLine, lines, locals
<1>2. CASE PutStdin
  <2>1. /\ HandedOver' = HandedOver + 1 /\ typed = HandedOver + 1 /\ typed \in Nat
        /\ stdinq' = Append(stdinq, typed) /\ UNCHANGED <<cmdq, left, block, ran, gone>>
    BY <1>2 DEF PutStdin, HandedOver, Types, locals
  <2>2. /\ stdinq' \in Seq(Nat) /\ Len(stdinq') = Len(stdinq) + 1 /\ Rng(stdinq') = Rng(stdinq) \cup {typed}
    BY <2>1, Put DEF Lists
  <2>3. 1 .. HandedOver' = (1 .. HandedOver) \cup {typed}
    BY <2>1, Lengths
  <2>4. Lists'
    BY <2>1, <2>2 DEF Lists
  <2>5. Once'
    BY <1>0, <2>1, <2>2, <2>3, Lengths DEF Once
  <2> QED
    BY <2>4, <2>5
<1>3. CASE SubmitLine
  <2>1. /\ HandedOver' = HandedOver + 1 /\ typed = HandedOver + 1 /\ typed \in Nat
        /\ Submit(typed) /\ UNCHANGED <<stdinq, left, ran>>
    BY <1>3 DEF SubmitLine, HandedOver, Types, locals
  <2>2. /\ cmdq' \in Seq(Nat) /\ block' \in Seq(Nat) /\ gone' \in Seq(Nat)
        /\ Len(cmdq') + Len(block') + Len(gone') = Len(cmdq) + Len(block) + Len(gone) + 1
        /\ Rng(cmdq') \cup Rng(block') \cup Rng(gone') = Rng(cmdq) \cup Rng(block) \cup Rng(gone) \cup {typed}
    BY <2>1, SubmitMoves
  <2>3. 1 .. HandedOver' = (1 .. HandedOver) \cup {typed}
    BY <2>1, Lengths
  <2>4. Lists'
    BY <2>1, <2>2 DEF Lists
  <2>5. Len(cmdq') \in Nat /\ Len(block') \in Nat /\ Len(gone') \in Nat
    BY <2>2
  <2>6. Len(cmdq') + Len(stdinq') + Len(left') + Len(Held') + Len(block') + Len(ran') + Len(gone') = HandedOver'
    <3>1. /\ Len(cmdq') + Len(block') + Len(gone') = Len(cmdq) + Len(block) + Len(gone) + 1
          /\ Len(stdinq') = Len(stdinq) /\ Len(left') = Len(left) /\ Len(ran') = Len(ran)
          /\ Len(Held') = Len(Held) /\ HandedOver' = HandedOver + 1
          /\ Len(cmdq) + Len(stdinq) + Len(left) + Len(Held) + Len(block) + Len(ran) + Len(gone) = HandedOver
      BY <1>0, <2>1, <2>2 DEF Once
    <3>2. /\ Len(cmdq) \in Nat /\ Len(stdinq) \in Nat /\ Len(left) \in Nat /\ Len(Held) \in Nat
          /\ Len(block) \in Nat /\ Len(ran) \in Nat /\ Len(gone) \in Nat /\ HandedOver \in Nat
          /\ Len(cmdq') \in Nat /\ Len(block') \in Nat /\ Len(gone') \in Nat
      BY <2>5, Lengths
    <3> QED
      BY ONLY <3>1, <3>2
  <2>7. Once'
    BY <1>0, <2>1, <2>2, <2>3, <2>6 DEF Once
  <2> QED
    BY <2>4, <2>7
<1>4. CASE CtrlC
  <2>1. HandedOver' = HandedOver /\ gone' = gone \o block /\ block' = <<>> /\ UNCHANGED <<cmdq, stdinq, left, ran>>
    BY <1>4 DEF CtrlC, HandedOver, locals
  <2>2. /\ gone' \in Seq(Nat) /\ Len(gone') = Len(gone) + Len(block) /\ Rng(gone') = Rng(gone) \cup Rng(block)
        /\ block' \in Seq(Nat) /\ Len(block') = 0 /\ Rng(block') = {}
    BY <2>1, Join, Short DEF Lists
  <2>3. Lists'
    BY <2>1, <2>2 DEF Lists
  <2>4. Once'
    BY <1>0, <2>1, <2>2, Lengths DEF Once
  <2> QED
    BY <2>3, <2>4
<1>5. CASE Bump \/ SetFlag \/ Signal \/ Inject
  <2>1. UNCHANGED <<cmdq, stdinq, left, block, ran, gone>> /\ HandedOver' = HandedOver
    BY <1>5 DEF Bump, SetFlag, Signal, Inject, lines, locals, HandedOver
  <2> QED
    BY <1>0, <2>1, NothingMoves
<1> QED
  BY <1>1, <1>2, <1>3, <1>4, <1>5 DEF Keyboard

(* The worker takes a line from the queue, *)
LEMMA GetMoves ==
  ASSUME Types, Lists, Once, Get
  PROVE  Lists' /\ Once' /\ cur' \in 1 .. Len(script)
<1>1. /\ pc = "get" /\ pc' = "snap" /\ cmdq # <<>> /\ cur' = Head(cmdq) /\ cmdq' = Tail(cmdq)
      /\ HandedOver' = HandedOver /\ UNCHANGED <<stdinq, left, block, ran, gone>>
  BY DEF Get, Goto, keyboard, locals, HandedOver
<1>2. /\ cur' \in Nat /\ cmdq' \in Seq(Nat) /\ Len(cmdq) = Len(cmdq') + 1
      /\ Rng(cmdq) = {cur'} \cup Rng(cmdq')
  BY <1>1, Take DEF Lists
<1>3. Held' = <<cur'>> /\ Len(Held') = 1 /\ Rng(Held') = {cur'}
  <2>1. Held' = <<cur'>>
    BY <1>1 DEF Held
  <2> QED
    BY <1>2, <2>1, Short
<1>4. Lists'
  BY <1>1, <1>2 DEF Lists
<1>5. Len(cmdq') \in Nat
  BY <1>2
<1>6. Once'
  BY <1>1, <1>2, <1>3, <1>5, Lengths, HeldIs DEF Once
<1>7. cur' \in 1 .. Len(script)
  BY <1>2, LineOfScript
<1> QED
  BY <1>4, <1>6, <1>7

(* executes it, or adds it to a block, *)
LEMMA RunMoves ==
  ASSUME Types, Lists, Once, RunProcess \/ RunBuiltin \/ OpenBlock \/ RunPython
  PROVE  Lists' /\ Once'
<1>0. /\ pc = "run" /\ pc' \in {"spawn", "finish", "input", "python"} /\ UNCHANGED <<cmdq, stdinq, left, gone>>
      /\ HandedOver' = HandedOver /\ cur \in Nat
      /\ Len(Held) = 1 /\ Rng(Held) = {cur} /\ Len(Held') = 0 /\ Rng(Held') = {}
  <2>1. /\ pc = "run" /\ pc' \in {"spawn", "finish", "input", "python"} /\ UNCHANGED <<cmdq, stdinq, left, gone>>
        /\ HandedOver' = HandedOver
    BY DEF RunProcess, RunBuiltin, OpenBlock, RunPython, Goto, keyboard, locals, HandedOver
  <2>2. Held' = <<>>
    BY <2>1 DEF Held
  <2> QED
    BY <2>1, <2>2, HeldIs, Short DEF Types
<1>1. CASE RunProcess \/ RunBuiltin
  <2>1. ran' = Append(ran, cur) /\ block' = block
    BY <1>1 DEF RunProcess, RunBuiltin
  <2>2. ran' \in Seq(Nat) /\ Len(ran') = Len(ran) + 1 /\ Rng(ran') = Rng(ran) \cup {cur}
    BY <1>0, <2>1, Put DEF Lists
  <2>3. Lists'
    BY <1>0, <2>1, <2>2 DEF Lists
  <2>4. Once'
    BY <1>0, <2>1, <2>2, Lengths DEF Once
  <2> QED
    BY <2>3, <2>4
<1>2. CASE OpenBlock
  <2>1. block' = Append(block, cur) /\ ran' = ran
    BY <1>2 DEF OpenBlock
  <2>2. block' \in Seq(Nat) /\ Len(block') = Len(block) + 1 /\ Rng(block') = Rng(block) \cup {cur}
    BY <1>0, <2>1, Put DEF Lists
  <2>3. Lists'
    BY <1>0, <2>1, <2>2 DEF Lists
  <2>4. Once'
    BY <1>0, <2>1, <2>2, Lengths DEF Once
  <2> QED
    BY <2>3, <2>4
<1>3. CASE RunPython
  <2>1. PICK b : b = Append(block, cur) /\ ran' = ran \o b /\ block' = <<>>
    BY <1>3 DEF RunPython
  <2>2. b \in Seq(Nat) /\ Len(b) = Len(block) + 1 /\ Rng(b) = Rng(block) \cup {cur}
    BY <1>0, <2>1, Put DEF Lists
  <2>3. /\ ran' \in Seq(Nat) /\ Len(ran') = Len(ran) + (Len(block) + 1)
        /\ Rng(ran') = Rng(ran) \cup Rng(block) \cup {cur}
        /\ block' \in Seq(Nat) /\ Len(block') = 0 /\ Rng(block') = {}
    <3>1. ran' \in Seq(Nat) /\ Len(ran') = Len(ran) + Len(b) /\ Rng(ran') = Rng(ran) \cup Rng(b)
      BY <2>1, <2>2, Join DEF Lists
    <3>2. block' \in Seq(Nat) /\ Len(block') = 0 /\ Rng(block') = {}
      BY <2>1, Short
    <3> QED
      BY <2>2, <3>1, <3>2
  <2>4. Lists'
    BY <1>0, <2>3 DEF Lists
  <2>5. Once'
    BY <1>0, <2>3, Lengths DEF Once
  <2> QED
    BY <2>4, <2>5
<1> QED
  BY <1>1, <1>2, <1>3

(* hands type-ahead to the program that reads it, *)
LEMMA ReadMoves ==
  ASSUME Types, Lists, Once, ReadStdin
  PROVE  Lists' /\ Once'
<1>1. /\ pc = "input" /\ pc' = "python" /\ stdinq # <<>> /\ gone' = Append(gone, Head(stdinq)) /\ stdinq' = Tail(stdinq)
      /\ HandedOver' = HandedOver /\ UNCHANGED <<cmdq, left, block, ran>>
  BY DEF ReadStdin, Goto, keyboard, locals, HandedOver
<1>2. Held' = Held
  BY <1>1 DEF Held
<1>3. PICK l \in Nat : l = Head(stdinq)
  BY <1>1, Take DEF Lists
<1>4. /\ stdinq' \in Seq(Nat) /\ Len(stdinq) = Len(stdinq') + 1 /\ Rng(stdinq) = {l} \cup Rng(stdinq')
      /\ gone' \in Seq(Nat) /\ Len(gone') = Len(gone) + 1 /\ Rng(gone') = Rng(gone) \cup {l}
  BY <1>1, <1>3, Take, Put DEF Lists
<1>5. Lists'
  BY <1>1, <1>4 DEF Lists
<1>6. Len(stdinq') \in Nat /\ Len(gone') \in Nat
  BY <1>4
<1>7. Once'
  BY <1>1, <1>2, <1>4, <1>6, Lengths DEF Once
<1> QED
  BY <1>5, <1>7

(* takes what was left of it when the command ends, to resubmit or to      *)
(* discard,                                                                *)
LEMMA DrainMoves ==
  ASSUME Types, Lists, Once, Drain
  PROVE  Lists' /\ Once'
<1>1. /\ pc = "drain" /\ pc' \in {"unlatch", "resubmit"} /\ stdinq' = <<>> /\ left = <<>>
      /\ HandedOver' = HandedOver /\ UNCHANGED <<cmdq, block, ran>>
      /\ \/ interrupted /\ left' = <<>> /\ gone' = gone \o stdinq
         \/ ~ interrupted /\ left' = stdinq /\ gone' = gone
  BY DEF Drain, Goto, keyboard, HandedOver, Types
<1>2. Held' = Held
  BY <1>1 DEF Held
<1>3. <<>> \in Seq(Nat) /\ Len(<<>>) = 0 /\ Rng(<<>>) = {}
  BY Short
<1>4. CASE interrupted
  <2>1. gone' \in Seq(Nat) /\ Len(gone') = Len(gone) + Len(stdinq) /\ Rng(gone') = Rng(gone) \cup Rng(stdinq)
    BY <1>1, <1>4, Join DEF Lists
  <2>2. Lists'
    BY <1>1, <1>3, <1>4, <2>1 DEF Lists
  <2>3. Once'
    BY <1>1, <1>2, <1>3, <1>4, <2>1, Lengths DEF Once
  <2> QED
    BY <2>2, <2>3
<1>5. CASE ~ interrupted
  <2>1. Lists'
    BY <1>1, <1>3, <1>5 DEF Lists
  <2>2. Once'
    BY <1>1, <1>2, <1>3, <1>5, Lengths DEF Once
  <2> QED
    BY <2>1, <2>2
<1> QED
  BY <1>4, <1>5

(* and submits it again, line by line. *)
LEMMA ResubmitMoves ==
  ASSUME Types, Lists, Once, Resubmit
  PROVE  Lists' /\ Once'
<1>1. /\ pc = "resubmit" /\ pc' = "resubmit" /\ left # <<>> /\ Submit(Head(left)) /\ left' = Tail(left)
      /\ HandedOver' = HandedOver /\ UNCHANGED <<stdinq, ran>>
  BY DEF Resubmit, Goto, keyboard, HandedOver
<1>2. Held' = Held
  BY <1>1 DEF Held
<1>3. PICK l \in Nat : l = Head(left)
  BY <1>1, Take DEF Lists
<1>4. left' \in Seq(Nat) /\ Len(left) = Len(left') + 1 /\ Rng(left) = {l} \cup Rng(left')
  BY <1>1, <1>3, Take DEF Lists
<1>5. /\ cmdq' \in Seq(Nat) /\ block' \in Seq(Nat) /\ gone' \in Seq(Nat)
      /\ Len(cmdq') + Len(block') + Len(gone') = Len(cmdq) + Len(block) + Len(gone) + 1
      /\ Rng(cmdq') \cup Rng(block') \cup Rng(gone') = Rng(cmdq) \cup Rng(block) \cup Rng(gone) \cup {l}
  BY <1>1, <1>3, SubmitMoves
<1>6. Lists'
  BY <1>1, <1>4, <1>5 DEF Lists
<1>7. Len(cmdq') + Len(stdinq') + Len(left') + Len(Held') + Len(block') + Len(ran') + Len(gone') = HandedOver'
  <2>1. /\ Len(cmdq') + Len(block') + Len(gone') = Len(cmdq) + Len(block) + Len(gone) + 1
        /\ Len(stdinq') = Len(stdinq) /\ Len(left) = Len(left') + 1 /\ Len(ran') = Len(ran)
        /\ Len(Held') = Len(Held) /\ HandedOver' = HandedOver
        /\ Len(cmdq) + Len(stdinq) + Len(left) + Len(Held) + Len(block) + Len(ran) + Len(gone) = HandedOver
    BY <1>1, <1>2, <1>4, <1>5 DEF Once
  <2>2. /\ Len(cmdq) \in Nat /\ Len(stdinq) \in Nat /\ Len(left) \in Nat /\ Len(Held) \in Nat
        /\ Len(block) \in Nat /\ Len(ran) \in Nat /\ Len(gone) \in Nat /\ HandedOver \in Nat
        /\ Len(cmdq') \in Nat /\ Len(block') \in Nat /\ Len(gone') \in Nat /\ Len(left') \in Nat
    BY <1>4, <1>5, Lengths
  <2> QED
    BY ONLY <2>1, <2>2
<1>8. Once'
  BY <1>1, <1>2, <1>4, <1>5, <1>7 DEF Once
<1> QED
  BY <1>6, <1>8

(* A KeyboardInterrupt in the command loses the line not yet executed, and *)
(* one outside the try statement also the type-ahead in hand.              *)
LEMMA RaiseMoves ==
  ASSUME Types, Lists, Once, Raise
  PROVE  Lists' /\ Once'
<1>0. HandedOver' = HandedOver /\ UNCHANGED <<cmdq, stdinq, block, ran>> /\ cur \in Nat
  BY DEF Raise, RaisedIdle, RaisedInPython, RaisedInCommand, RaisedUnprotected, keyboard, lines, HandedOver, Types
<1>1. CASE RaisedIdle \/ RaisedInPython
  <2>1. UNCHANGED <<left, gone>> /\ Held' = Held
    BY <1>1 DEF RaisedIdle, RaisedInPython, locals, lines, Held
  <2> QED
    BY <1>0, <2>1, NothingMoves
<1>2. CASE RaisedInCommand
  <2>1. left' = left /\ pc \in {"run"} \cup Subprocess /\ pc' = "finish"
        /\ gone' = IF pc = "run" THEN Append(gone, cur) ELSE gone
    BY <1>2 DEF RaisedInCommand, locals
  <2>2. Held' = <<>>
    BY <2>1 DEF Held
  <2>3. Len(Held') = 0 /\ Rng(Held') = {}
    BY <2>2, Short
  <2>4. CASE pc = "run"
    <3>1. gone' \in Seq(Nat) /\ Len(gone') = Len(gone) + 1 /\ Rng(gone') = Rng(gone) \cup {cur}
      BY <1>0, <2>1, <2>4, Put DEF Lists
    <3>2. Len(Held) = 1 /\ Rng(Held) = {cur}
      BY <2>4, HeldIs
    <3>3. Lists'
      BY <1>0, <2>1, <3>1 DEF Lists
    <3>4. left' = left
      BY <2>1
    <3>5. Once'
      BY <1>0, <2>3, <3>1, <3>2, <3>4, Lengths DEF Once
    <3> QED
      BY <3>3, <3>5
  <2>5. CASE pc # "run"
    <3>1. gone' = gone /\ Held' = Held
      BY <2>1, <2>2, <2>5 DEF Held, Subprocess
    <3> QED
      BY <1>0, <2>1, <3>1, NothingMoves
  <2> QED
    BY <2>4, <2>5
<1>3. CASE RaisedUnprotected
  <2>1. left' = <<>> /\ pc' = "dead" /\ gone' = gone \o Held \o left
    BY <1>3 DEF RaisedUnprotected, Held, Unprotected
  <2>2. Held' = <<>>
    BY <2>1 DEF Held
  <2>3. /\ Len(Held') = 0 /\ Rng(Held') = {}
        /\ left' \in Seq(Nat) /\ Len(left') = 0 /\ Rng(left') = {}
    BY <2>1, <2>2, Short
  <2>4. PICK z \in Seq(Nat) : /\ z = gone \o Held /\ Len(z) = Len(gone) + Len(Held)
                              /\ Rng(z) = Rng(gone) \cup Rng(Held)
    BY HeldIs, Join DEF Lists
  <2>5. /\ gone' \in Seq(Nat) /\ Len(gone') = Len(gone) + Len(Held) + Len(left)
        /\ Rng(gone') = Rng(gone) \cup Rng(Held) \cup Rng(left)
    <3>1. gone' = z \o left
      BY <2>1, <2>4
    <3>2. gone' \in Seq(Nat) /\ Len(gone') = Len(z) + Len(left) /\ Rng(gone') = Rng(z) \cup Rng(left)
      BY <3>1, Join DEF Lists
    <3> QED
      BY <2>4, <3>2
  <2>6. Lists'
    BY <1>0, <2>3, <2>5 DEF Lists
  <2>7. Once'
    BY <1>0, <2>3, <2>5, Lengths DEF Once
  <2> QED
    BY <2>6, <2>7
<1> QED
  BY <1>1, <1>2, <1>3 DEF Raise

(* The other steps of the worker, the processes and the timers leave the   *)
(* lines where they are.                                                   *)
Quiet ==
  \/ Snap \/ SetBusy \/ Compare \/ Clear \/ PythonEnds \/ InputInterrupted
  \/ Spawn \/ Register \/ PollFlag \/ Wait \/ LeaveSubprocess
  \/ ReadInterrupted \/ ClearBusy \/ Unlatch \/ Finished
  \/ ProcessExits \/ Escalate

(* They are in the same lists, and the worker holds the same line. *)
LEMMA QuietMoves ==
  ASSUME Types, Lists, Once, Quiet
  PROVE  Lists' /\ Once'
<1>1. UNCHANGED <<cmdq, stdinq, left, block, ran, gone, cur, typed, kpc>>
  BY DEF Quiet, Snap, SetBusy, Compare, Clear, PythonEnds, InputInterrupted, Spawn, Register, PollFlag, Wait,
         LeaveSubprocess, ReadInterrupted, ClearBusy, Unlatch, Finished, ProcessExits, Escalate,
         lines, locals, keyboard
<1>2. Held' = Held
  BY <1>1 DEF Quiet, Snap, SetBusy, Compare, Clear, PythonEnds, InputInterrupted, Spawn, Register, PollFlag, Wait,
         LeaveSubprocess, ReadInterrupted, ClearBusy, Unlatch, Finished, ProcessExits, Escalate, Goto, Held
<1>3. HandedOver' = HandedOver
  BY <1>1 DEF HandedOver
<1> QED
  BY <1>1, <1>2, <1>3, NothingMoves

-----------------------------------------------------------------------------
(* Types                                                                   *)

(* The keyboard thread stays within the script. *)
LEMMA TypesKeyboard ==
  ASSUME Types, Keyboard
  PROVE  Types'
<1>1. UNCHANGED <<script, pc, cur, proc, left>> /\ Len(script) \in Nat
  BY DEF Keyboard, TypeLine, PutStdin, SubmitLine, CtrlC, Bump, SetFlag, Signal, Inject, locals, children, Types
<1>2. /\ typed' \in 0 .. Len(script) /\ (kpc' \in {"stdin", "submit"} => typed' > 0)
      /\ kpc' \in {"idle", "stdin", "submit", "bump", "set", "signal", "inject"}
  BY <1>1 DEF Keyboard, TypeLine, PutStdin, SubmitLine, CtrlC, Bump, SetFlag, Signal, Inject, Types
<1> QED
  BY <1>1, <1>2 DEF Types

(* A command is at work only on a line of the script, and type-ahead is in *)
(* hand only while it is resubmitted.                                      *)
LEMMA TypesStep ==
  ASSUME Types, Lists, Once, Step
  PROVE  Types'
<1>0. UNCHANGED <<script, typed, kpc>>
  BY DEF Step, Get, Snap, SetBusy, Compare, Clear, RunProcess, RunBuiltin, OpenBlock, RunPython, PythonEnds,
         ReadStdin, InputInterrupted, Spawn, Register, PollFlag, Wait, LeaveSubprocess, ReadInterrupted,
         ClearBusy, Drain, Unlatch, Resubmit, Finished, keyboard
<1>1. CASE Get
  <2>1. pc' = "snap" /\ UNCHANGED <<left, proc>> /\ left = <<>>
    BY <1>1 DEF Get, Goto, locals, children, Types
  <2>2. cur' \in 1 .. Len(script)
    BY <1>1, GetMoves
  <2>3. cur' \in Nat
    BY <2>2
  <2> QED
    BY <1>0, <2>1, <2>2, <2>3 DEF Types, Steps
<1>2. CASE Spawn
  <2>1. /\ pc = "spawn" /\ pc' = "register" /\ UNCHANGED <<left, cur>>
        /\ proc' = [proc EXCEPT ![cur] = "live"]
    BY <1>2 DEF Spawn, Goto, locals
  <2>2. proc' \in [1 .. Len(script) -> {"none", "live", "dead"}]
    BY <2>1 DEF Types
  <2> QED
    BY <1>0, <2>1, <2>2 DEF Types, Holds, Subprocess, Steps
<1>3. CASE Drain \/ Resubmit \/ Finished
  <2>1. /\ UNCHANGED <<cur, proc>> /\ pc' \in {"unlatch", "resubmit", "get"}
        /\ pc' # "resubmit" => left' = <<>>
    BY <1>3 DEF Drain, Resubmit, Finished, Goto, children, locals
  <2> QED
    BY <1>0, <2>1 DEF Types, Holds, Subprocess, Steps
<1>4. CASE ~ (Get \/ Spawn \/ Drain \/ Resubmit \/ Finished)
  <2>1. UNCHANGED <<left, cur, proc>> /\ left = <<>> /\ pc' \in Steps /\ pc' # "resubmit"
    BY <1>4 DEF Step, Snap, SetBusy, Compare, Clear, RunProcess, RunBuiltin, OpenBlock, RunPython, PythonEnds,
         ReadStdin, InputInterrupted, Register, PollFlag, Wait, LeaveSubprocess, ReadInterrupted,
         ClearBusy, Unlatch, locals, children, Goto, Types, Steps, Subprocess
  <2>2. pc' \in Holds => pc \in Holds
    BY <1>4 DEF Step, Snap, SetBusy, Compare, Clear, RunProcess, RunBuiltin, OpenBlock, RunPython, PythonEnds,
         ReadStdin, InputInterrupted, Register, PollFlag, Wait, LeaveSubprocess, ReadInterrupted,
         ClearBusy, Unlatch, Goto, Holds, Subprocess
  <2> QED
    BY <1>0, <2>1, <2>2 DEF Types
<1> QED
  BY <1>1, <1>2, <1>3, <1>4

(* An exception takes the worker to the end of the command or of itself.   *)
LEMMA TypesRest ==
  ASSUME Types, Raise \/ ProcessExits \/ Escalate
  PROVE  Types'
<1>0. UNCHANGED <<script, typed, kpc, cur>>
  BY DEF Raise, RaisedIdle, RaisedInPython, RaisedInCommand, RaisedUnprotected, ProcessExits, Escalate, keyboard
<1>1. CASE Raise
  <2>1. proc' = proc
    BY <1>1 DEF Raise, RaisedIdle, RaisedInPython, RaisedInCommand, RaisedUnprotected, children
  <2>2. (pc' = pc \/ pc' \in {"finish", "dead"}) /\ (left' = left \/ left' = <<>>)
    BY <1>1 DEF Raise, RaisedIdle, RaisedInPython, RaisedInCommand, RaisedUnprotected, locals
  <2>3. pc' # "resubmit" => left' = <<>>
    BY <1>1 DEF Raise, RaisedIdle, RaisedInPython, RaisedInCommand, RaisedUnprotected, locals, Types, Subprocess
  <2> QED
    BY <1>0, <2>1, <2>2, <2>3 DEF Types, Holds, Subprocess, Steps
<1>2. CASE ProcessExits \/ Escalate
  <2>1. UNCHANGED <<pc, left>>
    BY <1>2 DEF ProcessExits, Escalate, locals
  <2>2. proc' \in [1 .. Len(script) -> {"none", "live", "dead"}]
    BY <1>2 DEF ProcessExits, Escalate, Types
  <2> QED
    BY <1>0, <2>1, <2>2 DEF Types
<1> QED
  BY <1>1, <1>2

-----------------------------------------------------------------------------
(* The spawn race                                                          *)

(* Between Register and the end of the wait the keyboard thread finds the  *)
(* process; before Register the worker itself looks at the latch.          *)
LEMMA SignalledKeyboard ==
  ASSUME Types, Registered, LatchedMeansSignalled, Keyboard
  PROVE  Registered' /\ LatchedMeansSignalled'
<1>0. UNCHANGED <<pc, cur, proc, procs>>
  BY DEF Keyboard, TypeLine, PutStdin, SubmitLine, CtrlC, Bump, SetFlag, Signal, Inject, children
<1>1. Registered'
  BY <1>0 DEF Registered
<1>2. CASE Signal
  <2>1. flag' = flag /\ sig' = sig \cup {l \in procs : Live(l)}
    BY <1>2 DEF Signal, latch
  <2>2. pc = "wait" => cur \in sig' \/ proc[cur] = "dead"
    BY <2>1 DEF Registered, Live
  <2> QED
    BY <1>0, <1>1, <2>2 DEF LatchedMeansSignalled
<1>3. CASE SetFlag
  BY <1>1, <1>3 DEF SetFlag, LatchedMeansSignalled
<1>4. CASE TypeLine \/ PutStdin \/ SubmitLine \/ CtrlC \/ Bump \/ Inject
  <2>1. UNCHANGED <<flag, sig>> /\ kpc # "signal"
    BY <1>4 DEF TypeLine, PutStdin, SubmitLine, CtrlC, Bump, Inject, children, latch
  <2> QED
    BY <1>0, <1>1, <2>1 DEF LatchedMeansSignalled
<1> QED
  BY <1>2, <1>3, <1>4 DEF Keyboard

(* The worker registers before it looks at the latch. *)
LEMMA SignalledStep ==
  ASSUME Types, Registered, LatchedMeansSignalled, Step
  PROVE  Registered' /\ LatchedMeansSignalled'
<1>1. CASE Spawn
  <2>1. /\ pc = "spawn" /\ pc' = "register" /\ cur' = cur /\ proc' = [proc EXCEPT ![cur] = "live"]
    BY <1>1 DEF Spawn, Goto
  <2>2. proc'[cur'] = "live"
    BY <2>1 DEF Types, Holds, Subprocess
  <2> QED
    BY <2>1, <2>2 DEF Registered, LatchedMeansSignalled
<1>2. CASE Register
  BY <1>2 DEF Register, Goto, Registered, LatchedMeansSignalled
<1>3. CASE PollFlag
  <2>1. /\ pc = "poll" /\ pc' \in {"wait", "leave"} /\ UNCHANGED <<cur, proc, procs, flag>>
        /\ sig' = IF flag /\ Live(cur) THEN sig \cup {cur} ELSE sig
    BY <1>3 DEF PollFlag, Goto, latch
  <2>2. flag => cur \in sig' \/ proc[cur] = "dead"
    BY <2>1 DEF Registered, Live
  <2> QED
    BY <2>1, <2>2 DEF Registered, LatchedMeansSignalled
<1>4. CASE ~ (Spawn \/ Register \/ PollFlag)
  <2>1. pc' \notin {"register", "poll", "wait"}
    BY <1>4 DEF Step, Get, Snap, SetBusy, Compare, Clear, RunProcess, RunBuiltin, OpenBlock, RunPython,
         PythonEnds, ReadStdin, InputInterrupted, Wait, LeaveSubprocess, ReadInterrupted,
         ClearBusy, Drain, Unlatch, Resubmit, Finished, Goto
  <2> QED
    BY <2>1 DEF Registered, LatchedMeansSignalled
<1> QED
  BY <1>1, <1>2, <1>3, <1>4

(* Where an exception takes it, it waits for no program; a timer kills.    *)
LEMMA SignalledRest ==
  ASSUME Types, Registered, LatchedMeansSignalled, Raise \/ ProcessExits \/ Escalate
  PROVE  Registered' /\ LatchedMeansSignalled'
<1>1. CASE Raise
  <2>1. pc' \notin {"register", "poll", "wait"}
    BY <1>1 DEF Raise, RaisedIdle, RaisedInPython, RaisedInCommand, RaisedUnprotected
  <2> QED
    BY <2>1 DEF Registered, LatchedMeansSignalled
<1>2. CASE ProcessExits \/ Escalate
  <2>1. UNCHANGED <<pc, cur, procs, flag, kpc, sig>>
    BY <1>2 DEF ProcessExits, Escalate, keyboard, latch
  <2>2. pc \in {"register", "poll", "wait"} => cur \in 1 .. Len(script)
    BY DEF Types, Holds, Subprocess
  <2>3. \A l \in 1 .. Len(script) : proc'[l] = proc[l] \/ proc'[l] = "dead"
    BY <1>2 DEF ProcessExits, Escalate, Types
  <2> QED
    BY <2>1, <2>2, <2>3 DEF Registered, LatchedMeansSignalled
<1> QED
  BY <1>1, <1>2

-----------------------------------------------------------------------------
(* The theorems                                                            *)

(* Initially no line has been typed. *)
LEMMA InitInv ==
  ASSUME Init
  PROVE  Inv
<1>1. /\ <<>> \in Seq(Nat) /\ Len(<<>>) = 0 /\ Rng(<<>>) = {}
  BY Short
<1>2. script \in Seq(Kinds) /\ Len(script) \in Nat /\ DOMAIN script = 1 .. Len(script)
  BY ConsoleAssumption DEF Init
<1>3. Types
  BY <1>2 DEF Init, Types, Steps, Holds, Subprocess
<1>4. Held = <<>> /\ HandedOver = 0
  BY DEF Init, Held, HandedOver
<1>5. Lists
  BY <1>1 DEF Init, Lists
<1>6. Once
  <2>1. cmdq = <<>> /\ stdinq = <<>> /\ left = <<>> /\ block = <<>> /\ ran = <<>> /\ gone = <<>>
    BY DEF Init
  <2>2. 1 .. 0 = {}
    OBVIOUS
  <2> QED
    BY <1>1, <1>4, <2>1, <2>2 DEF Once
<1>7. Registered /\ LatchedMeansSignalled
  BY DEF Init, Registered, LatchedMeansSignalled
<1> QED
  BY <1>3, <1>5, <1>6, <1>7 DEF Inv

(* Every step preserves the invariant. *)
LEMMA NextInv ==
  ASSUME Inv, [Next]_vars
  PROVE  Inv'
<1> USE DEF Inv
<1>1. CASE Keyboard
  BY <1>1, KeyboardMoves, TypesKeyboard, SignalledKeyboard
<1>2. CASE Step
  <2>1. Lists' /\ Once'
    BY <1>2, GetMoves, RunMoves, ReadMoves, DrainMoves, ResubmitMoves, QuietMoves DEF Step, Quiet
  <2> QED
    BY <1>2, <2>1, TypesStep, SignalledStep
<1>3. CASE Raise
  BY <1>3, RaiseMoves, TypesRest, SignalledRest
<1>4. CASE ProcessExits \/ Escalate
  BY <1>4, QuietMoves, TypesRest, SignalledRest DEF Quiet
<1>5. CASE UNCHANGED vars
  <2>1. Types' /\ Registered' /\ LatchedMeansSignalled'
    BY <1>5 DEF vars, keyboard, latch, locals, children, lines, Types, Registered, LatchedMeansSignalled
  <2>2. UNCHANGED <<cmdq, stdinq, left, block, ran, gone>> /\ Held' = Held /\ HandedOver' = HandedOver
    BY <1>5 DEF vars, keyboard, locals, lines, Held, HandedOver
  <2> QED
    BY <2>1, <2>2, NothingMoves
<1> QED
  BY <1>1, <1>2, <1>3, <1>4, <1>5 DEF Next

(* In every reachable state the lines are where they belong, and a program *)
(* that is waited for is registered.                                       *)
THEOREM Invariant == Spec => []Inv
<1>1. Init => Inv
  BY InitInv
<1>2. Inv /\ [Next]_vars => Inv'
  BY NextInv
<1> QED
  BY <1>1, <1>2, PTL DEF Spec

(* Every line typed is in exactly one place, whatever the keyboard thread, *)
(* the worker and Ctrl+C do in which order: none typed while a command     *)
(* ends is lost and none runs twice (_submit_line, _finish_command).       *)
THEOREM LinesAreKept == Spec => []EachLineOnce
<1>1. ASSUME Inv
      PROVE  EachLineOnce
  <2>1. PICK q1 \in Seq(Nat) : /\ q1 = cmdq \o stdinq /\ Len(q1) = Len(cmdq) + Len(stdinq)
                               /\ Rng(q1) = Rng(cmdq) \cup Rng(stdinq)
    BY <1>1, Join DEF Inv, Lists
  <2>2. PICK q2 \in Seq(Nat) : q2 = q1 \o left /\ Len(q2) = Len(q1) + Len(left) /\ Rng(q2) = Rng(q1) \cup Rng(left)
    BY <1>1, Join DEF Inv, Lists
  <2>3. PICK q3 \in Seq(Nat) : q3 = q2 \o Held /\ Len(q3) = Len(q2) + Len(Held) /\ Rng(q3) = Rng(q2) \cup Rng(Held)
    BY <1>1, Join, HeldIs DEF Inv
  <2>4. PICK q4 \in Seq(Nat) : q4 = q3 \o block /\ Len(q4) = Len(q3) + Len(block) /\ Rng(q4) = Rng(q3) \cup Rng(block)
    BY <1>1, Join DEF Inv, Lists
  <2>5. PICK q5 \in Seq(Nat) : q5 = q4 \o ran /\ Len(q5) = Len(q4) + Len(ran) /\ Rng(q5) = Rng(q4) \cup Rng(ran)
    BY <1>1, Join DEF Inv, Lists
  <2>6. PICK q6 \in Seq(Nat) : q6 = q5 \o gone /\ Len(q6) = Len(q5) + Len(gone) /\ Rng(q6) = Rng(q5) \cup Rng(gone)
    BY <1>1, Join DEF Inv, Lists
  <2>7. q6 = cmdq \o stdinq \o left \o Held \o block \o ran \o gone
    BY <2>1, <2>2, <2>3, <2>4, <2>5, <2>6
  <2>8. Len(q6) = HandedOver
    BY <1>1, <2>1, <2>2, <2>3, <2>4, <2>5, <2>6 DEF Inv, Once
  <2>9. Rng(q6) = 1 .. HandedOver
    BY <1>1, <2>1, <2>2, <2>3, <2>4, <2>5, <2>6 DEF Inv, Once
  <2>10. {q6[i] : i \in DOMAIN q6} = 1 .. HandedOver
    BY <2>9 DEF Rng
  <2> QED
    BY <2>7, <2>8, <2>10 DEF EachLineOnce
<1> QED
  BY <1>1, Invariant, PTL

(* With the latch set and interrupt() past its snapshot, a program still   *)
(* waited for has been sent SIGINT or is dead: the order of Register and   *)
(* PollFlag closes the race of _exec_subprocess_inner.                     *)
THEOREM SpawnRaceIsClosed == Spec => []LatchedMeansSignalled
<1>1. Inv => LatchedMeansSignalled
  BY DEF Inv
<1> QED
  BY <1>1, Invariant, PTL

-----------------------------------------------------------------------------
(* The process all commands run in (Interpreter), for any number of tabs   *)
(* and requests and any nesting of commands                                *)

Swapping == {"save", "set", "body", "finally"}
Values == Threads \cup Dirs \cup {None}

ProcessTypes ==
  /\ global \in [Things -> Values] /\ saved \in [Threads -> [Things -> Values]]
  /\ step \in [Threads -> Swapping \cup {"idle", "make", "given", "execute", "collect"}]
  /\ todo \in [Threads -> Seq(Things)] /\ held \in [Threads -> Seq(Things)]
  /\ cwd \in [Threads -> Dirs] /\ shown \in [Threads -> Dirs]
  /\ session \in Requests \cup {None} /\ mine \in [Threads -> Requests \cup {None}]
  /\ order \in Seq(Threads) /\ nested \in BOOLEAN

(* A request has the session it was given from get_session() to its end.   *)
Given ==
  /\ \A r \in Requests : step[r] = "given" => session # None
  /\ \A r \in Requests : step[r] \in Swapping \cup {"execute", "collect"} <=> mine[r] # None

(* Nothing is swapped twice by a command, or left over from the last one.  *)
Distinct(s) == \A i, j \in 1 .. Len(s) : s[i] = s[j] => i = j

Orderly(t) ==
  /\ step[t] \notin Swapping => held[t] = <<>>
  /\ Distinct(held[t])
  /\ step[t] \in {"save", "set"} =>
       todo[t] # <<>> /\ Distinct(todo[t]) /\ Rng(todo[t]) \cap Rng(held[t]) = {}

(* The commands that swap are those in order; while they are nested, all   *)
(* but the last are in the user's code.                                    *)
Bracketed ==
  /\ Distinct(order)
  /\ Rng(order) = {t \in Threads : step[t] \in Swapping}
  /\ nested => \A i \in 1 .. Len(order) - 1 : step[order[i]] = "body"

(* What a command has noted and will put back                              *)
Noted(t) == Rng(held[t]) \cup (IF step[t] = "set" THEN {Head(todo[t])} ELSE {})

(* v is what t made of x.                                                  *)
Fits(t, x, v) ==
  CASE x = "dir" -> cwd[Shell(t)] \in {v} \cup removed
    [] x = "progress" -> t \in Tabs => v = t
    [] OTHER -> v = t

(* What a command swapped is in place, or noted by the first command after *)
(* it that swapped the same thing.                                         *)
Layered == nested => \A i \in 1 .. Len(order) : \A x \in Rng(held[order[i]]) :
  /\ (\A j \in i + 1 .. Len(order) : x \notin Noted(order[j])) => Fits(order[i], x, global[x])
  /\ \A j \in i + 1 .. Len(order) :
       x \in Noted(order[j]) /\ (\A k \in i + 1 .. j - 1 : x \notin Noted(order[k]))
         => Fits(order[i], x, saved[order[j]][x])

ProcessInv ==
  /\ ProcessTypes /\ Given /\ PromptIsTrue /\ (\A t \in Threads : Orderly(t)) /\ Bracketed /\ Layered

-----------------------------------------------------------------------------
(* Sequences without duplicates: their first element is taken,             *)
LEMMA Popped ==
  ASSUME NEW S, NEW s \in Seq(S), s # <<>>, Distinct(s)
  PROVE  /\ Head(s) \in S /\ Head(s) \in Rng(s) /\ Head(s) = s[1] /\ Tail(s) \in Seq(S)
         /\ Distinct(Tail(s)) /\ Rng(Tail(s)) = Rng(s) \ {Head(s)}
         /\ Len(s) # 1 => Tail(s) # <<>>
<1>1. /\ Head(s) \in S /\ Head(s) = s[1] /\ Tail(s) \in Seq(S) /\ Len(s) \in Nat \ {0}
      /\ Len(Tail(s)) = Len(s) - 1
      /\ \A i \in 1 .. Len(s) - 1 : Tail(s)[i] = s[i + 1]
  OBVIOUS
<1>2. Distinct(Tail(s))
  <2> SUFFICES ASSUME NEW i \in 1 .. Len(s) - 1, NEW j \in 1 .. Len(s) - 1, s[i + 1] = s[j + 1]
               PROVE  i = j
    BY <1>1 DEF Distinct
  <2>1. i + 1 \in 1 .. Len(s) /\ j + 1 \in 1 .. Len(s)
    BY <1>1
  <2> QED
    BY <1>1, <2>1 DEF Distinct
<1>3. ASSUME NEW x \in Rng(Tail(s))
      PROVE  x \in Rng(s) \ {Head(s)}
  <2>1. PICK i \in 1 .. Len(s) - 1 : x = Tail(s)[i]
    BY <1>1 DEF Rng
  <2>2. x = s[i + 1] /\ i + 1 \in 1 .. Len(s) /\ i + 1 # 1 /\ 1 \in 1 .. Len(s)
    BY <1>1, <2>1
  <2> QED
    BY <1>1, <2>2 DEF Rng, Distinct
<1>4. ASSUME NEW x \in Rng(s), x # Head(s)
      PROVE  x \in Rng(Tail(s))
  <2>1. PICK i \in 1 .. Len(s) : x = s[i]
    BY DEF Rng
  <2>2. i - 1 \in 1 .. Len(s) - 1 /\ Tail(s)[i - 1] = x
    BY <1>1, <1>4, <2>1
  <2> QED
    BY <1>1, <2>2, Elements
<1> QED
  <2>1. Head(s) \in Rng(s)
    BY <1>1, Elements
  <2>2. Len(s) # 1 => Tail(s) # <<>>
    <3>1. Tail(s) = <<>> => Len(Tail(s)) = 0
      OBVIOUS
    <3> QED
      BY <1>1, <3>1
  <2> QED
    BY <1>1, <1>2, <1>3, <1>4, <2>1, <2>2

(* an element is put in front,                                             *)
LEMMA Pushed ==
  ASSUME NEW S, NEW s \in Seq(S), NEW x \in S, Distinct(s), x \notin Rng(s)
  PROVE  /\ <<x>> \o s \in Seq(S) /\ Distinct(<<x>> \o s) /\ Rng(<<x>> \o s) = Rng(s) \cup {x}
<1>1. PICK z \in Seq(S), n \in Nat :
        /\ z = <<x>> \o s /\ n = Len(s) /\ Len(z) = n + 1 /\ z[1] = x
        /\ \A i \in 2 .. n + 1 : z[i] = s[i - 1]
  <2>1. /\ <<x>> \in Seq(S) /\ Len(<<x>>) = 1 /\ <<x>> \o s \in Seq(S) /\ Len(s) \in Nat
        /\ Len(<<x>> \o s) = Len(s) + 1
    OBVIOUS
  <2>2. (<<x>> \o s)[1] = x /\ \A i \in 2 .. Len(s) + 1 : (<<x>> \o s)[i] = s[i - 1]
    OBVIOUS
  <2> QED
    BY <2>1, <2>2
<1>2. /\ \A i \in 1 .. n : s[i] \in Rng(s) /\ s[i] # x
      /\ \A y \in Rng(s) : \E i \in 1 .. n : y = s[i]
  BY <1>1, Elements
<1>3. Distinct(z)
  <2> SUFFICES ASSUME NEW i \in 1 .. n + 1, NEW j \in 1 .. n + 1, z[i] = z[j]
               PROVE  i = j
    BY <1>1 DEF Distinct
  <2>1. CASE i = 1 \/ j = 1
    <3>1. \A k \in 1 .. n + 1 : k # 1 => k - 1 \in 1 .. n /\ z[k] = s[k - 1]
      BY <1>1
    <3> QED
      BY <1>1, <1>2, <2>1, <3>1
  <2>2. CASE i # 1 /\ j # 1
    <3>1. i \in 2 .. n + 1 /\ j \in 2 .. n + 1
      BY <2>2
    <3>2. i - 1 \in 1 .. n /\ j - 1 \in 1 .. n /\ s[i - 1] = s[j - 1]
      BY <1>1, <3>1
    <3>3. i - 1 = j - 1
      BY <1>1, <3>2 DEF Distinct
    <3> QED
      BY <3>1, <3>3
  <2> QED
    BY <2>1, <2>2
<1>4. ASSUME NEW y \in Rng(z)
      PROVE  y \in Rng(s) \cup {x}
  <2>1. PICK i \in 1 .. n + 1 : y = z[i]
    BY <1>1 DEF Rng
  <2>2. i = 1 \/ (i - 1 \in 1 .. n /\ y = s[i - 1])
    BY <1>1, <2>1
  <2> QED
    BY <1>1, <1>2, <2>1, <2>2
<1>5. ASSUME NEW y \in Rng(s)
      PROVE  y \in Rng(z)
  <2>1. PICK i \in 1 .. n : y = s[i]
    BY <1>2
  <2>2. i + 1 \in 1 .. n + 1 /\ z[i + 1] = y
    BY <1>1, <2>1
  <2> QED
    BY <1>1, <2>2, Elements
<1>6. x \in Rng(z)
  <2>1. 1 \in 1 .. n + 1
    OBVIOUS
  <2> QED
    BY <1>1, <2>1, Elements
<1> QED
  BY <1>1, <1>3, <1>4, <1>5, <1>6

(* one is added at the end,                                                *)
LEMMA Added ==
  ASSUME NEW S, NEW s \in Seq(S), NEW x \in S, Distinct(s), x \notin Rng(s)
  PROVE  /\ Append(s, x) \in Seq(S) /\ Distinct(Append(s, x)) /\ Rng(Append(s, x)) = Rng(s) \cup {x}
         /\ Len(Append(s, x)) = Len(s) + 1 /\ Append(s, x)[Len(s) + 1] = x
         /\ \A i \in 1 .. Len(s) : Append(s, x)[i] = s[i]
<1>1. /\ Append(s, x) \in Seq(S) /\ Len(Append(s, x)) = Len(s) + 1 /\ Len(s) \in Nat
      /\ Append(s, x)[Len(s) + 1] = x
      /\ \A i \in 1 .. Len(s) : Append(s, x)[i] = s[i]
  OBVIOUS
<1>2. \A i \in 1 .. Len(s) : s[i] \in Rng(s) /\ s[i] # x
  BY DEF Rng
<1>3. Distinct(Append(s, x))
  BY <1>1, <1>2 DEF Distinct
<1>4. Rng(Append(s, x)) = Rng(s) \cup {x}
  BY <1>1 DEF Rng
<1> QED
  BY <1>1, <1>3, <1>4

(* and one is taken out.                                                   *)
LEMMA TakenOut ==
  ASSUME NEW S, NEW s \in Seq(S), NEW k \in 1 .. Len(s), Distinct(s)
  PROVE  /\ RemoveAt(s, k) \in Seq(S) /\ Distinct(RemoveAt(s, k))
         /\ Rng(RemoveAt(s, k)) = Rng(s) \ {s[k]}
         /\ Len(RemoveAt(s, k)) = Len(s) - 1
         /\ \A i \in 1 .. k - 1 : RemoveAt(s, k)[i] = s[i]
<1>1. PICK z \in Seq(S), n \in Nat :
        /\ z = RemoveAt(s, k) /\ n = Len(s) /\ Len(z) = n - 1 /\ n > 0
        /\ \A i \in 1 .. n - 1 : z[i] = IF i < k THEN s[i] ELSE s[i + 1]
  <2> DEFINE p == SubSeq(s, 1, k - 1)
             q == SubSeq(s, k + 1, Len(s))
  <2>1. p \in Seq(S) /\ Len(p) = k - 1 /\ \A i \in 1 .. k - 1 : p[i] = s[i]
    BY SubSeqProperties
  <2>2. q \in Seq(S) /\ Len(q) = Len(s) - k /\ \A i \in 1 .. Len(s) - k : q[i] = s[k + i]
    BY SubSeqProperties
  <2>3. RemoveAt(s, k) = p \o q
    BY DEF RemoveAt
  <2> HIDE DEF p, q
  <2>4. /\ p \o q \in Seq(S) /\ Len(p \o q) = Len(p) + Len(q)
        /\ \A i \in 1 .. Len(p) + Len(q) : (p \o q)[i] = IF i <= Len(p) THEN p[i] ELSE q[i - Len(p)]
    BY <2>1, <2>2, ConcatProperties
  <2>5. ASSUME NEW i \in 1 .. Len(s) - 1
        PROVE  (p \o q)[i] = IF i < k THEN s[i] ELSE s[i + 1]
    <3>1. CASE i < k
      BY <2>1, <2>2, <2>4, <3>1
    <3>2. CASE ~(i < k)
      <4>1. i - (k - 1) \in 1 .. Len(s) - k /\ k + (i - (k - 1)) = i + 1
        BY <3>2
      <4>2. (p \o q)[i] = q[i - (k - 1)]
        BY <2>1, <2>2, <2>4, <3>2
      <4>3. q[i - (k - 1)] = s[k + (i - (k - 1))]
        BY <2>2, <4>1
      <4> QED
        BY <3>2, <4>1, <4>2, <4>3
    <3> QED
      BY <3>1, <3>2
  <2>6. RemoveAt(s, k) \in Seq(S) /\ Len(RemoveAt(s, k)) = Len(s) - 1
    BY <2>1, <2>2, <2>3, <2>4
  <2>7. \A i \in 1 .. Len(s) - 1 : RemoveAt(s, k)[i] = IF i < k THEN s[i] ELSE s[i + 1]
    BY <2>3, <2>5
  <2>8. Len(s) \in Nat /\ Len(s) > 0
    OBVIOUS
  <2> QED
    BY <2>6, <2>7, <2>8
<1>2. Distinct(z)
  <2> SUFFICES ASSUME NEW i \in 1 .. n - 1, NEW j \in 1 .. n - 1, z[i] = z[j]
               PROVE  i = j
    BY <1>1 DEF Distinct
  <2>1. i \in 1 .. n /\ i + 1 \in 1 .. n /\ j \in 1 .. n /\ j + 1 \in 1 .. n
    BY <1>1
  <2> QED
    BY <1>1, <2>1 DEF Distinct
<1>3. ASSUME NEW y \in Rng(z)
      PROVE  y \in Rng(s) \ {s[k]}
  <2>1. PICK i \in 1 .. n - 1 : y = z[i]
    BY <1>1 DEF Rng
  <2>2. PICK j \in 1 .. n : j # k /\ y = s[j]
    BY <1>1, <2>1
  <2> QED
    BY <1>1, <2>2 DEF Rng, Distinct
<1>4. ASSUME NEW y \in Rng(s), y # s[k]
      PROVE  y \in Rng(z)
  <2>1. PICK j \in 1 .. n : j # k /\ y = s[j]
    BY <1>1, <1>4 DEF Rng
  <2>2. PICK i \in 1 .. n - 1 : y = z[i]
    <3>1. CASE j < k
      BY <1>1, <2>1, <3>1
    <3>2. CASE j > k
      <4>1. j - 1 \in 1 .. n - 1 /\ z[j - 1] = s[j]
        BY <1>1, <3>2
      <4> QED
        BY <2>1, <4>1
    <3> QED
      BY <2>1, <3>1, <3>2
  <2> QED
    BY <1>1, <2>2 DEF Rng
<1> QED
  BY <1>1, <1>2, <1>3, <1>4

-----------------------------------------------------------------------------
(* The commands in progress                                                *)

(* A command runs with the shell of its tab, or of the session the request *)
(* was given.                                                              *)
LEMMA ShellIs ==
  ASSUME ProcessTypes, Given, NEW t \in Threads, step[t] \in Swapping \cup {"execute", "collect"}
  PROVE  /\ Shell(t) \in Threads
         /\ t \in Tabs => Shell(t) = t
         /\ t \in Requests => Shell(t) = mine[t] /\ Shell(t) \in Requests
  BY InterpreterAssumption DEF ProcessTypes, Given, Shell, Threads

(* order lists them, each once.                                            *)
LEMMA Ordered ==
  ASSUME ProcessTypes, Bracketed
  PROVE  /\ Len(order) \in Nat
         /\ \A i \in 1 .. Len(order) : order[i] \in Threads /\ step[order[i]] \in Swapping
         /\ \A t \in Threads : step[t] \in Swapping => \E i \in 1 .. Len(order) : t = order[i]
         /\ \A i, j \in 1 .. Len(order) : order[i] = order[j] => i = j
<1>1. order \in Seq(Threads) /\ Len(order) \in Nat
  BY DEF ProcessTypes
<1> QED
  BY <1>1, Elements DEF Bracketed, Distinct

(* While they are nested only the last one swaps or puts back.             *)
LEMMA LastSwaps ==
  ASSUME ProcessTypes, Bracketed, nested,
         NEW t \in Threads, step[t] \in Swapping \ {"body"}
  PROVE  /\ Len(order) \in Nat \ {0} /\ order[Len(order)] = t
         /\ \A i \in 1 .. Len(order) - 1 : order[i] # t
<1>1. PICK i \in 1 .. Len(order) : t = order[i]
  BY Ordered
<1>2. i = Len(order)
  BY <1>1, Ordered DEF Bracketed
<1> QED
  BY <1>1, <1>2, Ordered

(* What the commands swapped stays in place, and what they noted stays     *)
(* noted, if a step changes neither, and leaves each in its directory or   *)
(* ends the nesting.                                                       *)
LEMMA SameLayers ==
  ASSUME ProcessTypes, Bracketed, Layered, UNCHANGED <<global, held, saved, order>>,
         nested' => nested, removed \subseteq removed',
         \A t \in Threads : step[t] \in Swapping => Noted(t)' = Noted(t),
         nested' => \A t \in Threads : step[t] \in Swapping => cwd'[Shell(t)'] = cwd[Shell(t)]
  PROVE  Layered'
<1> SUFFICES ASSUME nested', NEW i \in 1 .. Len(order), NEW x \in Rng(held[order[i]])
             PROVE  /\ (\A j \in i + 1 .. Len(order) : x \notin Noted(order[j])') =>
                          Fits(order[i], x, global[x])'
                    /\ \A j \in i + 1 .. Len(order) :
                         x \in Noted(order[j])' /\ (\A k \in i + 1 .. j - 1 : x \notin Noted(order[k])')
                           => Fits(order[i], x, saved[order[j]][x])'
  BY DEF Layered
<1>1. \A j \in i + 1 .. Len(order) : j \in 1 .. Len(order) /\ Noted(order[j])' = Noted(order[j])
  BY Ordered
<1>2. \A j \in i + 1 .. Len(order) : \A k \in i + 1 .. j - 1 : k \in i + 1 .. Len(order)
  BY Ordered
<1>3. cwd'[Shell(order[i])'] = cwd[Shell(order[i])]
  BY Ordered
<1>4. ASSUME \A j \in i + 1 .. Len(order) : x \notin Noted(order[j])'
      PROVE  Fits(order[i], x, global[x])'
  <2>1. Fits(order[i], x, global[x])
    BY <1>1, <1>4 DEF Layered
  <2> QED
    BY <1>3, <2>1 DEF Fits
<1>5. ASSUME NEW j \in i + 1 .. Len(order), x \in Noted(order[j])',
             \A k \in i + 1 .. j - 1 : x \notin Noted(order[k])'
      PROVE  Fits(order[i], x, saved[order[j]][x])'
  <2>1. Fits(order[i], x, saved[order[j]][x])
    BY <1>1, <1>2, <1>5 DEF Layered
  <2> QED
    BY <1>3, <2>1 DEF Fits
<1> QED
  BY <1>4, <1>5

(* So it is with a step of a thread that swaps nothing.                    *)
LEMMA Beside ==
  ASSUME ProcessTypes, Bracketed, Layered, \A t \in Threads : Orderly(t),
         UNCHANGED <<global, todo, held, saved, order>>, nested' => nested,
         removed \subseteq removed',
         \A t \in Threads : step[t] \in Swapping \/ step'[t] \in Swapping =>
           step'[t] = step[t] /\ mine'[t] = mine[t],
         nested' => \A t \in Threads : step[t] \in Swapping => cwd'[Shell(t)] = cwd[Shell(t)]
  PROVE  (\A t \in Threads : Orderly(t)') /\ Bracketed' /\ Layered'
<1>1. \A t \in Threads : Orderly(t)'
  BY DEF Orderly, Swapping
<1>2. Bracketed'
  BY Ordered DEF Bracketed
<1>3. \A t \in Threads : step[t] \in Swapping => Shell(t)' = Shell(t) /\ Noted(t)' = Noted(t)
  BY DEF Shell, Noted, Swapping
<1>4. Layered'
  BY <1>3, SameLayers
<1> QED
  BY <1>1, <1>2, <1>4

(* What a thread that swaps nothing does leaves the invariant: a request   *)
(* gets its session, changes its directory or collects the result,         *)
LEMMA RequestAside ==
  ASSUME ProcessInv, NEW r \in Requests,
         GetSession(r) \/ MakeSession(r) \/ GivenForAnswer(r) \/ GivenToExecute(r)
           \/ ExecuteCd(r) \/ ExecuteOther(r) \/ Collect(r)
  PROVE  ProcessInv'
<1> USE DEF ProcessInv
<1>0. r \in Threads /\ r \notin Tabs /\ r # None
  BY InterpreterAssumption DEF Threads
<1>1. /\ ProcessTypes' /\ Given'
      /\ UNCHANGED <<global, todo, held, saved, order, removed>> /\ (nested' => nested)
      /\ \A t \in Threads : step[t] \in Swapping \/ step'[t] \in Swapping =>
           step'[t] = step[t] /\ mine'[t] = mine[t]
  <2> USE <1>0 DEF ProcessTypes, Given, swaps, legacy, history
  <2>1. CASE GetSession(r)
    BY <2>1 DEF GetSession, Moves, Swapping
  <2>2. CASE MakeSession(r)
    BY <2>2 DEF MakeSession, Moves, Swapping
  <2>3. CASE GivenForAnswer(r)
    BY <2>3 DEF GivenForAnswer, Moves, Swapping
  <2>4. CASE GivenToExecute(r)
    BY <2>4 DEF GivenToExecute, Moves, Swapping
  <2>5. CASE ExecuteCd(r)
    <3>1. PICK d \in Dirs : cwd' = [cwd EXCEPT ![Shell(r)] = d]
      BY <2>5 DEF ExecuteCd, Cd
    <3>2. nested' \in BOOLEAN /\ (nested' => nested)
      BY <2>5 DEF ExecuteCd
    <3>3. UNCHANGED <<global, todo, held, saved, order, removed, session, mine, shown>>
      BY <2>5 DEF ExecuteCd
    <3>4. step[r] = "execute" /\ step' = [step EXCEPT ![r] = "collect"]
      BY <2>5 DEF ExecuteCd, Moves
    <3>5. ProcessTypes'
      BY <3>1, <3>2, <3>3, <3>4
    <3> QED
      BY <3>2, <3>3, <3>4, <3>5 DEF Swapping
  <2>6. CASE ExecuteOther(r)
    BY <2>6 DEF ExecuteOther, Moves, Swapping
  <2>7. CASE Collect(r)
    <3>1. mine[r] \in Requests /\ mine[r] \in Threads
      BY <2>7, ShellIs DEF Collect, Moves, Shell
    <3>2. cwd[mine[r]] \in Dirs
      BY <3>1
    <3> QED
      BY <2>7, <3>1, <3>2 DEF Collect, Moves, Swapping
  <2> QED
    BY <2>1, <2>2, <2>3, <2>4, <2>5, <2>6, <2>7
<1>2. nested' => \A t \in Threads : step[t] \in Swapping => cwd'[Shell(t)] = cwd[Shell(t)]
  <2>1. CASE ExecuteCd(r)
    <3> SUFFICES ASSUME nested', NEW t \in Threads, step[t] \in Swapping
                 PROVE  cwd'[Shell(t)] = cwd[Shell(t)]
      OBVIOUS
    <3>1. PICK d \in Dirs : cwd' = [cwd EXCEPT ![mine[r]] = d]
      BY <1>0, <2>1 DEF ExecuteCd, Cd, Shell
    <3>2. PICK i \in 1 .. Len(order) : t = order[i]
      BY Ordered
    <3>3. i \in DOMAIN order
      BY DEF ProcessTypes
    <3>4. Shell(t) # mine[r]
      BY <2>1, <3>2, <3>3 DEF ExecuteCd
    <3>5. Shell(t) \in Threads
      BY ShellIs
    <3> QED
      BY <3>1, <3>4, <3>5 DEF ProcessTypes
  <2>2. CASE ~ExecuteCd(r)
    BY <2>2 DEF GetSession, MakeSession, GivenForAnswer, GivenToExecute, ExecuteOther, Collect
  <2> QED
    BY <2>1, <2>2
<1>3. PromptIsTrue'
  <2> USE <1>0 DEF ProcessTypes, PromptIsTrue, swaps, legacy, history, Threads
  <2>1. CASE GetSession(r) \/ MakeSession(r) \/ GivenForAnswer(r) \/ ExecuteOther(r)
    BY <2>1 DEF GetSession, MakeSession, GivenForAnswer, ExecuteOther
  <2>2. CASE GivenToExecute(r)
    <3> SUFFICES ASSUME NEW s \in Requests, \A q \in Requests : mine'[q] # s
                 PROVE  shown[s] = cwd[s]
      BY <2>2 DEF GivenToExecute
    <3>1. mine[r] # s
      BY <2>2, InterpreterAssumption DEF GivenToExecute, Moves, Given, Swapping
    <3> QED
      BY <2>2, <3>1 DEF GivenToExecute
  <2>3. CASE ExecuteCd(r)
    <3>1. mine[r] \in Requests /\ Shell(r) = mine[r]
      BY <2>3, ShellIs DEF ExecuteCd, Moves
    <3>2. \A s \in Requests : s # mine[r] => cwd'[s] = cwd[s]
      BY <2>3, <3>1 DEF ExecuteCd, Cd
    <3> QED
      BY <2>3, <3>1, <3>2 DEF ExecuteCd
  <2>4. CASE Collect(r)
    <3>1. mine[r] \in Requests
      BY <2>4, ShellIs DEF Collect, Moves
    <3>2. \A s \in Requests : shown'[s] = IF s = mine[r] THEN cwd[s] ELSE shown[s]
      BY <2>4, <3>1 DEF Collect
    <3>3. \A q \in Requests : mine'[q] = IF q = r THEN None ELSE mine[q]
      BY <2>4 DEF Collect
    <3> QED
      BY <2>4, <3>2, <3>3 DEF Collect
  <2> QED
    BY <2>1, <2>2, <2>3, <2>4
<1> QED
  BY <1>1, <1>2, <1>3, Beside

(* a tab changes its directory, and a directory is removed.                *)
LEMMA OthersAside ==
  ASSUME ProcessInv, (\E t \in Tabs : TabCd(t)) \/ RmTree
  PROVE  ProcessInv'
<1> USE DEF ProcessInv
<1>1. CASE \E t \in Tabs : TabCd(t)
  <2> PICK t \in Tabs : TabCd(t)
    BY <1>1
  <2> USE DEF swaps, legacy
  <2>1. PICK d \in Dirs : cwd' = [cwd EXCEPT ![t] = d]
    BY DEF TabCd, Cd, Shell
  <2>2. ProcessTypes' /\ Given'
    BY <2>1 DEF TabCd, ProcessTypes, Given
  <2>3. \A s \in Requests : cwd'[s] = cwd[s]
    BY <2>1, InterpreterAssumption DEF ProcessTypes, Threads
  <2>4. PromptIsTrue'
    BY <2>3 DEF PromptIsTrue, TabCd
  <2>5. ASSUME NEW u \in Threads, step[u] \in Swapping
        PROVE  cwd'[Shell(u)] = cwd[Shell(u)]
    <3>1. Shell(u) \in Threads /\ Shell(u) # t
      BY <2>5, ShellIs, InterpreterAssumption DEF TabCd, Swapping, Threads
    <3> QED
      BY <2>1, <3>1 DEF ProcessTypes
  <2> QED
    BY <2>2, <2>4, <2>5, Beside DEF TabCd
<1>2. CASE RmTree
  <2> USE DEF RmTree, swaps, legacy, history
  <2>1. ProcessTypes' /\ Given' /\ PromptIsTrue'
    BY <1>2 DEF ProcessTypes, Given, PromptIsTrue
  <2> QED
    BY <1>2, <2>1, Beside
<1> QED
  BY <1>1, <1>2

-----------------------------------------------------------------------------
(* The steps of a command that swaps and puts back                         *)

(* What the command does to its own sequences.                             *)
LEMMA OwnSequences ==
  ASSUME ProcessTypes, NEW t \in Threads, Orderly(t)
  PROVE  /\ held[t] \in Seq(Things) /\ todo[t] \in Seq(Things) /\ Rng(held[t]) \subseteq Things
         /\ held[t] # <<>> =>
              /\ Head(held[t]) \in Things /\ Head(held[t]) \in Rng(held[t])
              /\ Tail(held[t]) \in Seq(Things) /\ Distinct(Tail(held[t]))
              /\ Rng(Tail(held[t])) = Rng(held[t]) \ {Head(held[t])}
         /\ step[t] \in {"save", "set"} =>
              /\ Head(todo[t]) \in Things /\ Head(todo[t]) \notin Rng(held[t])
              /\ Tail(todo[t]) \in Seq(Things) /\ Distinct(Tail(todo[t]))
              /\ Rng(Tail(todo[t])) = Rng(todo[t]) \ {Head(todo[t])} /\ Rng(Tail(todo[t])) \subseteq Rng(todo[t])
              /\ Len(todo[t]) # 1 => Tail(todo[t]) # <<>>
              /\ <<Head(todo[t])>> \o held[t] \in Seq(Things)
              /\ Distinct(<<Head(todo[t])>> \o held[t])
              /\ Rng(<<Head(todo[t])>> \o held[t]) = Rng(held[t]) \cup {Head(todo[t])}
<1>1. held[t] \in Seq(Things) /\ todo[t] \in Seq(Things) /\ Distinct(held[t])
  BY DEF ProcessTypes, Orderly
<1>2. ASSUME held[t] # <<>>
      PROVE  /\ Head(held[t]) \in Things /\ Head(held[t]) \in Rng(held[t])
             /\ Tail(held[t]) \in Seq(Things) /\ Distinct(Tail(held[t]))
             /\ Rng(Tail(held[t])) = Rng(held[t]) \ {Head(held[t])}
  BY <1>1, <1>2, Popped
<1>3. ASSUME step[t] \in {"save", "set"}
      PROVE  /\ Head(todo[t]) \in Things /\ Head(todo[t]) \notin Rng(held[t])
             /\ Tail(todo[t]) \in Seq(Things) /\ Distinct(Tail(todo[t]))
             /\ Rng(Tail(todo[t])) = Rng(todo[t]) \ {Head(todo[t])}
             /\ Len(todo[t]) # 1 => Tail(todo[t]) # <<>>
  <2>1. todo[t] # <<>> /\ Distinct(todo[t]) /\ Rng(todo[t]) \cap Rng(held[t]) = {}
    BY <1>3 DEF Orderly
  <2>2. Head(todo[t]) \in Rng(todo[t])
    BY <1>1, <2>1, Popped
  <2> QED
    BY <1>1, <2>1, <2>2, Popped
<1>4. ASSUME step[t] \in {"save", "set"}
      PROVE  /\ <<Head(todo[t])>> \o held[t] \in Seq(Things)
             /\ Distinct(<<Head(todo[t])>> \o held[t])
             /\ Rng(<<Head(todo[t])>> \o held[t]) = Rng(held[t]) \cup {Head(todo[t])}
  BY <1>1, <1>3, <1>4, Pushed
<1>5. Rng(held[t]) \subseteq Things
  BY <1>1, Elements
<1> QED
  BY <1>1, <1>2, <1>3, <1>4, <1>5

(* A step of a command that is in the middle of swapping or putting back,  *)
(* which touches only what is its own: what holds of requests and of the   *)
(* other commands stays.                                                   *)
LEMMA OwnStep ==
  ASSUME ProcessInv, NEW t \in Threads, step[t] \in Swapping, step'[t] \in Swapping,
         step' = [step EXCEPT ![t] = step'[t]],
         \A u \in Threads \ {t} : todo'[u] = todo[u] /\ held'[u] = held[u],
         UNCHANGED <<cwd, session, mine, shown, order>>,
         nested' => nested, nested' => step[t] # "body" \/ order[Len(order)] = t
  PROVE  /\ Given' /\ PromptIsTrue' /\ Bracketed'
         /\ \A u \in Threads \ {t} : Orderly(u)'
<1> USE DEF ProcessInv
<1>0. \A u \in Threads \ {t} : step'[u] = step[u]
  BY DEF ProcessTypes
<1>1. Given'
  BY <1>0, InterpreterAssumption DEF Given, Swapping, Threads
<1>2. PromptIsTrue'
  BY DEF PromptIsTrue
<1>3. \A u \in Threads \ {t} : Orderly(u)'
  BY <1>0 DEF Orderly
<1>4. Bracketed'
  <2>1. {u \in Threads : step'[u] \in Swapping} = {u \in Threads : step[u] \in Swapping}
    BY <1>0
  <2>2. ASSUME nested', NEW i \in 1 .. Len(order) - 1
        PROVE  step'[order[i]] = "body"
    <3>1. order[Len(order)] = t
      BY <2>2, LastSwaps
    <3>2. order[i] # t /\ order[i] \in Threads
      BY <2>2, <3>1, Ordered
    <3> QED
      BY <1>0, <2>2, <3>2 DEF Bracketed
  <2> QED
    BY <2>1, <2>2 DEF Bracketed
<1> QED
  BY <1>1, <1>2, <1>3, <1>4

(* The command that was started last swaps, notes or puts back one thing,  *)
(* y.  What the command below it that swapped y last is due, in place or   *)
(* noted, it must be due after the step.                                   *)
LEMMA LastLayer ==
  ASSUME ProcessInv, NEW t \in Threads, step[t] \in Swapping \ {"body"}, nested, NEW y \in Things,
         UNCHANGED <<cwd, mine, order, removed>>,
         \A u \in Threads \ {t} : UNCHANGED <<held[u], saved[u], Noted(u)>>,
         \A x \in Things \ {y} :
           /\ x \in Rng(held'[t]) => x \in Rng(held[t])
           /\ x \in Noted(t)' <=> x \in Noted(t)
           /\ global'[x] = global[x] /\ saved'[t][x] = saved[t][x],
         Rng(held'[t]) \subseteq Things,
         y \in Rng(held'[t]) => Fits(t, y, global'[y]),
         \A u \in Threads \ {t} :
           (IF y \in Noted(t) THEN Fits(u, y, saved[t][y]) ELSE Fits(u, y, global[y]))
             => IF y \in Noted(t)' THEN Fits(u, y, saved'[t][y]) ELSE Fits(u, y, global'[y])
  PROVE  Layered'
<1> USE DEF ProcessInv
<1> DEFINE n == Len(order)
<1>1. n \in Nat \ {0} /\ order[n] = t /\ \A i \in 1 .. n - 1 : order[i] # t
  BY LastSwaps
<1>2. \A i \in 1 .. n : order[i] \in Threads
  BY Ordered
<1> HIDE DEF n
<1>3. \A i \in 1 .. n - 1 : UNCHANGED <<held[order[i]], saved[order[i]], Noted(order[i])>>
  BY <1>1, <1>2
<1>4. \A u \in Threads : Rng(held[u]) \subseteq Things
  <2> TAKE u \in Threads
  <2>1. held[u] \in Seq(Things)
    BY DEF ProcessTypes
  <2> QED
    BY <2>1, Elements
<1>5. SUFFICES ASSUME NEW i \in 1 .. n, NEW x \in Rng(held'[order[i]])
               PROVE  /\ (\A j \in i + 1 .. n : x \notin Noted(order[j])') =>
                            Fits(order[i], x, global'[x])
                      /\ \A j \in i + 1 .. n :
                           x \in Noted(order[j])' /\ (\A k \in i + 1 .. j - 1 : x \notin Noted(order[k])')
                             => Fits(order[i], x, saved'[order[j]][x])
  <2> SUFFICES ASSUME NEW i \in 1 .. n, NEW x \in Rng(held'[order[i]])
               PROVE  /\ (\A j \in i + 1 .. n : x \notin Noted(order[j])') => Fits(order[i], x, global[x])'
                      /\ \A j \in i + 1 .. n :
                           x \in Noted(order[j])' /\ (\A k \in i + 1 .. j - 1 : x \notin Noted(order[k])')
                             => Fits(order[i], x, saved[order[j]][x])'
    BY DEF Layered, n
  <2>1. Fits(order[i], x, global'[x]) => Fits(order[i], x, global[x])'
    BY DEF Fits, Shell
  <2>2. \A j \in i + 1 .. n : Fits(order[i], x, saved'[order[j]][x]) => Fits(order[i], x, saved[order[j]][x])'
    BY DEF Fits, Shell
  <2> QED
    BY <2>1, <2>2
<1>6. x \in Things /\ order[i] \in Threads
  <2>1. CASE order[i] = t
    BY <1>2, <2>1
  <2>2. CASE order[i] # t
    BY <1>2, <1>4, <2>2
  <2> QED
    BY <2>1, <2>2
<1>7. CASE i = n
  <2>1. i + 1 .. n = {} /\ order[i] = t
    BY <1>1, <1>7
  <2>2. Fits(t, x, global'[x])
    <3>1. CASE x = y
      BY <2>1, <3>1
    <3>2. CASE x # y
      <4>1. x \in Rng(held[t])
        BY <1>6, <2>1, <3>2
      <4>2. Fits(t, x, global[x])
        BY <1>1, <1>7, <2>1, <4>1 DEF Layered, n
      <4> QED
        BY <1>6, <3>2, <4>2
    <3> QED
      BY <3>1, <3>2
  <2> QED
    BY <2>1, <2>2
<1>8. CASE i # n
  <2>1. i \in 1 .. n - 1 /\ x \in Rng(held[order[i]]) /\ order[i] \in Threads \ {t}
    BY <1>1, <1>3, <1>6, <1>8
  <2>2. \A k \in i + 1 .. n - 1 : Noted(order[k])' = Noted(order[k]) /\ saved'[order[k]] = saved[order[k]]
    BY <1>1, <1>3
  <2>3. /\ (\A j \in i + 1 .. n : x \notin Noted(order[j])) => Fits(order[i], x, global[x])
        /\ \A j \in i + 1 .. n :
             x \in Noted(order[j]) /\ (\A k \in i + 1 .. j - 1 : x \notin Noted(order[k]))
               => Fits(order[i], x, saved[order[j]][x])
    BY <2>1 DEF Layered, n
  <2>4. \A j \in i + 1 .. n : (j = n \/ j \in i + 1 .. n - 1) /\ \A k \in i + 1 .. j - 1 : k \in i + 1 .. n - 1
    BY <1>1
  <2>5. n \in i + 1 .. n
    BY <1>1, <2>1
  (* No command between this one and the last has noted x. *)
  <2>6. ASSUME \A k \in i + 1 .. n - 1 : x \notin Noted(order[k])
        PROVE  IF x \in Noted(t) THEN Fits(order[i], x, saved[t][x]) ELSE Fits(order[i], x, global[x])
    <3>1. CASE x \in Noted(t)
      BY <1>1, <2>3, <2>5, <2>6, <3>1
    <3>2. CASE x \notin Noted(t)
      BY <1>1, <2>3, <2>4, <2>6, <3>2
    <3> QED
      BY <3>1, <3>2
  <2>7. ASSUME \A k \in i + 1 .. n - 1 : x \notin Noted(order[k])
        PROVE  IF x \in Noted(t)' THEN Fits(order[i], x, saved'[t][x]) ELSE Fits(order[i], x, global'[x])
    <3>1. CASE x = y
      BY <2>1, <2>6, <2>7, <3>1
    <3>2. CASE x # y
      BY <1>6, <2>6, <2>7, <3>2
    <3> QED
      BY <3>1, <3>2
  <2>8. ASSUME \A j \in i + 1 .. n : x \notin Noted(order[j])'
        PROVE  Fits(order[i], x, global'[x])
    <3>1. \A k \in i + 1 .. n - 1 : x \notin Noted(order[k])
      BY <1>1, <2>2, <2>8
    <3>2. x \notin Noted(t)'
      BY <1>1, <2>5, <2>8
    <3> QED
      BY <2>7, <3>1, <3>2
  <2>9. ASSUME NEW j \in i + 1 .. n, x \in Noted(order[j])',
               \A k \in i + 1 .. j - 1 : x \notin Noted(order[k])'
        PROVE  Fits(order[i], x, saved'[order[j]][x])
    <3>1. \A k \in i + 1 .. j - 1 : x \notin Noted(order[k])
      BY <2>2, <2>4, <2>9
    <3>2. CASE j = n
      BY <1>1, <2>7, <2>9, <3>1, <3>2
    <3>3. CASE j \in i + 1 .. n - 1
      BY <2>2, <2>3, <2>9, <3>1, <3>3
    <3> QED
      BY <2>4, <3>2, <3>3
  <2> QED
    BY <2>8, <2>9
<1> QED
  BY <1>7, <1>8

(* A command notes what it is about to swap,                               *)
LEMMA SaveInv ==
  ASSUME ProcessInv, NEW t \in Threads, Save(t)
  PROVE  ProcessInv'
<1> USE DEF ProcessInv
<1> DEFINE y == Head(todo[t])
<1>1. /\ step[t] = "save" /\ step' = [step EXCEPT ![t] = "set"] /\ step'[t] = "set"
      /\ saved' = [saved EXCEPT ![t][y] = Found(y)]
      /\ UNCHANGED <<global, todo, held, cwd, session, mine, shown, removed, commands, order, nested>>
  BY DEF Save, Moves, ProcessTypes, legacy, history
<1>2. y \in Things /\ y \notin Rng(held[t]) /\ Rng(held[t]) \subseteq Things
  BY <1>1, OwnSequences
<1>3. Found(y) \in Values
  BY <1>2, InterpreterAssumption DEF ProcessTypes, Found, Values
<1> HIDE DEF y
<1>4. ProcessTypes'
  BY <1>1, <1>2, <1>3 DEF ProcessTypes, Swapping
<1>5. Given' /\ PromptIsTrue' /\ Bracketed' /\ \A u \in Threads \ {t} : Orderly(u)'
  BY <1>1, OwnStep, LastSwaps DEF Swapping
<1>6. Orderly(t)'
  BY <1>1 DEF Orderly, Swapping
<1>7. CASE nested
  <2>1. /\ \A u \in Threads \ {t} : UNCHANGED <<held[u], saved[u], Noted(u)>>
        /\ saved'[t][y] = Found(y) /\ \A x \in Things \ {y} : saved'[t][x] = saved[t][x]
    BY <1>1, <1>2 DEF ProcessTypes, Noted
  <2>2. Noted(t) = Rng(held[t]) /\ Noted(t)' = Rng(held[t]) \cup {y}
    BY <1>1 DEF Noted, y
  <2>3. \A u \in Threads \ {t} : Fits(u, y, global[y]) => Fits(u, y, Found(y))
    BY DEF Fits, Found
  <2>4. \A u \in Threads \ {t} :
          (IF y \in Noted(t) THEN Fits(u, y, saved[t][y]) ELSE Fits(u, y, global[y]))
            => IF y \in Noted(t)' THEN Fits(u, y, saved'[t][y]) ELSE Fits(u, y, global'[y])
    BY <1>2, <2>1, <2>2, <2>3
  <2>5. step[t] \in Swapping \ {"body"} /\ y \notin Rng(held'[t]) /\ Rng(held'[t]) \subseteq Things
    BY <1>1, <1>2 DEF Swapping
  <2>6. \A x \in Things \ {y} :
          /\ x \in Rng(held'[t]) => x \in Rng(held[t])
          /\ x \in Noted(t)' <=> x \in Noted(t)
          /\ global'[x] = global[x] /\ saved'[t][x] = saved[t][x]
    BY <1>1, <2>1, <2>2
  <2> QED
    BY <1>1, <1>2, <1>4, <1>5, <1>6, <1>7, <2>1, <2>4, <2>5, <2>6, LastLayer
<1>8. CASE ~nested
  BY <1>1, <1>4, <1>5, <1>6, <1>8 DEF Layered
<1> QED
  BY <1>7, <1>8 DEF ProcessTypes

(* swaps it,                                                               *)
LEMMA SetInv ==
  ASSUME ProcessInv, NEW t \in Threads, Set(t)
  PROVE  ProcessInv'
<1> USE DEF ProcessInv
<1> DEFINE y == Head(todo[t])
<1>1. /\ step[t] = "set" /\ step'[t] \in {"save", "body"} /\ step' = [step EXCEPT ![t] = step'[t]]
      /\ step'[t] = "save" => Len(todo[t]) # 1
      /\ global' = [global EXCEPT ![y] = Own(t, y)]
      /\ held' = [held EXCEPT ![t] = <<y>> \o @] /\ todo' = [todo EXCEPT ![t] = Tail(@)]
      /\ UNCHANGED <<saved, cwd, session, mine, shown, removed, commands, order, nested>>
  BY DEF Set, Moves, ProcessTypes, legacy, history
<1>2. /\ y \in Things /\ y \notin Rng(held[t]) /\ Rng(held[t]) \subseteq Things
      /\ <<y>> \o held[t] \in Seq(Things) /\ Tail(todo[t]) \in Seq(Things)
      /\ Rng(<<y>> \o held[t]) = Rng(held[t]) \cup {y}
  BY <1>1, OwnSequences
<1>3. held'[t] = <<y>> \o held[t] /\ todo'[t] = Tail(todo[t])
  BY <1>1 DEF ProcessTypes
<1>4. Own(t, y) \in Values /\ Fits(t, y, Own(t, y))
  <2>1. Shell(t) \in Threads /\ cwd[Shell(t)] \in Dirs /\ global[y] \in Values /\ global.dir \in Values
    BY <1>1, <1>2, ShellIs DEF ProcessTypes, Swapping, Things
  <2>2. t \in Tabs => t \notin Requests
    BY InterpreterAssumption
  <2> QED
    BY <2>1, <2>2, <1>2 DEF Own, Fits, Values, Things
<1>5. Orderly(t)'
  <2>1. Distinct(held'[t]) /\ Distinct(todo'[t]) /\ (Len(todo[t]) # 1 => todo'[t] # <<>>)
    BY <1>1, <1>3, OwnSequences
  <2>2. Rng(todo'[t]) \cap Rng(held'[t]) = {}
    BY <1>1, <1>2, <1>3, OwnSequences DEF Orderly
  <2> QED
    BY <1>1, <2>1, <2>2 DEF Orderly, Swapping
<1> HIDE DEF y
<1>6. ProcessTypes'
  BY <1>1, <1>2, <1>4 DEF ProcessTypes, Swapping
<1>7. \A u \in Threads \ {t} : todo'[u] = todo[u] /\ held'[u] = held[u]
  BY <1>1 DEF ProcessTypes
<1>8. Given' /\ PromptIsTrue' /\ Bracketed' /\ \A u \in Threads \ {t} : Orderly(u)'
  BY <1>1, <1>7, OwnStep, LastSwaps DEF Swapping
<1>9. CASE nested
  <2>1. \A u \in Threads \ {t} : UNCHANGED <<held[u], saved[u], Noted(u)>>
    BY <1>1, <1>7 DEF ProcessTypes, Noted
  <2>2. Noted(t) = Rng(held[t]) \cup {y} /\ Noted(t)' = Rng(held[t]) \cup {y}
    BY <1>1, <1>2, <1>3 DEF Noted, y
  <2>3. global'[y] = Own(t, y) /\ \A x \in Things \ {y} : global'[x] = global[x]
    BY <1>1, <1>2 DEF ProcessTypes
  <2>4. step[t] \in Swapping \ {"body"} /\ Rng(held'[t]) \subseteq Things /\ Fits(t, y, global'[y])
    BY <1>1, <1>2, <1>3, <1>4, <2>3 DEF Swapping
  <2>5. \A u \in Threads \ {t} :
          (IF y \in Noted(t) THEN Fits(u, y, saved[t][y]) ELSE Fits(u, y, global[y]))
            => IF y \in Noted(t)' THEN Fits(u, y, saved'[t][y]) ELSE Fits(u, y, global'[y])
    BY <1>1, <2>2
  <2>6. \A x \in Things \ {y} :
          /\ x \in Rng(held'[t]) => x \in Rng(held[t])
          /\ x \in Noted(t)' <=> x \in Noted(t)
          /\ global'[x] = global[x] /\ saved'[t][x] = saved[t][x]
    BY <1>1, <1>2, <1>3, <2>2, <2>3
  <2> QED
    BY <1>1, <1>2, <1>5, <1>6, <1>8, <1>9, <2>1, <2>4, <2>5, <2>6, LastLayer
<1>10. CASE ~nested
  BY <1>1, <1>5, <1>6, <1>8, <1>10 DEF Layered
<1> QED
  BY <1>9, <1>10 DEF ProcessTypes

(* and puts back what it noted.                                            *)
LEMMA PutBackInv ==
  ASSUME ProcessInv, NEW t \in Threads, PutBack(t)
  PROVE  ProcessInv'
<1> USE DEF ProcessInv
<1> DEFINE y == Head(held[t])
           v == IF y = "dir" /\ saved[t][y] \in removed THEN global[y] ELSE saved[t][y]
<1>1. /\ step[t] = "finally" /\ step' = step /\ held[t] # <<>>
      /\ global' = [global EXCEPT ![y] = v]
      /\ held' = [held EXCEPT ![t] = Tail(@)] /\ saved' = [saved EXCEPT ![t][y] = None]
      /\ UNCHANGED <<todo, cwd, session, mine, shown, removed, commands, order, nested>>
  BY DEF PutBack, Dropped, legacy, history
<1>2. /\ y \in Things /\ y \in Rng(held[t]) /\ Rng(held[t]) \subseteq Things
      /\ Tail(held[t]) \in Seq(Things) /\ Distinct(Tail(held[t]))
      /\ Rng(Tail(held[t])) = Rng(held[t]) \ {y}
  BY <1>1, OwnSequences
<1>3. held'[t] = Tail(held[t]) /\ v \in Values /\ None \in Values
  BY <1>1, <1>2 DEF ProcessTypes, Values
<1>4. \A u \in Threads \ {t} : Fits(u, y, saved[t][y]) => Fits(u, y, v)
  BY DEF Fits
<1> HIDE DEF y, v
<1>5. ProcessTypes'
  BY <1>1, <1>2, <1>3 DEF ProcessTypes
<1>6. Orderly(t)'
  BY <1>1, <1>2, <1>3 DEF Orderly, Swapping
<1>7. \A u \in Threads \ {t} : todo'[u] = todo[u] /\ held'[u] = held[u]
  BY <1>1 DEF ProcessTypes
<1>8. Given' /\ PromptIsTrue' /\ Bracketed' /\ \A u \in Threads \ {t} : Orderly(u)'
  <2>1. step' = [step EXCEPT ![t] = step'[t]]
    BY <1>1 DEF ProcessTypes
  <2> QED
    BY <1>1, <1>7, <2>1, OwnStep, LastSwaps DEF Swapping
<1>9. CASE nested
  <2>1. \A u \in Threads \ {t} : UNCHANGED <<held[u], saved[u], Noted(u)>>
    BY <1>1, <1>7 DEF ProcessTypes, Noted
  <2>2. Noted(t) = Rng(held[t]) /\ Noted(t)' = Rng(held[t]) \ {y}
    BY <1>1, <1>2, <1>3 DEF Noted
  <2>3. /\ global'[y] = v /\ \A x \in Things \ {y} : global'[x] = global[x] /\ saved'[t][x] = saved[t][x]
    BY <1>1, <1>2 DEF ProcessTypes
  <2>4. step[t] \in Swapping \ {"body"} /\ Rng(held'[t]) \subseteq Things /\ y \notin Rng(held'[t])
    BY <1>1, <1>2, <1>3 DEF Swapping
  <2>5. \A u \in Threads \ {t} :
          (IF y \in Noted(t) THEN Fits(u, y, saved[t][y]) ELSE Fits(u, y, global[y]))
            => IF y \in Noted(t)' THEN Fits(u, y, saved'[t][y]) ELSE Fits(u, y, global'[y])
    BY <1>2, <1>4, <2>2, <2>3
  <2>6. \A x \in Things \ {y} :
          /\ x \in Rng(held'[t]) => x \in Rng(held[t])
          /\ x \in Noted(t)' <=> x \in Noted(t)
          /\ global'[x] = global[x] /\ saved'[t][x] = saved[t][x]
    BY <1>2, <1>3, <2>2, <2>3
  <2> QED
    BY <1>1, <1>2, <1>5, <1>6, <1>8, <1>9, <2>1, <2>4, <2>5, <2>6, LastLayer
<1>10. CASE ~nested
  BY <1>1, <1>5, <1>6, <1>8, <1>10 DEF Layered
<1> QED
  BY <1>9, <1>10 DEF ProcessTypes

(* The user's code returns.                                                *)
LEMMA ReturnInv ==
  ASSUME ProcessInv, NEW t \in Threads, Return(t)
  PROVE  ProcessInv'
<1> USE DEF ProcessInv
<1>1. /\ step[t] = "body" /\ step' = [step EXCEPT ![t] = "finally"] /\ step'[t] = "finally"
      /\ nested' = (nested /\ order[Len(order)] = t)
      /\ UNCHANGED <<global, todo, held, saved, cwd, session, mine, shown, removed, commands, order>>
  BY DEF Return, Moves, ProcessTypes, swaps, legacy, Last
<1>2. nested' \in BOOLEAN
  BY <1>1
<1>3. ProcessTypes'
  BY <1>1, <1>2 DEF ProcessTypes, Swapping
<1>4. Given' /\ PromptIsTrue' /\ Bracketed' /\ \A u \in Threads \ {t} : Orderly(u)'
  BY <1>1, OwnStep DEF Swapping
<1>5. Orderly(t)'
  BY <1>1 DEF Orderly, Swapping
<1>6. \A u \in Threads : Noted(u)' = Noted(u) /\ Shell(u)' = Shell(u)
  BY <1>1 DEF ProcessTypes, Noted, Shell
<1>7. Layered'
  BY <1>1, <1>6, SameLayers
<1> QED
  BY <1>3, <1>4, <1>5, <1>7

(* A KeyboardInterrupt ends the nesting, unless the command is alone; then *)
(* what it still holds is in place.                                        *)
LEMMA InterruptedInv ==
  ASSUME ProcessInv, NEW t \in Threads, Interrupted(t)
  PROVE  ProcessInv'
<1> USE DEF ProcessInv
<1>1. /\ step[t] \in Swapping /\ step' = [step EXCEPT ![t] = "finally"] /\ step'[t] = "finally"
      /\ todo' = [todo EXCEPT ![t] = <<>>]
      /\ nested' = (nested /\ Len(order) = 1)
      /\ UNCHANGED <<global, cwd, session, mine, shown, removed, commands, order>>
  BY DEF Interrupted, ProcessTypes, Swapping, legacy
<1>2. /\ held' = [held EXCEPT ![t] = held'[t]] /\ held'[t] \in Seq(Things)
      /\ Distinct(held'[t]) /\ Rng(held'[t]) \subseteq Rng(held[t])
  <2>1. CASE held' = held
    BY <2>1 DEF ProcessTypes, Orderly
  <2>2. CASE held[t] # <<>> /\ held' = [held EXCEPT ![t] = Tail(@)]
    <3>1. held'[t] = Tail(held[t])
      BY <2>2 DEF ProcessTypes
    <3> QED
      BY <2>2, <3>1, OwnSequences
  <2> QED
    BY <2>1, <2>2 DEF Interrupted
<1>3. /\ saved' = [saved EXCEPT ![t] = saved'[t]]
      /\ saved'[t] = [x \in Things |-> IF x \in Rng(held'[t]) THEN saved[t][x] ELSE None]
  BY DEF Interrupted, ProcessTypes, Rng
<1>4. saved'[t] \in [Things -> Values]
  BY <1>3 DEF ProcessTypes, Values
<1>5. nested' \in BOOLEAN
  BY <1>1
<1>6. ProcessTypes'
  <2>1. held' \in [Threads -> Seq(Things)]
    BY <1>2 DEF ProcessTypes
  <2>2. saved' \in [Threads -> [Things -> Values]]
    BY <1>3, <1>4 DEF ProcessTypes
  <2>3. todo' \in [Threads -> Seq(Things)]
    BY <1>1 DEF ProcessTypes
  <2> QED
    BY <1>1, <1>5, <2>1, <2>2, <2>3 DEF ProcessTypes, Swapping
<1>7. \A u \in Threads \ {t} : todo'[u] = todo[u] /\ held'[u] = held[u]
  BY <1>1, <1>2 DEF ProcessTypes
<1>8. ASSUME nested'
      PROVE  order[Len(order)] = t
  <2>1. PICK i \in 1 .. Len(order) : t = order[i]
    BY <1>1, Ordered
  <2>2. Len(order) = 1
    BY <1>1, <1>8
  <2>3. i = 1
    BY <2>2
  <2> QED
    BY <2>1, <2>2, <2>3
<1>9. Given' /\ PromptIsTrue' /\ Bracketed' /\ \A u \in Threads \ {t} : Orderly(u)'
  BY <1>1, <1>7, <1>8, OwnStep DEF Swapping
<1>10. Orderly(t)'
  BY <1>1, <1>2 DEF Orderly, Swapping
<1>11. Layered'
  <2> SUFFICES ASSUME nested', NEW x \in Rng(held'[order[1]])
               PROVE  Fits(order[1], x, global[x])'
    <3>1. nested' => Len(order') = 1 /\ order' = order
      BY <1>1
    <3>2. \A i \in 1 .. 1 : i = 1 /\ i + 1 .. 1 = {}
      OBVIOUS
    <3> QED
      BY <3>1, <3>2 DEF Layered
  <2>1. order[1] = t /\ Len(order) = 1 /\ nested
    BY <1>1, <1>8
  <2>2. Fits(t, x, global[x])
    <3>1. x \in Rng(held[t]) /\ 1 \in 1 .. 1 /\ 1 + 1 .. 1 = {}
      BY <1>2, <2>1
    <3> QED
      BY <2>1, <3>1 DEF Layered
  <2> QED
    BY <1>1, <2>1, <2>2 DEF Fits, Shell
<1> QED
  BY <1>6, <1>9, <1>10, <1>11

(* A command ends: it has put back all it noted.                           *)
LEMMA DoneInv ==
  ASSUME ProcessInv, NEW t \in Threads, Done(t)
  PROVE  ProcessInv'
<1> USE DEF ProcessInv
<1>1. PICK p \in 1 .. Len(order) : order[p] = t /\ order' = RemoveAt(order, p)
  BY DEF Done, ProcessTypes
<1>2. /\ step[t] = "finally" /\ step' = [step EXCEPT ![t] = step'[t]]
      /\ step'[t] = (IF t \in Tabs THEN "idle" ELSE "collect") /\ held[t] = <<>>
      /\ UNCHANGED <<global, todo, held, saved, cwd, session, mine, shown, removed, nested>>
  BY DEF Done, Moves, ProcessTypes, swaps, legacy
<1>3. /\ order' \in Seq(Threads) /\ Distinct(order') /\ Rng(order') = Rng(order) \ {t}
      /\ Len(order') = Len(order) - 1 /\ \A i \in 1 .. p - 1 : order'[i] = order[i]
  <2>1. order \in Seq(Threads) /\ Distinct(order)
    BY DEF ProcessTypes, Bracketed
  <2>2. /\ RemoveAt(order, p) \in Seq(Threads) /\ Distinct(RemoveAt(order, p))
        /\ Rng(RemoveAt(order, p)) = Rng(order) \ {order[p]}
        /\ Len(RemoveAt(order, p)) = Len(order) - 1
        /\ \A i \in 1 .. p - 1 : RemoveAt(order, p)[i] = order[i]
    BY <2>1, TakenOut
  <2> QED
    BY <1>1, <2>2
<1>4. \A u \in Threads \ {t} : step'[u] = step[u]
  BY <1>2 DEF ProcessTypes
<1>5. ProcessTypes'
  BY <1>2, <1>3 DEF ProcessTypes
<1>6. Given' /\ PromptIsTrue'
  BY <1>2, <1>4, InterpreterAssumption DEF Given, PromptIsTrue, Swapping, Threads
<1>7. \A u \in Threads : Orderly(u)'
  BY <1>2, <1>4 DEF Orderly, Swapping
<1>8. nested => p = Len(order) /\ Len(order) \in Nat \ {0}
  BY <1>1, <1>2, LastSwaps, Ordered DEF Swapping
<1>9. Bracketed'
  <2>1. {u \in Threads : step'[u] \in Swapping} = {u \in Threads : step[u] \in Swapping} \ {t}
    BY <1>2, <1>4 DEF Swapping
  <2>2. ASSUME nested, NEW i \in 1 .. Len(order') - 1
        PROVE  step'[order'[i]] = "body"
    <3>1. i \in 1 .. p - 1 /\ i \in 1 .. Len(order) - 1 /\ i # p
      BY <1>3, <1>8, <2>2
    <3>2. order'[i] = order[i] /\ order[i] \in Threads \ {t}
      BY <1>1, <1>3, <3>1, Ordered
    <3> QED
      BY <1>4, <2>2, <3>1, <3>2 DEF Bracketed
  <2> QED
    BY <1>2, <1>3, <2>1, <2>2 DEF Bracketed
<1>10. Layered'
  <2>1. PICK q \in Seq(Threads) : q = order'
    BY <1>3
  <2> SUFFICES ASSUME nested, NEW i \in 1 .. Len(q), NEW x \in Rng(held[q[i]])
               PROVE  /\ (\A j \in i + 1 .. Len(q) : x \notin Noted(q[j])') => Fits(q[i], x, global[x])'
                      /\ \A j \in i + 1 .. Len(q) :
                           x \in Noted(q[j])' /\ (\A k \in i + 1 .. j - 1 : x \notin Noted(q[k])')
                             => Fits(q[i], x, saved[q[j]][x])'
    BY <1>2, <2>1 DEF Layered
  <2>2. /\ Len(order) \in Nat \ {0} /\ Len(q) = Len(order) - 1
        /\ \A j \in 1 .. Len(q) : q[j] = order[j] /\ j \in 1 .. Len(order) /\ q[j] \in Threads \ {t}
    BY <1>1, <1>3, <1>8, <2>1, Ordered
  <2>3. Noted(t) = {}
    BY <1>2 DEF Noted, Rng
  <2>4. \A u \in Threads \ {t} : Noted(u)' = Noted(u)
    BY <1>2, <1>4 DEF Noted
  <2>5. Fits(q[i], x, global[x]) => Fits(q[i], x, global[x])'
    BY <1>2 DEF Fits, Shell
  <2>6. \A j \in i + 1 .. Len(q) : Fits(q[i], x, saved[q[j]][x]) => Fits(q[i], x, saved[q[j]][x])'
    BY <1>2 DEF Fits, Shell
  <2>7. \A j \in i + 1 .. Len(order) : (j \in i + 1 .. Len(q) /\ j \in 1 .. Len(q)) \/ order[j] = t
    BY <1>1, <1>8, <2>2
  <2>8. ASSUME \A j \in i + 1 .. Len(q) : x \notin Noted(q[j])'
        PROVE  Fits(q[i], x, global[x])'
    <3>1. \A j \in i + 1 .. Len(order) : x \notin Noted(order[j])
      BY <2>2, <2>3, <2>4, <2>7, <2>8
    <3>2. Fits(q[i], x, global[x])
      BY <2>2, <3>1 DEF Layered
    <3> QED
      BY <2>5, <3>2
  <2>9. ASSUME NEW j \in i + 1 .. Len(q), x \in Noted(q[j])', \A k \in i + 1 .. j - 1 : x \notin Noted(q[k])'
        PROVE  Fits(q[i], x, saved[q[j]][x])'
    <3>1. \A k \in i + 1 .. j : k \in 1 .. Len(q) /\ Noted(q[k])' = Noted(order[k])
      BY <2>2, <2>4
    <3>2. x \in Noted(order[j]) /\ \A k \in i + 1 .. j - 1 : x \notin Noted(order[k])
      BY <2>9, <3>1
    <3>3. /\ i \in 1 .. Len(order) /\ j \in i + 1 .. Len(order) /\ x \in Rng(held[order[i]])
          /\ q[i] = order[i] /\ q[j] = order[j]
      BY <2>2
    <3>4. Fits(order[i], x, saved[order[j]][x])
      BY <3>2, <3>3 DEF Layered
    <3>5. Fits(q[i], x, saved[q[j]][x])
      BY <3>3, <3>4
    <3> QED
      BY <2>6, <3>5
  <2> QED
    BY <2>8, <2>9
<1> QED
  BY <1>5, <1>6, <1>7, <1>9, <1>10

(* What a command swaps is not empty, and each thing is in it once.        *)
LEMMA Swaps ==
  ASSUME NEW t \in Threads, NEW k \in InProcess
  PROVE  Swapped(t, k) \in Seq(Things) /\ Swapped(t, k) # <<>> /\ Distinct(Swapped(t, k))
<1>1. CASE k = "zmux"
  BY <1>1 DEF Swapped, Things, Distinct
<1>2. CASE k = "python"
  <2>1. PICK p \in Seq(Things) :
          /\ p = (IF t \in Tabs THEN <<"stdin">> ELSE <<>>)
          /\ (Len(p) = 1 /\ p[1] = "stdin") \/ Len(p) = 0
    <3>1. <<"stdin">> \in Seq(Things) /\ Len(<<"stdin">>) = 1 /\ <<"stdin">>[1] = "stdin"
      BY DEF Things
    <3>2. <<>> \in Seq(Things) /\ Len(<<>>) = 0
      OBVIOUS
    <3> QED
      BY <3>1, <3>2, Zenon
  <2>2. <<"stdout">> \in Seq(Things) /\ Len(<<"stdout">>) = 1
    BY DEF Things
  <2>3. PICK q \in Seq(Things) : q = <<"stdout">> \o p
    BY <2>2, ConcatProperties
  <2>4. /\ Len(q) = Len(p) + 1 /\ q[1] = "stdout"
        /\ Len(p) = 1 => q[2] = "stdin"
    BY <2>1, <2>2, <2>3, ConcatProperties
  <2>5. Swapped(t, k) = Append(q, "dir") /\ Append(q, "dir") # <<>>
    BY <1>2, <2>1, <2>3, AppendIsConcat, AppendProperties DEF Swapped, Things
  <2>6. \A i \in 1 .. Len(q) : (i = 1 /\ q[i] = "stdout") \/ (i = 2 /\ q[i] = "stdin")
    BY <2>1, <2>4
  <2>7. Distinct(q) /\ "dir" \notin Rng(q)
    BY <2>6, Elements DEF Distinct
  <2>8. Append(q, "dir") \in Seq(Things) /\ Distinct(Append(q, "dir"))
    BY <2>7, Added DEF Things
  <2> QED
    BY <2>5, <2>8
<1> QED
  BY <1>1, <1>2 DEF InProcess

(* A command begins: it has swapped nothing yet.                           *)
LEMMA BeginInv ==
  ASSUME ProcessInv, NEW t \in Threads, NEW k \in InProcess, Begin(t, k),
         (t \in Tabs /\ step[t] = "idle") \/ (t \in Requests /\ step[t] = "execute")
  PROVE  ProcessInv'
<1> USE DEF ProcessInv
<1>1. /\ step[t] \notin Swapping /\ step' = [step EXCEPT ![t] = "save"] /\ step'[t] = "save"
      /\ todo' = [todo EXCEPT ![t] = Swapped(t, k)] /\ todo'[t] = Swapped(t, k) /\ held[t] = <<>>
      /\ nested' = (order = <<>> \/ (nested /\ step[order[Len(order)]] = "body"))
      /\ UNCHANGED <<global, held, saved, cwd, session, mine, shown, removed>>
  BY DEF Begin, ProcessTypes, Orderly, Swapping, legacy, Last
<1>2. \A u \in Threads \ {t} : step'[u] = step[u] /\ todo'[u] = todo[u]
  BY <1>1 DEF ProcessTypes
<1>3. PICK q \in Seq(Threads) :
        /\ order' = q /\ Distinct(q) /\ Rng(q) = Rng(order) \cup {t}
        /\ Len(order) \in Nat /\ Len(q) = Len(order) + 1 /\ q[Len(order) + 1] = t
        /\ \A i \in 1 .. Len(order) : q[i] = order[i] /\ order[i] \in Threads \ {t}
  <2>1. order \in Seq(Threads) /\ Distinct(order) /\ t \notin Rng(order)
    BY <1>1 DEF ProcessTypes, Bracketed
  <2>2. /\ Append(order, t) \in Seq(Threads) /\ Distinct(Append(order, t))
        /\ Rng(Append(order, t)) = Rng(order) \cup {t}
        /\ Len(Append(order, t)) = Len(order) + 1 /\ Append(order, t)[Len(order) + 1] = t
        /\ \A i \in 1 .. Len(order) : Append(order, t)[i] = order[i]
    BY <2>1, Added
  <2>3. Len(order) \in Nat /\ \A i \in 1 .. Len(order) : order[i] \in Threads \ {t}
    BY <1>1, Ordered
  <2> QED
    BY <2>2, <2>3 DEF Begin
<1>4. Swapped(t, k) \in Seq(Things) /\ Swapped(t, k) # <<>> /\ Distinct(Swapped(t, k))
  BY Swaps
<1>5. nested' \in BOOLEAN
  BY <1>1 DEF ProcessTypes
<1>6. ProcessTypes'
  BY <1>1, <1>3, <1>4, <1>5 DEF ProcessTypes, Swapping
<1>7. Given' /\ PromptIsTrue'
  BY <1>1, <1>2, InterpreterAssumption DEF Given, PromptIsTrue, Swapping, Threads
<1>8. \A u \in Threads : Orderly(u)'
  <2>1. Rng(held[t]) = {}
    BY <1>1 DEF Rng
  <2>2. Orderly(t)'
    BY <1>1, <1>4, <2>1 DEF Orderly, Swapping
  <2>3. \A u \in Threads \ {t} : Orderly(u)'
    BY <1>1, <1>2 DEF Orderly
  <2> QED
    BY <2>2, <2>3
<1>9. ASSUME nested', NEW i \in 1 .. Len(order)
      PROVE  nested /\ step'[q[i]] = "body"
  <2>1. order # <<>>
    <3>1. order = <<>> => Len(order) = 0
      OBVIOUS
    <3> QED
      BY <3>1
  <2>2. nested /\ step[order[Len(order)]] = "body"
    BY <1>1, <1>9, <2>1
  <2>3. step[order[i]] = "body"
    <3>1. i = Len(order) \/ i \in 1 .. Len(order) - 1
      BY <1>3
    <3> QED
      BY <2>2, <3>1 DEF Bracketed
  <2> QED
    BY <1>2, <1>3, <2>2, <2>3
<1>10. Bracketed'
  <2>1. {u \in Threads : step'[u] \in Swapping} = {u \in Threads : step[u] \in Swapping} \cup {t}
    BY <1>1, <1>2 DEF Swapping
  <2>2. ASSUME nested', NEW i \in 1 .. Len(q) - 1
        PROVE  step'[q[i]] = "body"
    BY <1>3, <1>9, <2>2
  <2> QED
    BY <1>3, <2>1, <2>2 DEF Bracketed
<1>11. Layered'
  <2> SUFFICES ASSUME nested', NEW i \in 1 .. Len(q), NEW x \in Rng(held[q[i]])
               PROVE  /\ (\A j \in i + 1 .. Len(q) : x \notin Noted(q[j])') => Fits(q[i], x, global[x])'
                      /\ \A j \in i + 1 .. Len(q) :
                           x \in Noted(q[j])' /\ (\A m \in i + 1 .. j - 1 : x \notin Noted(q[m])')
                             => Fits(q[i], x, saved[q[j]][x])'
    BY <1>1, <1>3 DEF Layered
  <2>1. /\ i \in 1 .. Len(order) /\ q[i] = order[i] /\ x \in Rng(held[order[i]]) /\ nested
    <3>1. i # Len(order) + 1
      BY <1>1, <1>3 DEF Rng
    <3>2. i \in 1 .. Len(order)
      BY <1>3, <3>1
    <3> QED
      BY <1>3, <1>9, <3>2
  <2>2. Noted(t)' = {}
    BY <1>1 DEF Noted, Rng
  <2>3. \A u \in Threads \ {t} : Noted(u)' = Noted(u)
    BY <1>1, <1>2 DEF Noted
  <2>4. \A j \in i + 1 .. Len(order) :
          j \in i + 1 .. Len(q) /\ q[j] = order[j] /\ Noted(q[j])' = Noted(order[j])
    BY <1>3, <2>1, <2>3
  <2>5. Fits(q[i], x, global[x]) => Fits(q[i], x, global[x])'
    BY <1>1 DEF Fits, Shell
  <2>6. \A j \in i + 1 .. Len(q) : Fits(q[i], x, saved[q[j]][x]) => Fits(q[i], x, saved[q[j]][x])'
    BY <1>1 DEF Fits, Shell
  <2>7. ASSUME \A j \in i + 1 .. Len(q) : x \notin Noted(q[j])'
        PROVE  Fits(q[i], x, global[x])'
    <3>1. \A j \in i + 1 .. Len(order) : x \notin Noted(order[j])
      BY <2>4, <2>7
    <3>2. Fits(order[i], x, global[x])
      BY <2>1, <3>1 DEF Layered
    <3> QED
      BY <2>1, <2>5, <3>2
  <2>8. ASSUME NEW j \in i + 1 .. Len(q), x \in Noted(q[j])', \A m \in i + 1 .. j - 1 : x \notin Noted(q[m])'
        PROVE  Fits(q[i], x, saved[q[j]][x])'
    <3>1. j # Len(order) + 1
      BY <1>3, <2>2, <2>8
    <3>2. j \in i + 1 .. Len(order) /\ \A m \in i + 1 .. j - 1 : m \in i + 1 .. Len(order)
      BY <1>3, <2>1, <3>1
    <3>3. x \in Noted(order[j]) /\ \A m \in i + 1 .. j - 1 : x \notin Noted(order[m])
      BY <2>4, <2>8, <3>2
    <3>4. Fits(order[i], x, saved[order[j]][x])
      BY <2>1, <3>2, <3>3 DEF Layered
    <3> QED
      BY <2>1, <2>4, <2>6, <3>2, <3>4
  <2> QED
    BY <2>7, <2>8
<1> QED
  BY <1>6, <1>7, <1>8, <1>10, <1>11

-----------------------------------------------------------------------------
(* At the start no command swaps anything.                                 *)
LEMMA ProcessInitInv == ProcessInit => ProcessInv
<1> SUFFICES ASSUME ProcessInit
             PROVE  ProcessInv
  OBVIOUS
<1> USE DEF ProcessInit
<1>1. ProcessTypes
  BY InterpreterAssumption DEF ProcessTypes, Values, Threads
<1>2. Given /\ PromptIsTrue
  BY InterpreterAssumption DEF Given, PromptIsTrue, Swapping, Threads
<1>3. \A t \in Threads : Orderly(t)
  BY DEF Orderly, Swapping, Distinct
<1>4. Bracketed
  BY DEF Bracketed, Swapping, Distinct, Rng
<1>5. Layered
  BY DEF Layered
<1> QED
  BY <1>1, <1>2, <1>3, <1>4, <1>5 DEF ProcessInv

(* Every step leaves the invariant.                                        *)
LEMMA ProcessNextInv == ProcessInv /\ [ProcessNext]_processVars => ProcessInv'
<1> SUFFICES ASSUME ProcessInv, [ProcessNext]_processVars
             PROVE  ProcessInv'
  OBVIOUS
<1>1. CASE UNCHANGED processVars
  BY <1>1 DEF processVars, swaps, legacy, history, ProcessInv, ProcessTypes, Given, PromptIsTrue,
              Orderly, Bracketed, Layered, Noted, Fits, Shell
<1>2. ASSUME NEW t \in Threads, Save(t) \/ Set(t) \/ Return(t) \/ PutBack(t) \/ Done(t)
      PROVE  ProcessInv'
  BY <1>2, SaveInv, SetInv, ReturnInv, PutBackInv, DoneInv
<1>3. ASSUME NEW t \in Tabs, TabRuns(t) \/ TabCd(t) \/ Interrupted(t)
      PROVE  ProcessInv'
  <2>1. t \in Threads
    BY DEF Threads
  <2>2. ASSUME TabRuns(t)
        PROVE  ProcessInv'
    BY <2>1, <2>2, BeginInv DEF TabRuns
  <2> QED
    BY <1>3, <2>1, <2>2, OthersAside, InterruptedInv
<1>4. ASSUME NEW r \in Requests, Request(r)
      PROVE  ProcessInv'
  <2>1. r \in Threads
    BY DEF Threads
  <2>2. ASSUME ExecuteInProcess(r)
        PROVE  ProcessInv'
    BY <2>1, <2>2, BeginInv DEF ExecuteInProcess
  <2> QED
    BY <1>4, <2>2, RequestAside DEF Request
<1>5. CASE RmTree
  BY <1>5, OthersAside
<1> QED
  BY <1>1, <1>2, <1>3, <1>4, <1>5 DEF ProcessNext

(* The invariant of the process: the commands that swap something are      *)
(* those in order, a request keeps its session, and while commands are     *)
(* nested, what each one put in place (the redirect_stdout and contexts of *)
(* _exec_python, the sinks of _exec_zmux_command) is in place, or noted by *)
(* the first command after it that replaced it.                            *)
THEOREM ProcessInvariant == ProcessSpec => []ProcessInv
  BY ProcessInitInv, ProcessNextInv, PTL DEF ProcessSpec

(* NestedRunsIsolated: however many tabs and requests share the process,   *)
(* and however deep their commands nest, the command started last finds    *)
(* its own screen, keyboard, progress bar and directory in it (the         *)
(* contexts of _exec_python and _exec_zmux_command).                       *)
THEOREM NestedAreIsolated == ProcessSpec => []NestedRunsIsolated
<1>1. ASSUME ProcessInv
      PROVE  NestedRunsIsolated
  <2> SUFFICES ASSUME order # <<>>, nested, NEW t \in Threads, t = Last(order),
                      NEW i \in DOMAIN held[t]
               PROVE  CASE held[t][i] = "dir" -> cwd[Shell(t)] \in {global.dir} \cup removed
                        [] held[t][i] = "progress" -> t \in Tabs => global.progress = t
                        [] OTHER -> global[held[t][i]] = t
    <3>1. order # <<>> => Last(order) \in Threads
      BY <1>1 DEF ProcessInv, ProcessTypes, Last
    <3> QED
      BY <3>1 DEF NestedRunsIsolated, Isolated
  <2>1. Len(order) \in Nat \ {0} /\ t = order[Len(order)]
    BY <1>1 DEF ProcessInv, ProcessTypes, Last
  <2>2. held[t][i] \in Rng(held[t])
    BY DEF Rng
  <2>3. Len(order) \in 1 .. Len(order) /\ Len(order) + 1 .. Len(order) = {}
    BY <2>1
  <2>4. Fits(t, held[t][i], global[held[t][i]])
    BY <1>1, <2>1, <2>2, <2>3 DEF ProcessInv, Layered
  <2> QED
    BY <2>4 DEF Fits
<1> QED
  BY <1>1, ProcessInvariant, PTL

(* PromptIsTrue: with any number of requests in TerminalSession.execute at *)
(* the same time, on sessions that get_session() made twice or not, the    *)
(* prompt tells the directory of a session no request is busy with.        *)
THEOREM PromptTrue == ProcessSpec => []PromptIsTrue
  BY ProcessInvariant, PTL DEF ProcessInv
=============================================================================
