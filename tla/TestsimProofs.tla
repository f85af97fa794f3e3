----------------------------- MODULE TestsimProofs -----------------------------
(***************************************************************************)
(* Proofs about the model of src/tests/devqsim/testsim.js.  The task is a *)
(* single loop, so every reachable state is fixed by the loop variable i:  *)
(* TInv lists them.  The theorems hold for every MaxTicks past the last    *)
(* event (tick 60); below it the model stops early and sim.run() has not  *)
(* returned, which RunCompletes allows.                                    *)
(***************************************************************************)
EXTENDS Testsim, SequenceTheorems, TLAPS

\* The lines the task has printed after n passes of its loop.
Printed(n) == [k \in 1..n |-> <<StartDelay + (k - 1) * Pause, k - 1>>]

\* The states of the run: before the start, paused in pass i, or ended.
TInv ==
    \/ /\ now = 0 /\ i = 0 /\ out = <<>>
       /\ events = {Event(StartDelay, "startTask")}
    \/ /\ i \in 0..4
       /\ now = StartDelay + i * Pause
       /\ out = Printed(i + 1)
       /\ events = {Event(StartDelay + (i + 1) * Pause, "resumeTask")}
    \/ /\ i = 5
       /\ now = StartDelay + 5 * Pause
       /\ out = Printed(5)
       /\ events = {}

LEMMA PrintedIsSeq ==
    ASSUME NEW n \in Nat
    PROVE  /\ Printed(n) \in Seq(Nat \X Nat)
           /\ Len(Printed(n)) = n
<1>1. \A k \in 1..n : <<StartDelay + (k - 1) * Pause, k - 1>> \in Nat \X Nat
  BY DEF StartDelay, Pause
<1>2. Printed(n) \in Seq(Nat \X Nat)
  BY <1>1, IsASeq DEF Printed
<1>3. QED
  BY <1>2, LenProperties DEF Printed

\* A pass that prints extends the printed lines by one.
LEMMA PrintedAppend ==
    ASSUME NEW n \in Nat
    PROVE  Append(Printed(n), <<StartDelay + n * Pause, n>>) = Printed(n + 1)
<1> DEFINE x == <<StartDelay + n * Pause, n>>
<1>1. x \in Nat \X Nat
  BY DEF StartDelay, Pause
<1>0. Printed(n) \in Seq(Nat \X Nat) /\ Len(Printed(n)) = n
  BY PrintedIsSeq
<1>2. /\ Append(Printed(n), x) \in Seq(Nat \X Nat)
      /\ Len(Append(Printed(n), x)) = n + 1
      /\ \A k \in 1..n : Append(Printed(n), x)[k] = Printed(n)[k]
      /\ Append(Printed(n), x)[n + 1] = x
  BY <1>0, <1>1, AppendProperties
<1>3. Printed(n + 1) \in Seq(Nat \X Nat) /\ Len(Printed(n + 1)) = n + 1
  BY PrintedIsSeq
<1>4. \A k \in 1..n + 1 : Append(Printed(n), x)[k] = Printed(n + 1)[k]
  BY <1>2 DEF Printed
<1>5. QED
  BY <1>2, <1>3, <1>4, SeqEqual

LEMMA InitTInv == Init => TInv
BY DEF Init, TInv

LEMMA NextTInv == TInv /\ [Next]_vars => TInv'
<1> SUFFICES ASSUME TInv, [Next]_vars PROVE TInv'
  OBVIOUS
<1>1. CASE UNCHANGED vars
  BY <1>1 DEF TInv, vars
<1>2. CASE Next
  <2> PICK e \in Earliest(events) : StartTask(e) \/ ResumeTask(e)
    BY <1>2 DEF Next
  <2>1. CASE now = 0 /\ i = 0 /\ out = <<>>
             /\ events = {Event(StartDelay, "startTask")}
    <3>1. e = Event(StartDelay, "startTask")
      BY <2>1 DEF Earliest
    <3>2. StartTask(e)
      BY <3>1 DEF ResumeTask, Event
    <3>3. Append(out, <<e.at, i>>) = Printed(1)
      <4>1. Printed(0) = <<>>
        BY DEF Printed
      <4>2. Append(Printed(0), <<StartDelay + 0 * Pause, 0>>) = Printed(0 + 1)
        BY PrintedAppend
      <4>3. <<e.at, i>> = <<StartDelay + 0 * Pause, 0>> /\ 0 + 1 = 1
        BY <2>1, <3>1 DEF Event, StartDelay, Pause
      <4>4. QED
        BY <2>1, <4>1, <4>2, <4>3, Zenon
    <3>4. QED
      BY <2>1, <3>1, <3>2, <3>3 DEF StartTask, TInv, Event, StartDelay, Pause
  <2>2. CASE /\ i \in 0..4
             /\ now = StartDelay + i * Pause
             /\ out = Printed(i + 1)
             /\ events = {Event(StartDelay + (i + 1) * Pause, "resumeTask")}
    <3>1. e = Event(StartDelay + (i + 1) * Pause, "resumeTask")
      BY <2>2 DEF Earliest
    <3>2. ResumeTask(e)
      BY <3>1 DEF StartTask, Event
    <3>3. CASE i + 1 < 5
      <4>1. Append(out, <<e.at, i + 1>>) = Printed(i + 2)
        <5>1. Append(Printed(i + 1), <<StartDelay + (i + 1) * Pause, i + 1>>)
                = Printed(i + 1 + 1)
          <6>1. i + 1 \in Nat
            BY <2>2
          <6>2. QED
            BY <6>1, PrintedAppend, Zenon
        <5>2. QED
          BY <2>2, <3>1, <5>1 DEF Event
      <4>2. /\ i' \in 0..4
            /\ now' = StartDelay + i' * Pause
            /\ out' = Printed(i' + 1)
            /\ events' = {Event(StartDelay + (i' + 1) * Pause, "resumeTask")}
        <5>1. events \ {e} = {}
          BY <2>2, <3>1
        <5>2. /\ i' = i + 1 /\ now' = e.at
              /\ events' = (events \ {e}) \cup {Event(e.at + Pause, "resumeTask")}
              /\ out' = Append(out, <<e.at, i + 1>>)
          BY <3>2, <3>3 DEF ResumeTask
        <5>3. e.at = StartDelay + (i + 1) * Pause
          BY <3>1 DEF Event
        <5>4. i' \in 0..4 /\ now' = StartDelay + i' * Pause
          BY <2>2, <3>3, <5>2, <5>3 DEF StartDelay, Pause
        <5>5. out' = Printed(i' + 1)
          <6>1. i' + 1 = i + 2
            BY <2>2, <5>2
          <6>2. QED
            BY <4>1, <5>2, <6>1, Zenon
        <5>6. events' = {Event(StartDelay + (i' + 1) * Pause, "resumeTask")}
          BY <5>1, <5>2, <5>3 DEF Event, StartDelay, Pause
        <5>7. QED
          BY <5>4, <5>5, <5>6
      <4>3. QED
        BY <4>2 DEF TInv
    <3>4. CASE ~(i + 1 < 5)
      BY <2>2, <3>1, <3>2, <3>4 DEF ResumeTask, TInv, Event, StartDelay, Pause
    <3>5. QED
      BY <3>3, <3>4
  <2>3. CASE i = 5 /\ events = {}
    BY <2>3 DEF Earliest
  <2>4. QED
    BY <2>1, <2>2, <2>3 DEF TInv
<1>3. QED
  BY <1>1, <1>2

THEOREM TestsimInvariant == Spec => []TInv
BY InitTInv, NextTInv, PTL DEF Spec

LEMMA TInvTypeOK ==
    ASSUME TInv
    PROVE  TypeOK
<1>1. CASE now = 0 /\ i = 0 /\ out = <<>>
           /\ events = {Event(StartDelay, "startTask")}
  BY <1>1, EmptySeq DEF TypeOK, Event, StartDelay
<1>2. CASE /\ i \in 0..4
           /\ now = StartDelay + i * Pause
           /\ out = Printed(i + 1)
           /\ events = {Event(StartDelay + (i + 1) * Pause, "resumeTask")}
  <2>1. Printed(i + 1) \in Seq(Nat \X Nat)
    BY <1>2, PrintedIsSeq
  <2>2. QED
    BY <1>2, <2>1 DEF TypeOK, Event, StartDelay, Pause
<1>3. CASE /\ i = 5
           /\ now = StartDelay + 5 * Pause
           /\ out = Printed(5)
           /\ events = {}
  <2>1. Printed(5) \in Seq(Nat \X Nat)
    BY PrintedIsSeq
  <2>2. QED
    BY <1>3, <2>1 DEF TypeOK, StartDelay, Pause
<1>4. QED
  BY <1>1, <1>2, <1>3 DEF TInv

(* Type correctness of the model of testsim.js.                            *)
THEOREM TestsimTypeCorrect == Spec => []TypeOK
<1>1. TInv => TypeOK
  BY TInvTypeOK
<1>2. QED
  BY <1>1, TestsimInvariant, PTL

LEMMA TInvCompletes ==
    ASSUME TInv
    PROVE  TestsimRunCompletes
BY DEF TInv, TestsimRunCompletes, Printed

(* sim.run() (testsim.js line 14) returns only after the task has printed *)
(* its five lines at ticks 10 .. 50 with i = 0 .. 4, for every MaxTicks.   *)
THEOREM TestsimRunCompletesHolds == Spec => []TestsimRunCompletes
<1>1. TInv => TestsimRunCompletes
  BY TInvCompletes
<1>2. QED
  BY <1>1, TestsimInvariant, PTL
=============================================================================
