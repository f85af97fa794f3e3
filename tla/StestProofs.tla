------------------------------ MODULE StestProofs ------------------------------
(***************************************************************************)
(* Proofs about the model of src/tests/devqsim/stest.js.  The two calls    *)
(* and the task's five passes run in one order only, so SInv lists the     *)
(* states of the run.  The theorems assume a tick rate that is a multiple  *)
(* of 10 (the script's is 1000.0): then sim.getTicks of each literal of    *)
(* the script, in tenths of a unit, is exact and the task's pause of 0.1   *)
(* lands it on the tick of 3.1, 3.2, ...  With another rate (TLC shows 5  *)
(* and 15) the truncated pauses drift from getTicks(3.1), getTicks(3.2),   *)
(* ... and StestRunCompletes fails, so the hypothesis is needed.           *)
(***************************************************************************)
EXTENDS Stest, SequenceTheorems, TLAPS

\* The tick rate is a positive multiple of 10.
TicksDecimal == \E k \in Nat \ {0} : TicksPerUnit = 10 * k

\* Ticks per tenth of a unit.
K == TicksPerUnit \div 10

\* The lines stest.js prints, in order (the times of StestRunCompletes).
Expected == <<Ticks(20), Ticks(30), Ticks(31), Ticks(32), Ticks(33),
              Ticks(34), Ticks(40)>>

\* The first m lines.
Shown(m) == [k \in 1..m |-> Expected[k]]

\* The states of the run: nothing run yet, the call due at 2.0 done, the
\* task paused in pass i, the task ended, and the call due at 4.0 done.
SInv ==
    \/ /\ now = 0 /\ i = 0 /\ out = <<>>
       /\ events = {Event(Ticks(40), "call4"), Event(Ticks(20), "call2"),
                    Event(Ticks(30), "startTask")}
    \/ /\ now = Ticks(20) /\ i = 0 /\ out = Shown(1)
       /\ events = {Event(Ticks(40), "call4"), Event(Ticks(30), "startTask")}
    \/ /\ i \in 0..4 /\ now = Ticks(30 + i) /\ out = Shown(i + 2)
       /\ events = {Event(Ticks(40), "call4"),
                    Event(Ticks(31 + i), "resumeTask")}
    \/ /\ i = 5 /\ now = Ticks(35) /\ out = Shown(6)
       /\ events = {Event(Ticks(40), "call4")}
    \/ /\ i = 5 /\ now = Ticks(40) /\ out = Shown(7)
       /\ events = {}

LEMMA TicksLinear ==
    ASSUME TicksDecimal, NEW n \in Nat
    PROVE  /\ K \in Nat \ {0}
           /\ Ticks(n) = n * K
<1>1. PICK k \in Nat \ {0} : TicksPerUnit = 10 * k
  BY DEF TicksDecimal
<1>2. K = k
  BY <1>1 DEF K
<1>3. Ticks(n) = (10 * (n * k)) \div 10
  BY <1>1 DEF Ticks
<1>4. QED
  BY <1>2, <1>3

LEMMA ExpectedFacts ==
    ASSUME TicksDecimal
    PROVE  /\ Expected \in Seq(Nat) /\ Len(Expected) = 7
           /\ \A k \in 1..7 : Expected[k] \in Nat
           /\ Expected[1] = Ticks(20) /\ Expected[7] = Ticks(40)
           /\ \A j \in 0..4 : Expected[j + 2] = Ticks(30 + j)
           /\ \A k \in 1..6 : Expected[k] <= Expected[k + 1]
<1>1. /\ Ticks(20) = 20 * K /\ Ticks(30) = 30 * K /\ Ticks(31) = 31 * K
      /\ Ticks(32) = 32 * K /\ Ticks(33) = 33 * K /\ Ticks(34) = 34 * K
      /\ Ticks(40) = 40 * K /\ K \in Nat \ {0}
  BY TicksLinear
<1>2. \A j \in 0..4 : Ticks(30 + j) = (30 + j) * K
  BY TicksLinear
<1>3. QED
  BY <1>1, <1>2 DEF Expected

LEMMA ShownIsSeq ==
    ASSUME TicksDecimal, NEW m \in 0..7
    PROVE  /\ Shown(m) \in Seq(Nat)
           /\ Len(Shown(m)) = m
<1>0. \A k \in 1..7 : Expected[k] \in Nat
  BY ExpectedFacts, Zenon
<1>1. \A k \in 1..m : Expected[k] \in Nat
  BY <1>0
<1>2. Shown(m) \in Seq(Nat)
  BY <1>1, IsASeq DEF Shown
<1>3. QED
  BY <1>2, LenProperties DEF Shown

\* A print extends the lines shown by the next expected one.
LEMMA ShownAppend ==
    ASSUME TicksDecimal, NEW m \in 0..6
    PROVE  Append(Shown(m), Expected[m + 1]) = Shown(m + 1)
<1> DEFINE x == Expected[m + 1]
<1>1. x \in Nat
  <2>1. \A k \in 1..7 : Expected[k] \in Nat
    BY ExpectedFacts, Zenon
  <2>2. m + 1 \in 1..7
    OBVIOUS
  <2>3. QED
    BY <2>1, <2>2
<1>2. Shown(m) \in Seq(Nat) /\ Len(Shown(m)) = m
  <2>1. m \in 0..7
    OBVIOUS
  <2>2. QED
    BY <2>1, ShownIsSeq, Zenon
<1>3. /\ Append(Shown(m), x) \in Seq(Nat)
      /\ Len(Append(Shown(m), x)) = m + 1
      /\ \A k \in 1..m : Append(Shown(m), x)[k] = Shown(m)[k]
      /\ Append(Shown(m), x)[m + 1] = x
  BY <1>1, <1>2, AppendProperties
<1>4. Shown(m + 1) \in Seq(Nat) /\ Len(Shown(m + 1)) = m + 1
  <2>1. m + 1 \in 0..7
    OBVIOUS
  <2>2. QED
    BY <2>1, ShownIsSeq, Zenon
<1>5. \A k \in 1..m + 1 : Append(Shown(m), x)[k] = Shown(m + 1)[k]
  BY <1>3 DEF Shown
<1>6. QED
  BY <1>3, <1>4, <1>5, SeqEqual

LEMMA ShownZero == Shown(0) = <<>>
BY DEF Shown

LEMMA InitSInv == Init => SInv
BY DEF Init, SInv

\* The event that runs from a set of pending events with one earliest.
LEMMA EarliestOfTwo ==
    ASSUME NEW a, NEW b, NEW ta \in Nat, NEW tb \in Nat, ta < tb,
           NEW e \in Earliest({Event(ta, a), Event(tb, b)})
    PROVE  e = Event(ta, a)
BY DEF Earliest, Event

LEMMA NextSInv ==
    ASSUME TicksDecimal
    PROVE  SInv /\ [Next]_vars => SInv'
<1> SUFFICES ASSUME SInv, [Next]_vars PROVE SInv'
  OBVIOUS
<1>0. /\ K \in Nat \ {0}
      /\ \A n \in Nat : Ticks(n) = n * K
  BY TicksLinear
<1>9. /\ Expected[1] = Ticks(20) /\ Expected[7] = Ticks(40)
      /\ \A j \in 0..4 : Expected[j + 2] = Ticks(30 + j)
  BY ExpectedFacts, Zenon
<1>1. CASE UNCHANGED vars
  BY <1>1 DEF SInv, vars
<1>2. CASE Next
  <2> PICK e \in Earliest(events) :
           Call(e) \/ StartTask(e) \/ ResumeTask(e)
    BY <1>2 DEF Next
  <2>1. CASE /\ now = 0 /\ i = 0 /\ out = <<>>
             /\ events = {Event(Ticks(40), "call4"), Event(Ticks(20), "call2"),
                          Event(Ticks(30), "startTask")}
    <3>1. e = Event(Ticks(20), "call2")
      BY <1>0, <2>1 DEF Earliest, Event
    <3>2. /\ now' = Ticks(20) /\ i' = 0
          /\ events' = {Event(Ticks(40), "call4"), Event(Ticks(30), "startTask")}
          /\ out' = Append(out, Ticks(20))
      <4>1. Call(e)
        BY <3>1 DEF StartTask, ResumeTask, Event
      <4>2. events \ {e} = {Event(Ticks(40), "call4"), Event(Ticks(30), "startTask")}
        BY <2>1, <3>1 DEF Event
      <4>3. QED
        BY <2>1, <3>1, <4>1, <4>2 DEF Call, Event
    <3>3. Append(Shown(0), Expected[0 + 1]) = Shown(0 + 1)
      BY ShownAppend
    <3>4. out' = Shown(1)
      <4>1. Expected[0 + 1] = Ticks(20) /\ 0 + 1 = 1
        BY <1>9
      <4>2. QED
        BY <2>1, <3>2, <3>3, <4>1, ShownZero, Zenon
    <3>5. QED
      BY <3>2, <3>4 DEF SInv
  <2>2. CASE /\ now = Ticks(20) /\ i = 0 /\ out = Shown(1)
             /\ events = {Event(Ticks(40), "call4"), Event(Ticks(30), "startTask")}
    <3>1. e = Event(Ticks(30), "startTask")
      BY <1>0, <2>2, EarliestOfTwo DEF Earliest, Event
    <3>2. /\ now' = Ticks(30) /\ i' = 0
          /\ events' = {Event(Ticks(40), "call4"),
                        Event(Ticks(31), "resumeTask")}
          /\ out' = Append(out, Ticks(30))
      <4>1. StartTask(e)
        BY <3>1 DEF Call, ResumeTask, Event
      <4>2. events \ {e} = {Event(Ticks(40), "call4")}
        BY <2>2, <3>1 DEF Event
      <4>3. e.at + Ticks(1) = Ticks(31)
        BY <1>0, <3>1 DEF Event
      <4>4. QED
        BY <2>2, <3>1, <4>1, <4>2, <4>3 DEF StartTask, Event
    <3>3. Append(Shown(1), Expected[1 + 1]) = Shown(1 + 1)
      BY ShownAppend
    <3>4. out' = Shown(2)
      <4>1. Expected[1 + 1] = Ticks(30) /\ 1 + 1 = 2
        BY <1>9
      <4>2. QED
        BY <2>2, <3>2, <3>3, <4>1, Zenon
    <3>5. /\ i' \in 0..4 /\ now' = Ticks(30 + i') /\ out' = Shown(i' + 2)
          /\ events' = {Event(Ticks(40), "call4"),
                        Event(Ticks(31 + i'), "resumeTask")}
      <4>1. 30 + i' = 30 /\ 31 + i' = 31 /\ i' + 2 = 2
        BY <3>2
      <4>2. QED
        BY <3>2, <3>4, <4>1
    <3>6. QED
      BY <3>5 DEF SInv
  <2>3. CASE /\ i \in 0..4 /\ now = Ticks(30 + i) /\ out = Shown(i + 2)
             /\ events = {Event(Ticks(40), "call4"),
                          Event(Ticks(31 + i), "resumeTask")}
    <3>1. e = Event(Ticks(31 + i), "resumeTask")
      BY <1>0, <2>3 DEF Earliest, Event
    <3>2. ResumeTask(e) /\ now' = Ticks(31 + i) /\ i' = i + 1
      BY <3>1 DEF Call, StartTask, ResumeTask, Event
    <3>3. CASE i + 1 < 5
      <4>1. /\ events' = {Event(Ticks(40), "call4"),
                          Event(Ticks(31 + i'), "resumeTask")}
            /\ out' = Append(out, Ticks(31 + i))
        <5>1. events \ {e} = {Event(Ticks(40), "call4")}
          BY <2>3, <3>1 DEF Event
        <5>2. e.at + Ticks(1) = Ticks(31 + i')
          <6>1. 31 + i \in Nat /\ 31 + i' \in Nat /\ 31 + i' = 31 + i + 1
            BY <2>3, <3>2
          <6>2. QED
            BY <1>0, <3>1, <6>1 DEF Event
        <5>3. QED
          BY <3>1, <3>2, <3>3, <5>1, <5>2 DEF ResumeTask, Event
      <4>2. Append(Shown(i + 2), Expected[i + 2 + 1]) = Shown(i + 2 + 1)
        <5>1. i + 2 \in 0..6
          BY <2>3, <3>3
        <5>2. QED
          BY <5>1, ShownAppend, Zenon
      <4>3. Expected[i + 2 + 1] = Ticks(31 + i)
        <5>1. i + 1 \in 0..4 /\ i + 2 + 1 = (i + 1) + 2 /\ 30 + (i + 1) = 31 + i
          BY <2>3, <3>3
        <5>2. QED
          BY <5>1, <1>9, Zenon
      <4>4. out' = Shown(i' + 2)
        <5>1. i' + 2 = i + 2 + 1
          BY <2>3, <3>2
        <5>2. QED
          BY <2>3, <4>1, <4>2, <4>3, <5>1, Zenon
      <4>5. i' \in 0..4 /\ now' = Ticks(30 + i')
        <5>1. 30 + i' = 31 + i /\ i' \in 0..4
          BY <2>3, <3>2, <3>3
        <5>2. QED
          BY <3>2, <5>1, Zenon
      <4>6. QED
        BY <4>1, <4>4, <4>5 DEF SInv
    <3>4. CASE ~(i + 1 < 5)
      <4>1. i = 4 /\ i' = 5
        BY <2>3, <3>2, <3>4
      <4>2. events' = {Event(Ticks(40), "call4")} /\ out' = out
        <5>1. events \ {e} = {Event(Ticks(40), "call4")}
          BY <2>3, <3>1 DEF Event
        <5>2. QED
          BY <3>2, <3>4, <5>1 DEF ResumeTask
      <4>3. now' = Ticks(35) /\ out' = Shown(6)
        <5>1. 31 + i = 35 /\ i + 2 = 6
          BY <4>1
        <5>2. QED
          BY <2>3, <3>2, <4>2, <5>1, Zenon
      <4>4. QED
        BY <4>1, <4>2, <4>3 DEF SInv
    <3>5. QED
      BY <3>3, <3>4
  <2>4. CASE /\ i = 5 /\ now = Ticks(35) /\ out = Shown(6)
             /\ events = {Event(Ticks(40), "call4")}
    <3>1. e = Event(Ticks(40), "call4")
      BY <2>4 DEF Earliest
    <3>2. /\ now' = Ticks(40) /\ i' = 5 /\ events' = {}
          /\ out' = Append(out, Ticks(40))
      <4>1. Call(e)
        BY <3>1 DEF StartTask, ResumeTask, Event
      <4>2. QED
        BY <2>4, <3>1, <4>1 DEF Call, Event
    <3>3. Append(Shown(6), Expected[6 + 1]) = Shown(6 + 1)
      BY ShownAppend
    <3>4. out' = Shown(7)
      <4>1. Expected[6 + 1] = Ticks(40) /\ 6 + 1 = 7
        BY <1>9
      <4>2. QED
        BY <2>4, <3>2, <3>3, <4>1, Zenon
    <3>5. QED
      BY <3>2, <3>4 DEF SInv
  <2>5. CASE i = 5 /\ now = Ticks(40) /\ out = Shown(7) /\ events = {}
    BY <2>5 DEF Earliest
  <2>6. QED
    BY <2>1, <2>2, <2>3, <2>4, <2>5 DEF SInv
<1>3. QED
  BY <1>1, <1>2

THEOREM StestInvariant ==
    ASSUME TicksDecimal
    PROVE  Spec => []SInv
BY InitSInv, NextSInv, PTL DEF Spec

\* The list of lines once the call due at 4.0 has printed.
LEMMA ShownAll ==
    ASSUME TicksDecimal
    PROVE  Shown(7) = Expected
<1>1. Shown(7) \in Seq(Nat) /\ Len(Shown(7)) = 7
  <2>1. 7 \in 0..7
    OBVIOUS
  <2>2. QED
    BY <2>1, ShownIsSeq, Zenon
<1>2. Expected \in Seq(Nat) /\ Len(Expected) = 7
  BY ExpectedFacts, Zenon
<1>3. \A k \in 1..7 : Shown(7)[k] = Expected[k]
  BY DEF Shown
<1>4. QED
  BY <1>1, <1>2, <1>3, SeqEqual

LEMMA SInvTypeOK ==
    ASSUME TicksDecimal, SInv
    PROVE  TypeOK
<1>1. /\ Ticks(20) \in Nat /\ Ticks(35) \in Nat /\ Ticks(40) \in Nat
      /\ \A j \in 0..4 : Ticks(30 + j) \in Nat /\ Ticks(31 + j) \in Nat
  BY TicksLinear
<1>2. /\ Shown(1) \in Seq(Nat) /\ Shown(6) \in Seq(Nat)
      /\ Shown(7) \in Seq(Nat)
      /\ \A j \in 0..4 : Shown(j + 2) \in Seq(Nat)
  BY ShownIsSeq
<1>3. <<>> \in Seq(Nat)
  BY EmptySeq
<1> DEFINE Typed(E) == \A e \in E : e \in [at : Nat, act : Acts]
<1>4. /\ now \in Nat /\ i \in 0..5 /\ out \in Seq(Nat) /\ Typed(events)
  <2>1. CASE /\ now = 0 /\ i = 0 /\ out = <<>>
             /\ events = {Event(Ticks(40), "call4"), Event(Ticks(20), "call2"),
                          Event(Ticks(30), "startTask")}
    <3>1. Ticks(30) \in Nat
      BY <1>1
    <3>2. QED
      BY <1>1, <1>3, <2>1, <3>1 DEF Acts, Event
  <2>2. CASE /\ now = Ticks(20) /\ i = 0 /\ out = Shown(1)
             /\ events = {Event(Ticks(40), "call4"), Event(Ticks(30), "startTask")}
    <3>1. Ticks(30) \in Nat
      BY <1>1
    <3>2. QED
      BY <1>1, <1>2, <2>2, <3>1 DEF Acts, Event
  <2>3. CASE /\ i \in 0..4 /\ now = Ticks(30 + i) /\ out = Shown(i + 2)
             /\ events = {Event(Ticks(40), "call4"),
                          Event(Ticks(31 + i), "resumeTask")}
    <3>1. Ticks(30 + i) \in Nat /\ Ticks(31 + i) \in Nat /\ Shown(i + 2) \in Seq(Nat)
      BY <1>1, <1>2, <2>3
    <3>2. QED
      BY <1>1, <2>3, <3>1 DEF Acts, Event
  <2>4. CASE /\ i = 5 /\ now = Ticks(35) /\ out = Shown(6)
             /\ events = {Event(Ticks(40), "call4")}
    BY <1>1, <1>2, <2>4 DEF Acts, Event
  <2>5. CASE i = 5 /\ now = Ticks(40) /\ out = Shown(7) /\ events = {}
    BY <1>1, <1>2, <2>5
  <2>6. QED
    BY <2>1, <2>2, <2>3, <2>4, <2>5 DEF SInv
<1>5. QED
  BY <1>4 DEF TypeOK

(* Type correctness of the model of stest.js.                              *)
THEOREM StestTypeCorrect ==
    ASSUME TicksDecimal
    PROVE  Spec => []TypeOK
<1>1. SInv => TypeOK
  BY SInvTypeOK, Zenon
<1>2. QED
  BY <1>1, StestInvariant, PTL

LEMMA SInvCompletes ==
    ASSUME TicksDecimal, SInv
    PROVE  StestRunCompletes
<1> SUFFICES ASSUME events = {} PROVE out = Expected
  BY DEF StestRunCompletes, Expected
<1>1. out = Shown(7)
  BY DEF SInv
<1>2. QED
  BY <1>1, ShownAll, Zenon

(* sim.run() (stest.js line 25) returns only after the seven lines at 2.0, *)
(* 3.0 .. 3.4 and 4.0 have been printed, for every tick rate that is a    *)
(* multiple of 10.                                                         *)
THEOREM StestRunCompletesHolds ==
    ASSUME TicksDecimal
    PROVE  Spec => []StestRunCompletes
<1>1. SInv => StestRunCompletes
  BY SInvCompletes, Zenon
<1>2. QED
  BY <1>1, StestInvariant, PTL
=============================================================================
