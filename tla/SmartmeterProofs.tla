---------------------------- MODULE SmartmeterProofs ----------------------------
(***************************************************************************)
(* Proofs about the model of src/examples/smartmeter/script.js, for every *)
(* tick rate and run length with at least 5 ticks in the run (the script's *)
(* has 1000 ticks per second for 16 hours).  With fewer ticks Math.round   *)
(* can put both reductions on one tick (4 ticks: 0.4 and 0.6 of the run    *)
(* both round to 2), and then either call may run first.  The suite of    *)
(* src/examples interleaves the script with the p3d views, which share no *)
(* state with it, so what holds of the script holds in the suite.         *)
(***************************************************************************)
EXTENDS ExamplesSuite, SequenceTheorems, TLAPS

\* The run's end time is a natural number of ticks, at least 5.
RunLength ==
    /\ TicksPerUnit \in Nat \ {0}
    /\ MaxTime \in Nat
    /\ TicksPerUnit * MaxTime >= 5

\* Both lines the calls print, in time order.
BothCalls == << <<Time1, 7>>, <<Time2, 10>> >>

\* The states of the script: before scheduling (or thrown), with one or
\* both calls scheduled, after each call, and after sim.run() returned.
MInv ==
    /\ hostOs \in BOOLEAN /\ hostImg \in BOOLEAN
    /\ \/ /\ pc \in {"preamble", "setup", "schedule1", "thrown"}
          /\ now = 0 /\ events = {} /\ frac = NoFraction /\ log = <<>>
       \/ /\ pc = "schedule2"
          /\ now = 0 /\ events = {Event(Time1, 7)} /\ frac = NoFraction
          /\ log = <<>>
       \/ /\ pc = "run"
          /\ now = 0 /\ events = {Event(Time1, 7), Event(Time2, 10)}
          /\ frac = NoFraction /\ log = <<>>
       \/ /\ pc = "run"
          /\ now = Time1 /\ events = {Event(Time2, 10)} /\ frac = 7
          /\ log = << <<Time1, 7>> >>
       \/ /\ pc \in {"run", "done"}
          /\ now = IF pc = "run" THEN Time2 ELSE EndTime
          /\ events = {} /\ frac = 10 /\ log = BothCalls

\* Lines 86-90: the two times fall inside the run, in order.
LEMMA TimesInRun ==
    ASSUME RunLength
    PROVE  /\ EndTime \in Nat
           /\ Time1 \in Nat /\ Time2 \in Nat
           /\ 0 < Time1 /\ Time1 < Time2 /\ Time2 <= EndTime
<1> DEFINE E == TicksPerUnit * MaxTime
<1>1. E \in Nat /\ E >= 5
  BY DEF RunLength
<1>2. Time1 = (8 * E + 10) \div 20 /\ Time2 = (12 * E + 10) \div 20
  BY <1>1 DEF Time1, Time2, RoundDiv, EndTime
<1>3. QED
  BY <1>1, <1>2 DEF EndTime

\* The second call's line follows the first's.
LEMMA AppendPair ==
    ASSUME NEW S, NEW a \in S, NEW b \in S
    PROVE  Append(<<a>>, b) = <<a, b>>
<1>1. /\ <<a>> \in Seq(S) /\ Len(<<a>>) = 1 /\ <<a>>[1] = a
      /\ <<a, b>> \in Seq(S) /\ Len(<<a, b>>) = 2
      /\ <<a, b>>[1] = a /\ <<a, b>>[2] = b
  OBVIOUS
<1>2. /\ Append(<<a>>, b) \in Seq(S) /\ Len(Append(<<a>>, b)) = 2
      /\ Append(<<a>>, b)[1] = a /\ Append(<<a>>, b)[2] = b
  BY <1>1, AppendProperties
<1>3. \A i \in 1..Len(Append(<<a>>, b)) : Append(<<a>>, b)[i] = <<a, b>>[i]
  BY <1>1, <1>2
<1>4. QED
  BY <1>1, <1>2, <1>3, SeqEqual, Zenon

LEMMA InitMInv == Init => MInv
BY DEF Init, MInv

LEMMA NextMInv ==
    ASSUME RunLength
    PROVE  MInv /\ [Next]_vars => MInv'
<1> SUFFICES ASSUME MInv, [Next]_vars PROVE MInv'
  OBVIOUS
<1>0. /\ Time1 \in Nat /\ Time2 \in Nat /\ EndTime \in Nat
      /\ 0 < Time1 /\ Time1 < Time2 /\ Time2 <= EndTime
  BY TimesInRun
<1>1. CASE UNCHANGED vars
  BY <1>1 DEF MInv, vars
<1>2. CASE Preamble
  BY <1>2 DEF Preamble, MInv
<1>3. CASE Setup
  BY <1>3 DEF Setup, MInv
<1>4. CASE Schedule1
  BY <1>4 DEF Schedule1, MInv
<1>5. CASE Schedule2
  BY <1>5 DEF Schedule2, MInv
<1>6. CASE \E e \in Earliest(events) : CallObject(e)
  <2> PICK e \in Earliest(events) : CallObject(e)
    BY <1>6
  <2>1. pc = "run" /\ events # {}
    BY DEF CallObject, Earliest
  <2>2. CASE now = 0 /\ events = {Event(Time1, 7), Event(Time2, 10)}
             /\ frac = NoFraction /\ log = <<>>
    <3>1. e = Event(Time1, 7)
      BY <1>0, <2>2 DEF Earliest, Event
    <3>2. events \ {e} = {Event(Time2, 10)}
      BY <1>0, <2>2, <3>1 DEF Event
    <3>3. /\ pc' = "run" /\ now' = Time1 /\ events' = {Event(Time2, 10)}
          /\ frac' = 7 /\ log' = << <<Time1, 7>> >>
          /\ UNCHANGED <<hostOs, hostImg>>
      BY <2>1, <2>2, <3>1, <3>2 DEF CallObject, Event
    <3>4. QED
      BY <3>3 DEF MInv
  <2>3. CASE now = Time1 /\ events = {Event(Time2, 10)} /\ frac = 7
             /\ log = << <<Time1, 7>> >>
    <3>1. e = Event(Time2, 10)
      BY <2>3 DEF Earliest
    <3>2. Append(<< <<Time1, 7>> >>, <<Time2, 10>>) = BothCalls
      <4>1. <<Time1, 7>> \in Nat \X Nat /\ <<Time2, 10>> \in Nat \X Nat
        BY <1>0
      <4>2. QED
        BY <4>1, AppendPair, Zenon DEF BothCalls
    <3>3. /\ pc' = "run" /\ now' = Time2 /\ events' = {}
          /\ frac' = 10 /\ log' = Append(<< <<Time1, 7>> >>, <<Time2, 10>>)
          /\ UNCHANGED <<hostOs, hostImg>>
      BY <2>1, <2>3, <3>1 DEF CallObject, Event
    <3>4. QED
      BY <3>2, <3>3 DEF MInv
  <2>4. QED
    BY <2>1, <2>2, <2>3 DEF MInv
<1>7. CASE RunReturns
  <2>1. pc = "run" /\ \A e \in events : e.at > EndTime
    BY <1>7 DEF RunReturns
  <2>2. Event(Time1, 7) \notin events /\ Event(Time2, 10) \notin events
    BY <1>0, <2>1 DEF Event
  <2>3. events = {} /\ now = Time2 /\ frac = 10 /\ log = BothCalls
    BY <2>1, <2>2 DEF MInv
  <2>4. QED
    BY <1>7, <2>1, <2>3 DEF RunReturns, MInv
<1>8. QED
  BY <1>1, <1>2, <1>3, <1>4, <1>5, <1>6, <1>7 DEF Next

THEOREM SmartmeterInvariant ==
    ASSUME RunLength
    PROVE  Spec => []MInv
BY InitMInv, NextMInv, PTL DEF Spec

(* Type correctness of the model of smartmeter/script.js.                  *)
THEOREM SmartmeterTypeCorrect ==
    ASSUME RunLength
    PROVE  Spec => []TypeOK
<1>1. MInv => TypeOK
  <2> SUFFICES ASSUME MInv PROVE TypeOK
    OBVIOUS
  <2>0. hostOs \in BOOLEAN /\ hostImg \in BOOLEAN
    BY DEF MInv
  <2>1. /\ Time1 \in 0..EndTime /\ Time2 \in 0..EndTime /\ EndTime \in Nat
        /\ EndTime \in 0..EndTime
    BY TimesInRun
  <2>2. /\ <<>> \in Seq((0..EndTime) \X {7, 10})
        /\ << <<Time1, 7>> >> \in Seq((0..EndTime) \X {7, 10})
        /\ BothCalls \in Seq((0..EndTime) \X {7, 10})
    BY <2>1 DEF BothCalls
  <2>3. /\ Event(Time1, 7) \in [at : 0..EndTime, act : {7, 10}]
        /\ Event(Time2, 10) \in [at : 0..EndTime, act : {7, 10}]
        /\ 0 \in 0..EndTime
    BY <2>1 DEF Event
  <2>4. CASE pc \in {"preamble", "setup", "schedule1", "thrown"}
             /\ now = 0 /\ events = {} /\ frac = NoFraction /\ log = <<>>
    BY <2>1, <2>2, <2>3, <2>4, <2>0 DEF TypeOK
  <2>5. CASE pc = "schedule2" /\ now = 0 /\ events = {Event(Time1, 7)}
             /\ frac = NoFraction /\ log = <<>>
    BY <2>1, <2>2, <2>3, <2>5, <2>0 DEF TypeOK
  <2>6. CASE pc = "run" /\ now = 0
             /\ events = {Event(Time1, 7), Event(Time2, 10)}
             /\ frac = NoFraction /\ log = <<>>
    BY <2>1, <2>2, <2>3, <2>6, <2>0 DEF TypeOK
  <2>7. CASE pc = "run" /\ now = Time1 /\ events = {Event(Time2, 10)}
             /\ frac = 7 /\ log = << <<Time1, 7>> >>
    <3>1. now \in 0..EndTime /\ frac \in {NoFraction, 7, 10}
      BY <2>1, <2>7
    <3>2. events \subseteq [at : 0..EndTime, act : {7, 10}]
      BY <2>3, <2>7
    <3>3. log \in Seq((0..EndTime) \X {7, 10})
      BY <2>2, <2>7
    <3>4. QED
      BY <2>0, <2>7, <3>1, <3>2, <3>3 DEF TypeOK
  <2>8. CASE /\ pc \in {"run", "done"}
             /\ now = IF pc = "run" THEN Time2 ELSE EndTime
             /\ events = {} /\ frac = 10 /\ log = BothCalls
    <3>1. now \in 0..EndTime /\ frac \in {NoFraction, 7, 10}
      BY <2>1, <2>8
    <3>2. log \in Seq((0..EndTime) \X {7, 10})
      BY <2>2, <2>8
    <3>3. QED
      BY <2>0, <2>8, <3>1, <3>2 DEF TypeOK
  <2>9. QED
    BY <2>4, <2>5, <2>6, <2>7, <2>8 DEF MInv
<1>2. QED
  BY <1>1, SmartmeterInvariant, PTL

(* When the graph is written, both reductions have run once each, in time *)
(* order, and the second fraction is in force, for every run of at least *)
(* 5 ticks.                                                                *)
THEOREM ReductionsInTimeOrderHolds ==
    ASSUME RunLength
    PROVE  Spec => []ReductionsInTimeOrder
<1>1. MInv => ReductionsInTimeOrder
  BY TimesInRun DEF MInv, ReductionsInTimeOrder, BothCalls
<1>2. QED
  BY <1>1, SmartmeterInvariant, PTL

\* A step of the examples suite is a step of smartmeter/script.js or leaves
\* its variables alone, and the suite is fair to it.
LEMMA SuiteRunsSmartmeter == SuiteSpec => Spec
<1>1. SuiteInit => Init
  BY DEF SuiteInit
<1>2. [SuiteNext]_<<vars, lpvars, etvars>> => [Next]_vars
  BY DEF SuiteNext, vars
<1>3. QED
  BY <1>1, <1>2, PTL DEF SuiteSpec, Spec

(* In the examples suite, beside the lock part's and errtest.js's views,  *)
(* the smart meter's state stays well typed and its two reductions run    *)
(* once each in time order, for every run of at least 5 ticks.            *)
THEOREM SuiteReductionsInTimeOrder ==
    ASSUME RunLength
    PROVE  SuiteSpec => [](TypeOK /\ ReductionsInTimeOrder)
BY SuiteRunsSmartmeter, SmartmeterTypeCorrect, ReductionsInTimeOrderHolds, PTL
LPP == INSTANCE P3dViewProofs WITH Script <- "lockpart", pc <- lpPc,
                                   view <- lpView, pending <- lpPending,
                                   frame <- lpFrame, shown <- lpShown

\* LP is lockpart.js's view under the suite's names; LPP the same module
\* with its proofs.  They define the same formulas.
LEMMA LockpartSame ==
    /\ LP!Init => LPP!Init
    /\ [LP!Next]_lpvars => [LPP!Next]_LPP!vars
    /\ LPP!AnimationEndsAtRest => LP!AnimationEndsAtRest
BY DEF LP!Init, LPP!Init, LP!Next, LPP!Next, LP!CreateView, LPP!CreateView,
       LP!ApplyEntry, LPP!ApplyEntry, LP!DrawFrame, LPP!DrawFrame,
       LP!RunReturns, LPP!RunReturns, LP!EntryDue, LPP!EntryDue,
       LP!FrameDue, LPP!FrameDue, LP!FrameTick, LPP!FrameTick,
       LP!LastFrameTick, LPP!LastFrameTick, LP!EntryTick, LPP!EntryTick,
       LP!MaxFrames, LPP!MaxFrames, LP!Timeline, LPP!Timeline,
       LP!TimelineParams, LPP!TimelineParams, LP!ViewBase, LPP!ViewBase,
       LP!LockpartTimeline, LPP!LockpartTimeline,
       LP!ErrtestTimeline, LPP!ErrtestTimeline,
       LP!TicksPerUnit, LPP!TicksPerUnit, LP!TicksPerFrame, LPP!TicksPerFrame,
       lpvars, LPP!vars, LP!AnimationEndsAtRest, LPP!AnimationEndsAtRest

\* lockpart.js's view invariant holds in every state of the examples suite.
LEMMA LockpartInvariantInSuite == SuiteSpec => []LPP!PInv
<1>1. SuiteInit => LPP!PInv
  BY LockpartSame, LPP!InitPInv DEF SuiteInit
<1>2. LPP!PInv /\ [SuiteNext]_<<vars, lpvars, etvars>> => LPP!PInv'
  <2> SUFFICES ASSUME LPP!PInv, [SuiteNext]_<<vars, lpvars, etvars>>
               PROVE  LPP!PInv'
    OBVIOUS
  <2>1. [LP!Next]_lpvars
    BY DEF SuiteNext, lpvars, vars, etvars
  <2>2. [LPP!Next]_LPP!vars
    BY <2>1, LockpartSame
  <2>3. QED
    BY <2>2, LPP!NextPInv, Zenon
<1>3. QED
  BY <1>1, <1>2, PTL DEF SuiteSpec

(* In the examples suite, interleaved with the smart meter and errtest.js, *)
(* lockpart.js's animation still ends with the part shown at rest and      *)
(* turned back to phi = theta = psi = 0.                                   *)
THEOREM SuiteAnimationEndsAtRest ==
    ASSUME LPP!NoViewIsSentinel
    PROVE  SuiteSpec => []AnimationEndsAtRest
<1>1. LPP!PInv => AnimationEndsAtRest
  <2> SUFFICES ASSUME LPP!PInv PROVE AnimationEndsAtRest
    OBVIOUS
  <2>1. LPP!AnimationEndsAtRest
    BY LPP!PInvAtRest, Zenon
  <2>2. QED
    BY <2>1, LockpartSame DEF AnimationEndsAtRest
<1>2. QED
  BY <1>1, LockpartInvariantInSuite, PTL
=============================================================================
