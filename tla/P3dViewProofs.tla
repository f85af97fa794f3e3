------------------------------ MODULE P3dViewProofs ------------------------------
(***************************************************************************)
(* Proofs about the animated view of src/examples/p3d/lockpart.js (lines  *)
(* 193-230).  The timeline entries fall at strictly increasing times, so   *)
(* the animation applies them in index order: after n of them the pending *)
(* ones are n+1..6 and the view is ViewAfter[n].  A frame draws the view  *)
(* in force, and every entry still pending is due no earlier than it.      *)
(* The last frame (31.966 s) comes after the last entry (30 s), so it     *)
(* draws the view after all six: at rest and turned back to 0.             *)
(***************************************************************************)
EXTENDS P3dView, TLAPS

\* NoView stands for "no view": it is not the parameters of one.
NoViewIsSentinel ==
    NoView \notin [{"phi", "theta", "psi", "phiRate", "thetaRate", "psiRate"} -> Nat]

\* The view's parameters after the first n entries of lockpart.js's timeline.
ViewAfter ==
    [n \in 0..6 |->
        [phi |-> IF n = 6 THEN 0 ELSE 30, theta |-> IF n = 6 THEN 0 ELSE 30,
         psi |-> 0,
         phiRate |-> IF n \in {1, 4} THEN 18 ELSE 0,
         thetaRate |-> IF n = 3 THEN 18 ELSE 0,
         psiRate |-> 0]]

\* The view after entry k takes effect (ApplyEntry's view').
Apply(v, k) == [q \in DOMAIN v |->
                   IF q \in DOMAIN Timeline[k] THEN Timeline[k][q] ELSE v[q]]

\* The ticks of the six entries: 2, 12, 13, 18, 28 and 30 seconds.
EntryTicks == <<60000, 360000, 390000, 540000, 840000, 900000>>

\* The states of lockpart.js's view: before and after createObject, with
\* n entries applied and the last frame drawn after a of them.
PInv ==
    Script = "lockpart" =>
        /\ pc \in {"create", "run", "done", "thrown"}
        /\ pc = "create" => frame = 0 /\ shown = NoView /\ pending = {}
        /\ pc \in {"run", "done"} =>
             /\ \E n \in 0..6 : pending = (n + 1)..6 /\ view = ViewAfter[n]
             /\ frame \in 0..MaxFrames
             /\ frame = 0 => shown = NoView
             /\ frame > 0 =>
                  \E a \in 0..6 :
                     /\ shown = ViewAfter[a]
                     /\ \A k \in (a + 1)..6 :
                           EntryTick(k) >= (frame - 1) * TicksPerFrame
        /\ pc = "done" => frame = MaxFrames /\ pending = {}

LEMMA TimingFacts ==
    ASSUME Script = "lockpart"
    PROVE  /\ \A k \in 1..6 : EntryTick(k) = EntryTicks[k]
           /\ Len(Timeline) = 6
           /\ MaxFrames = 960 /\ LastFrameTick = 959000
           /\ FrameTick = frame * 1000
<1>1. Timeline = LockpartTimeline
  BY DEF Timeline
<1>2. \A k \in 1..6 : LockpartTimeline[k]["time"] * 30000 = EntryTicks[k]
  BY DEF LockpartTimeline, EntryTicks
<1>3. QED
  BY <1>1, <1>2 DEF EntryTick, TicksPerUnit, LockpartTimeline, MaxFrames,
                    LastFrameTick, TicksPerFrame, FrameTick

\* Entry n+1 takes the view after n entries to the view after n+1.
LEMMA ApplyStep ==
    ASSUME Script = "lockpart", NEW n \in 0..5
    PROVE  Apply(ViewAfter[n], n + 1) = ViewAfter[n + 1]
<1>1. Timeline = LockpartTimeline
  BY DEF Timeline
<1>2. DOMAIN ViewAfter[n] = {"phi", "theta", "psi", "phiRate", "thetaRate", "psiRate"}
  BY DEF ViewAfter
<1>3. CASE n = 0
  BY <1>1, <1>2, <1>3 DEF Apply, ViewAfter, LockpartTimeline
<1>4. CASE n = 1
  BY <1>1, <1>2, <1>4 DEF Apply, ViewAfter, LockpartTimeline
<1>5. CASE n = 2
  BY <1>1, <1>2, <1>5 DEF Apply, ViewAfter, LockpartTimeline
<1>6. CASE n = 3
  BY <1>1, <1>2, <1>6 DEF Apply, ViewAfter, LockpartTimeline
<1>7. CASE n = 4
  BY <1>1, <1>2, <1>7 DEF Apply, ViewAfter, LockpartTimeline
<1>8. CASE n = 5
  BY <1>1, <1>2, <1>8 DEF Apply, ViewAfter, LockpartTimeline
<1>9. QED
  BY <1>3, <1>4, <1>5, <1>6, <1>7, <1>8

LEMMA InitPInv == Init => PInv
BY DEF Init, PInv

\* Entries are applied in index order: the earliest pending one is n+1.
LEMMA EarliestIsNext ==
    ASSUME Script = "lockpart", NEW n \in 0..5, NEW k \in (n + 1)..6,
           \A j \in (n + 1)..6 : EntryTick(k) <= EntryTick(j)
    PROVE  k = n + 1
<1>0. \A j \in 1..6 : EntryTick(j) = EntryTicks[j]
  BY TimingFacts
<1>1. EntryTick(k) = EntryTicks[k] /\ EntryTick(n + 1) = EntryTicks[n + 1]
  BY <1>0
<1>2. EntryTicks[k] <= EntryTicks[n + 1]
  BY <1>1
<1>3. QED
  BY <1>2 DEF EntryTicks

LEMMA NextPInv == PInv /\ [Next]_vars => PInv'
<1> SUFFICES ASSUME PInv, [Next]_vars, Script = "lockpart"
             PROVE  PInv'
  BY DEF PInv
<1>0. /\ \A k \in 1..6 : EntryTick(k) = EntryTicks[k]
      /\ Len(Timeline) = 6
      /\ MaxFrames = 960 /\ LastFrameTick = 959000
      /\ FrameTick = frame * 1000
  BY TimingFacts
<1>1. CASE UNCHANGED vars
  BY <1>1 DEF PInv, vars
<1>2. CASE CreateView
  <2>1. pc = "create" /\ frame = 0 /\ shown = NoView
    BY <1>2 DEF CreateView, PInv
  <2>2. ViewBase = ViewAfter[0]
    BY DEF ViewBase, ViewAfter
  <2>3. CASE \A k \in 1..Len(Timeline) : DOMAIN Timeline[k] \subseteq TimelineParams
    <3>1. /\ view' = ViewAfter[0] /\ pending' = (0 + 1)..6 /\ pc' = "run"
          /\ frame' = 0 /\ shown' = NoView
      BY <1>0, <1>2, <2>1, <2>2, <2>3 DEF CreateView
    <3>2. \E n \in 0..6 : pending' = (n + 1)..6 /\ view' = ViewAfter[n]
      BY <3>1
    <3>3. frame' \in 0..MaxFrames
      BY <1>0, <3>1
    <3>4. ~(frame' > 0)
      BY <3>1
    <3>5. QED
      BY <3>1, <3>2, <3>3, <3>4, Zenon DEF PInv
  <2>4. CASE ~\A k \in 1..Len(Timeline) : DOMAIN Timeline[k] \subseteq TimelineParams
    BY <1>2, <2>4 DEF CreateView, PInv
  <2>5. QED
    BY <2>3, <2>4
<1>3. CASE \E k \in pending : ApplyEntry(k)
  <2> PICK k \in pending : ApplyEntry(k)
    BY <1>3
  <2>1. pc = "run"
    BY DEF ApplyEntry
  <2>2. PICK n \in 0..6 : pending = (n + 1)..6 /\ view = ViewAfter[n]
    BY <2>1 DEF PInv
  <2>3. n \in 0..5 /\ k \in (n + 1)..6
    BY <2>2
  <2>4. k = n + 1
    <3>1. \A j \in (n + 1)..6 : EntryTick(k) <= EntryTick(j)
      BY <2>2 DEF ApplyEntry, EntryDue
    <3>2. QED
      BY <2>3, <3>1, EarliestIsNext
  <2>5. view' = ViewAfter[n + 1]
    <3>1. view' = Apply(view, k)
      BY DEF ApplyEntry, Apply
    <3>2. QED
      BY <2>2, <2>3, <2>4, <3>1, ApplyStep
  <2>6. pending' = ((n + 1) + 1)..6
    BY <2>2, <2>4 DEF ApplyEntry
  <2>7. /\ UNCHANGED <<pc, frame, shown>>
    BY DEF ApplyEntry
  <2>8. n + 1 \in 0..6
    BY <2>3
  <2>9. QED
    BY <2>1, <2>5, <2>6, <2>7, <2>8 DEF PInv
<1>4. CASE DrawFrame
  <2>1. /\ pc = "run" /\ frame < MaxFrames
        /\ \A k \in pending : FrameTick <= EntryTick(k)
        /\ shown' = view /\ frame' = frame + 1
        /\ UNCHANGED <<pc, view, pending>>
    BY <1>4 DEF DrawFrame, FrameDue
  <2>2. PICK n \in 0..6 : pending = (n + 1)..6 /\ view = ViewAfter[n]
    BY <2>1 DEF PInv
  <2>3. frame \in 0..MaxFrames
    BY <2>1 DEF PInv
  <2>4. \A k \in (n + 1)..6 : EntryTick(k) >= (frame' - 1) * TicksPerFrame
    BY <1>0, <2>1, <2>2, <2>3 DEF TicksPerFrame
  <2>5. /\ shown' = ViewAfter[n]
        /\ frame' \in 0..MaxFrames /\ frame' > 0
    BY <1>0, <2>1, <2>2, <2>3
  <2>6. QED
    BY <2>1, <2>2, <2>4, <2>5 DEF PInv
<1>5. CASE RunReturns
  <2>1. /\ pc = "run" /\ frame = MaxFrames
        /\ \A k \in pending : EntryTick(k) > LastFrameTick
        /\ pc' = "done"
        /\ UNCHANGED <<view, pending, frame, shown>>
    BY <1>5 DEF RunReturns
  <2>2. PICK n \in 0..6 : pending = (n + 1)..6 /\ view = ViewAfter[n]
    BY <2>1 DEF PInv
  <2>3. pending = {}
    <3>2. SUFFICES ASSUME n # 6 PROVE FALSE
      BY <2>2
    <3>3. 6 \in pending
      BY <2>2, <3>2
    <3>4. EntryTick(6) > LastFrameTick
      BY <2>1, <3>3
    <3>5. EntryTick(6) = 900000
      BY <1>0 DEF EntryTicks
    <3>6. QED
      BY <1>0, <3>4, <3>5
  <2>4. QED
    BY <2>1, <2>2, <2>3 DEF PInv
<1>6. QED
  BY <1>1, <1>2, <1>3, <1>4, <1>5 DEF Next

THEOREM ViewInvariant == Spec => []PInv
BY InitPInv, NextPInv, PTL DEF Spec

\* In a state of the invariant where the run has returned, the view shown
\* is the one after the sixth entry.
LEMMA PInvAtRest ==
    ASSUME NoViewIsSentinel, PInv
    PROVE  AnimationEndsAtRest
<1> SUFFICES ASSUME Script = "lockpart", pc = "done"
             PROVE  AnimationEndsAtRest
  BY DEF AnimationEndsAtRest
<1>1. /\ \A k \in 1..6 : EntryTick(k) = EntryTicks[k]
      /\ MaxFrames = 960
  BY TimingFacts
<1>2. frame = MaxFrames /\ pending = {}
  BY DEF PInv
<1>3. PICK a \in 0..6 :
         /\ shown = ViewAfter[a]
         /\ \A k \in (a + 1)..6 : EntryTick(k) >= (frame - 1) * TicksPerFrame
  BY <1>1, <1>2 DEF PInv
<1>4. a = 6
  <2>1. SUFFICES ASSUME a # 6 PROVE FALSE
    OBVIOUS
  <2>2. EntryTick(6) >= (frame - 1) * TicksPerFrame
    BY <1>3, <2>1
  <2>3. QED
    BY <1>1, <1>2, <2>2 DEF EntryTicks, TicksPerFrame
<1>5. shown = ViewAfter[6]
  BY <1>3, <1>4
<1>6. ViewAfter[6] \in [{"phi", "theta", "psi", "phiRate", "thetaRate", "psiRate"} -> Nat]
  BY DEF ViewAfter
<1>7. QED
  BY <1>2, <1>5, <1>6 DEF AnimationEndsAtRest, ViewAfter, NoViewIsSentinel

(* The last frame lockpart.js draws (line 230) shows the part at rest and *)
(* turned back to phi = theta = psi = 0: every timeline entry (lines 208- *)
(* 225) is due before it, whichever of an entry and a frame due at the    *)
(* same tick runs first.                                                   *)
THEOREM AnimationEndsAtRestHolds ==
    ASSUME NoViewIsSentinel
    PROVE  Spec => []AnimationEndsAtRest
<1>1. PInv => AnimationEndsAtRest
  BY PInvAtRest, Zenon
<1>2. QED
  BY <1>1, ViewInvariant, PTL
=============================================================================
