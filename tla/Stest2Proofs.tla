---------------------------- MODULE Stest2Proofs ----------------------------
(***************************************************************************)
(* Proofs about the model of src/tests/devqsim/stest2.js, for every       *)
(* number of ticks per unit time.                                          *)
(***************************************************************************)
EXTENDS Stest2, SequenceTheorems, TLAPS

-----------------------------------------------------------------------------
(* Facts about the queue as a sequence of actors.                         *)

LEMMA RangeAppend ==
    ASSUME NEW S, NEW s \in Seq(S), NEW x \in S
    PROVE  Range(Append(s, x)) = Range(s) \cup {x}
<1> DEFINE t == Append(s, x)
<1>1. /\ Len(t) = Len(s) + 1
      /\ \A i \in 1..Len(s) : t[i] = s[i]
      /\ t[Len(s) + 1] = x
      /\ DOMAIN t = 1..Len(s) + 1
      /\ DOMAIN s = 1..Len(s)
      /\ Len(s) \in Nat
  BY AppendProperties, LenProperties
<1>2. Range(t) \subseteq Range(s) \cup {x}
  BY <1>1 DEF Range
<1>3. Range(s) \cup {x} \subseteq Range(t)
  <2>1. x \in Range(t)
    BY <1>1 DEF Range
  <2>2. Range(s) \subseteq Range(t)
    BY <1>1 DEF Range
  <2>3. QED
    BY <2>1, <2>2
<1>4. QED
  BY <1>2, <1>3

LEMMA InjectiveAppend ==
    ASSUME NEW S, NEW s \in Seq(S), NEW x \in S,
           IsInjective(s), x \notin Range(s)
    PROVE  IsInjective(Append(s, x))
<1> DEFINE t == Append(s, x)
<1>1. /\ \A i \in 1..Len(s) : t[i] = s[i]
      /\ t[Len(s) + 1] = x
      /\ DOMAIN t = 1..Len(s) + 1
      /\ DOMAIN s = 1..Len(s)
      /\ Len(s) \in Nat
  BY AppendProperties, LenProperties
<1>2. \A i \in 1..Len(s) : t[i] # x
  BY <1>1 DEF Range
<1>3. QED
  BY <1>1, <1>2 DEF IsInjective

LEMMA HeadInRange ==
    ASSUME NEW S, NEW s \in Seq(S), s # <<>>
    PROVE  Head(s) \in Range(s)
<1>1. /\ Len(s) \in Nat \ {0}
      /\ DOMAIN s = 1..Len(s)
      /\ Head(s) = s[1]
  BY EmptySeq, LenProperties
<1>2. QED
  BY <1>1 DEF Range

LEMMA TailOfInjective ==
    ASSUME NEW S, NEW s \in Seq(S), s # <<>>, IsInjective(s)
    PROVE  /\ Tail(s) \in Seq(S)
           /\ IsInjective(Tail(s))
           /\ Range(Tail(s)) = Range(s) \ {Head(s)}
<1> DEFINE t == Tail(s)
<1>1. /\ t \in Seq(S)
      /\ Len(t) = Len(s) - 1
      /\ \A i \in 1..Len(t) : t[i] = s[i + 1]
      /\ DOMAIN t = 1..Len(t)
      /\ DOMAIN s = 1..Len(s)
      /\ Len(s) \in Nat \ {0}
      /\ Head(s) = s[1]
  BY HeadTailProperties, LenProperties, EmptySeq
<1>2. IsInjective(t)
  BY <1>1 DEF IsInjective
<1>3. Range(t) \subseteq Range(s) \ {Head(s)}
  BY <1>1 DEF IsInjective, Range
<1>4. Range(s) \ {Head(s)} \subseteq Range(t)
  <2> SUFFICES ASSUME NEW i \in 1..Len(s), s[i] # Head(s)
               PROVE  s[i] \in Range(t)
    BY <1>1 DEF Range
  <2>1. i - 1 \in 1..Len(t) /\ t[i - 1] = s[i]
    BY <1>1
  <2>2. QED
    BY <1>1, <2>1 DEF Range
<1>5. QED
  BY <1>1, <1>2, <1>3, <1>4

-----------------------------------------------------------------------------
(* The effect on the queue and the event list of an actor w queuing       *)
(* itself (AddToFifo) while the event e runs, e not a completion event.   *)

LEMMA AddToFifoFacts ==
    ASSUME IInv, NEW e \in Earliest(events), e.act # "fifoDone",
           NEW w \in Actors, ~Queued(w),
           AddToFifo(w, e.at, events \ {e})
    PROVE  /\ fifo' \in Seq(Actors)
           /\ IsInjective(fifo')
           /\ Range(fifo') = Range(fifo) \cup {w}
           /\ fifo' # <<>>
           /\ busy' = TRUE
           /\ events' \subseteq [at : Nat, act : Acts]
           /\ \A f \in events' : e.at <= f.at
           /\ \A f, g \in events' : f.act = g.act => f = g
           /\ \E f \in events' : f.act = "fifoDone"
           /\ \A a \in Acts \ {"fifoDone"} :
                 (\E f \in events' : f.act = a) <=>
                    ((\E f \in events : f.act = a) /\ a # e.act)
<1>1. /\ e \in events
      /\ \A f \in events : e.at <= f.at
      /\ e.at \in Nat
      /\ fifo \in Seq(Actors)
      /\ IsInjective(fifo)
      /\ \A f, g \in events : f.act = g.act => f = g
      /\ busy <=> (\E f \in events : f.act = "fifoDone")
  BY DEF Earliest, IInv, TypeOK, NoDoubleActivation, WorkConserving
<1>2. /\ fifo' \in Seq(Actors)
      /\ IsInjective(fifo')
      /\ Range(fifo') = Range(fifo) \cup {w}
      /\ fifo' # <<>>
      /\ busy' = TRUE
  BY <1>1, RangeAppend, InjectiveAppend, AppendProperties DEF AddToFifo, Queued
<1>3. ProcTime \in Nat
  BY TicksPerUnitAssumption DEF ProcTime
<1>4. CASE busy
  <2>1. events' = events \ {e}
    BY <1>4 DEF AddToFifo
  <2>2. QED
    BY <1>1, <1>2, <1>4, <2>1 DEF IInv, TypeOK
<1>5. CASE ~busy
  <2>1. events' = (events \ {e}) \cup {Event(e.at + ProcTime, "fifoDone")}
    BY <1>5 DEF AddToFifo
  <2>2. \A f \in events : f.act # "fifoDone"
    BY <1>1, <1>5
  <2> DEFINE n == Event(e.at + ProcTime, "fifoDone")
  <2>3. n \in [at : Nat, act : Acts] /\ n.act = "fifoDone" /\ e.at <= n.at
    BY <1>1, <1>3 DEF Event, Acts
  <2>4. events' \subseteq [at : Nat, act : Acts]
    BY <2>1, <2>3 DEF IInv, TypeOK
  <2>5. \A f \in events' : e.at <= f.at
    BY <1>1, <2>1, <2>3
  <2>6. \A f, g \in events' : f.act = g.act => f = g
    BY <1>1, <2>1, <2>2, <2>3
  <2>7. \A a \in Acts \ {"fifoDone"} :
           (\E f \in events' : f.act = a) <=>
              ((\E f \in events : f.act = a) /\ a # e.act)
    BY <1>1, <2>1, <2>3
  <2>8. QED
    BY <1>2, <2>1, <2>3, <2>4, <2>5, <2>6, <2>7
<1>6. QED
  BY <1>4, <1>5

-----------------------------------------------------------------------------
(* IInv holds initially and is preserved by every step.                   *)

LEMMA InitIInv == Init => IInv
<1> SUFFICES ASSUME Init PROVE IInv
  OBVIOUS
<1>1. Range(fifo) = {} /\ IsInjective(fifo) /\ fifo \in Seq(Actors)
  BY DEF Init, Range, IsInjective
<1>2. /\ events = {Event(0, "startTask"), Event(0, "callObject")}
      /\ now = 0 /\ busy = FALSE /\ count = 0 /\ taskStep = 0 /\ fifo = <<>>
  BY DEF Init
<1>3. TypeOK
  <2>1. Event(0, "startTask") \in [at : Nat, act : Acts]
    BY DEF Event, Acts
  <2>2. Event(0, "callObject") \in [at : Nat, act : Acts]
    BY DEF Event, Acts
  <2>3. events \subseteq [at : Nat, act : Acts]
    BY <1>2, <2>1, <2>2
  <2>4. now \in Nat /\ count \in Nat /\ taskStep \in 0..4
    BY <1>2
  <2>5. busy \in BOOLEAN
    BY <1>2
  <2>6. QED
    BY <1>1, <2>3, <2>4, <2>5 DEF TypeOK
<1>4. NoDoubleActivation
  <2>1. \A e, f \in events : e.act = f.act => e = f
    BY <1>2 DEF Event
  <2>2. QED
    BY <1>1, <2>1 DEF NoDoubleActivation, Queued
<1>5. QED
  BY <1>1, <1>2, <1>3, <1>4
     DEF IInv, NoPastEvent, WorkConserving, TaskAccounting, CallAccounting,
         HasEvent, Queued, Event

\* The facts IInv gives about the event e that runs and its actor.
LEMMA EventFacts ==
    ASSUME IInv, NEW e \in Earliest(events)
    PROVE  /\ e \in events
           /\ e.at \in Nat
           /\ now <= e.at
           /\ e.act \in Acts
           /\ \A f \in events : e.at <= f.at
           /\ \A f \in events : f.act = e.act => f = e
           /\ e.act = "startTask" => taskStep = 0 /\ ~Queued("task")
                                     /\ ~HasEvent("resumeTask")
           /\ e.act = "resumeTask" => taskStep \in 1..3 /\ ~Queued("task")
                                      /\ ~HasEvent("startTask")
           /\ e.act = "callObject" => count < 4 /\ ~Queued("callable")
           /\ e.act = "fifoDone" => busy /\ fifo # <<>>
BY DEF IInv, TypeOK, Earliest, NoPastEvent, NoDoubleActivation, WorkConserving,
       TaskAccounting, CallAccounting, HasEvent, EventsOf, Actors

LEMMA StartTaskStep ==
    ASSUME IInv, NEW e \in Earliest(events), StartTask(e)
    PROVE  IInv'
<1>1. /\ e.act = "startTask" /\ e.at \in Nat /\ now' = e.at
      /\ taskStep = 0 /\ ~Queued("task") /\ ~HasEvent("resumeTask")
      /\ taskStep' = 1 /\ count' = count
  BY EventFacts DEF StartTask
<1>2. /\ fifo' \in Seq(Actors)
      /\ IsInjective(fifo')
      /\ Range(fifo') = Range(fifo) \cup {"task"}
      /\ fifo' # <<>>
      /\ busy' = TRUE
      /\ events' \subseteq [at : Nat, act : Acts]
      /\ \A f \in events' : e.at <= f.at
      /\ \A f, g \in events' : f.act = g.act => f = g
      /\ \E f \in events' : f.act = "fifoDone"
      /\ \A a \in Acts \ {"fifoDone"} :
            (\E f \in events' : f.act = a) <=>
               ((\E f \in events : f.act = a) /\ a # e.act)
  BY <1>1, AddToFifoFacts DEF StartTask, Actors
<1>3. TypeOK'
  BY <1>1, <1>2 DEF IInv, TypeOK
<1>4. NoPastEvent'
  BY <1>1, <1>2 DEF NoPastEvent
<1>5. NoDoubleActivation'
  <2>1. Queued("callable") => ~HasEvent("callObject")
    BY DEF IInv, NoDoubleActivation, EventsOf, HasEvent, Actors
  <2>2. QED
    BY <1>1, <1>2, <2>1
       DEF NoDoubleActivation, Queued, EventsOf, HasEvent, Acts, Actors
<1>6. WorkConserving'
  BY <1>2 DEF WorkConserving
<1>7. TaskAccounting'
  BY <1>1, <1>2 DEF TaskAccounting, HasEvent, Queued, Acts
<1>8. CallAccounting'
  BY <1>1, <1>2 DEF IInv, CallAccounting, HasEvent, Queued, Acts
<1>9. QED
  BY <1>3, <1>4, <1>5, <1>6, <1>7, <1>8 DEF IInv

LEMMA ResumeTaskStep ==
    ASSUME IInv, NEW e \in Earliest(events), ResumeTask(e)
    PROVE  IInv'
<1>1. /\ e.act = "resumeTask" /\ e.at \in Nat /\ now' = e.at
      /\ taskStep \in 1..3 /\ ~Queued("task") /\ ~HasEvent("startTask")
      /\ taskStep' = taskStep + 1 /\ count' = count
      /\ \A f \in events : e.at <= f.at
      /\ \A f \in events : f.act = e.act => f = e
      /\ e \in events
  BY EventFacts DEF ResumeTask
<1>2. CASE taskStep < 3
  <2>1. /\ fifo' \in Seq(Actors)
        /\ IsInjective(fifo')
        /\ Range(fifo') = Range(fifo) \cup {"task"}
        /\ fifo' # <<>>
        /\ busy' = TRUE
        /\ events' \subseteq [at : Nat, act : Acts]
        /\ \A f \in events' : e.at <= f.at
        /\ \A f, g \in events' : f.act = g.act => f = g
        /\ \E f \in events' : f.act = "fifoDone"
        /\ \A a \in Acts \ {"fifoDone"} :
              (\E f \in events' : f.act = a) <=>
                 ((\E f \in events : f.act = a) /\ a # e.act)
    BY <1>1, <1>2, AddToFifoFacts DEF ResumeTask, Actors
  <2>2. TypeOK'
    BY <1>1, <1>2, <2>1 DEF IInv, TypeOK
  <2>3. NoPastEvent'
    BY <1>1, <2>1 DEF NoPastEvent
  <2>4. NoDoubleActivation'
    <3>1. Queued("callable") => ~HasEvent("callObject")
      BY DEF IInv, NoDoubleActivation, EventsOf, HasEvent, Actors
    <3>2. QED
      BY <1>1, <2>1, <3>1
         DEF NoDoubleActivation, Queued, EventsOf, HasEvent, Acts, Actors
  <2>5. WorkConserving'
    BY <2>1 DEF WorkConserving
  <2>6. TaskAccounting'
    BY <1>1, <1>2, <2>1 DEF TaskAccounting, HasEvent, Queued, Acts
  <2>7. CallAccounting'
    BY <1>1, <2>1 DEF IInv, CallAccounting, HasEvent, Queued, Acts
  <2>8. QED
    BY <2>2, <2>3, <2>4, <2>5, <2>6, <2>7 DEF IInv
<1>3. CASE taskStep = 3
  <2>1. /\ events' = events \ {e}
        /\ fifo' = fifo /\ busy' = busy
        /\ taskStep' = 4
    BY <1>1, <1>3 DEF ResumeTask
  <2>2. TypeOK'
    <3>1. now' \in Nat /\ count' \in Nat /\ taskStep' \in 0..4
      BY <1>1, <2>1 DEF IInv, TypeOK
    <3>2. busy' \in BOOLEAN
      BY <2>1 DEF IInv, TypeOK
    <3>3. QED
      BY <2>1, <3>1, <3>2 DEF IInv, TypeOK
  <2>3. NoPastEvent'
    BY <1>1, <2>1 DEF NoPastEvent
  <2>4. NoDoubleActivation'
    BY <1>1, <2>1 DEF IInv, NoDoubleActivation, Queued, EventsOf
  <2>5. WorkConserving'
    BY <1>1, <2>1 DEF IInv, WorkConserving
  <2>6. TaskAccounting'
    BY <1>1, <2>1 DEF TaskAccounting, HasEvent, Queued
  <2>7. CallAccounting'
    BY <1>1, <2>1 DEF IInv, CallAccounting, HasEvent, Queued
  <2>8. QED
    BY <2>2, <2>3, <2>4, <2>5, <2>6, <2>7 DEF IInv
<1>4. QED
  BY <1>1, <1>2, <1>3

LEMMA CallObjectStep ==
    ASSUME IInv, NEW e \in Earliest(events), CallObject(e)
    PROVE  IInv'
<1>1. /\ e.act = "callObject" /\ e.at \in Nat /\ now' = e.at
      /\ count \in 0..3 /\ ~Queued("callable")
      /\ count' = count + 1 /\ taskStep' = taskStep
      /\ \A f \in events : e.at <= f.at
      /\ \A f \in events : f.act = e.act => f = e
      /\ e \in events
  BY EventFacts DEF CallObject, IInv, TypeOK
<1>2. CASE count # 3
  <2>1. /\ fifo' \in Seq(Actors)
        /\ IsInjective(fifo')
        /\ Range(fifo') = Range(fifo) \cup {"callable"}
        /\ fifo' # <<>>
        /\ busy' = TRUE
        /\ events' \subseteq [at : Nat, act : Acts]
        /\ \A f \in events' : e.at <= f.at
        /\ \A f, g \in events' : f.act = g.act => f = g
        /\ \E f \in events' : f.act = "fifoDone"
        /\ \A a \in Acts \ {"fifoDone"} :
              (\E f \in events' : f.act = a) <=>
                 ((\E f \in events : f.act = a) /\ a # e.act)
    BY <1>1, <1>2, AddToFifoFacts DEF CallObject, Actors
  <2>2. TypeOK'
    BY <1>1, <2>1 DEF IInv, TypeOK
  <2>3. NoPastEvent'
    BY <1>1, <2>1 DEF NoPastEvent
  <2>4. NoDoubleActivation'
    <3>1. Queued("task") => ~HasEvent("startTask") /\ ~HasEvent("resumeTask")
      BY DEF IInv, NoDoubleActivation, EventsOf, HasEvent, Actors
    <3>2. QED
      BY <1>1, <2>1, <3>1
         DEF NoDoubleActivation, Queued, EventsOf, HasEvent, Acts, Actors
  <2>5. WorkConserving'
    BY <2>1 DEF WorkConserving
  <2>6. TaskAccounting'
    BY <1>1, <2>1 DEF IInv, TaskAccounting, HasEvent, Queued, Acts
  <2>7. CallAccounting'
    BY <1>1, <1>2, <2>1 DEF CallAccounting, HasEvent, Queued, Acts
  <2>8. QED
    BY <2>2, <2>3, <2>4, <2>5, <2>6, <2>7 DEF IInv
<1>3. CASE count = 3
  <2>1. /\ events' = events \ {e}
        /\ fifo' = fifo /\ busy' = busy
        /\ count' = 4
    BY <1>1, <1>3 DEF CallObject
  <2>2. TypeOK'
    <3>1. now' \in Nat /\ count' \in Nat /\ taskStep' \in 0..4
      BY <1>1, <2>1 DEF IInv, TypeOK
    <3>2. busy' \in BOOLEAN
      BY <2>1 DEF IInv, TypeOK
    <3>3. QED
      BY <2>1, <3>1, <3>2 DEF IInv, TypeOK
  <2>3. NoPastEvent'
    BY <1>1, <2>1 DEF NoPastEvent
  <2>4. NoDoubleActivation'
    BY <1>1, <2>1 DEF IInv, NoDoubleActivation, Queued, EventsOf
  <2>5. WorkConserving'
    BY <1>1, <2>1 DEF IInv, WorkConserving
  <2>6. TaskAccounting'
    BY <1>1, <2>1 DEF IInv, TaskAccounting, HasEvent, Queued
  <2>7. CallAccounting'
    BY <1>1, <2>1 DEF CallAccounting, HasEvent, Queued
  <2>8. QED
    BY <2>2, <2>3, <2>4, <2>5, <2>6, <2>7 DEF IInv
<1>4. QED
  BY <1>1, <1>2, <1>3

LEMMA FifoDoneStep ==
    ASSUME IInv, NEW e \in Earliest(events), FifoDone(e)
    PROVE  IInv'
<1> DEFINE h == Head(fifo)
           wake == Event(e.at, WakeAct(h))
           next == Event(e.at + ProcTime, "fifoDone")
<1>1. /\ e.act = "fifoDone" /\ e.at \in Nat /\ now' = e.at
      /\ busy /\ fifo # <<>>
      /\ count' = count /\ taskStep' = taskStep
      /\ \A f \in events : e.at <= f.at
      /\ \A f \in events : f.act = e.act => f = e
      /\ e \in events
  BY EventFacts DEF FifoDone
<1>2. /\ fifo \in Seq(Actors) /\ IsInjective(fifo)
      /\ \A w \in Actors : Queued(w) => EventsOf(w) = {}
  BY DEF IInv, TypeOK, NoDoubleActivation
<1>3. /\ h \in Actors /\ h \in Range(fifo)
      /\ fifo' \in Seq(Actors)
      /\ IsInjective(fifo')
      /\ Range(fifo') = Range(fifo) \ {h}
  BY <1>1, <1>2, HeadInRange, HeadTailProperties, TailOfInjective DEF FifoDone
<1>4. ProcTime \in Nat
  BY TicksPerUnitAssumption DEF ProcTime
<1>5. /\ events' = (events \ {e}) \cup {wake}
                     \cup (IF fifo' # <<>> THEN {next} ELSE {})
      /\ busy' = (fifo' # <<>>)
  BY DEF FifoDone
<1>6. /\ wake \in [at : Nat, act : Acts] /\ wake.at = e.at
      /\ next \in [at : Nat, act : Acts] /\ next.at >= e.at
      /\ next.act = "fifoDone"
      /\ wake.act = IF h = "task" THEN "resumeTask" ELSE "callObject"
  BY <1>1, <1>3, <1>4 DEF Event, WakeAct, Acts, Actors
<1>7. \A f \in events : f.act # wake.act
  BY <1>2, <1>3, <1>6 DEF Queued, EventsOf, Actors
<1>8. TypeOK'
  <2>1. events' \subseteq [at : Nat, act : Acts]
    BY <1>5, <1>6 DEF IInv, TypeOK
  <2>2. now' \in Nat /\ count' \in Nat /\ taskStep' \in 0..4
    BY <1>1 DEF IInv, TypeOK
  <2>3. busy' \in BOOLEAN
    BY <1>5
  <2>4. QED
    BY <1>3, <2>1, <2>2, <2>3 DEF TypeOK
<1>9. NoPastEvent'
  BY <1>1, <1>5, <1>6 DEF NoPastEvent
<1>10. NoDoubleActivation'
  <2>1. \A f, g \in events' : f.act = g.act => f = g
    BY <1>1, <1>5, <1>6, <1>7 DEF IInv, NoDoubleActivation
  <2>2. \A w \in Actors : Queued(w)' => EventsOf(w)' = {}
    <3> SUFFICES ASSUME NEW w \in Actors, Queued(w)'
                 PROVE  EventsOf(w)' = {}
      OBVIOUS
    <3>1. w # h /\ Queued(w) /\ EventsOf(w) = {}
      BY <1>2, <1>3 DEF Queued
    <3>2. wake.act \notin IF w = "task" THEN {"startTask", "resumeTask"}
                                        ELSE {"callObject"}
      BY <3>1, <1>3, <1>6 DEF Actors
    <3>5. wake \notin EventsOf(w)'
      BY <3>2 DEF EventsOf
    <3>3. next \notin EventsOf(w)'
      BY <1>6 DEF EventsOf
    <3>4. QED
      BY <1>5, <3>1, <3>5, <3>3 DEF EventsOf
  <2>3. QED
    BY <1>3, <2>1, <2>2 DEF NoDoubleActivation
<1>11. WorkConserving'
  <2>1. \A f \in events \ {e} : f.act # "fifoDone"
    BY <1>1
  <2>2. QED
    BY <1>5, <1>6, <2>1 DEF WorkConserving
<1>12. TaskAccounting' /\ CallAccounting'
  <2>1. \A a \in {"startTask", "resumeTask", "callObject"} :
           HasEvent(a)' <=> (HasEvent(a) \/ a = wake.act)
    BY <1>1, <1>5, <1>6 DEF HasEvent
  <2>2. \A w \in Actors : Queued(w)' <=> (Queued(w) /\ w # h)
    BY <1>3 DEF Queued
  <2>3. Queued(h) /\ (h = "task" \/ h = "callable")
    BY <1>3 DEF Queued, Actors
  <2>4. QED
    BY <1>1, <1>6, <2>1, <2>2, <2>3
       DEF IInv, TaskAccounting, CallAccounting, Actors
<1>13. QED
  BY <1>8, <1>9, <1>10, <1>11, <1>12 DEF IInv

THEOREM Stest2Invariant == Spec => []IInv
<1>1. Init => IInv
  BY InitIInv
<1>2. IInv /\ [Next]_vars => IInv'
  <2> SUFFICES ASSUME IInv, [Next]_vars PROVE IInv'
    OBVIOUS
  <2>1. CASE UNCHANGED vars
    BY <2>1 DEF vars, IInv, TypeOK, NoPastEvent, NoDoubleActivation,
                WorkConserving, TaskAccounting, CallAccounting, HasEvent,
                Queued, EventsOf
  <2>2. CASE Next
    BY <2>2, StartTaskStep, ResumeTaskStep, CallObjectStep, FifoDoneStep
       DEF Next
  <2>3. QED
    BY <2>1, <2>2
<1>3. QED
  BY <1>1, <1>2, PTL DEF Spec

-----------------------------------------------------------------------------
(* The properties the runs check, for every TicksPerUnit.                 *)

(* Type correctness of the model of stest2.js.                             *)
THEOREM TypeCorrect == Spec => []TypeOK
<1>1. IInv => TypeOK
  BY DEF IInv
<1>2. QED
  BY <1>1, Stest2Invariant, PTL

(* The task and the call object are never pending twice.                  *)
THEOREM NoDoubleActivationHolds == Spec => []NoDoubleActivation
<1>1. IInv => NoDoubleActivation
  BY DEF IInv
<1>2. QED
  BY <1>1, Stest2Invariant, PTL

(* sim.run() returns only with the call object called four times, the     *)
(* task ended and the queue empty.                                         *)
THEOREM RunCompletesHolds == Spec => []RunCompletes
<1>1. IInv => RunCompletes
  <2> SUFFICES ASSUME IInv, events = {}
               PROVE  count = 4 /\ taskStep = 4 /\ fifo = <<>>
    BY DEF RunCompletes
  <2>1. ~busy /\ fifo = <<>>
    BY DEF IInv, WorkConserving
  <2>2. ~Queued("task") /\ ~Queued("callable")
    BY <2>1 DEF Queued, Range
  <2>3. taskStep = 4
    BY <2>2 DEF IInv, TypeOK, TaskAccounting, HasEvent
  <2>4. count = 4
    BY <2>2 DEF IInv, TypeOK, CallAccounting, HasEvent
  <2>5. QED
    BY <2>1, <2>3, <2>4
<1>2. QED
  BY <1>1, Stest2Invariant, PTL

=====
