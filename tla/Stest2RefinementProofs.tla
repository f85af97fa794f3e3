------------------------ MODULE Stest2RefinementProofs ------------------------
(***************************************************************************)
(* The model of src/tests/devqsim/stest2.js implements Stest2Service under *)
(* the refinement mapping of Stest2 (clock <- now, steps <- taskStep,      *)
(* calls <- count, and each actor's passes over as Served), for every      *)
(* number of ticks per unit time.  The proof rests on IInv and on the      *)
(* timing invariant ServiceTiming.                                         *)
(***************************************************************************)
EXTENDS Stest2Proofs

\* The passes over of each actor, as the mapping defines them.
TS == Served("task", taskStep)
CS == Served("callable", count)

RInv == IInv /\ ServiceTiming

LEMMA ProcTimePositive == ProcTime \in Nat \ {0}
BY TicksPerUnitAssumption DEF ProcTime

\* The time of the event that runs, given by ServiceTiming.
LEMMA EventTime ==
    ASSUME IInv, ServiceTiming, NEW e \in Earliest(events)
    PROVE  /\ e.act # "fifoDone" => e.at = now
           /\ e.act = "fifoDone" => e.at = now + ProcTime
BY EventFacts DEF ServiceTiming

LEMMA InitRefines == Init => ServiceTiming /\ Service!Init
<1> SUFFICES ASSUME Init PROVE ServiceTiming /\ Service!Init
  OBVIOUS
<1>1. ~Queued("task") /\ ~Queued("callable")
  BY DEF Init, Queued, Range
<1>2. TS = 0 /\ CS = 0
  <2>1. taskStep = 0 /\ count = 0
    BY DEF Init
  <2>2. PassesAsked(0) = 0
    BY DEF PassesAsked
  <2>3. QED
    BY <1>1, <2>1, <2>2 DEF TS, CS, Served
<1>3. ProcTime \in Nat
  BY ProcTimePositive
<1>4. ServiceTiming
  BY <1>2, <1>3 DEF Init, ServiceTiming, TS, CS, Event
<1>5. Service!Init
  BY <1>2 DEF Init, Service!Init, TS, CS
<1>6. QED
  BY <1>4, <1>5

(* An actor's non-completion step: it runs at now, the clock stays, and  *)
(* the events it leaves satisfy the timing if a completion it adds is one *)
(* processing time away.                                                   *)
LEMMA AddKeepsTiming ==
    ASSUME IInv, ServiceTiming, NEW e \in Earliest(events), e.act # "fifoDone",
           NEW w \in Actors, AddToFifo(w, e.at, events \ {e}), now' = e.at
    PROVE  /\ now' = now
           /\ \A f \in events' :
                 f.at = IF f.act = "fifoDone" THEN now' + ProcTime ELSE now'
<1>1. e.at = now
  BY EventTime
<1>2. CASE busy
  BY <1>1, <1>2 DEF AddToFifo, ServiceTiming
<1>3. CASE ~busy
  <2>1. events' = (events \ {e}) \cup {Event(e.at + ProcTime, "fifoDone")}
    BY <1>3 DEF AddToFifo
  <2>2. QED
    BY <1>1, <2>1 DEF ServiceTiming, Event
<1>4. QED
  BY <1>2, <1>3

LEMMA StartTaskRefines ==
    ASSUME IInv, ServiceTiming, NEW e \in Earliest(events), StartTask(e)
    PROVE  ServiceTiming' /\ Service!TaskStep
<1>1. /\ e.act = "startTask" /\ taskStep = 0 /\ ~Queued("task")
      /\ taskStep' = 1 /\ count' = count
      /\ AddToFifo("task", e.at, events \ {e}) /\ now' = e.at
  BY EventFacts DEF StartTask
<1>2. /\ now' = now
      /\ \A f \in events' :
            f.at = IF f.act = "fifoDone" THEN now' + ProcTime ELSE now'
  BY <1>1, AddKeepsTiming DEF Actors
<1>3. Range(fifo') = Range(fifo) \cup {"task"}
  BY <1>1, AddToFifoFacts DEF Actors
<1>4. Queued("task")' /\ (Queued("callable")' <=> Queued("callable"))
  BY <1>3 DEF Queued
<1>5. TS' = TS /\ CS' = CS
  BY <1>1, <1>4 DEF TS, CS, Served, PassesAsked
<1>6. ServiceTiming'
  BY <1>2, <1>5 DEF ServiceTiming, TS, CS
<1>7. Service!TaskStep
  BY <1>1, <1>2, <1>5 DEF Service!TaskStep, TS, CS
<1>8. QED
  BY <1>6, <1>7

LEMMA ResumeTaskRefines ==
    ASSUME IInv, ServiceTiming, NEW e \in Earliest(events), ResumeTask(e)
    PROVE  ServiceTiming' /\ Service!TaskStep
<1>1. /\ e.act = "resumeTask" /\ taskStep \in 1..3 /\ ~Queued("task")
      /\ taskStep' = taskStep + 1 /\ count' = count /\ now' = e.at
      /\ e.at = now
  BY EventFacts, EventTime DEF ResumeTask
<1>2. TS = taskStep
  BY <1>1 DEF TS, Served, PassesAsked
<1>3. CASE taskStep < 3
  <2>1. AddToFifo("task", e.at, events \ {e})
    BY <1>3 DEF ResumeTask
  <2>2. /\ now' = now
        /\ \A f \in events' :
              f.at = IF f.act = "fifoDone" THEN now' + ProcTime ELSE now'
    BY <1>1, <2>1, AddKeepsTiming DEF Actors
  <2>3. Range(fifo') = Range(fifo) \cup {"task"}
    BY <1>1, <2>1, AddToFifoFacts DEF Actors
  <2>4. Queued("task")' /\ (Queued("callable")' <=> Queued("callable"))
    BY <2>3 DEF Queued
  <2>5. TS' = TS /\ CS' = CS
    BY <1>1, <1>2, <1>3, <2>4 DEF TS, CS, Served, PassesAsked
  <2>6. ServiceTiming'
    BY <2>2, <2>5 DEF ServiceTiming, TS, CS
  <2>7. Service!TaskStep
    BY <1>1, <1>2, <2>2, <2>5 DEF Service!TaskStep, TS, CS
  <2>8. QED
    BY <2>6, <2>7
<1>4. CASE taskStep = 3
  <2>1. events' = events \ {e} /\ fifo' = fifo
    BY <1>4 DEF ResumeTask
  <2>2. TS' = TS /\ CS' = CS
    BY <1>1, <1>2, <1>4, <2>1 DEF TS, CS, Served, PassesAsked, Queued
  <2>3. ServiceTiming'
    BY <1>1, <2>1, <2>2 DEF ServiceTiming, TS, CS
  <2>4. Service!TaskStep
    BY <1>1, <1>2, <2>2 DEF Service!TaskStep, TS, CS
  <2>5. QED
    BY <2>3, <2>4
<1>5. QED
  BY <1>1, <1>3, <1>4

LEMMA CallObjectRefines ==
    ASSUME IInv, ServiceTiming, NEW e \in Earliest(events), CallObject(e)
    PROVE  ServiceTiming' /\ Service!CallStep
<1>1. /\ e.act = "callObject" /\ count \in 0..3 /\ ~Queued("callable")
      /\ count' = count + 1 /\ taskStep' = taskStep /\ now' = e.at
      /\ e.at = now
  BY EventFacts, EventTime DEF CallObject, IInv, TypeOK
<1>2. CS = count
  BY <1>1 DEF CS, Served, PassesAsked
<1>3. CASE count # 3
  <2>1. AddToFifo("callable", e.at, events \ {e})
    BY <1>3 DEF CallObject
  <2>2. /\ now' = now
        /\ \A f \in events' :
              f.at = IF f.act = "fifoDone" THEN now' + ProcTime ELSE now'
    BY <1>1, <2>1, AddKeepsTiming DEF Actors
  <2>3. Range(fifo') = Range(fifo) \cup {"callable"}
    BY <1>1, <2>1, AddToFifoFacts DEF Actors
  <2>4. Queued("callable")' /\ (Queued("task")' <=> Queued("task"))
    BY <2>3 DEF Queued
  <2>5. TS' = TS /\ CS' = CS
    BY <1>1, <1>2, <1>3, <2>4 DEF TS, CS, Served, PassesAsked
  <2>6. ServiceTiming'
    BY <2>2, <2>5 DEF ServiceTiming, TS, CS
  <2>7. Service!CallStep
    BY <1>1, <1>2, <2>2, <2>5 DEF Service!CallStep, TS, CS
  <2>8. QED
    BY <2>6, <2>7
<1>4. CASE count = 3
  <2>1. events' = events \ {e} /\ fifo' = fifo
    BY <1>4 DEF CallObject
  <2>2. TS' = TS /\ CS' = CS
    BY <1>1, <1>2, <1>4, <2>1 DEF TS, CS, Served, PassesAsked, Queued
  <2>3. ServiceTiming'
    BY <1>1, <2>1, <2>2 DEF ServiceTiming, TS, CS
  <2>4. Service!CallStep
    BY <1>1, <1>2, <2>2 DEF Service!CallStep, TS, CS
  <2>5. QED
    BY <2>3, <2>4
<1>5. QED
  BY <1>1, <1>3, <1>4

LEMMA FifoDoneRefines ==
    ASSUME IInv, ServiceTiming, NEW e \in Earliest(events), FifoDone(e)
    PROVE  ServiceTiming' /\ (Service!ServeTask \/ Service!ServeCall)
<1> DEFINE h == Head(fifo)
<1>1. /\ e.act = "fifoDone" /\ fifo # <<>> /\ e \in events
      /\ \A f \in events : e.at <= f.at
      /\ now' = e.at /\ e.at = now + ProcTime
      /\ count' = count /\ taskStep' = taskStep
  BY EventFacts, EventTime DEF FifoDone
<1>2. /\ h \in Actors /\ h \in Range(fifo)
      /\ Range(fifo') = Range(fifo) \ {h}
  BY <1>1, HeadInRange, TailOfInjective
     DEF FifoDone, IInv, TypeOK, NoDoubleActivation
<1>3. /\ now \in Nat /\ taskStep \in 0..4 /\ count \in Nat
      /\ ProcTime \in Nat \ {0}
  BY ProcTimePositive DEF IInv, TypeOK
<1>10. TS \in Int /\ CS \in Int
  BY <1>3 DEF TS, CS, Served, PassesAsked
<1>4. \A f \in events \ {e} : FALSE
  <2> SUFFICES ASSUME NEW f \in events \ {e} PROVE FALSE
    OBVIOUS
  <2>1. f.act # "fifoDone"
    BY <1>1 DEF IInv, NoDoubleActivation
  <2>2. f.at = now
    BY <2>1 DEF ServiceTiming
  <2>3. QED
    BY <1>1, <1>3, <2>2
<1>5. events' = {Event(e.at, WakeAct(h))}
                  \cup (IF Tail(fifo) # <<>> THEN {Event(e.at + ProcTime, "fifoDone")}
                                             ELSE {})
  BY <1>4 DEF FifoDone
<1>6. \A f \in events' :
         f.at = IF f.act = "fifoDone" THEN now' + ProcTime ELSE now'
  BY <1>1, <1>5, <1>2 DEF Event, WakeAct, Actors
<1>7. CASE h = "task"
  <2>1. Queued("task") /\ ~Queued("task")'
        /\ (Queued("callable")' <=> Queued("callable"))
    BY <1>2, <1>7 DEF Queued
  <2>2. TS' = TS + 1 /\ CS' = CS
    BY <1>1, <1>3, <2>1 DEF TS, CS, Served, PassesAsked
  <2>3. TS < Service!Asked(taskStep)
    BY <1>3, <2>1 DEF TS, Served, PassesAsked, Service!Asked
  <2>4. now' = (TS' + CS') * ProcTime
    BY <1>1, <1>3, <1>10, <2>2 DEF ServiceTiming, TS, CS
  <2>5. ServiceTiming'
    BY <1>6, <2>4 DEF ServiceTiming, TS, CS
  <2>6. Service!ServeTask
    BY <1>1, <2>2, <2>3 DEF Service!ServeTask, TS, CS
  <2>7. QED
    BY <2>5, <2>6
<1>8. CASE h = "callable"
  <2>1. Queued("callable") /\ ~Queued("callable")'
        /\ (Queued("task")' <=> Queued("task"))
    BY <1>2, <1>8 DEF Queued
  <2>2. CS' = CS + 1 /\ TS' = TS
    BY <1>1, <1>3, <2>1 DEF TS, CS, Served, PassesAsked
  <2>3. CS < Service!Asked(count)
    BY <1>3, <2>1 DEF CS, Served, PassesAsked, Service!Asked
  <2>4. now' = (TS' + CS') * ProcTime
    BY <1>1, <1>3, <1>10, <2>2 DEF ServiceTiming, TS, CS
  <2>5. ServiceTiming'
    BY <1>6, <2>4 DEF ServiceTiming, TS, CS
  <2>6. Service!ServeCall
    BY <1>1, <2>2, <2>3 DEF Service!ServeCall, TS, CS
  <2>7. QED
    BY <2>5, <2>6
<1>9. QED
  BY <1>2, <1>7, <1>8 DEF Actors

\* Every step keeps RInv and is a step of the service or leaves it unchanged.
LEMMA StepRefines ==
    ASSUME RInv, [Next]_vars
    PROVE  RInv' /\ [Service!Next]_Service!svars
<1>1. CASE UNCHANGED vars
  <2>1. IInv'
    BY <1>1 DEF RInv, vars, IInv, TypeOK, NoPastEvent, NoDoubleActivation,
                WorkConserving, TaskAccounting, CallAccounting, HasEvent,
                Queued, EventsOf
  <2>2. ServiceTiming'
    BY <1>1 DEF RInv, vars, ServiceTiming, Served, PassesAsked, Queued
  <2>3. UNCHANGED Service!svars
    BY <1>1 DEF vars, Service!svars, Served, PassesAsked, Queued
  <2>4. QED
    BY <2>1, <2>2, <2>3 DEF RInv
<1>2. CASE Next
  <2> PICK e \in Earliest(events) :
           StartTask(e) \/ ResumeTask(e) \/ CallObject(e) \/ FifoDone(e)
    BY <1>2 DEF Next
  <2>1. IInv'
    BY StartTaskStep, ResumeTaskStep, CallObjectStep, FifoDoneStep DEF RInv
  <2>2. ServiceTiming' /\ Service!Next
    BY StartTaskRefines, ResumeTaskRefines, CallObjectRefines,
       FifoDoneRefines
    DEF RInv, Service!Next
  <2>3. QED
    BY <2>1, <2>2 DEF RInv
<1>3. QED
  BY <1>1, <1>2

-----------------------------------------------------------------------------
(* The timing of stest2.js's run: the clock is always one processing time *)
(* per queue pass over, the pending wake-ups and starts are due now and    *)
(* the queue's completion one processing time later.                       *)
THEOREM ServiceTimingHolds == Spec => []ServiceTiming
<1>1. Init => RInv
  BY InitIInv, InitRefines DEF RInv
<1>2. RInv /\ [Next]_vars => RInv'
  BY StepRefines
<1>3. RInv => ServiceTiming
  BY DEF RInv
<1>4. QED
  BY <1>1, <1>2, <1>3, PTL DEF Spec

(* The model of stest2.js implements Stest2Service: the FIFO queue serves  *)
(* the task and the call object back to back, one processing time per      *)
(* pass, and each actor goes on only after its own pass.                    *)
THEOREM ServiceRefinedHolds == Spec => ServiceRefined
<1>1. Spec => []RInv
  <2>1. Init => RInv
    BY InitIInv, InitRefines DEF RInv
  <2>2. RInv /\ [Next]_vars => RInv'
    BY StepRefines
  <2>3. QED
    BY <2>1, <2>2, PTL DEF Spec
<1>2. Init => Service!Init
  BY InitRefines
<1>3. RInv /\ [Next]_vars => [Service!Next]_Service!svars
  BY StepRefines
<1>4. QED
  BY <1>1, <1>2, <1>3, PTL DEF Spec, ServiceRefined, Service!Spec
=============================================================================
