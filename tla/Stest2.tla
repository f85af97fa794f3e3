------------------------------- MODULE Stest2 -------------------------------
(***************************************************************************)
(* src/tests/devqsim/stest2.js: a simulation task and a call object share *)
(* one FIFO task queue of org.bzdev.devqsim.                               *)
(*                                                                         *)
(*   sim.scheduleTask(function() {             // the task                *)
(*       print; fifo.addCurrentTask(1.0)  (three times)  print });         *)
(*   var count = 0;                                                        *)
(*   var callable = { call: function() {                                   *)
(*       print; if (count++ == 3) return;                                  *)
(*       fifo.addCallObject(callable, 1.0) } };                            *)
(*   sim.scheduleCallObject(callable, 0.0);  sim.run();                    *)
(*                                                                         *)
(* The script's control is modelled from its lines.  The library it calls *)
(* (the simulation's event list and the FifoTaskQueue) is modelled from    *)
(* its documented contract: events run in time order, an entry added to an *)
(* idle queue starts its processing time at once, an entry leaves the head *)
(* of the queue when its processing time is over and then its task resumes *)
(* or its call object is called, and the next entry starts.  Events that   *)
(* fall at the same time may run in any order here, so every property is   *)
(* shown for every tie-break the simulator could use.                      *)
(***************************************************************************)
EXTENDS DevqsimEvents, Sequences, Functions

CONSTANTS
    TicksPerUnit,   \* new Simulation(scripting, 1000.0): ticks per unit time
    MaxTicks        \* the model runs no event due after this time

ASSUME TicksPerUnitAssumption == TicksPerUnit \in Nat \ {0}

ASSUME MaxTicksAssumption == MaxTicks \in Nat

VARIABLES
    now,        \* sim.currentTicks()
    events,     \* the simulation's pending events: [at, act] records
    fifo,       \* the FifoTaskQueue: the actors waiting in it, head first
    busy,       \* the queue's head is being processed
    count,      \* the script variable count
    taskStep    \* how many addCurrentTask calls the task has made; 4 = ended

vars == <<now, events, fifo, busy, count, taskStep>>

Actors == {"task", "callable"}

Acts == {"startTask", "resumeTask", "callObject", "fifoDone"}

\* sim.getTicks(1.0), the processing time of every queue entry.
ProcTime == TicksPerUnit

\* The event that resumes an actor when it leaves the head of the queue.
WakeAct(w) == IF w = "task" THEN "resumeTask" ELSE "callObject"

-----------------------------------------------------------------------------
(* The top level of the script has run up to sim.run(): the task and the  *)
(* call object are both scheduled at time 0 and the queue is empty.        *)
Init ==
    /\ now = 0
    /\ events = {Event(0, "startTask"), Event(0, "callObject")}
    /\ fifo = <<>>
    /\ busy = FALSE
    /\ count = 0
    /\ taskStep = 0

(* fifo.addCurrentTask(d) / fifo.addCallObject(c, d) at time t: the entry *)
(* joins the tail; on an idle queue its processing starts at once.  rest  *)
(* is the event list once the firing event is taken off it.               *)
AddToFifo(w, t, rest) ==
    /\ fifo' = Append(fifo, w)
    /\ busy' = TRUE
    /\ events' = IF busy THEN rest ELSE rest \cup {Event(t + ProcTime, "fifoDone")}

(* The task starts: it prints and queues itself on the FIFO.              *)
StartTask(e) ==
    /\ e.act = "startTask"
    /\ now' = e.at
    /\ taskStep' = 1
    /\ AddToFifo("task", e.at, events \ {e})
    /\ UNCHANGED count

\* Mutant: the task never leaves its loop.
ResumeTaskNoEnd(e) ==
    /\ e.act = "resumeTask"
    /\ now' = e.at
    /\ taskStep' = taskStep + 1
    /\ AddToFifo("task", e.at, events \ {e})
    /\ UNCHANGED count

(* The task resumes after a queue entry of its own: it prints and either  *)
(* queues itself again (first and second resumption) or ends (third).     *)
ResumeTask(e) ==
    /\ e.act = "resumeTask"
    /\ now' = e.at
    /\ taskStep' = taskStep + 1
    /\ IF taskStep < 3
         THEN AddToFifo("task", e.at, events \ {e})
         ELSE /\ events' = events \ {e}
              /\ UNCHANGED <<fifo, busy>>
    /\ UNCHANGED count

\* Mutant: if (++count == 3) return;  -- the call object stops one call early.
CallObjectPreIncrement(e) ==
    /\ e.act = "callObject"
    /\ now' = e.at
    /\ count' = count + 1
    /\ IF count + 1 = 3
         THEN /\ events' = events \ {e}
              /\ UNCHANGED <<fifo, busy>>
         ELSE AddToFifo("callable", e.at, events \ {e})
    /\ UNCHANGED taskStep

\* Mutant: the early return is lost; the call object always re-adds itself.
CallObjectNoReturn(e) ==
    /\ e.act = "callObject"
    /\ now' = e.at
    /\ count' = count + 1
    /\ AddToFifo("callable", e.at, events \ {e})
    /\ UNCHANGED taskStep

\* Mutant: the call object both queues itself and schedules its next call.
CallObjectAlsoSchedules(e) ==
    /\ e.act = "callObject"
    /\ now' = e.at
    /\ count' = count + 1
    /\ IF count = 3
         THEN /\ events' = events \ {e}
              /\ UNCHANGED <<fifo, busy>>
         ELSE AddToFifo("callable", e.at,
                        (events \ {e}) \cup {Event(e.at + ProcTime, "callObject")})
    /\ UNCHANGED taskStep

(* callable.call(): print; if (count++ == 3) return;                      *)
(* fifo.addCallObject(callable, sim.getTicks(1.0)).                        *)
CallObject(e) ==
    /\ e.act = "callObject"
    /\ now' = e.at
    /\ count' = count + 1
    /\ IF count = 3
         THEN /\ events' = events \ {e}
              /\ UNCHANGED <<fifo, busy>>
         ELSE AddToFifo("callable", e.at, events \ {e})
    /\ UNCHANGED taskStep

(* The head's processing time is over: it leaves the queue, its actor is  *)
(* resumed at this time, and the next entry, if any, starts processing.   *)
FifoDone(e) ==
    /\ e.act = "fifoDone"
    /\ now' = e.at
    /\ fifo' = Tail(fifo)
    /\ busy' = (Tail(fifo) # <<>>)
    /\ events' = (events \ {e})
                   \cup {Event(e.at, WakeAct(Head(fifo)))}
                   \cup (IF Tail(fifo) # <<>>
                           THEN {Event(e.at + ProcTime, "fifoDone")}
                           ELSE {})
    /\ UNCHANGED <<count, taskStep>>

\* Mutant: the simulator runs any pending event, not one of the earliest.
NextAnyEvent ==
    \E e \in events :
        /\ e.at <= MaxTicks
        /\ \/ StartTask(e)
           \/ ResumeTask(e)
           \/ CallObject(e)
           \/ FifoDone(e)

(* sim.run(): take one of the earliest pending events and run it.  The    *)
(* model stops at MaxTicks, after the script's last event.                 *)
Next ==
    \E e \in Earliest(events) :
        /\ e.at <= MaxTicks
        /\ \/ StartTask(e)
           \/ ResumeTask(e)
           \/ CallObject(e)
           \/ FifoDone(e)

(* sim.run() keeps running events as long as there are any.               *)
Spec == Init /\ [][Next]_vars /\ WF_vars(Next)

-----------------------------------------------------------------------------
TypeOK ==
    /\ now \in Nat
    /\ events \subseteq [at : Nat, act : Acts]
    /\ fifo \in Seq(Actors)
    /\ busy \in BOOLEAN
    /\ count \in Nat
    /\ taskStep \in 0..4

(* The activations of an actor that are pending: its events, and its      *)
(* entries in the queue.                                                   *)
EventsOf(w) ==
    {e \in events : e.act \in IF w = "task" THEN {"startTask", "resumeTask"}
                                            ELSE {"callObject"}}

Queued(w) == w \in Range(fifo)

(* Neither the task nor the call object is ever pending twice: at most    *)
(* one event per kind, no actor twice in the queue, and an actor waiting  *)
(* in the queue has no event.  If the call object re-added itself twice   *)
(* (stest2.js line 28) two of its calls could pass count == 3 unseen and  *)
(* it would reschedule itself forever.                                     *)
NoDoubleActivation ==
    /\ \A e, f \in events : e.act = f.act => e = f
    /\ IsInjective(fifo)
    /\ \A w \in Actors : Queued(w) => EventsOf(w) = {}

(* Part of the inductive invariant below: the queue is busy exactly while *)
(* it holds an entry and exactly while a completion event is pending       *)
(* (the simulator's FIFO server, stest2.js lines 15, 28).                  *)
WorkConserving ==
    /\ busy <=> (fifo # <<>>)
    /\ busy <=> (\E e \in events : e.act = "fifoDone")

(* sim.run() (stest2.js line 34) returns only when the script's work is   *)
(* done: when no event is left, the call object has been called exactly   *)
(* four times, the task has passed the queue three times and ended, and   *)
(* the queue is empty.                                                     *)
RunCompletes ==
    events = {} => /\ count = 4
                   /\ taskStep = 4
                   /\ fifo = <<>>

(* sim.run() returns: the call object stops rescheduling itself and the   *)
(* task ends, under the fairness of the simulator's run loop.              *)
RunTerminates == <>(events = {})

-----------------------------------------------------------------------------
(* The strengthening of RunCompletes that is inductive.                   *)

\* No pending event lies in the past of the simulation clock.
NoPastEvent == \A e \in events : now <= e.at

HasEvent(a) == \E e \in events : e.act = a

\* The task is pending (by its start event, its resume event or its queue
\* entry) exactly while it has not ended, and it has started iff taskStep > 0.
TaskAccounting ==
    /\ HasEvent("startTask") <=> taskStep = 0
    /\ (HasEvent("resumeTask") \/ Queued("task")) <=> taskStep \in 1..3

\* The call object is pending exactly while count < 4.
CallAccounting ==
    /\ count <= 4
    /\ (HasEvent("callObject") \/ Queued("callable")) <=> count < 4

IInv ==
    /\ TypeOK
    /\ NoPastEvent
    /\ NoDoubleActivation
    /\ WorkConserving
    /\ TaskAccounting
    /\ CallAccounting

-----------------------------------------------------------------------------
(* The refinement of Stest2Service.                                        *)

\* The queue entries an actor has added after k steps or calls: the task
\* queues itself at lines 15, 17 and 19, the call object after every call
\* but the one where count++ == 3 (lines 27-28).
PassesAsked(k) == IF k < 3 THEN k ELSE 3

\* The passes of an actor that are over: those it asked for but the one it
\* may have waiting in the queue.
Served(w, k) == PassesAsked(k) - (IF Queued(w) THEN 1 ELSE 0)

Service == INSTANCE Stest2Service
               WITH clock <- now, steps <- taskStep, calls <- count,
                    tServed <- Served("task", taskStep),
                    cServed <- Served("callable", count)

(* stest2.js implements the service it promises: the FIFO queue serves the *)
(* task and the call object one pass at a time, back to back, each pass    *)
(* one processing time, and each actor goes on only after its own pass.    *)
(* A second completion scheduled while the queue is busy, or a pass that   *)
(* starts late, breaks it.                                                  *)
ServiceRefined == Service!Spec

(* The timing that makes the refinement hold: the clock has advanced one   *)
(* processing time per pass over, an actor's wake-up or start is due now, *)
(* and the queue's completion one processing time from now.                *)
ServiceTiming ==
    /\ now = (Served("task", taskStep) + Served("callable", count)) * ProcTime
    /\ \A e \in events : e.at = IF e.act = "fifoDone" THEN now + ProcTime ELSE now
=============================================================================
