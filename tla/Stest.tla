-------------------------------- MODULE Stest --------------------------------
(***************************************************************************)
(* src/tests/devqsim/stest.js: two calls and a pausing task on one         *)
(* org.bzdev.devqsim simulation (1000 ticks per unit time).                *)
(*                                                                         *)
(*   sim.scheduleCall(print time, sim.getTicks(4.0));                      *)
(*   sim.scheduleCall(print time, sim.getTicks(2.0));                      *)
(*   sim.scheduleTask(function() { for (i = 0; i < 5; i++) {              *)
(*       print time; TaskThread.pause(sim.getTicks(0.1)); } },             *)
(*     sim.getTicks(3.0));                                                 *)
(*   sim.run();                                                            *)
(*                                                                         *)
(* The call due at 4.0 is scheduled before the one due at 2.0, and the    *)
(* task's pauses run between them.  out is the script's output: the time  *)
(* each print statement shows, in the order printed.                       *)
(***************************************************************************)
EXTENDS DevqsimEvents, Sequences

CONSTANTS
    TicksPerUnit,   \* new Simulation(scripting, 1000.0): ticks per unit time
    MaxTicks        \* the model runs no event due after this time

VARIABLES
    now,        \* sim.currentTicks()
    events,     \* the pending events
    i,          \* the task's loop variable
    out         \* the times printed, in order

vars == <<now, events, i, out>>

\* sim.getTicks(x) for the literals of the script, in tenths of a unit.
Ticks(tenths) == (tenths * TicksPerUnit) \div 10

Acts == {"call4", "call2", "startTask", "resumeTask"}

(* The top level has run up to sim.run(): both calls and the task start   *)
(* are pending.                                                            *)
Init ==
    /\ now = 0
    /\ events = {Event(Ticks(40), "call4"), Event(Ticks(20), "call2"),
                 Event(Ticks(30), "startTask")}
    /\ i = 0
    /\ out = <<>>

(* One of the two scheduled calls: out.println("time = " + currentTime).  *)
Call(e) ==
    /\ e.act \in {"call4", "call2"}
    /\ now' = e.at
    /\ events' = events \ {e}
    /\ out' = Append(out, e.at)
    /\ UNCHANGED i

(* The task starts its loop with i = 0 < 5: it prints and pauses.         *)
StartTask(e) ==
    /\ e.act = "startTask"
    /\ now' = e.at
    /\ events' = (events \ {e}) \cup {Event(e.at + Ticks(1), "resumeTask")}
    /\ out' = Append(out, e.at)
    /\ UNCHANGED i

\* Mutant: for (i = 0; i <= 5; i++) -- one pass too many.
ResumeTaskOffByOne(e) ==
    /\ e.act = "resumeTask"
    /\ now' = e.at
    /\ i' = i + 1
    /\ IF i + 1 <= 5
         THEN /\ events' = (events \ {e}) \cup {Event(e.at + Ticks(1), "resumeTask")}
              /\ out' = Append(out, e.at)
         ELSE /\ events' = events \ {e}
              /\ UNCHANGED out

\* Mutant: the loop variable is never incremented.
ResumeTaskNoIncrement(e) ==
    /\ e.act = "resumeTask"
    /\ now' = e.at
    /\ events' = (events \ {e}) \cup {Event(e.at + Ticks(1), "resumeTask")}
    /\ out' = Append(out, e.at)
    /\ UNCHANGED i

(* The task returns from TaskThread.pause: i++, and while i < 5 it prints *)
(* and pauses again; otherwise the loop and the task end.                 *)
ResumeTask(e) ==
    /\ e.act = "resumeTask"
    /\ now' = e.at
    /\ i' = i + 1
    /\ IF i + 1 < 5
         THEN /\ events' = (events \ {e}) \cup {Event(e.at + Ticks(1), "resumeTask")}
              /\ out' = Append(out, e.at)
         ELSE /\ events' = events \ {e}
              /\ UNCHANGED out

(* sim.run(): run one of the earliest pending events, up to MaxTicks.     *)
Next ==
    \E e \in Earliest(events) :
        /\ e.at <= MaxTicks
        /\ \/ Call(e)
           \/ StartTask(e)
           \/ ResumeTask(e)

Spec == Init /\ [][Next]_vars /\ WF_vars(Next)

-----------------------------------------------------------------------------
TypeOK ==
    /\ now \in Nat
    /\ events \subseteq [at : Nat, act : Acts]
    /\ i \in 0..5
    /\ out \in Seq(Nat)

(* sim.run() (stest.js line 25) returns only after both calls and all     *)
(* five passes of the task's loop have printed: seven lines, the first at *)
(* 2.0, then the task's at 3.0 .. 3.4, the last at 4.0.                   *)
StestRunCompletes ==
    events = {} =>
        out = <<Ticks(20), Ticks(30), Ticks(31), Ticks(32), Ticks(33),
                Ticks(34), Ticks(40)>>
=============================================================================
