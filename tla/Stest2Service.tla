---------------------------- MODULE Stest2Service ----------------------------
(***************************************************************************)
(* What src/tests/devqsim/stest2.js promises, without the event list and  *)
(* without the order of the queue: one server works for both actors, one *)
(* pass at a time, each pass taking exactly the processing time and the   *)
(* passes following each other with no gap; an actor goes on (the task to *)
(* its next statement, the call object to its next call) only after its  *)
(* own pass is over.  The task makes four steps and queues itself on the  *)
(* first three; the call object is called four times and queues itself    *)
(* after the first three calls.  Which actor is served first is left open. *)
(***************************************************************************)
EXTENDS Naturals

CONSTANT ProcTime   \* the processing time of one pass

VARIABLES
    clock,      \* the simulation time
    steps,      \* the task's steps so far (start, then three resumptions)
    calls,      \* the calls of the call object so far
    tServed,    \* the task's passes that are over
    cServed     \* the call object's passes that are over

svars == <<clock, steps, calls, tServed, cServed>>

\* The passes an actor has asked for after k steps or calls.
Asked(k) == IF k < 3 THEN k ELSE 3

Init ==
    /\ clock = 0
    /\ steps = 0 /\ calls = 0
    /\ tServed = 0 /\ cServed = 0

(* The task takes its next step: its first, or the one after its pass.   *)
TaskStep ==
    /\ steps < 4
    /\ steps = 0 \/ tServed = steps
    /\ steps' = steps + 1
    /\ UNCHANGED <<clock, calls, tServed, cServed>>

(* The call object is called: the first time, or after its pass.          *)
CallStep ==
    /\ calls < 4
    /\ calls = 0 \/ cServed = calls
    /\ calls' = calls + 1
    /\ UNCHANGED <<clock, steps, tServed, cServed>>

(* A pass of the task, or of the call object, is over one processing time *)
(* after the previous one.                                                  *)
ServeTask ==
    /\ tServed < Asked(steps)
    /\ tServed' = tServed + 1
    /\ clock' = clock + ProcTime
    /\ UNCHANGED <<steps, calls, cServed>>

ServeCall ==
    /\ cServed < Asked(calls)
    /\ cServed' = cServed + 1
    /\ clock' = clock + ProcTime
    /\ UNCHANGED <<steps, calls, tServed>>

Next == TaskStep \/ CallStep \/ ServeTask \/ ServeCall

Spec == Init /\ [][Next]_svars
=============================================================================
