------------------------------- MODULE Testsim -------------------------------
(***************************************************************************)
(* src/tests/devqsim/testsim.js: one task object on a simulation with the  *)
(* default tick rate.                                                      *)
(*                                                                         *)
(*   sim.scheduleTaskObject({run: function() {                             *)
(*       for (var i = 0; i < 5; i++) {                                     *)
(*           print sim.currentTicks() and i; TaskThread.pause(10); } }},   *)
(*     10);                                                                *)
(*   sim.run()                                                             *)
(*                                                                         *)
(* Delays are in ticks.  out is what the task prints: the tick and the     *)
(* value of i, in the order printed.                                       *)
(***************************************************************************)
EXTENDS DevqsimEvents, Sequences

CONSTANT
    MaxTicks        \* the model runs no event due after this time

VARIABLES
    now,        \* sim.currentTicks()
    events,     \* the pending events
    i,          \* the task's loop variable
    out         \* <<tick, i>> for each line printed

vars == <<now, events, i, out>>

\* The script's delays: the task starts after 10 ticks, each pause is 10.
StartDelay == 10
Pause == 10

(* Up to sim.run() (line 14): the task object is scheduled.               *)
Init ==
    /\ now = 0
    /\ events = {Event(StartDelay, "startTask")}
    /\ i = 0
    /\ out = <<>>

(* The task starts: i = 0 < 5, it prints and pauses (lines 6-10).         *)
StartTask(e) ==
    /\ e.act = "startTask"
    /\ now' = e.at
    /\ events' = (events \ {e}) \cup {Event(e.at + Pause, "resumeTask")}
    /\ out' = Append(out, <<e.at, i>>)
    /\ UNCHANGED i

\* Mutant: the loop test is i <= 5.
ResumeTaskOffByOne(e) ==
    /\ e.act = "resumeTask"
    /\ now' = e.at
    /\ i' = i + 1
    /\ IF i + 1 <= 5
         THEN /\ events' = (events \ {e}) \cup {Event(e.at + Pause, "resumeTask")}
              /\ out' = Append(out, <<e.at, i + 1>>)
         ELSE /\ events' = events \ {e}
              /\ UNCHANGED out

(* The task returns from TaskThread.pause(10): i++, and while i < 5 it    *)
(* prints and pauses again; otherwise run() returns and the task ends.    *)
ResumeTask(e) ==
    /\ e.act = "resumeTask"
    /\ now' = e.at
    /\ i' = i + 1
    /\ IF i + 1 < 5
         THEN /\ events' = (events \ {e}) \cup {Event(e.at + Pause, "resumeTask")}
              /\ out' = Append(out, <<e.at, i + 1>>)
         ELSE /\ events' = events \ {e}
              /\ UNCHANGED out

(* sim.run(): run the earliest pending event, up to MaxTicks.             *)
Next ==
    \E e \in Earliest(events) :
        /\ e.at <= MaxTicks
        /\ StartTask(e) \/ ResumeTask(e)

Spec == Init /\ [][Next]_vars /\ WF_vars(Next)

-----------------------------------------------------------------------------
TypeOK ==
    /\ now \in Nat
    /\ events \subseteq [at : Nat, act : {"startTask", "resumeTask"}]
    /\ i \in 0..5
    /\ out \in Seq(Nat \X Nat)

(* When sim.run() (line 14) returns, the task has printed five lines, at  *)
(* ticks 10, 20, 30, 40, 50, with i = 0 .. 4: the pause of line 10 is     *)
(* relative to the task's own time and the loop bound of line 6 is met.   *)
TestsimRunCompletes ==
    events = {} =>
        out = [k \in 1..5 |-> <<StartDelay + (k - 1) * Pause, k - 1>>]
=============================================================================
