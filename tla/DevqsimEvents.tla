---------------------------- MODULE DevqsimEvents ----------------------------
(***************************************************************************)
(* The part of the org.bzdev.devqsim simulator that the scripts under     *)
(* src/tests/devqsim rely on: a pending event is a time in ticks and what *)
(* runs then, and sim.run() runs the pending events in time order until   *)
(* none is left.  The order among events due at the same tick is left     *)
(* open, so the scripts' properties are shown for every tie-break.        *)
(***************************************************************************)
EXTENDS Naturals

Event(t, a) == [at |-> t, act |-> a]

\* The events sim.run() may run next: those with the least time.
Earliest(evs) == {e \in evs : \A f \in evs : e.at <= f.at}
=============================================================================
