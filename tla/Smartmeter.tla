------------------------------ MODULE Smartmeter ------------------------------
(***************************************************************************)
(* src/examples/smartmeter/script.js: a drama simulation of 10000 homes   *)
(* fed by one utility.  The script checks the host's bindings, builds the *)
(* factories, the graph and the actors, schedules two call objects that   *)
(* change the utility's reduction fraction at 0.4 and 0.6 of the run, runs *)
(* the simulation to its end time and writes the graph.                    *)
(*                                                                         *)
(* The graph, axes and actor parameters (lines 34-84) are configuration   *)
(* of the external library with no branch in the script; they are one    *)
(* step here.  The homes, the utility and the temperature condition are   *)
(* classes of the host application that are not in this repository; only *)
(* the utility's reduction fraction, which the script sets, is state here. *)
(* sim.run(endtime) is the devqsim contract of DevqsimEvents: the pending *)
(* events due up to endtime run in time order.  Fractions are in tenths.   *)
(***************************************************************************)
EXTENDS DevqsimEvents, Sequences

CONSTANTS
    TicksPerUnit,   \* new DramaSimulation(scripting, 1000.0) (line 27)
    MaxTime,        \* maxtime = MKS.hours(16.0), in seconds (line 34)
    NoFraction      \* the utility's fraction before any call sets one

\* Math.round(n / d), that is floor(n / d + 1/2), for d > 0.
RoundDiv(n, d) == (2 * n + d) \div (2 * d)

\* Lines 86-87: endtime = Math.round(tput * maxtime).
EndTime == TicksPerUnit * MaxTime

\* Mutant: time1 computed with the factor of time2.
Time1Late == RoundDiv(EndTime * 6, 10)

\* Lines 89-90: time1 and time2 at 0.4 and 0.6 of the run.
Time1 == RoundDiv(EndTime * 4, 10)

\* Mutant: time2 with the factor 6 in place of 0.6.
Time2TimesSix == RoundDiv(EndTime * 6, 1)

Time2 == RoundDiv(EndTime * 6, 10)

VARIABLES
    pc,         \* the statement the script is at
    hostOs,     \* the host has bound os
    hostImg,    \* the host has bound imgtype
    now,        \* sim.currentTime() in ticks
    events,     \* the pending events
    frac,       \* the utility's reduction fraction, in tenths
    log         \* <<tick, fraction>> for each line the calls print

vars == <<pc, hostOs, hostImg, now, events, frac, log>>

(* The host runs the script with or without os and imgtype bound.          *)
Init ==
    /\ pc = "preamble"
    /\ hostOs \in BOOLEAN
    /\ hostImg \in BOOLEAN
    /\ now = 0
    /\ events = {}
    /\ frac = NoFraction
    /\ log = <<>>

(* Lines 4-17: err and out default to the scripting writers; the script    *)
(* throws unless os and imgtype are defined.                               *)
Preamble ==
    /\ pc = "preamble"
    /\ pc' = IF hostOs /\ hostImg THEN "setup" ELSE "thrown"
    /\ UNCHANGED <<hostOs, hostImg, now, events, frac, log>>

(* Lines 19-90: the simulation, factories, graph, temperature condition,  *)
(* domain, utility and homes are created and the times computed.           *)
Setup ==
    /\ pc = "setup"
    /\ pc' = "schedule1"
    /\ UNCHANGED <<hostOs, hostImg, now, events, frac, log>>

(* Lines 92-100: sim.scheduleCallObject(..., time1), then (..., time2).    *)
Schedule1 ==
    /\ pc = "schedule1"
    /\ events' = events \cup {Event(Time1, 7)}
    /\ pc' = "schedule2"
    /\ UNCHANGED <<hostOs, hostImg, now, frac, log>>

Schedule2 ==
    /\ pc = "schedule2"
    /\ events' = events \cup {Event(Time2, 10)}
    /\ pc' = "run"
    /\ UNCHANGED <<hostOs, hostImg, now, frac, log>>

(* A call object runs: it prints the fraction and the time (lines 93, 98) *)
(* and calls utility.setReductionFraction (lines 94, 99).                  *)
CallObject(e) ==
    /\ pc = "run"
    /\ e.at <= EndTime
    /\ now' = e.at
    /\ events' = events \ {e}
    /\ frac' = e.act
    /\ log' = Append(log, <<e.at, e.act>>)
    /\ UNCHANGED <<pc, hostOs, hostImg>>

(* Line 102: sim.run(endtime) returns when no event is due by endtime,     *)
(* with the clock at endtime; line 103 then writes the graph.              *)
RunReturns ==
    /\ pc = "run"
    /\ \A e \in events : e.at > EndTime
    /\ now' = EndTime
    /\ pc' = "done"
    /\ UNCHANGED <<hostOs, hostImg, events, frac, log>>

Next ==
    \/ Preamble
    \/ Setup
    \/ Schedule1
    \/ Schedule2
    \/ \E e \in Earliest(events) : CallObject(e)
    \/ RunReturns

\* The script ends after writing the graph or at the throw of line 12 or 16.
Spec == Init /\ [][Next]_vars /\ WF_vars(Next)

-----------------------------------------------------------------------------
TypeOK ==
    /\ pc \in {"preamble", "setup", "schedule1", "schedule2", "run",
               "done", "thrown"}
    /\ hostOs \in BOOLEAN /\ hostImg \in BOOLEAN
    /\ now \in 0..EndTime
    /\ events \subseteq [at : 0..EndTime, act : {7, 10}]
    /\ frac \in {NoFraction, 7, 10}
    /\ log \in Seq((0..EndTime) \X {7, 10})

(* When the graph is written (line 103), both calls have run once each,   *)
(* in time order: the fraction went to 0.7 at 0.4 of the run and to 1.0  *)
(* at 0.6 of it, and 1.0 is in force at the end.  The calls are scheduled *)
(* by absolute times computed with Math.round (lines 89-90), both before  *)
(* the endtime passed to sim.run (line 102).                               *)
ReductionsInTimeOrder ==
    pc = "done" =>
        /\ log = << <<Time1, 7>>, <<Time2, 10>> >>
        /\ Time1 < Time2
        /\ frac = 10
=============================================================================
