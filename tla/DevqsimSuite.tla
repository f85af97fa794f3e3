----------------------------- MODULE DevqsimSuite -----------------------------
(***************************************************************************)
(* The scripts of src/tests/devqsim checked in one run: each script runs  *)
(* its own simulation, so they share no state and a step of the suite is  *)
(* a step of one of them.  The variables of stest2.js are those of Stest2; *)
(* those of stest.js carry the prefix s1, those of testsim.js ts and      *)
(* those of ftest.js ft.                                                   *)
(***************************************************************************)
EXTENDS Stest2

VARIABLES s1now, s1events, s1i, s1out,
          tsNow, tsEvents, tsI, tsOut,
          ftPc, ftMade, ftParams, ftObjs

S1 == INSTANCE Stest WITH now <- s1now, events <- s1events, i <- s1i,
                          out <- s1out

TS == INSTANCE Testsim WITH now <- tsNow, events <- tsEvents, i <- tsI,
                            out <- tsOut

FT == INSTANCE Ftest WITH pc <- ftPc, made <- ftMade, params <- ftParams,
                          objs <- ftObjs

s1vars == <<s1now, s1events, s1i, s1out>>

tsvars == <<tsNow, tsEvents, tsI, tsOut>>

ftvars == <<ftPc, ftMade, ftParams, ftObjs>>

SuiteInit == Init /\ S1!Init /\ TS!Init /\ FT!Init

SuiteNext ==
    \/ Next /\ UNCHANGED <<s1vars, tsvars, ftvars>>
    \/ S1!Next /\ UNCHANGED <<vars, tsvars, ftvars>>
    \/ TS!Next /\ UNCHANGED <<vars, s1vars, ftvars>>
    \/ FT!Next /\ UNCHANGED <<vars, s1vars, tsvars>>

(* Each script's run loop keeps taking steps while it can.                 *)
SuiteSpec ==
    /\ SuiteInit
    /\ [][SuiteNext]_<<vars, s1vars, tsvars, ftvars>>
    /\ WF_vars(Next) /\ WF_s1vars(S1!Next) /\ WF_tsvars(TS!Next)
    /\ WF_ftvars(FT!Next)

SuiteTypeOK == TypeOK /\ S1!TypeOK /\ TS!TypeOK

(* stest.js, testsim.js, ftest.js: see Stest, Testsim, Ftest.             *)
StestRunCompletes == S1!StestRunCompletes

TestsimRunCompletes == TS!TestsimRunCompletes

OneSourcePerFunction == FT!OneSourcePerFunction

(* stest.js: sim.run() returns, after the call due at 4.0.                *)
StestTerminates == <>(s1events = {})
=============================================================================
