--------------------------- MODULE MCDevqsimSuite ---------------------------
(* Both scripts create new Simulation(scripting, 1000.0).  Their last      *)
(* events fall at 6.0 (stest2.js) and 4.0 (stest.js); the model stops at   *)
(* 10.0, so a run that goes on past the scripts' end is cut and seen.      *)
EXTENDS DevqsimSuite

MCTicksPerUnit == 1000

MCMaxTicks == 10000
=============================================================================
