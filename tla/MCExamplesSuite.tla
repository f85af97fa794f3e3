--------------------------- MODULE MCExamplesSuite ---------------------------
(* smartmeter/script.js runs new DramaSimulation(scripting, 1000.0) for    *)
(* maxtime = MKS.hours(16.0); its calls fall at 23,040,000 and 34,560,000  *)
(* ticks of a 57,600,000-tick run.                                         *)
EXTENDS ExamplesSuite

MCTicksPerUnit == 1000

MCMaxTime == 16 * 3600
=============================================================================
