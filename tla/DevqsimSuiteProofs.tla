--------------------------- MODULE DevqsimSuiteProofs ---------------------------
(***************************************************************************)
(* The suite of src/tests/devqsim interleaves four scripts that share no  *)
(* state.  A step of the suite is a step of one script with the others'    *)
(* variables unchanged, so each script, seen alone, behaves as its own     *)
(* specification allows, and what is proved of a script holds of it in   *)
(* the suite.                                                              *)
(***************************************************************************)
EXTENDS DevqsimSuite, Stest2Proofs, TLAPS

SP == INSTANCE StestProofs WITH now <- s1now, events <- s1events, i <- s1i,
                                out <- s1out

TP == INSTANCE TestsimProofs WITH now <- tsNow, events <- tsEvents, i <- tsI,
                                  out <- tsOut

FP == INSTANCE FtestProofs WITH pc <- ftPc, made <- ftMade, params <- ftParams,
                                objs <- ftObjs

allvars == <<vars, s1vars, tsvars, ftvars>>

\* A suite step is, for each script, one of its steps or a stutter.
LEMMA SuiteStepProjects ==
    [SuiteNext]_allvars =>
        /\ [Next]_vars
        /\ [S1!Next]_s1vars
        /\ [TS!Next]_tsvars
        /\ [FT!Next]_ftvars
BY DEF SuiteNext, allvars, vars, s1vars, tsvars, ftvars

\* S1 and TS are the scripts' modules under the suite's names; SP and TP
\* the same modules with their proofs.  They define the same formulas.
LEMMA StestSame ==
    /\ S1!Init => SP!Init
    /\ [S1!Next]_s1vars => [SP!Next]_SP!vars
    /\ SP!TypeOK => S1!TypeOK
    /\ SP!StestRunCompletes => S1!StestRunCompletes
BY DEF S1!Init, SP!Init, S1!Next, SP!Next, S1!Call, SP!Call,
       S1!StartTask, SP!StartTask, S1!ResumeTask, SP!ResumeTask,
       S1!Event, SP!Event, S1!Ticks, SP!Ticks, S1!Earliest, SP!Earliest,
       s1vars, SP!vars, S1!TypeOK, SP!TypeOK, S1!Acts, SP!Acts,
       S1!StestRunCompletes, SP!StestRunCompletes

LEMMA TestsimSame ==
    /\ TS!Init => TP!Init
    /\ [TS!Next]_tsvars => [TP!Next]_TP!vars
    /\ TP!TypeOK => TS!TypeOK
    /\ TP!TestsimRunCompletes => TS!TestsimRunCompletes
BY DEF TS!Init, TP!Init, TS!Next, TP!Next,
       TS!StartTask, TP!StartTask, TS!ResumeTask, TP!ResumeTask,
       TS!Event, TP!Event, TS!StartDelay, TP!StartDelay, TS!Pause, TP!Pause,
       TS!Earliest, TP!Earliest, tsvars, TP!vars, TS!TypeOK, TP!TypeOK,
       TP!TestsimRunCompletes, TS!TestsimRunCompletes

LEMMA FtestSame ==
    /\ FT!Init => FP!Init
    /\ [FT!Next]_ftvars => [FP!Next]_FP!vars
    /\ FP!OneSourcePerFunction => FT!OneSourcePerFunction
BY DEF FT!Init, FP!Init, FT!Next, FP!Next, FT!CreateFactory, FP!CreateFactory,
       FT!Set, FP!Set, FT!Clear, FP!Clear, FT!Create, FP!Create,
       FT!Stmt, FP!Stmt, FT!Program, FP!Program, FT!NoParams, FP!NoParams,
       FT!Keys, FP!Keys, FT!NameKeys, FP!NameKeys, FT!Factories, FP!Factories,
       FT!Unset, FP!Unset, FT!SetKeys, FP!SetKeys, ftvars, FP!vars,
       FT!OneSourcePerFunction, FP!OneSourcePerFunction

\* The inductive invariants of stest.js and testsim.js, together.
ScriptsInv == SP!SInv /\ TP!TInv

LEMMA ScriptsInvariant ==
    ASSUME SP!TicksDecimal
    PROVE  SuiteSpec => []ScriptsInv
<1>1. SuiteInit => ScriptsInv
  <2> SUFFICES ASSUME SuiteInit PROVE ScriptsInv
    OBVIOUS
  <2>1. SP!Init /\ TP!Init
    BY StestSame, TestsimSame DEF SuiteInit
  <2>2. QED
    BY <2>1, SP!InitSInv, TP!InitTInv DEF ScriptsInv
<1>2. ScriptsInv /\ [SuiteNext]_allvars => ScriptsInv'
  <2> SUFFICES ASSUME ScriptsInv, [SuiteNext]_allvars PROVE ScriptsInv'
    OBVIOUS
  <2>1. [SP!Next]_SP!vars /\ [TP!Next]_TP!vars
    BY SuiteStepProjects, StestSame, TestsimSame
  <2>2. SP!SInv'
    BY <2>1, SP!NextSInv, Zenon DEF ScriptsInv
  <2>3. TP!TInv'
    BY <2>1, TP!NextTInv, Zenon DEF ScriptsInv
  <2>4. QED
    BY <2>2, <2>3 DEF ScriptsInv
<1>3. QED
  BY <1>1, <1>2, PTL DEF SuiteSpec, allvars

\* The suite runs stest2.js by its own specification.
LEMMA SuiteRunsStest2 == SuiteSpec => Spec
<1>1. SuiteInit => Init
  BY DEF SuiteInit
<1>2. [SuiteNext]_allvars => [Next]_vars
  BY SuiteStepProjects
<1>3. QED
  BY <1>1, <1>2, PTL DEF SuiteSpec, Spec, allvars

\* testsim.js's invariant holds in the suite whatever the tick rate.
LEMMA TestsimInvariantInSuite == SuiteSpec => []TP!TInv
<1>1. SuiteInit => TP!TInv
  BY TestsimSame, TP!InitTInv DEF SuiteInit
<1>2. TP!TInv /\ [SuiteNext]_allvars => TP!TInv'
  <2> SUFFICES ASSUME TP!TInv, [SuiteNext]_allvars PROVE TP!TInv'
    OBVIOUS
  <2>1. [TP!Next]_TP!vars
    BY SuiteStepProjects, TestsimSame
  <2>2. QED
    BY <2>1, TP!NextTInv, Zenon
<1>3. QED
  BY <1>1, <1>2, PTL DEF SuiteSpec, allvars

\* The three script invariants hold together in every state of the suite.
LEMMA SuiteInvariant ==
    ASSUME SP!TicksDecimal
    PROVE  SuiteSpec => [](IInv /\ ScriptsInv)
BY SuiteRunsStest2, Stest2Invariant, ScriptsInvariant, PTL

(* Type correctness of the suite of src/tests/devqsim: stest2.js, stest.js *)
(* and testsim.js, interleaved, for every tick rate that is a multiple of  *)
(* 10 and every MaxTicks.                                                  *)
THEOREM SuiteTypeCorrect ==
    ASSUME SP!TicksDecimal
    PROVE  SuiteSpec => []SuiteTypeOK
<1>1. IInv /\ ScriptsInv => SuiteTypeOK
  <2> SUFFICES ASSUME IInv, ScriptsInv PROVE SuiteTypeOK
    OBVIOUS
  <2>1. TypeOK
    BY DEF IInv
  <2>2. SP!TypeOK
    BY SP!SInvTypeOK, Zenon DEF ScriptsInv
  <2>3. TP!TypeOK
    BY TP!TInvTypeOK, Zenon DEF ScriptsInv
  <2>4. QED
    BY <2>1, <2>2, <2>3, StestSame, TestsimSame DEF SuiteTypeOK
<1>2. QED
  BY <1>1, SuiteInvariant, PTL

(* In the suite, stest.js's sim.run() returns only after its seven lines *)
(* at 2.0, 3.0 .. 3.4 and 4.0 have been printed.                           *)
THEOREM SuiteStestRunCompletes ==
    ASSUME SP!TicksDecimal
    PROVE  SuiteSpec => []StestRunCompletes
<1>1. ScriptsInv => StestRunCompletes
  <2> SUFFICES ASSUME ScriptsInv PROVE StestRunCompletes
    OBVIOUS
  <2>1. SP!StestRunCompletes
    BY SP!SInvCompletes, Zenon DEF ScriptsInv
  <2>2. QED
    BY <2>1, StestSame DEF StestRunCompletes
<1>2. QED
  BY <1>1, ScriptsInvariant, PTL

(* In the suite, testsim.js's sim.run() returns only after its five lines *)
(* at ticks 10 .. 50 have been printed, for every tick rate.              *)
THEOREM SuiteTestsimRunCompletes == SuiteSpec => []TestsimRunCompletes
<1>1. TP!TInv => TestsimRunCompletes
  <2> SUFFICES ASSUME TP!TInv PROVE TestsimRunCompletes
    OBVIOUS
  <2>1. TP!TestsimRunCompletes
    BY TP!TInvCompletes, Zenon
  <2>2. QED
    BY <2>1, TestsimSame DEF TestsimRunCompletes
<1>2. QED
  BY <1>1, TestsimInvariantInSuite, PTL

\* ftest.js's invariant holds in every state of the suite.
LEMMA FtestInvariantInSuite == SuiteSpec => []FP!FInv
<1>1. SuiteInit => FP!FInv
  BY FtestSame, FP!InitFInv DEF SuiteInit
<1>2. FP!FInv /\ [SuiteNext]_allvars => FP!FInv'
  <2> SUFFICES ASSUME FP!FInv, [SuiteNext]_allvars PROVE FP!FInv'
    OBVIOUS
  <2>1. [FP!Next]_FP!vars
    BY SuiteStepProjects, FtestSame
  <2>2. QED
    BY <2>1, FP!NextFInv, Zenon
<1>3. QED
  BY <1>1, <1>2, PTL DEF SuiteSpec, allvars

(* In the suite, every simulation function ftest.js creates has one      *)
(* source, all its factory's function names or an object, whatever the   *)
(* other scripts do in between.                                           *)
THEOREM SuiteOneSourcePerFunction == SuiteSpec => []OneSourcePerFunction
<1>1. FP!FInv => OneSourcePerFunction
  <2> SUFFICES ASSUME FP!FInv PROVE OneSourcePerFunction
    OBVIOUS
  <2>1. FP!OneSourcePerFunction
    BY DEF FP!FInv, FP!OneSourcePerFunction
  <2>2. QED
    BY <2>1, FtestSame DEF OneSourcePerFunction
<1>2. QED
  BY <1>1, FtestInvariantInSuite, PTL
=============================================================================
