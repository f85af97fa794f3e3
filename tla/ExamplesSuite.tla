---------------------------- MODULE ExamplesSuite ----------------------------
(***************************************************************************)
(* The scripts of src/examples checked in one run, apart from the lock    *)
(* part's geometry (Lockpart): the smart meter simulation (Smartmeter),    *)
(* the lock part's animated view (P3dView with Script = "lockpart") and    *)
(* the view of errtest.js (Script = "errtest").  Each runs on its own     *)
(* simulation or animation, so a step of the suite is a step of one of    *)
(* them.  The view variables carry the prefix lp (lockpart.js) or et       *)
(* (errtest.js).                                                           *)
(***************************************************************************)
EXTENDS Smartmeter

CONSTANT NoView

VARIABLES lpPc, lpView, lpPending, lpFrame, lpShown,
          etPc, etView, etPending, etFrame, etShown

LP == INSTANCE P3dView WITH Script <- "lockpart", pc <- lpPc, view <- lpView,
                            pending <- lpPending, frame <- lpFrame,
                            shown <- lpShown

ET == INSTANCE P3dView WITH Script <- "errtest", pc <- etPc, view <- etView,
                            pending <- etPending, frame <- etFrame,
                            shown <- etShown

lpvars == <<lpPc, lpView, lpPending, lpFrame, lpShown>>

etvars == <<etPc, etView, etPending, etFrame, etShown>>

SuiteInit == Init /\ LP!Init /\ ET!Init

SuiteNext ==
    \/ Next /\ UNCHANGED <<lpvars, etvars>>
    \/ LP!Next /\ UNCHANGED <<vars, etvars>>
    \/ ET!Next /\ UNCHANGED <<vars, lpvars>>

(* Each script keeps taking steps while it can: sim.run and a2d.run run    *)
(* every event due.                                                        *)
SuiteSpec ==
    /\ SuiteInit
    /\ [][SuiteNext]_<<vars, lpvars, etvars>>
    /\ WF_vars(Next) /\ WF_lpvars(LP!Next) /\ WF_etvars(ET!Next)

(* lockpart.js: see P3dView.                                               *)
AnimationEndsAtRest == LP!AnimationEndsAtRest
=============================================================================
