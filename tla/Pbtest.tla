------------------------------- MODULE Pbtest -------------------------------
(***************************************************************************)
(* src/tests/geom/pbtest.js: the script's copy of the JavaScript that     *)
(* configures an org.bzdev.geom.SplinePathBuilder from a path spec (lines *)
(* 7-49), run on the script's path spec and on every spec of a bounded    *)
(* family, and compared with the documented contract of                   *)
(* SplinePathBuilder.configure (lines 75-76), which is not in this        *)
(* repository.                                                             *)
(*                                                                         *)
(* A spec entry is either a nested array or a control point whose type is *)
(* a string ("CLOSE", "MOVE_TO", ...) or a SplinePathBuilder.CPointType   *)
(* constant (pb.constantCLOSE(), ...).  The coordinates x, y are left out:*)
(* the code copies them unchanged.  The builder's path is the sequence of *)
(* point kinds appended to it.                                             *)
(*                                                                         *)
(* The script compares values with ==.  Whether the script engine equates *)
(* a string with the Java enum constant of the same name depends on the   *)
(* engine's conversion of Java objects; the constant LooseEnumEq is that  *)
(* choice.                                                                 *)
(***************************************************************************)
EXTENDS Naturals, Sequences

CONSTANTS
    LooseEnumEq,    \* "CONTROL" == pb.constantCONTROL() holds in the engine
    InputSpecs,     \* the path specs the script may be given
    WindingRules    \* the winding rules it may be given

ASSUME LooseEnumEqAssumption == LooseEnumEq \in BOOLEAN

\* The point kinds, in the order the branches of lines 12-26 test them.
Kinds == <<"CLOSE", "MOVE_TO", "SEG_END", "CONTROL", "SPLINE">>

\* A value written as a string, a SplinePathBuilder enum constant, and a
\* java.awt.geom.Path2D int constant, each with the name it stands for.
Str(n) == [kind |-> "string", name |-> n]

Const(n) == [kind |-> "enum", name |-> n]

Int(n) == [kind |-> "int", name |-> n]

\* spec.type of an array: undefined.
UndefinedType == Str("undefined")

\* a == b in the script for the values the script compares.
JsEq(a, b) ==
    \/ a = b
    \/ LooseEnumEq /\ {a.kind, b.kind} = {"string", "enum"} /\ a.name = b.name

VARIABLES
    pc,     \* "start", then "done" or "thrown"
    spec,   \* the path spec handed to configurePathBuilder
    wrIn,   \* the winding rule handed to it
    pb      \* the builder: its winding rule and appended points

vars == <<pc, spec, wrIn, pb>>

-----------------------------------------------------------------------------
(* One branch of lines 12-26 for kind Kinds[k]: its first operand is      *)
(* spec[i].type for CLOSE, MOVE_TO and SEG_END, but spec.type, the type of *)
(* the enclosing array, for CONTROL (line 21) and SPLINE (line 24).        *)
BranchTaken(k, el) ==
    LET first == IF Kinds[k] \in {"CONTROL", "SPLINE"} THEN UndefinedType
                                                       ELSE el.type
    IN  JsEq(first, Str(Kinds[k])) \/ JsEq(el.type, Const(Kinds[k]))

\* Mutant: an entry that is an array is not recursed into (line 10 dropped).
AuxNoRecursion(acc, el) ==
    LET ks == {k \in 1..Len(Kinds) : el.kind = "point" /\ BranchTaken(k, el)}
    IN  IF ks = {} THEN [acc EXCEPT !.thrown = TRUE]
        ELSE [acc EXCEPT !.path = Append(@, Kinds[CHOOSE k \in ks : TRUE])]

(* configPathBuilderAux(pb, spec), lines 7-32: walk the array in order,   *)
(* recurse into nested arrays, append the point of the first branch that  *)
(* matches, and throw "bad type" when none does; the points appended      *)
(* before the throw stay in the builder.  acc is [path, thrown].           *)
RECURSIVE AuxStep(_, _)
AuxStep(acc, el) ==
    IF acc.thrown THEN acc
    ELSE IF el.kind = "array"
         THEN LET RECURSIVE Walk(_, _)
                  Walk(a, i) == IF i > Len(el.items) THEN a
                                ELSE Walk(AuxStep(a, el.items[i]), i + 1)
              IN  Walk(acc, 1)
         ELSE LET ks == {k \in 1..Len(Kinds) : BranchTaken(k, el)}
              IN  IF ks = {} THEN [acc EXCEPT !.thrown = TRUE]
                  ELSE [acc EXCEPT !.path = Append(@, Kinds[CHOOSE k \in ks : TRUE])]

\* The winding rule names the script accepts.
WindNames == {"WIND_EVEN_ODD", "WIND_NON_ZERO"}

(* Lines 36-43: a winding rule matches name n if it is == to the string  *)
(* n, to the java.awt.geom.Path2D int constant or to pb's constant;       *)
(* otherwise line 45 throws "bad winding rule".                            *)
WindMatches(wr, n) ==
    \/ JsEq(wr, Str(n))
    \/ JsEq(wr, Int(n))
    \/ JsEq(wr, Const(n))

(* configurePathBuilder(pb, windingRule, spec), lines 34-49, as called on *)
(* line 64: check the winding rule, pb.initPath(wr), then the walk.        *)
ConfigurePathBuilder ==
    /\ pc = "start"
    /\ IF \E n \in WindNames : WindMatches(wrIn, n)
         THEN LET res == AuxStep([path |-> <<>>, thrown |-> FALSE], spec)
              IN  /\ pb' = [wr |-> CHOOSE n \in WindNames : WindMatches(wrIn, n),
                            path |-> res.path]
                  /\ pc' = IF res.thrown THEN "thrown" ELSE "done"
         ELSE /\ pc' = "thrown"
              /\ UNCHANGED pb
    /\ UNCHANGED <<spec, wrIn>>

(* Lines 51-64: the script builds its spec and a fresh builder.  Here the *)
(* spec and winding rule are any of the inputs.                            *)
Init ==
    /\ pc = "start"
    /\ spec \in InputSpecs
    /\ wrIn \in WindingRules
    /\ pb = [wr |-> "none", path |-> <<>>]

Next == ConfigurePathBuilder

Spec == Init /\ [][Next]_vars

-----------------------------------------------------------------------------
(* The documented contract of SplinePathBuilder.configure: a spec is a    *)
(* nested array of control points whose types are CPointType constants or *)
(* the strings naming them; the path holds their points in order; any     *)
(* other type is an error.                                                 *)
RECURSIVE Flatten(_)
Flatten(el) ==
    IF el.kind = "point" THEN <<el>>
    ELSE LET RECURSIVE Cat(_)
             Cat(i) == IF i > Len(el.items) THEN <<>>
                       ELSE Flatten(el.items[i]) \o Cat(i + 1)
         IN  Cat(1)

KindNames == {Kinds[k] : k \in 1..Len(Kinds)}

ContractAccepts(s, wr) ==
    /\ wr.name \in WindNames
    /\ \A j \in 1..Len(Flatten(s)) : Flatten(s)[j].type.name \in KindNames

ContractPath(s) == [j \in 1..Len(Flatten(s)) |-> Flatten(s)[j].type.name]

(* The script's copy of configPathBuilderAux and configurePathBuilder      *)
(* (lines 7-49) does what SplinePathBuilder.configure promises, for every *)
(* spec and winding rule: it throws exactly on the inputs the contract     *)
(* rejects and otherwise builds the contract's path.  The CONTROL and      *)
(* SPLINE branches (lines 21, 24) test spec.type, the enclosing array's    *)
(* type, and so depend on == equating a string type with the constant.    *)
ConfigureMatchesContract ==
    pc # "start" =>
        /\ (pc = "done") <=> ContractAccepts(spec, wrIn)
        /\ pc = "done" => pb.path = ContractPath(spec)
=============================================================================
