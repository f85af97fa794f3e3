------------------------------ MODULE MCPbtest ------------------------------
(* The path specs: every array of at most two entries, each a control     *)
(* point or an array of at most two control points, with every point type *)
(* given as a string, as a CPointType constant, or as an unknown string.  *)
(* The script's own spec (lines 51-59) is among them.                      *)
EXTENDS Pbtest

PointTypes == {Str(Kinds[k]) : k \in 1..Len(Kinds)}
                \cup {Const(Kinds[k]) : k \in 1..Len(Kinds)} \cup {Str("BAD")}

Points == {[kind |-> "point", type |-> t] : t \in PointTypes}

ArraysOf(S) == {[kind |-> "array", items |-> s] :
                   s \in {<<>>} \cup {<<a>> : a \in S} \cup {<<a, b>> : a, b \in S}}

MCInputSpecs == ArraysOf(Points \cup ArraysOf(Points))

MCWindingRules == {Str("WIND_EVEN_ODD"), Int("WIND_NON_ZERO"),
                   Const("WIND_EVEN_ODD"), Str("WIND_BAD")}

\* The script's pathspec: [path1, path2] of MOVE_TO, SEG_END points.
ScriptSpec ==
    LET pt(t) == [kind |-> "point", type |-> Str(t)]
        path == [kind |-> "array", items |-> <<pt("MOVE_TO"), pt("SEG_END")>>]
    IN  [kind |-> "array", items |-> <<path, path>>]

ASSUME ScriptSpec \in MCInputSpecs
=============================================================================
