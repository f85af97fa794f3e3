-------------------------------- MODULE Ftest --------------------------------
(***************************************************************************)
(* src/tests/devqsim/ftest.js: the script configures two factories of     *)
(* simulation functions, SimFunctionFactory (sff) and                      *)
(* SimFunctionTwoFactory (sf2f), three times each: by the names of script *)
(* functions, by an object literal with the methods, and by a string that *)
(* evaluates to such an object.  Between two configurations it calls      *)
(* clear().  The factories' parameters (set, clear, createObject) are     *)
(* modelled from their documented contract: set(key, value) stores a      *)
(* parameter, clear() restores every parameter to its default (unset) and *)
(* createObject(name) builds an object from the parameters set.  The      *)
(* printed values (lines 27-28, 37-38, ...) are output only and are left  *)
(* out.                                                                    *)
(***************************************************************************)
EXTENDS Naturals, Sequences

Factories == {"sff", "sf2f"}

\* The parameters that name script functions, per factory.
NameKeys == [sff |-> {"fName", "fpName"},
             sf2f |-> {"fName", "f1Name", "f2Name", "f11Name", "f12Name",
                       "f21Name", "f22Name"}]

Keys == NameKeys.sff \cup NameKeys.sf2f \cup {"object"}

\* A value is "name" (a function's name), "literal" (an object literal) or
\* "string" (a string holding one); a parameter not set is Unset.
Unset == "unset"

\* Mutant: the script up to line 35 with the sff.clear() of line 30 left out.
ProgramWithoutClear ==
    << [op |-> "set", fac |-> "sff", key |-> "fName", val |-> "name"],
       [op |-> "set", fac |-> "sff", key |-> "fpName", val |-> "name"],
       [op |-> "create", fac |-> "sff", obj |-> "fs1"],
       [op |-> "set", fac |-> "sff", key |-> "object", val |-> "literal"],
       [op |-> "create", fac |-> "sff", obj |-> "fs2"] >>

(* The statements of the script that act on the factories, in order.     *)
(* The seven set calls of lines 62-68 are one entry per key.               *)
Program ==
    << [op |-> "set", fac |-> "sff", key |-> "fName", val |-> "name"],
       [op |-> "set", fac |-> "sff", key |-> "fpName", val |-> "name"],
       [op |-> "create", fac |-> "sff", obj |-> "fs1"],
       [op |-> "clear", fac |-> "sff"],
       [op |-> "set", fac |-> "sff", key |-> "object", val |-> "literal"],
       [op |-> "create", fac |-> "sff", obj |-> "fs2"],
       [op |-> "clear", fac |-> "sff"],
       [op |-> "set", fac |-> "sff", key |-> "object", val |-> "string"],
       [op |-> "create", fac |-> "sff", obj |-> "sf1c"],
       [op |-> "factory", fac |-> "sf2f"] >>
    \o [k \in 1..7 |-> [op |-> "set", fac |-> "sf2f",
                        key |-> <<"fName", "f1Name", "f2Name", "f11Name",
                                  "f12Name", "f21Name", "f22Name">>[k],
                        val |-> "name"]]
    \o << [op |-> "create", fac |-> "sf2f", obj |-> "sf2a"],
          [op |-> "clear", fac |-> "sf2f"],
          [op |-> "set", fac |-> "sf2f", key |-> "object", val |-> "literal"],
          [op |-> "create", fac |-> "sf2f", obj |-> "sf2b"],
          [op |-> "clear", fac |-> "sf2f"],
          [op |-> "set", fac |-> "sf2f", key |-> "object", val |-> "string"],
          [op |-> "create", fac |-> "sf2f", obj |-> "sf2c"] >>

VARIABLES
    pc,         \* the index of the next statement of Program
    made,       \* the factories created so far
    params,     \* each factory's parameters
    objs        \* the objects created: name |-> the parameters they were built from

vars == <<pc, made, params, objs>>

NoParams == [k \in Keys |-> Unset]

(* Line 17 has created sff; sf2f is created at line 49.                    *)
Init ==
    /\ pc = 1
    /\ made = {"sff"}
    /\ params = [f \in Factories |-> NoParams]
    /\ objs = <<>>

Stmt == Program[pc]

(* sim.createFactory(...) (line 49).                                      *)
CreateFactory ==
    /\ pc <= Len(Program) /\ Stmt.op = "factory"
    /\ made' = made \cup {Stmt.fac}
    /\ pc' = pc + 1
    /\ UNCHANGED <<params, objs>>

(* f.set(key, value).                                                     *)
Set ==
    /\ pc <= Len(Program) /\ Stmt.op = "set"
    /\ Stmt.fac \in made
    /\ params' = [params EXCEPT ![Stmt.fac][Stmt.key] = Stmt.val]
    /\ pc' = pc + 1
    /\ UNCHANGED <<made, objs>>

(* f.clear(): every parameter back to its default.                        *)
Clear ==
    /\ pc <= Len(Program) /\ Stmt.op = "clear"
    /\ Stmt.fac \in made
    /\ params' = [params EXCEPT ![Stmt.fac] = NoParams]
    /\ pc' = pc + 1
    /\ UNCHANGED <<made, objs>>

(* f.createObject(name): an object built from the parameters set now,    *)
(* added to the objects made so far (an existing name keeps its object). *)
Create ==
    /\ pc <= Len(Program) /\ Stmt.op = "create"
    /\ Stmt.fac \in made
    /\ objs' = [o \in DOMAIN objs \cup {Stmt.obj} |->
                   IF o \in DOMAIN objs THEN objs[o]
                   ELSE [fac |-> Stmt.fac, from |-> params[Stmt.fac]]]
    /\ pc' = pc + 1
    /\ UNCHANGED <<made, params>>

Next == CreateFactory \/ Set \/ Clear \/ Create

Spec == Init /\ [][Next]_vars /\ WF_vars(Next)

-----------------------------------------------------------------------------
\* The keys of a parameter record that are set.
SetKeys(ps) == {k \in Keys : ps[k] # Unset}

(* Every simulation function the script creates is defined by exactly one *)
(* source: either all the function names its factory takes (lines 22-23, *)
(* 62-68) and no object, or an object and no names.  A clear() forgotten  *)
(* between two configurations (lines 30, 40, 86, 105) leaves the names    *)
(* set beside the object and the object built from both.                   *)
OneSourcePerFunction ==
    \A o \in DOMAIN objs :
        SetKeys(objs[o].from) \in {NameKeys[objs[o].fac], {"object"}}
=============================================================================
