------------------------------ MODULE FtestProofs ------------------------------
(***************************************************************************)
(* ftest.js runs one fixed sequence of statements, so what each factory   *)
(* holds is a function of the statement reached: the invariant FInv says   *)
(* which parameters sff and sf2f have set before each statement, and that  *)
(* every object made so far has one source.  From it, OneSourcePerFunction *)
(* holds in every state.                                                   *)
(***************************************************************************)
EXTENDS Ftest, TLAPS

\* The parameters with the keys of S set to v and the others unset.
WithKeys(S, v) == [k \in Keys |-> IF k \in S THEN v ELSE Unset]

\* The keys lines 62-68 set on sf2f, in order.
Sf2fNameOrder == <<"fName", "f1Name", "f2Name", "f11Name", "f12Name",
                   "f21Name", "f22Name">>

\* sff's parameters before statement n (lines 22-45).
SffBefore(n) ==
    IF n >= 9 THEN WithKeys({"object"}, "string")
    ELSE << NoParams, WithKeys({"fName"}, "name"),
            WithKeys(NameKeys.sff, "name"), WithKeys(NameKeys.sff, "name"),
            NoParams, WithKeys({"object"}, "literal"),
            WithKeys({"object"}, "literal"), NoParams >>[n]

\* sf2f's parameters before statement n (lines 49-113).
Sf2fBefore(n) ==
    IF n <= 11 THEN NoParams
    ELSE IF n <= 18 THEN WithKeys({Sf2fNameOrder[j] : j \in 1..(n - 11)}, "name")
    ELSE << WithKeys(NameKeys.sf2f, "name"), NoParams,
            WithKeys({"object"}, "literal"), WithKeys({"object"}, "literal"),
            NoParams, WithKeys({"object"}, "string"),
            WithKeys({"object"}, "string") >>[n - 18]

FInv ==
    /\ pc \in 1..(Len(Program) + 1)
    /\ made = IF pc <= 10 THEN {"sff"} ELSE Factories
    /\ params = [sff |-> SffBefore(pc), sf2f |-> Sf2fBefore(pc)]
    /\ \A o \in DOMAIN objs :
          /\ objs[o].fac \in Factories
          /\ SetKeys(objs[o].from) \in {NameKeys[objs[o].fac], {"object"}}

\* The statements of the script, one by one.
LEMMA ProgramAt ==
    /\ Len(Program) = 24
    /\ Program[1] = [op |-> "set", fac |-> "sff", key |-> "fName", val |-> "name"]
    /\ Program[2] = [op |-> "set", fac |-> "sff", key |-> "fpName", val |-> "name"]
    /\ Program[3] = [op |-> "create", fac |-> "sff", obj |-> "fs1"]
    /\ Program[4] = [op |-> "clear", fac |-> "sff"]
    /\ Program[5] = [op |-> "set", fac |-> "sff", key |-> "object", val |-> "literal"]
    /\ Program[6] = [op |-> "create", fac |-> "sff", obj |-> "fs2"]
    /\ Program[7] = [op |-> "clear", fac |-> "sff"]
    /\ Program[8] = [op |-> "set", fac |-> "sff", key |-> "object", val |-> "string"]
    /\ Program[9] = [op |-> "create", fac |-> "sff", obj |-> "sf1c"]
    /\ Program[10] = [op |-> "factory", fac |-> "sf2f"]
    /\ Program[11] = [op |-> "set", fac |-> "sf2f", key |-> "fName", val |-> "name"]
    /\ Program[12] = [op |-> "set", fac |-> "sf2f", key |-> "f1Name", val |-> "name"]
    /\ Program[13] = [op |-> "set", fac |-> "sf2f", key |-> "f2Name", val |-> "name"]
    /\ Program[14] = [op |-> "set", fac |-> "sf2f", key |-> "f11Name", val |-> "name"]
    /\ Program[15] = [op |-> "set", fac |-> "sf2f", key |-> "f12Name", val |-> "name"]
    /\ Program[16] = [op |-> "set", fac |-> "sf2f", key |-> "f21Name", val |-> "name"]
    /\ Program[17] = [op |-> "set", fac |-> "sf2f", key |-> "f22Name", val |-> "name"]
    /\ Program[18] = [op |-> "create", fac |-> "sf2f", obj |-> "sf2a"]
    /\ Program[19] = [op |-> "clear", fac |-> "sf2f"]
    /\ Program[20] = [op |-> "set", fac |-> "sf2f", key |-> "object", val |-> "literal"]
    /\ Program[21] = [op |-> "create", fac |-> "sf2f", obj |-> "sf2b"]
    /\ Program[22] = [op |-> "clear", fac |-> "sf2f"]
    /\ Program[23] = [op |-> "set", fac |-> "sf2f", key |-> "object", val |-> "string"]
    /\ Program[24] = [op |-> "create", fac |-> "sf2f", obj |-> "sf2c"]
<1>0. Len(Program) = 24
  BY DEF Program
<1>1. Program[1] = [op |-> "set", fac |-> "sff", key |-> "fName", val |-> "name"]
  BY DEF Program
<1>2. Program[2] = [op |-> "set", fac |-> "sff", key |-> "fpName", val |-> "name"]
  BY DEF Program
<1>3. Program[3] = [op |-> "create", fac |-> "sff", obj |-> "fs1"]
  BY DEF Program
<1>4. Program[4] = [op |-> "clear", fac |-> "sff"]
  BY DEF Program
<1>5. Program[5] = [op |-> "set", fac |-> "sff", key |-> "object", val |-> "literal"]
  BY DEF Program
<1>6. Program[6] = [op |-> "create", fac |-> "sff", obj |-> "fs2"]
  BY DEF Program
<1>7. Program[7] = [op |-> "clear", fac |-> "sff"]
  BY DEF Program
<1>8. Program[8] = [op |-> "set", fac |-> "sff", key |-> "object", val |-> "string"]
  BY DEF Program
<1>9. Program[9] = [op |-> "create", fac |-> "sff", obj |-> "sf1c"]
  BY DEF Program
<1>10. Program[10] = [op |-> "factory", fac |-> "sf2f"]
  BY DEF Program
<1>11. Program[11] = [op |-> "set", fac |-> "sf2f", key |-> "fName", val |-> "name"]
  BY DEF Program
<1>12. Program[12] = [op |-> "set", fac |-> "sf2f", key |-> "f1Name", val |-> "name"]
  BY DEF Program
<1>13. Program[13] = [op |-> "set", fac |-> "sf2f", key |-> "f2Name", val |-> "name"]
  BY DEF Program
<1>14. Program[14] = [op |-> "set", fac |-> "sf2f", key |-> "f11Name", val |-> "name"]
  BY DEF Program
<1>15. Program[15] = [op |-> "set", fac |-> "sf2f", key |-> "f12Name", val |-> "name"]
  BY DEF Program
<1>16. Program[16] = [op |-> "set", fac |-> "sf2f", key |-> "f21Name", val |-> "name"]
  BY DEF Program
<1>17. Program[17] = [op |-> "set", fac |-> "sf2f", key |-> "f22Name", val |-> "name"]
  BY DEF Program
<1>18. Program[18] = [op |-> "create", fac |-> "sf2f", obj |-> "sf2a"]
  BY DEF Program
<1>19. Program[19] = [op |-> "clear", fac |-> "sf2f"]
  BY DEF Program
<1>20. Program[20] = [op |-> "set", fac |-> "sf2f", key |-> "object", val |-> "literal"]
  BY DEF Program
<1>21. Program[21] = [op |-> "create", fac |-> "sf2f", obj |-> "sf2b"]
  BY DEF Program
<1>22. Program[22] = [op |-> "clear", fac |-> "sf2f"]
  BY DEF Program
<1>23. Program[23] = [op |-> "set", fac |-> "sf2f", key |-> "object", val |-> "string"]
  BY DEF Program
<1>24. Program[24] = [op |-> "create", fac |-> "sf2f", obj |-> "sf2c"]
  BY DEF Program
<1>25. QED
  BY <1>0, <1>1, <1>2, <1>3, <1>4, <1>5, <1>6, <1>7, <1>8, <1>9, <1>10, <1>11, <1>12, <1>13, <1>14, <1>15, <1>16, <1>17, <1>18, <1>19, <1>20, <1>21, <1>22, <1>23, <1>24

\* The keys set in WithKeys(S, v) are those of S.
LEMMA SetKeysWith ==
    ASSUME NEW S \in SUBSET Keys, NEW v, v # Unset
    PROVE  SetKeys(WithKeys(S, v)) = S
BY DEF SetKeys, WithKeys

\* Setting one more key to the value the others have.
LEMMA WithKeysAdd ==
    ASSUME NEW S \in SUBSET Keys, NEW K \in Keys, NEW v
    PROVE  [WithKeys(S, v) EXCEPT ![K] = v] = WithKeys(S \cup {K}, v)
BY DEF WithKeys

LEMMA NoParamsWith ==
    ASSUME NEW v
    PROVE  NoParams = WithKeys({}, v)
BY DEF NoParams, WithKeys

\* Each factory's parameters before each statement, as sets of keys.
LEMMA BeforeAt ==
    /\ SffBefore(1) = NoParams /\ Sf2fBefore(1) = NoParams
    /\ SffBefore(2) = WithKeys({"fName"}, "name") /\ Sf2fBefore(2) = NoParams
    /\ SffBefore(3) = WithKeys({"fName", "fpName"}, "name") /\ Sf2fBefore(3) = NoParams
    /\ SffBefore(4) = WithKeys({"fName", "fpName"}, "name") /\ Sf2fBefore(4) = NoParams
    /\ SffBefore(5) = NoParams /\ Sf2fBefore(5) = NoParams
    /\ SffBefore(6) = WithKeys({"object"}, "literal") /\ Sf2fBefore(6) = NoParams
    /\ SffBefore(7) = WithKeys({"object"}, "literal") /\ Sf2fBefore(7) = NoParams
    /\ SffBefore(8) = NoParams /\ Sf2fBefore(8) = NoParams
    /\ SffBefore(9) = WithKeys({"object"}, "string") /\ Sf2fBefore(9) = NoParams
    /\ SffBefore(10) = WithKeys({"object"}, "string") /\ Sf2fBefore(10) = NoParams
    /\ SffBefore(11) = WithKeys({"object"}, "string") /\ Sf2fBefore(11) = NoParams
    /\ SffBefore(12) = WithKeys({"object"}, "string") /\ Sf2fBefore(12) = WithKeys({"fName"}, "name")
    /\ SffBefore(13) = WithKeys({"object"}, "string") /\ Sf2fBefore(13) = WithKeys({"fName", "f1Name"}, "name")
    /\ SffBefore(14) = WithKeys({"object"}, "string") /\ Sf2fBefore(14) = WithKeys({"fName", "f1Name", "f2Name"}, "name")
    /\ SffBefore(15) = WithKeys({"object"}, "string") /\ Sf2fBefore(15) = WithKeys({"fName", "f1Name", "f2Name", "f11Name"}, "name")
    /\ SffBefore(16) = WithKeys({"object"}, "string") /\ Sf2fBefore(16) = WithKeys({"fName", "f1Name", "f2Name", "f11Name", "f12Name"}, "name")
    /\ SffBefore(17) = WithKeys({"object"}, "string") /\ Sf2fBefore(17) = WithKeys({"fName", "f1Name", "f2Name", "f11Name", "f12Name", "f21Name"}, "name")
    /\ SffBefore(18) = WithKeys({"object"}, "string") /\ Sf2fBefore(18) = WithKeys({"fName", "f1Name", "f2Name", "f11Name", "f12Name", "f21Name", "f22Name"}, "name")
    /\ SffBefore(19) = WithKeys({"object"}, "string") /\ Sf2fBefore(19) = WithKeys({"fName", "f1Name", "f2Name", "f11Name", "f12Name", "f21Name", "f22Name"}, "name")
    /\ SffBefore(20) = WithKeys({"object"}, "string") /\ Sf2fBefore(20) = NoParams
    /\ SffBefore(21) = WithKeys({"object"}, "string") /\ Sf2fBefore(21) = WithKeys({"object"}, "literal")
    /\ SffBefore(22) = WithKeys({"object"}, "string") /\ Sf2fBefore(22) = WithKeys({"object"}, "literal")
    /\ SffBefore(23) = WithKeys({"object"}, "string") /\ Sf2fBefore(23) = NoParams
    /\ SffBefore(24) = WithKeys({"object"}, "string") /\ Sf2fBefore(24) = WithKeys({"object"}, "string")
    /\ SffBefore(25) = WithKeys({"object"}, "string") /\ Sf2fBefore(25) = WithKeys({"object"}, "string")
<1>1. SffBefore(1) = NoParams /\ Sf2fBefore(1) = NoParams
  BY DEF SffBefore, Sf2fBefore, Sf2fNameOrder, NameKeys
<1>2. SffBefore(2) = WithKeys({"fName"}, "name") /\ Sf2fBefore(2) = NoParams
  BY DEF SffBefore, Sf2fBefore, Sf2fNameOrder, NameKeys
<1>3. SffBefore(3) = WithKeys({"fName", "fpName"}, "name") /\ Sf2fBefore(3) = NoParams
  BY DEF SffBefore, Sf2fBefore, Sf2fNameOrder, NameKeys
<1>4. SffBefore(4) = WithKeys({"fName", "fpName"}, "name") /\ Sf2fBefore(4) = NoParams
  BY DEF SffBefore, Sf2fBefore, Sf2fNameOrder, NameKeys
<1>5. SffBefore(5) = NoParams /\ Sf2fBefore(5) = NoParams
  BY DEF SffBefore, Sf2fBefore, Sf2fNameOrder, NameKeys
<1>6. SffBefore(6) = WithKeys({"object"}, "literal") /\ Sf2fBefore(6) = NoParams
  BY DEF SffBefore, Sf2fBefore, Sf2fNameOrder, NameKeys
<1>7. SffBefore(7) = WithKeys({"object"}, "literal") /\ Sf2fBefore(7) = NoParams
  BY DEF SffBefore, Sf2fBefore, Sf2fNameOrder, NameKeys
<1>8. SffBefore(8) = NoParams /\ Sf2fBefore(8) = NoParams
  BY DEF SffBefore, Sf2fBefore, Sf2fNameOrder, NameKeys
<1>9. SffBefore(9) = WithKeys({"object"}, "string") /\ Sf2fBefore(9) = NoParams
  BY DEF SffBefore, Sf2fBefore, Sf2fNameOrder, NameKeys
<1>10. SffBefore(10) = WithKeys({"object"}, "string") /\ Sf2fBefore(10) = NoParams
  BY DEF SffBefore, Sf2fBefore, Sf2fNameOrder, NameKeys
<1>11. SffBefore(11) = WithKeys({"object"}, "string") /\ Sf2fBefore(11) = NoParams
  BY DEF SffBefore, Sf2fBefore, Sf2fNameOrder, NameKeys
<1>12. SffBefore(12) = WithKeys({"object"}, "string") /\ Sf2fBefore(12) = WithKeys({"fName"}, "name")
  BY DEF SffBefore, Sf2fBefore, Sf2fNameOrder, NameKeys
<1>13. SffBefore(13) = WithKeys({"object"}, "string") /\ Sf2fBefore(13) = WithKeys({"fName", "f1Name"}, "name")
  BY DEF SffBefore, Sf2fBefore, Sf2fNameOrder, NameKeys
<1>14. SffBefore(14) = WithKeys({"object"}, "string") /\ Sf2fBefore(14) = WithKeys({"fName", "f1Name", "f2Name"}, "name")
  BY DEF SffBefore, Sf2fBefore, Sf2fNameOrder, NameKeys
<1>15. SffBefore(15) = WithKeys({"object"}, "string") /\ Sf2fBefore(15) = WithKeys({"fName", "f1Name", "f2Name", "f11Name"}, "name")
  BY DEF SffBefore, Sf2fBefore, Sf2fNameOrder, NameKeys
<1>16. SffBefore(16) = WithKeys({"object"}, "string") /\ Sf2fBefore(16) = WithKeys({"fName", "f1Name", "f2Name", "f11Name", "f12Name"}, "name")
  BY DEF SffBefore, Sf2fBefore, Sf2fNameOrder, NameKeys
<1>17. SffBefore(17) = WithKeys({"object"}, "string") /\ Sf2fBefore(17) = WithKeys({"fName", "f1Name", "f2Name", "f11Name", "f12Name", "f21Name"}, "name")
  BY DEF SffBefore, Sf2fBefore, Sf2fNameOrder, NameKeys
<1>18. SffBefore(18) = WithKeys({"object"}, "string") /\ Sf2fBefore(18) = WithKeys({"fName", "f1Name", "f2Name", "f11Name", "f12Name", "f21Name", "f22Name"}, "name")
  BY DEF SffBefore, Sf2fBefore, Sf2fNameOrder, NameKeys
<1>19. SffBefore(19) = WithKeys({"object"}, "string") /\ Sf2fBefore(19) = WithKeys({"fName", "f1Name", "f2Name", "f11Name", "f12Name", "f21Name", "f22Name"}, "name")
  BY DEF SffBefore, Sf2fBefore, Sf2fNameOrder, NameKeys
<1>20. SffBefore(20) = WithKeys({"object"}, "string") /\ Sf2fBefore(20) = NoParams
  BY DEF SffBefore, Sf2fBefore, Sf2fNameOrder, NameKeys
<1>21. SffBefore(21) = WithKeys({"object"}, "string") /\ Sf2fBefore(21) = WithKeys({"object"}, "literal")
  BY DEF SffBefore, Sf2fBefore, Sf2fNameOrder, NameKeys
<1>22. SffBefore(22) = WithKeys({"object"}, "string") /\ Sf2fBefore(22) = WithKeys({"object"}, "literal")
  BY DEF SffBefore, Sf2fBefore, Sf2fNameOrder, NameKeys
<1>23. SffBefore(23) = WithKeys({"object"}, "string") /\ Sf2fBefore(23) = NoParams
  BY DEF SffBefore, Sf2fBefore, Sf2fNameOrder, NameKeys
<1>24. SffBefore(24) = WithKeys({"object"}, "string") /\ Sf2fBefore(24) = WithKeys({"object"}, "string")
  BY DEF SffBefore, Sf2fBefore, Sf2fNameOrder, NameKeys
<1>25. SffBefore(25) = WithKeys({"object"}, "string") /\ Sf2fBefore(25) = WithKeys({"object"}, "string")
  BY DEF SffBefore, Sf2fBefore, Sf2fNameOrder, NameKeys
<1>26. QED
  BY <1>1, <1>2, <1>3, <1>4, <1>5, <1>6, <1>7, <1>8, <1>9, <1>10, <1>11, <1>12, <1>13, <1>14, <1>15, <1>16, <1>17, <1>18, <1>19, <1>20, <1>21, <1>22, <1>23, <1>24, <1>25

LEMMA InitFInv == Init => FInv
BY ProgramAt DEF Init, FInv, SffBefore, Sf2fBefore, Factories

LEMMA NextFInv == FInv /\ [Next]_vars => FInv'
<1> SUFFICES ASSUME FInv, [Next]_vars PROVE FInv'
  OBVIOUS
<1>0. CASE UNCHANGED vars
  BY <1>0 DEF FInv, vars
<1> SUFFICES ASSUME Next PROVE FInv'
  BY <1>0
<1>a. pc \in 1..24
  BY ProgramAt DEF Next, CreateFactory, Set, Clear, Create, FInv
<1>1. CASE pc = 1
  <2>1. Stmt = [op |-> "set", fac |-> "sff", key |-> "fName", val |-> "name"]
    BY <1>1, ProgramAt DEF Stmt
  <2>2. Set
    BY <2>1 DEF Next, Create, Clear, CreateFactory
  <2>3. /\ pc' = 2 /\ made' = made /\ objs' = objs
        /\ params' = [params EXCEPT !["sff"]["fName"] = "name"]
    BY <1>1, <2>1, <2>2 DEF Set
  <2>p. params = [sff |-> SffBefore(1), sf2f |-> Sf2fBefore(1)]
    BY <1>1 DEF FInv
  <2>4. params["sff"] = WithKeys({}, "name")
    BY <2>p, BeforeAt, NoParamsWith
  <2>5. params'["sff"] = WithKeys({} \cup {"fName"}, "name")
    BY <2>3, <2>4, <2>p, WithKeysAdd DEF Keys, NameKeys
  <2>6. params' = [sff |-> SffBefore(2), sf2f |-> Sf2fBefore(2)]
    <3>1. params'["sff"] = SffBefore(2)
      BY <2>5, BeforeAt
    <3>2. params'["sf2f"] = Sf2fBefore(2)
      BY <2>3, <2>p, BeforeAt
    <3>3. QED
      BY <2>3, <2>p, <3>1, <3>2
  <2>q1. pc' \in 1..(Len(Program) + 1)
    BY <2>3, ProgramAt
  <2>q2. made' = IF pc' <= 10 THEN {"sff"} ELSE Factories
    BY <1>1, <2>3 DEF FInv, Factories
  <2>q3. params' = [sff |-> SffBefore(pc'), sf2f |-> Sf2fBefore(pc')]
    BY <2>3, <2>6
  <2>q4. \A o \in DOMAIN objs' :
           /\ objs'[o].fac \in Factories
           /\ SetKeys(objs'[o].from) \in {NameKeys[objs'[o].fac], {"object"}}
    BY <1>1, <2>3 DEF FInv
  <2>q5. QED
    BY <2>q1, <2>q2, <2>q3, <2>q4 DEF FInv
<1>2. CASE pc = 2
  <2>1. Stmt = [op |-> "set", fac |-> "sff", key |-> "fpName", val |-> "name"]
    BY <1>2, ProgramAt DEF Stmt
  <2>2. Set
    BY <2>1 DEF Next, Create, Clear, CreateFactory
  <2>3. /\ pc' = 3 /\ made' = made /\ objs' = objs
        /\ params' = [params EXCEPT !["sff"]["fpName"] = "name"]
    BY <1>2, <2>1, <2>2 DEF Set
  <2>p. params = [sff |-> SffBefore(2), sf2f |-> Sf2fBefore(2)]
    BY <1>2 DEF FInv
  <2>4. params["sff"] = WithKeys({"fName"}, "name")
    BY <2>p, BeforeAt, NoParamsWith
  <2>5. params'["sff"] = WithKeys({"fName"} \cup {"fpName"}, "name")
    BY <2>3, <2>4, <2>p, WithKeysAdd DEF Keys, NameKeys
  <2>6. params' = [sff |-> SffBefore(3), sf2f |-> Sf2fBefore(3)]
    <3>1. params'["sff"] = SffBefore(3)
      BY <2>5, BeforeAt
    <3>2. params'["sf2f"] = Sf2fBefore(3)
      BY <2>3, <2>p, BeforeAt
    <3>3. QED
      BY <2>3, <2>p, <3>1, <3>2
  <2>q1. pc' \in 1..(Len(Program) + 1)
    BY <2>3, ProgramAt
  <2>q2. made' = IF pc' <= 10 THEN {"sff"} ELSE Factories
    BY <1>2, <2>3 DEF FInv, Factories
  <2>q3. params' = [sff |-> SffBefore(pc'), sf2f |-> Sf2fBefore(pc')]
    BY <2>3, <2>6
  <2>q4. \A o \in DOMAIN objs' :
           /\ objs'[o].fac \in Factories
           /\ SetKeys(objs'[o].from) \in {NameKeys[objs'[o].fac], {"object"}}
    BY <1>2, <2>3 DEF FInv
  <2>q5. QED
    BY <2>q1, <2>q2, <2>q3, <2>q4 DEF FInv
<1>3. CASE pc = 3
  <2>1. Stmt = [op |-> "create", fac |-> "sff", obj |-> "fs1"]
    BY <1>3, ProgramAt DEF Stmt
  <2>2. Create
    BY <2>1 DEF Next, Set, Clear, CreateFactory
  <2>3. /\ pc' = 4 /\ made' = made /\ params' = params
        /\ objs' = [o \in DOMAIN objs \cup {"fs1"} |->
                      IF o \in DOMAIN objs THEN objs[o]
                      ELSE [fac |-> "sff", from |-> params["sff"]]]
    BY <1>3, <2>1, <2>2 DEF Create
  <2>p. params = [sff |-> SffBefore(3), sf2f |-> Sf2fBefore(3)]
    BY <1>3 DEF FInv
  <2>4. params["sff"] = WithKeys({"fName", "fpName"}, "name")
    BY <2>p, BeforeAt
  <2>5. SetKeys(params["sff"]) \in {NameKeys["sff"], {"object"}}
    <3>1. SetKeys(params["sff"]) = {"fName", "fpName"}
      BY <2>4, SetKeysWith DEF Keys, NameKeys, Unset
    <3>2. QED
      BY <3>1 DEF NameKeys
  <2>6. \A o \in DOMAIN objs' :
           /\ objs'[o].fac \in Factories
           /\ SetKeys(objs'[o].from) \in {NameKeys[objs'[o].fac], {"object"}}
    BY <1>3, <2>3, <2>5 DEF FInv, Factories
  <2>7. SffBefore(4) = SffBefore(3) /\ Sf2fBefore(4) = Sf2fBefore(3)
    BY BeforeAt
  <2>q1. pc' \in 1..(Len(Program) + 1)
    BY <2>3, ProgramAt
  <2>q2. made' = IF pc' <= 10 THEN {"sff"} ELSE Factories
    BY <1>3, <2>3 DEF FInv, Factories
  <2>q3. params' = [sff |-> SffBefore(pc'), sf2f |-> Sf2fBefore(pc')]
    BY <2>3, <2>3, <2>p, <2>7
  <2>q4. QED
    BY <2>q1, <2>q2, <2>q3, <2>6 DEF FInv
<1>4. CASE pc = 4
  <2>1. Stmt = [op |-> "clear", fac |-> "sff"]
    BY <1>4, ProgramAt DEF Stmt
  <2>2. Clear
    BY <2>1 DEF Next, Set, Create, CreateFactory
  <2>3. /\ pc' = 5 /\ made' = made /\ objs' = objs
        /\ params' = [params EXCEPT !["sff"] = NoParams]
    BY <1>4, <2>1, <2>2 DEF Clear
  <2>p. params = [sff |-> SffBefore(4), sf2f |-> Sf2fBefore(4)]
    BY <1>4 DEF FInv
  <2>5. params'["sff"] = NoParams
    BY <2>3, <2>p
  <2>6. params' = [sff |-> SffBefore(5), sf2f |-> Sf2fBefore(5)]
    <3>1. params'["sff"] = SffBefore(5)
      BY <2>5, BeforeAt
    <3>2. params'["sf2f"] = Sf2fBefore(5)
      BY <2>3, <2>p, BeforeAt
    <3>3. QED
      BY <2>3, <2>p, <3>1, <3>2
  <2>q1. pc' \in 1..(Len(Program) + 1)
    BY <2>3, ProgramAt
  <2>q2. made' = IF pc' <= 10 THEN {"sff"} ELSE Factories
    BY <1>4, <2>3 DEF FInv, Factories
  <2>q3. params' = [sff |-> SffBefore(pc'), sf2f |-> Sf2fBefore(pc')]
    BY <2>3, <2>6
  <2>q4. \A o \in DOMAIN objs' :
           /\ objs'[o].fac \in Factories
           /\ SetKeys(objs'[o].from) \in {NameKeys[objs'[o].fac], {"object"}}
    BY <1>4, <2>3 DEF FInv
  <2>q5. QED
    BY <2>q1, <2>q2, <2>q3, <2>q4 DEF FInv
<1>5. CASE pc = 5
  <2>1. Stmt = [op |-> "set", fac |-> "sff", key |-> "object", val |-> "literal"]
    BY <1>5, ProgramAt DEF Stmt
  <2>2. Set
    BY <2>1 DEF Next, Create, Clear, CreateFactory
  <2>3. /\ pc' = 6 /\ made' = made /\ objs' = objs
        /\ params' = [params EXCEPT !["sff"]["object"] = "literal"]
    BY <1>5, <2>1, <2>2 DEF Set
  <2>p. params = [sff |-> SffBefore(5), sf2f |-> Sf2fBefore(5)]
    BY <1>5 DEF FInv
  <2>4. params["sff"] = WithKeys({}, "literal")
    BY <2>p, BeforeAt, NoParamsWith
  <2>5. params'["sff"] = WithKeys({} \cup {"object"}, "literal")
    BY <2>3, <2>4, <2>p, WithKeysAdd DEF Keys, NameKeys
  <2>6. params' = [sff |-> SffBefore(6), sf2f |-> Sf2fBefore(6)]
    <3>1. params'["sff"] = SffBefore(6)
      BY <2>5, BeforeAt
    <3>2. params'["sf2f"] = Sf2fBefore(6)
      BY <2>3, <2>p, BeforeAt
    <3>3. QED
      BY <2>3, <2>p, <3>1, <3>2
  <2>q1. pc' \in 1..(Len(Program) + 1)
    BY <2>3, ProgramAt
  <2>q2. made' = IF pc' <= 10 THEN {"sff"} ELSE Factories
    BY <1>5, <2>3 DEF FInv, Factories
  <2>q3. params' = [sff |-> SffBefore(pc'), sf2f |-> Sf2fBefore(pc')]
    BY <2>3, <2>6
  <2>q4. \A o \in DOMAIN objs' :
           /\ objs'[o].fac \in Factories
           /\ SetKeys(objs'[o].from) \in {NameKeys[objs'[o].fac], {"object"}}
    BY <1>5, <2>3 DEF FInv
  <2>q5. QED
    BY <2>q1, <2>q2, <2>q3, <2>q4 DEF FInv
<1>6. CASE pc = 6
  <2>1. Stmt = [op |-> "create", fac |-> "sff", obj |-> "fs2"]
    BY <1>6, ProgramAt DEF Stmt
  <2>2. Create
    BY <2>1 DEF Next, Set, Clear, CreateFactory
  <2>3. /\ pc' = 7 /\ made' = made /\ params' = params
        /\ objs' = [o \in DOMAIN objs \cup {"fs2"} |->
                      IF o \in DOMAIN objs THEN objs[o]
                      ELSE [fac |-> "sff", from |-> params["sff"]]]
    BY <1>6, <2>1, <2>2 DEF Create
  <2>p. params = [sff |-> SffBefore(6), sf2f |-> Sf2fBefore(6)]
    BY <1>6 DEF FInv
  <2>4. params["sff"] = WithKeys({"object"}, "literal")
    BY <2>p, BeforeAt
  <2>5. SetKeys(params["sff"]) \in {NameKeys["sff"], {"object"}}
    <3>1. SetKeys(params["sff"]) = {"object"}
      BY <2>4, SetKeysWith DEF Keys, NameKeys, Unset
    <3>2. QED
      BY <3>1 DEF NameKeys
  <2>6. \A o \in DOMAIN objs' :
           /\ objs'[o].fac \in Factories
           /\ SetKeys(objs'[o].from) \in {NameKeys[objs'[o].fac], {"object"}}
    BY <1>6, <2>3, <2>5 DEF FInv, Factories
  <2>7. SffBefore(7) = SffBefore(6) /\ Sf2fBefore(7) = Sf2fBefore(6)
    BY BeforeAt
  <2>q1. pc' \in 1..(Len(Program) + 1)
    BY <2>3, ProgramAt
  <2>q2. made' = IF pc' <= 10 THEN {"sff"} ELSE Factories
    BY <1>6, <2>3 DEF FInv, Factories
  <2>q3. params' = [sff |-> SffBefore(pc'), sf2f |-> Sf2fBefore(pc')]
    BY <2>3, <2>3, <2>p, <2>7
  <2>q4. QED
    BY <2>q1, <2>q2, <2>q3, <2>6 DEF FInv
<1>7. CASE pc = 7
  <2>1. Stmt = [op |-> "clear", fac |-> "sff"]
    BY <1>7, ProgramAt DEF Stmt
  <2>2. Clear
    BY <2>1 DEF Next, Set, Create, CreateFactory
  <2>3. /\ pc' = 8 /\ made' = made /\ objs' = objs
        /\ params' = [params EXCEPT !["sff"] = NoParams]
    BY <1>7, <2>1, <2>2 DEF Clear
  <2>p. params = [sff |-> SffBefore(7), sf2f |-> Sf2fBefore(7)]
    BY <1>7 DEF FInv
  <2>5. params'["sff"] = NoParams
    BY <2>3, <2>p
  <2>6. params' = [sff |-> SffBefore(8), sf2f |-> Sf2fBefore(8)]
    <3>1. params'["sff"] = SffBefore(8)
      BY <2>5, BeforeAt
    <3>2. params'["sf2f"] = Sf2fBefore(8)
      BY <2>3, <2>p, BeforeAt
    <3>3. QED
      BY <2>3, <2>p, <3>1, <3>2
  <2>q1. pc' \in 1..(Len(Program) + 1)
    BY <2>3, ProgramAt
  <2>q2. made' = IF pc' <= 10 THEN {"sff"} ELSE Factories
    BY <1>7, <2>3 DEF FInv, Factories
  <2>q3. params' = [sff |-> SffBefore(pc'), sf2f |-> Sf2fBefore(pc')]
    BY <2>3, <2>6
  <2>q4. \A o \in DOMAIN objs' :
           /\ objs'[o].fac \in Factories
           /\ SetKeys(objs'[o].from) \in {NameKeys[objs'[o].fac], {"object"}}
    BY <1>7, <2>3 DEF FInv
  <2>q5. QED
    BY <2>q1, <2>q2, <2>q3, <2>q4 DEF FInv
<1>8. CASE pc = 8
  <2>1. Stmt = [op |-> "set", fac |-> "sff", key |-> "object", val |-> "string"]
    BY <1>8, ProgramAt DEF Stmt
  <2>2. Set
    BY <2>1 DEF Next, Create, Clear, CreateFactory
  <2>3. /\ pc' = 9 /\ made' = made /\ objs' = objs
        /\ params' = [params EXCEPT !["sff"]["object"] = "string"]
    BY <1>8, <2>1, <2>2 DEF Set
  <2>p. params = [sff |-> SffBefore(8), sf2f |-> Sf2fBefore(8)]
    BY <1>8 DEF FInv
  <2>4. params["sff"] = WithKeys({}, "string")
    BY <2>p, BeforeAt, NoParamsWith
  <2>5. params'["sff"] = WithKeys({} \cup {"object"}, "string")
    BY <2>3, <2>4, <2>p, WithKeysAdd DEF Keys, NameKeys
  <2>6. params' = [sff |-> SffBefore(9), sf2f |-> Sf2fBefore(9)]
    <3>1. params'["sff"] = SffBefore(9)
      BY <2>5, BeforeAt
    <3>2. params'["sf2f"] = Sf2fBefore(9)
      BY <2>3, <2>p, BeforeAt
    <3>3. QED
      BY <2>3, <2>p, <3>1, <3>2
  <2>q1. pc' \in 1..(Len(Program) + 1)
    BY <2>3, ProgramAt
  <2>q2. made' = IF pc' <= 10 THEN {"sff"} ELSE Factories
    BY <1>8, <2>3 DEF FInv, Factories
  <2>q3. params' = [sff |-> SffBefore(pc'), sf2f |-> Sf2fBefore(pc')]
    BY <2>3, <2>6
  <2>q4. \A o \in DOMAIN objs' :
           /\ objs'[o].fac \in Factories
           /\ SetKeys(objs'[o].from) \in {NameKeys[objs'[o].fac], {"object"}}
    BY <1>8, <2>3 DEF FInv
  <2>q5. QED
    BY <2>q1, <2>q2, <2>q3, <2>q4 DEF FInv
<1>9. CASE pc = 9
  <2>1. Stmt = [op |-> "create", fac |-> "sff", obj |-> "sf1c"]
    BY <1>9, ProgramAt DEF Stmt
  <2>2. Create
    BY <2>1 DEF Next, Set, Clear, CreateFactory
  <2>3. /\ pc' = 10 /\ made' = made /\ params' = params
        /\ objs' = [o \in DOMAIN objs \cup {"sf1c"} |->
                      IF o \in DOMAIN objs THEN objs[o]
                      ELSE [fac |-> "sff", from |-> params["sff"]]]
    BY <1>9, <2>1, <2>2 DEF Create
  <2>p. params = [sff |-> SffBefore(9), sf2f |-> Sf2fBefore(9)]
    BY <1>9 DEF FInv
  <2>4. params["sff"] = WithKeys({"object"}, "string")
    BY <2>p, BeforeAt
  <2>5. SetKeys(params["sff"]) \in {NameKeys["sff"], {"object"}}
    <3>1. SetKeys(params["sff"]) = {"object"}
      BY <2>4, SetKeysWith DEF Keys, NameKeys, Unset
    <3>2. QED
      BY <3>1 DEF NameKeys
  <2>6. \A o \in DOMAIN objs' :
           /\ objs'[o].fac \in Factories
           /\ SetKeys(objs'[o].from) \in {NameKeys[objs'[o].fac], {"object"}}
    BY <1>9, <2>3, <2>5 DEF FInv, Factories
  <2>7. SffBefore(10) = SffBefore(9) /\ Sf2fBefore(10) = Sf2fBefore(9)
    BY BeforeAt
  <2>q1. pc' \in 1..(Len(Program) + 1)
    BY <2>3, ProgramAt
  <2>q2. made' = IF pc' <= 10 THEN {"sff"} ELSE Factories
    BY <1>9, <2>3 DEF FInv, Factories
  <2>q3. params' = [sff |-> SffBefore(pc'), sf2f |-> Sf2fBefore(pc')]
    BY <2>3, <2>3, <2>p, <2>7
  <2>q4. QED
    BY <2>q1, <2>q2, <2>q3, <2>6 DEF FInv
<1>10. CASE pc = 10
  <2>1. Stmt = [op |-> "factory", fac |-> "sf2f"]
    BY <1>10, ProgramAt DEF Stmt
  <2>2. CreateFactory
    BY <2>1 DEF Next, Set, Create, Clear
  <2>3. /\ pc' = 11 /\ made' = made \cup {"sf2f"}
        /\ params' = params /\ objs' = objs
    BY <1>10, <2>1, <2>2 DEF CreateFactory
  <2>p. params = [sff |-> SffBefore(10), sf2f |-> Sf2fBefore(10)]
    BY <1>10 DEF FInv
  <2>4. SffBefore(11) = SffBefore(10) /\ Sf2fBefore(11) = Sf2fBefore(10)
    BY BeforeAt
  <2>q1. pc' \in 1..(Len(Program) + 1)
    BY <2>3, ProgramAt
  <2>q2. made' = IF pc' <= 10 THEN {"sff"} ELSE Factories
    BY <1>10, <2>3 DEF FInv, Factories
  <2>q3. params' = [sff |-> SffBefore(pc'), sf2f |-> Sf2fBefore(pc')]
    BY <2>3, <2>3, <2>p, <2>4
  <2>q4. \A o \in DOMAIN objs' :
           /\ objs'[o].fac \in Factories
           /\ SetKeys(objs'[o].from) \in {NameKeys[objs'[o].fac], {"object"}}
    BY <1>10, <2>3 DEF FInv
  <2>q5. QED
    BY <2>q1, <2>q2, <2>q3, <2>q4 DEF FInv
<1>11. CASE pc = 11
  <2>1. Stmt = [op |-> "set", fac |-> "sf2f", key |-> "fName", val |-> "name"]
    BY <1>11, ProgramAt DEF Stmt
  <2>2. Set
    BY <2>1 DEF Next, Create, Clear, CreateFactory
  <2>3. /\ pc' = 12 /\ made' = made /\ objs' = objs
        /\ params' = [params EXCEPT !["sf2f"]["fName"] = "name"]
    BY <1>11, <2>1, <2>2 DEF Set
  <2>p. params = [sff |-> SffBefore(11), sf2f |-> Sf2fBefore(11)]
    BY <1>11 DEF FInv
  <2>4. params["sf2f"] = WithKeys({}, "name")
    BY <2>p, BeforeAt, NoParamsWith
  <2>5. params'["sf2f"] = WithKeys({} \cup {"fName"}, "name")
    BY <2>3, <2>4, <2>p, WithKeysAdd DEF Keys, NameKeys
  <2>6. params' = [sff |-> SffBefore(12), sf2f |-> Sf2fBefore(12)]
    <3>1. params'["sf2f"] = Sf2fBefore(12)
      BY <2>5, BeforeAt
    <3>2. params'["sff"] = SffBefore(12)
      BY <2>3, <2>p, BeforeAt
    <3>3. QED
      BY <2>3, <2>p, <3>1, <3>2
  <2>q1. pc' \in 1..(Len(Program) + 1)
    BY <2>3, ProgramAt
  <2>q2. made' = IF pc' <= 10 THEN {"sff"} ELSE Factories
    BY <1>11, <2>3 DEF FInv, Factories
  <2>q3. params' = [sff |-> SffBefore(pc'), sf2f |-> Sf2fBefore(pc')]
    BY <2>3, <2>6
  <2>q4. \A o \in DOMAIN objs' :
           /\ objs'[o].fac \in Factories
           /\ SetKeys(objs'[o].from) \in {NameKeys[objs'[o].fac], {"object"}}
    BY <1>11, <2>3 DEF FInv
  <2>q5. QED
    BY <2>q1, <2>q2, <2>q3, <2>q4 DEF FInv
<1>12. CASE pc = 12
  <2>1. Stmt = [op |-> "set", fac |-> "sf2f", key |-> "f1Name", val |-> "name"]
    BY <1>12, ProgramAt DEF Stmt
  <2>2. Set
    BY <2>1 DEF Next, Create, Clear, CreateFactory
  <2>3. /\ pc' = 13 /\ made' = made /\ objs' = objs
        /\ params' = [params EXCEPT !["sf2f"]["f1Name"] = "name"]
    BY <1>12, <2>1, <2>2 DEF Set
  <2>p. params = [sff |-> SffBefore(12), sf2f |-> Sf2fBefore(12)]
    BY <1>12 DEF FInv
  <2>4. params["sf2f"] = WithKeys({"fName"}, "name")
    BY <2>p, BeforeAt, NoParamsWith
  <2>5. params'["sf2f"] = WithKeys({"fName"} \cup {"f1Name"}, "name")
    BY <2>3, <2>4, <2>p, WithKeysAdd DEF Keys, NameKeys
  <2>6. params' = [sff |-> SffBefore(13), sf2f |-> Sf2fBefore(13)]
    <3>1. params'["sf2f"] = Sf2fBefore(13)
      BY <2>5, BeforeAt
    <3>2. params'["sff"] = SffBefore(13)
      BY <2>3, <2>p, BeforeAt
    <3>3. QED
      BY <2>3, <2>p, <3>1, <3>2
  <2>q1. pc' \in 1..(Len(Program) + 1)
    BY <2>3, ProgramAt
  <2>q2. made' = IF pc' <= 10 THEN {"sff"} ELSE Factories
    BY <1>12, <2>3 DEF FInv, Factories
  <2>q3. params' = [sff |-> SffBefore(pc'), sf2f |-> Sf2fBefore(pc')]
    BY <2>3, <2>6
  <2>q4. \A o \in DOMAIN objs' :
           /\ objs'[o].fac \in Factories
           /\ SetKeys(objs'[o].from) \in {NameKeys[objs'[o].fac], {"object"}}
    BY <1>12, <2>3 DEF FInv
  <2>q5. QED
    BY <2>q1, <2>q2, <2>q3, <2>q4 DEF FInv
<1>13. CASE pc = 13
  <2>1. Stmt = [op |-> "set", fac |-> "sf2f", key |-> "f2Name", val |-> "name"]
    BY <1>13, ProgramAt DEF Stmt
  <2>2. Set
    BY <2>1 DEF Next, Create, Clear, CreateFactory
  <2>3. /\ pc' = 14 /\ made' = made /\ objs' = objs
        /\ params' = [params EXCEPT !["sf2f"]["f2Name"] = "name"]
    BY <1>13, <2>1, <2>2 DEF Set
  <2>p. params = [sff |-> SffBefore(13), sf2f |-> Sf2fBefore(13)]
    BY <1>13 DEF FInv
  <2>4. params["sf2f"] = WithKeys({"fName", "f1Name"}, "name")
    BY <2>p, BeforeAt, NoParamsWith
  <2>5. params'["sf2f"] = WithKeys({"fName", "f1Name"} \cup {"f2Name"}, "name")
    BY <2>3, <2>4, <2>p, WithKeysAdd DEF Keys, NameKeys
  <2>6. params' = [sff |-> SffBefore(14), sf2f |-> Sf2fBefore(14)]
    <3>1. params'["sf2f"] = Sf2fBefore(14)
      BY <2>5, BeforeAt
    <3>2. params'["sff"] = SffBefore(14)
      BY <2>3, <2>p, BeforeAt
    <3>3. QED
      BY <2>3, <2>p, <3>1, <3>2
  <2>q1. pc' \in 1..(Len(Program) + 1)
    BY <2>3, ProgramAt
  <2>q2. made' = IF pc' <= 10 THEN {"sff"} ELSE Factories
    BY <1>13, <2>3 DEF FInv, Factories
  <2>q3. params' = [sff |-> SffBefore(pc'), sf2f |-> Sf2fBefore(pc')]
    BY <2>3, <2>6
  <2>q4. \A o \in DOMAIN objs' :
           /\ objs'[o].fac \in Factories
           /\ SetKeys(objs'[o].from) \in {NameKeys[objs'[o].fac], {"object"}}
    BY <1>13, <2>3 DEF FInv
  <2>q5. QED
    BY <2>q1, <2>q2, <2>q3, <2>q4 DEF FInv
<1>14. CASE pc = 14
  <2>1. Stmt = [op |-> "set", fac |-> "sf2f", key |-> "f11Name", val |-> "name"]
    BY <1>14, ProgramAt DEF Stmt
  <2>2. Set
    BY <2>1 DEF Next, Create, Clear, CreateFactory
  <2>3. /\ pc' = 15 /\ made' = made /\ objs' = objs
        /\ params' = [params EXCEPT !["sf2f"]["f11Name"] = "name"]
    BY <1>14, <2>1, <2>2 DEF Set
  <2>p. params = [sff |-> SffBefore(14), sf2f |-> Sf2fBefore(14)]
    BY <1>14 DEF FInv
  <2>4. params["sf2f"] = WithKeys({"fName", "f1Name", "f2Name"}, "name")
    BY <2>p, BeforeAt, NoParamsWith
  <2>5. params'["sf2f"] = WithKeys({"fName", "f1Name", "f2Name"} \cup {"f11Name"}, "name")
    BY <2>3, <2>4, <2>p, WithKeysAdd DEF Keys, NameKeys
  <2>6. params' = [sff |-> SffBefore(15), sf2f |-> Sf2fBefore(15)]
    <3>1. params'["sf2f"] = Sf2fBefore(15)
      BY <2>5, BeforeAt
    <3>2. params'["sff"] = SffBefore(15)
      BY <2>3, <2>p, BeforeAt
    <3>3. QED
      BY <2>3, <2>p, <3>1, <3>2
  <2>q1. pc' \in 1..(Len(Program) + 1)
    BY <2>3, ProgramAt
  <2>q2. made' = IF pc' <= 10 THEN {"sff"} ELSE Factories
    BY <1>14, <2>3 DEF FInv, Factories
  <2>q3. params' = [sff |-> SffBefore(pc'), sf2f |-> Sf2fBefore(pc')]
    BY <2>3, <2>6
  <2>q4. \A o \in DOMAIN objs' :
           /\ objs'[o].fac \in Factories
           /\ SetKeys(objs'[o].from) \in {NameKeys[objs'[o].fac], {"object"}}
    BY <1>14, <2>3 DEF FInv
  <2>q5. QED
    BY <2>q1, <2>q2, <2>q3, <2>q4 DEF FInv
<1>15. CASE pc = 15
  <2>1. Stmt = [op |-> "set", fac |-> "sf2f", key |-> "f12Name", val |-> "name"]
    BY <1>15, ProgramAt DEF Stmt
  <2>2. Set
    BY <2>1 DEF Next, Create, Clear, CreateFactory
  <2>3. /\ pc' = 16 /\ made' = made /\ objs' = objs
        /\ params' = [params EXCEPT !["sf2f"]["f12Name"] = "name"]
    BY <1>15, <2>1, <2>2 DEF Set
  <2>p. params = [sff |-> SffBefore(15), sf2f |-> Sf2fBefore(15)]
    BY <1>15 DEF FInv
  <2>4. params["sf2f"] = WithKeys({"fName", "f1Name", "f2Name", "f11Name"}, "name")
    BY <2>p, BeforeAt, NoParamsWith
  <2>5. params'["sf2f"] = WithKeys({"fName", "f1Name", "f2Name", "f11Name"} \cup {"f12Name"}, "name")
    BY <2>3, <2>4, <2>p, WithKeysAdd DEF Keys, NameKeys
  <2>6. params' = [sff |-> SffBefore(16), sf2f |-> Sf2fBefore(16)]
    <3>1. params'["sf2f"] = Sf2fBefore(16)
      BY <2>5, BeforeAt
    <3>2. params'["sff"] = SffBefore(16)
      BY <2>3, <2>p, BeforeAt
    <3>3. QED
      BY <2>3, <2>p, <3>1, <3>2
  <2>q1. pc' \in 1..(Len(Program) + 1)
    BY <2>3, ProgramAt
  <2>q2. made' = IF pc' <= 10 THEN {"sff"} ELSE Factories
    BY <1>15, <2>3 DEF FInv, Factories
  <2>q3. params' = [sff |-> SffBefore(pc'), sf2f |-> Sf2fBefore(pc')]
    BY <2>3, <2>6
  <2>q4. \A o \in DOMAIN objs' :
           /\ objs'[o].fac \in Factories
           /\ SetKeys(objs'[o].from) \in {NameKeys[objs'[o].fac], {"object"}}
    BY <1>15, <2>3 DEF FInv
  <2>q5. QED
    BY <2>q1, <2>q2, <2>q3, <2>q4 DEF FInv
<1>16. CASE pc = 16
  <2>1. Stmt = [op |-> "set", fac |-> "sf2f", key |-> "f21Name", val |-> "name"]
    BY <1>16, ProgramAt DEF Stmt
  <2>2. Set
    BY <2>1 DEF Next, Create, Clear, CreateFactory
  <2>3. /\ pc' = 17 /\ made' = made /\ objs' = objs
        /\ params' = [params EXCEPT !["sf2f"]["f21Name"] = "name"]
    BY <1>16, <2>1, <2>2 DEF Set
  <2>p. params = [sff |-> SffBefore(16), sf2f |-> Sf2fBefore(16)]
    BY <1>16 DEF FInv
  <2>4. params["sf2f"] = WithKeys({"fName", "f1Name", "f2Name", "f11Name", "f12Name"}, "name")
    BY <2>p, BeforeAt, NoParamsWith
  <2>5. params'["sf2f"] = WithKeys({"fName", "f1Name", "f2Name", "f11Name", "f12Name"} \cup {"f21Name"}, "name")
    BY <2>3, <2>4, <2>p, WithKeysAdd DEF Keys, NameKeys
  <2>6. params' = [sff |-> SffBefore(17), sf2f |-> Sf2fBefore(17)]
    <3>1. params'["sf2f"] = Sf2fBefore(17)
      BY <2>5, BeforeAt
    <3>2. params'["sff"] = SffBefore(17)
      BY <2>3, <2>p, BeforeAt
    <3>3. QED
      BY <2>3, <2>p, <3>1, <3>2
  <2>q1. pc' \in 1..(Len(Program) + 1)
    BY <2>3, ProgramAt
  <2>q2. made' = IF pc' <= 10 THEN {"sff"} ELSE Factories
    BY <1>16, <2>3 DEF FInv, Factories
  <2>q3. params' = [sff |-> SffBefore(pc'), sf2f |-> Sf2fBefore(pc')]
    BY <2>3, <2>6
  <2>q4. \A o \in DOMAIN objs' :
           /\ objs'[o].fac \in Factories
           /\ SetKeys(objs'[o].from) \in {NameKeys[objs'[o].fac], {"object"}}
    BY <1>16, <2>3 DEF FInv
  <2>q5. QED
    BY <2>q1, <2>q2, <2>q3, <2>q4 DEF FInv
<1>17. CASE pc = 17
  <2>1. Stmt = [op |-> "set", fac |-> "sf2f", key |-> "f22Name", val |-> "name"]
    BY <1>17, ProgramAt DEF Stmt
  <2>2. Set
    BY <2>1 DEF Next, Create, Clear, CreateFactory
  <2>3. /\ pc' = 18 /\ made' = made /\ objs' = objs
        /\ params' = [params EXCEPT !["sf2f"]["f22Name"] = "name"]
    BY <1>17, <2>1, <2>2 DEF Set
  <2>p. params = [sff |-> SffBefore(17), sf2f |-> Sf2fBefore(17)]
    BY <1>17 DEF FInv
  <2>4. params["sf2f"] = WithKeys({"fName", "f1Name", "f2Name", "f11Name", "f12Name", "f21Name"}, "name")
    BY <2>p, BeforeAt, NoParamsWith
  <2>5. params'["sf2f"] = WithKeys({"fName", "f1Name", "f2Name", "f11Name", "f12Name", "f21Name"} \cup {"f22Name"}, "name")
    BY <2>3, <2>4, <2>p, WithKeysAdd DEF Keys, NameKeys
  <2>6. params' = [sff |-> SffBefore(18), sf2f |-> Sf2fBefore(18)]
    <3>1. params'["sf2f"] = Sf2fBefore(18)
      BY <2>5, BeforeAt
    <3>2. params'["sff"] = SffBefore(18)
      BY <2>3, <2>p, BeforeAt
    <3>3. QED
      BY <2>3, <2>p, <3>1, <3>2
  <2>q1. pc' \in 1..(Len(Program) + 1)
    BY <2>3, ProgramAt
  <2>q2. made' = IF pc' <= 10 THEN {"sff"} ELSE Factories
    BY <1>17, <2>3 DEF FInv, Factories
  <2>q3. params' = [sff |-> SffBefore(pc'), sf2f |-> Sf2fBefore(pc')]
    BY <2>3, <2>6
  <2>q4. \A o \in DOMAIN objs' :
           /\ objs'[o].fac \in Factories
           /\ SetKeys(objs'[o].from) \in {NameKeys[objs'[o].fac], {"object"}}
    BY <1>17, <2>3 DEF FInv
  <2>q5. QED
    BY <2>q1, <2>q2, <2>q3, <2>q4 DEF FInv
<1>18. CASE pc = 18
  <2>1. Stmt = [op |-> "create", fac |-> "sf2f", obj |-> "sf2a"]
    BY <1>18, ProgramAt DEF Stmt
  <2>2. Create
    BY <2>1 DEF Next, Set, Clear, CreateFactory
  <2>3. /\ pc' = 19 /\ made' = made /\ params' = params
        /\ objs' = [o \in DOMAIN objs \cup {"sf2a"} |->
                      IF o \in DOMAIN objs THEN objs[o]
                      ELSE [fac |-> "sf2f", from |-> params["sf2f"]]]
    BY <1>18, <2>1, <2>2 DEF Create
  <2>p. params = [sff |-> SffBefore(18), sf2f |-> Sf2fBefore(18)]
    BY <1>18 DEF FInv
  <2>4. params["sf2f"] = WithKeys({"fName", "f1Name", "f2Name", "f11Name", "f12Name", "f21Name", "f22Name"}, "name")
    BY <2>p, BeforeAt
  <2>5. SetKeys(params["sf2f"]) \in {NameKeys["sf2f"], {"object"}}
    <3>1. SetKeys(params["sf2f"]) = {"fName", "f1Name", "f2Name", "f11Name", "f12Name", "f21Name", "f22Name"}
      BY <2>4, SetKeysWith DEF Keys, NameKeys, Unset
    <3>2. QED
      BY <3>1 DEF NameKeys
  <2>6. \A o \in DOMAIN objs' :
           /\ objs'[o].fac \in Factories
           /\ SetKeys(objs'[o].from) \in {NameKeys[objs'[o].fac], {"object"}}
    BY <1>18, <2>3, <2>5 DEF FInv, Factories
  <2>7. SffBefore(19) = SffBefore(18) /\ Sf2fBefore(19) = Sf2fBefore(18)
    BY BeforeAt
  <2>q1. pc' \in 1..(Len(Program) + 1)
    BY <2>3, ProgramAt
  <2>q2. made' = IF pc' <= 10 THEN {"sff"} ELSE Factories
    BY <1>18, <2>3 DEF FInv, Factories
  <2>q3. params' = [sff |-> SffBefore(pc'), sf2f |-> Sf2fBefore(pc')]
    BY <2>3, <2>3, <2>p, <2>7
  <2>q4. QED
    BY <2>q1, <2>q2, <2>q3, <2>6 DEF FInv
<1>19. CASE pc = 19
  <2>1. Stmt = [op |-> "clear", fac |-> "sf2f"]
    BY <1>19, ProgramAt DEF Stmt
  <2>2. Clear
    BY <2>1 DEF Next, Set, Create, CreateFactory
  <2>3. /\ pc' = 20 /\ made' = made /\ objs' = objs
        /\ params' = [params EXCEPT !["sf2f"] = NoParams]
    BY <1>19, <2>1, <2>2 DEF Clear
  <2>p. params = [sff |-> SffBefore(19), sf2f |-> Sf2fBefore(19)]
    BY <1>19 DEF FInv
  <2>5. params'["sf2f"] = NoParams
    BY <2>3, <2>p
  <2>6. params' = [sff |-> SffBefore(20), sf2f |-> Sf2fBefore(20)]
    <3>1. params'["sf2f"] = Sf2fBefore(20)
      BY <2>5, BeforeAt
    <3>2. params'["sff"] = SffBefore(20)
      BY <2>3, <2>p, BeforeAt
    <3>3. QED
      BY <2>3, <2>p, <3>1, <3>2
  <2>q1. pc' \in 1..(Len(Program) + 1)
    BY <2>3, ProgramAt
  <2>q2. made' = IF pc' <= 10 THEN {"sff"} ELSE Factories
    BY <1>19, <2>3 DEF FInv, Factories
  <2>q3. params' = [sff |-> SffBefore(pc'), sf2f |-> Sf2fBefore(pc')]
    BY <2>3, <2>6
  <2>q4. \A o \in DOMAIN objs' :
           /\ objs'[o].fac \in Factories
           /\ SetKeys(objs'[o].from) \in {NameKeys[objs'[o].fac], {"object"}}
    BY <1>19, <2>3 DEF FInv
  <2>q5. QED
    BY <2>q1, <2>q2, <2>q3, <2>q4 DEF FInv
<1>20. CASE pc = 20
  <2>1. Stmt = [op |-> "set", fac |-> "sf2f", key |-> "object", val |-> "literal"]
    BY <1>20, ProgramAt DEF Stmt
  <2>2. Set
    BY <2>1 DEF Next, Create, Clear, CreateFactory
  <2>3. /\ pc' = 21 /\ made' = made /\ objs' = objs
        /\ params' = [params EXCEPT !["sf2f"]["object"] = "literal"]
    BY <1>20, <2>1, <2>2 DEF Set
  <2>p. params = [sff |-> SffBefore(20), sf2f |-> Sf2fBefore(20)]
    BY <1>20 DEF FInv
  <2>4. params["sf2f"] = WithKeys({}, "literal")
    BY <2>p, BeforeAt, NoParamsWith
  <2>5. params'["sf2f"] = WithKeys({} \cup {"object"}, "literal")
    BY <2>3, <2>4, <2>p, WithKeysAdd DEF Keys, NameKeys
  <2>6. params' = [sff |-> SffBefore(21), sf2f |-> Sf2fBefore(21)]
    <3>1. params'["sf2f"] = Sf2fBefore(21)
      BY <2>5, BeforeAt
    <3>2. params'["sff"] = SffBefore(21)
      BY <2>3, <2>p, BeforeAt
    <3>3. QED
      BY <2>3, <2>p, <3>1, <3>2
  <2>q1. pc' \in 1..(Len(Program) + 1)
    BY <2>3, ProgramAt
  <2>q2. made' = IF pc' <= 10 THEN {"sff"} ELSE Factories
    BY <1>20, <2>3 DEF FInv, Factories
  <2>q3. params' = [sff |-> SffBefore(pc'), sf2f |-> Sf2fBefore(pc')]
    BY <2>3, <2>6
  <2>q4. \A o \in DOMAIN objs' :
           /\ objs'[o].fac \in Factories
           /\ SetKeys(objs'[o].from) \in {NameKeys[objs'[o].fac], {"object"}}
    BY <1>20, <2>3 DEF FInv
  <2>q5. QED
    BY <2>q1, <2>q2, <2>q3, <2>q4 DEF FInv
<1>21. CASE pc = 21
  <2>1. Stmt = [op |-> "create", fac |-> "sf2f", obj |-> "sf2b"]
    BY <1>21, ProgramAt DEF Stmt
  <2>2. Create
    BY <2>1 DEF Next, Set, Clear, CreateFactory
  <2>3. /\ pc' = 22 /\ made' = made /\ params' = params
        /\ objs' = [o \in DOMAIN objs \cup {"sf2b"} |->
                      IF o \in DOMAIN objs THEN objs[o]
                      ELSE [fac |-> "sf2f", from |-> params["sf2f"]]]
    BY <1>21, <2>1, <2>2 DEF Create
  <2>p. params = [sff |-> SffBefore(21), sf2f |-> Sf2fBefore(21)]
    BY <1>21 DEF FInv
  <2>4. params["sf2f"] = WithKeys({"object"}, "literal")
    BY <2>p, BeforeAt
  <2>5. SetKeys(params["sf2f"]) \in {NameKeys["sf2f"], {"object"}}
    <3>1. SetKeys(params["sf2f"]) = {"object"}
      BY <2>4, SetKeysWith DEF Keys, NameKeys, Unset
    <3>2. QED
      BY <3>1 DEF NameKeys
  <2>6. \A o \in DOMAIN objs' :
           /\ objs'[o].fac \in Factories
           /\ SetKeys(objs'[o].from) \in {NameKeys[objs'[o].fac], {"object"}}
    BY <1>21, <2>3, <2>5 DEF FInv, Factories
  <2>7. SffBefore(22) = SffBefore(21) /\ Sf2fBefore(22) = Sf2fBefore(21)
    BY BeforeAt
  <2>q1. pc' \in 1..(Len(Program) + 1)
    BY <2>3, ProgramAt
  <2>q2. made' = IF pc' <= 10 THEN {"sff"} ELSE Factories
    BY <1>21, <2>3 DEF FInv, Factories
  <2>q3. params' = [sff |-> SffBefore(pc'), sf2f |-> Sf2fBefore(pc')]
    BY <2>3, <2>3, <2>p, <2>7
  <2>q4. QED
    BY <2>q1, <2>q2, <2>q3, <2>6 DEF FInv
<1>22. CASE pc = 22
  <2>1. Stmt = [op |-> "clear", fac |-> "sf2f"]
    BY <1>22, ProgramAt DEF Stmt
  <2>2. Clear
    BY <2>1 DEF Next, Set, Create, CreateFactory
  <2>3. /\ pc' = 23 /\ made' = made /\ objs' = objs
        /\ params' = [params EXCEPT !["sf2f"] = NoParams]
    BY <1>22, <2>1, <2>2 DEF Clear
  <2>p. params = [sff |-> SffBefore(22), sf2f |-> Sf2fBefore(22)]
    BY <1>22 DEF FInv
  <2>5. params'["sf2f"] = NoParams
    BY <2>3, <2>p
  <2>6. params' = [sff |-> SffBefore(23), sf2f |-> Sf2fBefore(23)]
    <3>1. params'["sf2f"] = Sf2fBefore(23)
      BY <2>5, BeforeAt
    <3>2. params'["sff"] = SffBefore(23)
      BY <2>3, <2>p, BeforeAt
    <3>3. QED
      BY <2>3, <2>p, <3>1, <3>2
  <2>q1. pc' \in 1..(Len(Program) + 1)
    BY <2>3, ProgramAt
  <2>q2. made' = IF pc' <= 10 THEN {"sff"} ELSE Factories
    BY <1>22, <2>3 DEF FInv, Factories
  <2>q3. params' = [sff |-> SffBefore(pc'), sf2f |-> Sf2fBefore(pc')]
    BY <2>3, <2>6
  <2>q4. \A o \in DOMAIN objs' :
           /\ objs'[o].fac \in Factories
           /\ SetKeys(objs'[o].from) \in {NameKeys[objs'[o].fac], {"object"}}
    BY <1>22, <2>3 DEF FInv
  <2>q5. QED
    BY <2>q1, <2>q2, <2>q3, <2>q4 DEF FInv
<1>23. CASE pc = 23
  <2>1. Stmt = [op |-> "set", fac |-> "sf2f", key |-> "object", val |-> "string"]
    BY <1>23, ProgramAt DEF Stmt
  <2>2. Set
    BY <2>1 DEF Next, Create, Clear, CreateFactory
  <2>3. /\ pc' = 24 /\ made' = made /\ objs' = objs
        /\ params' = [params EXCEPT !["sf2f"]["object"] = "string"]
    BY <1>23, <2>1, <2>2 DEF Set
  <2>p. params = [sff |-> SffBefore(23), sf2f |-> Sf2fBefore(23)]
    BY <1>23 DEF FInv
  <2>4. params["sf2f"] = WithKeys({}, "string")
    BY <2>p, BeforeAt, NoParamsWith
  <2>5. params'["sf2f"] = WithKeys({} \cup {"object"}, "string")
    BY <2>3, <2>4, <2>p, WithKeysAdd DEF Keys, NameKeys
  <2>6. params' = [sff |-> SffBefore(24), sf2f |-> Sf2fBefore(24)]
    <3>1. params'["sf2f"] = Sf2fBefore(24)
      BY <2>5, BeforeAt
    <3>2. params'["sff"] = SffBefore(24)
      BY <2>3, <2>p, BeforeAt
    <3>3. QED
      BY <2>3, <2>p, <3>1, <3>2
  <2>q1. pc' \in 1..(Len(Program) + 1)
    BY <2>3, ProgramAt
  <2>q2. made' = IF pc' <= 10 THEN {"sff"} ELSE Factories
    BY <1>23, <2>3 DEF FInv, Factories
  <2>q3. params' = [sff |-> SffBefore(pc'), sf2f |-> Sf2fBefore(pc')]
    BY <2>3, <2>6
  <2>q4. \A o \in DOMAIN objs' :
           /\ objs'[o].fac \in Factories
           /\ SetKeys(objs'[o].from) \in {NameKeys[objs'[o].fac], {"object"}}
    BY <1>23, <2>3 DEF FInv
  <2>q5. QED
    BY <2>q1, <2>q2, <2>q3, <2>q4 DEF FInv
<1>24. CASE pc = 24
  <2>1. Stmt = [op |-> "create", fac |-> "sf2f", obj |-> "sf2c"]
    BY <1>24, ProgramAt DEF Stmt
  <2>2. Create
    BY <2>1 DEF Next, Set, Clear, CreateFactory
  <2>3. /\ pc' = 25 /\ made' = made /\ params' = params
        /\ objs' = [o \in DOMAIN objs \cup {"sf2c"} |->
                      IF o \in DOMAIN objs THEN objs[o]
                      ELSE [fac |-> "sf2f", from |-> params["sf2f"]]]
    BY <1>24, <2>1, <2>2 DEF Create
  <2>p. params = [sff |-> SffBefore(24), sf2f |-> Sf2fBefore(24)]
    BY <1>24 DEF FInv
  <2>4. params["sf2f"] = WithKeys({"object"}, "string")
    BY <2>p, BeforeAt
  <2>5. SetKeys(params["sf2f"]) \in {NameKeys["sf2f"], {"object"}}
    <3>1. SetKeys(params["sf2f"]) = {"object"}
      BY <2>4, SetKeysWith DEF Keys, NameKeys, Unset
    <3>2. QED
      BY <3>1 DEF NameKeys
  <2>6. \A o \in DOMAIN objs' :
           /\ objs'[o].fac \in Factories
           /\ SetKeys(objs'[o].from) \in {NameKeys[objs'[o].fac], {"object"}}
    BY <1>24, <2>3, <2>5 DEF FInv, Factories
  <2>7. SffBefore(25) = SffBefore(24) /\ Sf2fBefore(25) = Sf2fBefore(24)
    BY BeforeAt
  <2>q1. pc' \in 1..(Len(Program) + 1)
    BY <2>3, ProgramAt
  <2>q2. made' = IF pc' <= 10 THEN {"sff"} ELSE Factories
    BY <1>24, <2>3 DEF FInv, Factories
  <2>q3. params' = [sff |-> SffBefore(pc'), sf2f |-> Sf2fBefore(pc')]
    BY <2>3, <2>3, <2>p, <2>7
  <2>q4. QED
    BY <2>q1, <2>q2, <2>q3, <2>6 DEF FInv
<1>25. QED
  BY <1>a, <1>1, <1>2, <1>3, <1>4, <1>5, <1>6, <1>7, <1>8, <1>9, <1>10, <1>11, <1>12, <1>13, <1>14, <1>15, <1>16, <1>17, <1>18, <1>19, <1>20, <1>21, <1>22, <1>23, <1>24

THEOREM FtestInvariant == Spec => []FInv
BY InitFInv, NextFInv, PTL DEF Spec

(* Every simulation function ftest.js creates (fs1, fs2, sf1c, sf2a,      *)
(* sf2b, sf2c) is built from exactly one source, all of its factory's     *)
(* function names or an object: each clear() (lines 30, 40, 86, 105)     *)
(* comes between two configurations.                                      *)
THEOREM OneSourcePerFunctionHolds == Spec => []OneSourcePerFunction
<1>1. FInv => OneSourcePerFunction
  BY DEF FInv, OneSourcePerFunction
<1>2. QED
  BY <1>1, FtestInvariant, PTL
=============================================================================
