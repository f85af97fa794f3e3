------------------------------ MODULE Lockpart ------------------------------
(***************************************************************************)
(* src/examples/p3d/lockpart.js: a script that builds a lock part (a base *)
(* slab with a rectangular hole and a raised frame around it) out of      *)
(* axis-aligned rectangles added to an org.bzdev.p3d.Model3D, checks that *)
(* the model is printable and, if it is, writes it as an STL file.         *)
(*                                                                         *)
(* The script's control is modelled from its lines: the checks of the    *)
(* host bindings stl and da, the parameters that take their defaults only *)
(* when the host has not bound them, the blocks of rectangles each run    *)
(* under its debugging flag, and the final printable check.  The library  *)
(* calls (P3d.Rectangle.addH / addFlippedH / addV / addFlippedV and       *)
(* Model3D.printable) are modelled from their documented contract: a      *)
(* rectangle is a cycle of four vertices whose order gives its outward    *)
(* normal by the right-hand rule, and a model is printable when it is a   *)
(* closed surface: no rectangle is degenerate and every directed edge     *)
(* occurs once and is matched by the reverse edge of a neighbour.  The    *)
(* animation at the end of the script (lines 193-230) renders frames and  *)
(* changes no state a property reads; it is not modelled.                 *)
(*                                                                         *)
(* Coordinates are doubles in the script; every value the script computes *)
(* is a sum of parameters, so integer parameters keep them exact.          *)
(***************************************************************************)
EXTENDS Integers, SequencesExt

CONSTANTS
    Override,   \* the value a host may bind to each parameter before the run
    Shown,      \* the debugging flags left TRUE (lines 46-51)
    Undef       \* typeof(x) == "undefined"

Params == {"z1", "z2", "w", "w1", "w2", "h", "h1", "h2"}

Flags == {"top", "bottom", "sides1", "sides2", "inside1", "inside2"}

ASSUME OverrideAssumption == Override \in [Params -> Nat]

ASSUME ShownAssumption == Shown \subseteq Flags

\* The defaults of lines 20-36.
Default == [z1 |-> 10, z2 |-> 20, w |-> 30, w1 |-> 4, w2 |-> 8,
            h |-> 60, h1 |-> 4, h2 |-> 8]

VARIABLES
    pc,         \* the statement the script is at
    hostStl,    \* the host has bound the output stream stl
    hostDa,     \* the host has bound the directory accessor da
    p,          \* the parameter variables z1 .. h2
    m3d,        \* the Model3D: the rectangles added so far, in order
    stl         \* "written" once m3d.writeSTL has run

vars == <<pc, hostStl, hostDa, p, m3d, stl>>

-----------------------------------------------------------------------------
(* The library's rectangles: four vertices, in the order that gives the   *)
(* outward normal.  addH faces +z, addV faces (p2 - p1) x z; the flipped  *)
(* forms face the other way.                                               *)
AddH(z, x1, y1, x2, y2) ==
    << <<x1, y1, z>>, <<x2, y1, z>>, <<x2, y2, z>>, <<x1, y2, z>> >>

AddFlippedH(z, x1, y1, x2, y2) == Reverse(AddH(z, x1, y1, x2, y2))

AddV(x1, y1, z1, x2, y2, z2) ==
    << <<x1, y1, z1>>, <<x2, y2, z1>>, <<x2, y2, z2>>, <<x1, y1, z2>> >>

AddFlippedV(x1, y1, z1, x2, y2, z2) == Reverse(AddV(x1, y1, z1, x2, y2, z2))

\* addH when up, addFlippedH otherwise; addV when fwd, addFlippedV otherwise.
HRect(up, z, x1, y1, x2, y2) ==
    IF up THEN AddH(z, x1, y1, x2, y2) ELSE AddFlippedH(z, x1, y1, x2, y2)

VRect(fwd, x1, y1, z1, x2, y2, z2) ==
    IF fwd THEN AddV(x1, y1, z1, x2, y2, z2) ELSE AddFlippedV(x1, y1, z1, x2, y2, z2)

\* The directed edges of a rectangle, and of a model.
Edges(r) == {<<r[k], r[(k % 4) + 1]>> : k \in 1..4}

ModelEdges(m) == UNION {Edges(m[j]) : j \in 1..Len(m)}

(* m3d.printable(): every rectangle has four distinct corners, no directed *)
(* edge is used twice and every edge is matched by its reverse.            *)
Printable(m) ==
    /\ \A j \in 1..Len(m) : Cardinality(Range(m[j])) = 4
    /\ Cardinality(ModelEdges(m)) = 4 * Len(m)
    /\ \A e \in ModelEdges(m) : <<e[2], e[1]>> \in ModelEdges(m)

-----------------------------------------------------------------------------
(* The script's derived coordinates (lines 17, 39-42, 72-73, 91-94).      *)
z0 == 0
y1 == p.h1 + p.h2
y2 == y1 + p.h
y3 == y2 + p.h2
\* Mutant: the back strip takes the step depth h2 instead of h1.
y4H2 == y3 + p.h2

y4 == y3 + p.h1
x1 == p.w1 + 2 * p.w2 + p.w
x2 == x1 + p.w1
x3 == p.w1 + p.w2
x4 == x3 + p.w
x5 == x4 + p.w2
x6 == x5 + p.w1

\* The y cuts of the outer strips: 0, h1, y1, y2, y3, y4.
YCuts == <<0, p.h1, y1, y2, y3, y4>>

\* One rectangle of a horizontal strip from x = xa to xb per pair of
\* consecutive y cuts, as in lines 57-61, 65-69, 76-80 and 84-88.
HStrip(up, z, xa, xb) ==
    [k \in 1..5 |-> HRect(up, z, xa, YCuts[k], xb, YCuts[k + 1])]

TopLeft == HStrip(TRUE, p.z1, 0, p.w1)

BottomLeft == HStrip(FALSE, z0, 0, p.w1)

TopRight == HStrip(TRUE, p.z1, x1, x2)

BottomRight == HStrip(FALSE, z0, x1, x2)

(* Lines 97-114 (addH, z = z1 / z2) and 118-135 (addFlippedH, z0):        *)
(* the front and back rows at the first level and the raised frame.       *)
Middle(up, zlow, zhigh) ==
    LET Add(z, xa, ya, xb, yb) == HRect(up, z, xa, ya, xb, yb) IN
    << Add(zlow, p.w1, 0, x3, p.h1), Add(zlow, x3, 0, x4, p.h1),
       Add(zlow, x4, 0, x5, p.h1),
       Add(zlow, p.w1, y3, x3, y4), Add(zlow, x3, y3, x4, y4),
       Add(zlow, x4, y3, x5, y4),
       Add(zhigh, p.w1, p.h1, x3, y1), Add(zhigh, p.w1, y1, x3, y2),
       Add(zhigh, p.w1, y2, x3, y3),
       Add(zhigh, x4, p.h1, x5, y1), Add(zhigh, x4, y1, x5, y2),
       Add(zhigh, x4, y2, x5, y3),
       Add(zhigh, x3, p.h1, x4, y1), Add(zhigh, x3, y2, x4, y3) >>

TopMiddle == Middle(TRUE, p.z1, p.z2)

BottomMiddle == Middle(FALSE, z0, z0)

(* Lines 139-155 (addV) and 159-175 (addFlippedV): the outer walls.  The  *)
(* front row (y = 0) and its inner step (y = h1) mirror the back row      *)
(* (y = y4, y3); the right wall (x = x6) and its step (x = x5) mirror the *)
(* left wall (x = 0) and its step (x = w1).                                *)
Walls(fwd, yo, yi, xo, xi) ==
    LET Add(xa, ya, za, xb, yb, zb) == VRect(fwd, xa, ya, za, xb, yb, zb) IN
    << Add(0, yo, z0, p.w1, yo, p.z1), Add(p.w1, yo, z0, x3, yo, p.z1),
       Add(p.w1, yi, p.z1, x3, yi, p.z2), Add(x3, yo, z0, x4, yo, p.z1),
       Add(x3, yi, p.z1, x4, yi, p.z2), Add(x4, yo, z0, x5, yo, p.z1),
       Add(x4, yi, p.z1, x5, yi, p.z2), Add(x5, yo, z0, x6, yo, p.z1),
       Add(xo, 0, z0, xo, p.h1, p.z1), Add(xo, p.h1, z0, xo, y1, p.z1),
       Add(xi, p.h1, p.z1, xi, y1, p.z2), Add(xo, y1, z0, xo, y2, p.z1),
       Add(xi, y1, p.z1, xi, y2, p.z2), Add(xo, y2, z0, xo, y3, p.z1),
       Add(xi, y2, p.z1, xi, y3, p.z2), Add(xo, y3, z0, xo, y4, p.z1) >>

Sides1 == Walls(TRUE, 0, p.h1, x6, x5)

Sides2 == Walls(FALSE, y4, y3, 0, p.w1)

\* Mutant: line 179 written with addFlippedV.
Inside1Flipped == << AddFlippedV(x3, y2, z0, x4, y2, p.z2),
                     AddV(x3, y1, z0, x3, y2, p.z2) >>

\* Lines 179-180 and 184-185: the walls of the hole.
Inside1 == << AddV(x3, y2, z0, x4, y2, p.z2), AddV(x3, y1, z0, x3, y2, p.z2) >>

Inside2 == << AddFlippedV(x3, y1, z0, x4, y1, p.z2),
              AddFlippedV(x4, y1, z0, x4, y2, p.z2) >>

-----------------------------------------------------------------------------
(* The blocks of lines 56-186 in program order: the flag that guards each *)
(* and the rectangles it adds.                                             *)
Blocks == <<[flag |-> "top", rects |-> TopLeft],
            [flag |-> "bottom", rects |-> BottomLeft],
            [flag |-> "top", rects |-> TopRight],
            [flag |-> "bottom", rects |-> BottomRight],
            [flag |-> "top", rects |-> TopMiddle],
            [flag |-> "bottom", rects |-> BottomMiddle],
            [flag |-> "sides1", rects |-> Sides1],
            [flag |-> "sides2", rects |-> Sides2],
            [flag |-> "inside1", rects |-> Inside1],
            [flag |-> "inside2", rects |-> Inside2]>>

NBlocks == 10

\* The statement each block starts at.
BlockPc == <<"top1", "bottom1", "top2", "bottom2", "top3", "bottom3",
             "sides1", "sides2", "inside1", "inside2">>

\* Lines 53-54: verify = top && bottom && sides1 && sides2 && inside1 && inside2.
Verify == Shown = Flags

(* The host runs the script with or without stl and da bound, and with    *)
(* any of the parameters bound beforehand.                                 *)
Init ==
    /\ pc = "preamble"
    /\ hostStl \in BOOLEAN
    /\ hostDa \in BOOLEAN
    /\ \E bound \in SUBSET Params :
           p = [k \in Params |-> IF k \in bound THEN Override[k] ELSE Undef]
    /\ m3d = <<>>
    /\ stl = "none"

(* Lines 6-13: throw unless stl and da are defined.                        *)
Preamble ==
    /\ pc = "preamble"
    /\ pc' = IF hostStl /\ hostDa THEN "params" ELSE "thrown"
    /\ UNCHANGED <<hostStl, hostDa, p, m3d, stl>>

(* Lines 15-36: m3d = new Model3D(); each parameter the host left         *)
(* undefined takes its default.                                            *)
SetParams ==
    /\ pc = "params"
    /\ p' = [k \in Params |-> IF p[k] = Undef THEN Default[k] ELSE p[k]]
    /\ m3d' = <<>>
    /\ pc' = BlockPc[1]
    /\ UNCHANGED <<hostStl, hostDa, stl>>

(* if (flag) { Rectangle.add...(m3d, ...); ... }: block b adds its        *)
(* rectangles when its flag is on.                                         *)
AddBlock(b) ==
    /\ pc = BlockPc[b]
    /\ m3d' = IF Blocks[b].flag \in Shown THEN m3d \o Blocks[b].rects ELSE m3d
    /\ pc' = IF b < NBlocks THEN BlockPc[b + 1] ELSE "verify"
    /\ UNCHANGED <<hostStl, hostDa, p, stl>>

(* Lines 188-192: if (verify) { if (m3d.printable(...)) m3d.writeSTL(...) } *)
VerifyAndWrite ==
    /\ pc = "verify"
    /\ stl' = IF Verify /\ Printable(m3d) THEN "written" ELSE "none"
    /\ pc' = "animate"
    /\ UNCHANGED <<hostStl, hostDa, p, m3d>>

Next ==
    \/ Preamble
    \/ SetParams
    \/ \E b \in 1..NBlocks : AddBlock(b)
    \/ VerifyAndWrite

\* The script runs to its end or to a throw and stops there.
Spec == Init /\ [][Next]_vars

-----------------------------------------------------------------------------
(* The parameters describe a solid: every length is positive and the two  *)
(* levels differ.  Lines 17-36 do not order them: z2 > z1 gives a frame    *)
(* raised above the slab, z2 < z1 a pocket sunk into it, and z1 = z2 walls *)
(* of zero height.                                                          *)
Admissible == (\A k \in Params : p[k] > 0) /\ p.z1 # p.z2

(* With every flag on, the script writes an STL file exactly when the     *)
(* host's parameters describe a solid: the 84 rectangles of lines 56-186  *)
(* close up, with matching edges and one orientation, for every such      *)
(* choice, and a degenerate choice of overrides (lines 20-36 take any     *)
(* value) is caught by printable() rather than written.                    *)
PrintableIffAdmissible ==
    pc = "animate" => (stl = "written" <=> Admissible)

\* Twice the signed area of a rectangle's projection on the xy plane.
Shoelace(r) ==
    LET n(k) == (k % 4) + 1
    IN  SumFunction([k \in 1..4 |-> r[k][1] * r[n(k)][2] - r[n(k)][1] * r[k][2]])

\* Twice the volume enclosed by a closed model (divergence theorem).
TwiceVolume(m) == SumFunction([j \in 1..Len(m) |-> m[j][1][3] * Shoelace(m[j])])

(* A written STL file encloses the volume of the part the comments of     *)
(* lines 17-36 describe: a base slab of size (2 w1 + 2 w2 + w) x           *)
(* (2 h1 + 2 h2 + h) x z1, a frame of size (2 w2 + w) x (2 h2 + h) raised  *)
(* to z2 (sunk to z2 when z2 < z1, where the signed term (z2 - z1) takes   *)
(* the pocket away), and a w x h hole through both.  A closed model facing *)
(* inward, or a rectangle placed at the wrong level, is caught here.      *)
SolidVolume ==
    (pc = "animate" /\ stl = "written") =>
        TwiceVolume(m3d) =
            2 * ( (2 * p.w1 + 2 * p.w2 + p.w) * (2 * p.h1 + 2 * p.h2 + p.h) * p.z1
                + (2 * p.w2 + p.w) * (2 * p.h2 + p.h) * (p.z2 - p.z1)
                - p.w * p.h * p.z2 )
=============================================================================
