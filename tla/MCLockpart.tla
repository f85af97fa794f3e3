----------------------------- MODULE MCLockpart -----------------------------
(* One override per parameter.  Some keep the part a solid (z1 = 15 under *)
(* the default z2 = 20 gives a raised frame, and with z2 = 10 a pocket;    *)
(* w1 = 2, w2 = 3, h = 20, h1 = 1); others make it degenerate: z2 = 10     *)
(* with the default z1 = 10, a zero hole width w, a zero step h2.  Every   *)
(* subset of them is bound in some initial state.                         *)
EXTENDS Lockpart

MCOverride == [z1 |-> 15, z2 |-> 10, w |-> 0, w1 |-> 2, w2 |-> 3,
               h |-> 20, h1 |-> 1, h2 |-> 0]

\* The script as written: every debugging flag is true.
MCShown == Flags
=============================================================================
