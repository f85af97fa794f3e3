------------------------------- MODULE P3dView -------------------------------
(***************************************************************************)
(* The animated view of a Model3D that two scripts create with the same   *)
(* Model3DViewFactory configuration: src/examples/p3d/lockpart.js (lines  *)
(* 193-230), which then renders 32 seconds of frames, and                  *)
(* src/examples/p3d/errtest.js (lines 12-47), which stops after creating   *)
(* the view and whose first timeline entry has the key "time2" where      *)
(* lockpart.js has "time".                                                 *)
(*                                                                         *)
(* The view's timeline (withPrefix "timeline", withIndex [...]) is a      *)
(* sequence of entries, each a function from keys to values; angles are   *)
(* in degrees and rates in degrees per second.  The library is modelled   *)
(* from its documented contract: createObject throws when a key is not a  *)
(* parameter of the factory; a timeline entry sets its parameters at its  *)
(* time; Animation2D(scripting, 700, 700, 30000.0, 1000) has 30000 ticks  *)
(* per second and a frame every 1000 ticks; estimateFrameCount(t) is the  *)
(* number of frames that cover t seconds; a frame draws the view with the *)
(* parameters in force.  Frames and entries due at the same tick run in   *)
(* either order.                                                           *)
(***************************************************************************)
EXTENDS Naturals, Sequences

CONSTANTS
    Script,     \* "lockpart" or "errtest"
    NoView      \* no view, or no frame drawn yet

\* a2d = scripting.create(Animation2D, scripting, 700, 700, 30000.0, 1000).
TicksPerUnit == 30000
TicksPerFrame == 1000

\* Lines 16-22 of lockpart.js's configuration (23-29 of errtest.js): the
\* view's starting orientation; its other keys change no angle or rate.
ViewBase == [phi |-> 30, theta |-> 30, psi |-> 0,
             phiRate |-> 0, thetaRate |-> 0, psiRate |-> 0]

BaseKeys == {"visible", "edgeColor.green", "border", "phi", "theta",
             "magnification", "changeScale"}

\* The timeline entries of lockpart.js, lines 208-225.
LockpartTimeline ==
    << [time |-> 2, phiRate |-> 18],
       [time |-> 12, phiRate |-> 0],
       [time |-> 13, thetaRate |-> 18],
       [time |-> 18, thetaRate |-> 0, phiRate |-> 18],
       [time |-> 28, phiRate |-> 0],
       [time |-> 30, phi |-> 0, theta |-> 0, psi |-> 0,
        forceScaleChange |-> TRUE] >>

\* The timeline entries of errtest.js, lines 30-47: the first has "time2".
ErrtestTimeline ==
    [LockpartTimeline EXCEPT ![1] = [time2 |-> 2, phiRate |-> 18]]

Timeline == IF Script = "lockpart" THEN LockpartTimeline ELSE ErrtestTimeline

\* The timeline parameters of Model3DViewFactory.
TimelineParams == {"time", "phi", "theta", "psi", "phiRate", "thetaRate",
                   "psiRate", "forceScaleChange"}

\* Mutant: the frames cover 29 seconds, not 32.
MaxFramesShort == (29 * TicksPerUnit) \div TicksPerFrame

\* Line 227: maxframes = a2d.estimateFrameCount(32.0).
MaxFrames == (32 * TicksPerUnit) \div TicksPerFrame

\* The tick at which timeline entry k takes effect.
EntryTick(k) == Timeline[k]["time"] * TicksPerUnit

VARIABLES
    pc,         \* the statement the script is at
    view,       \* the view's parameters in force, or NoView
    pending,    \* the timeline entries not yet applied
    frame,      \* the index of the next frame to draw
    shown       \* the parameters the last frame drew, or NoView

vars == <<pc, view, pending, frame, shown>>

(* Lines 193-196 (lockpart.js) or 12-18 (errtest.js): the model, the      *)
(* animation and the view factory exist; mvf.setModel(m3d).                *)
Init ==
    /\ pc = "create"
    /\ view = NoView
    /\ pending = {}
    /\ frame = 0
    /\ shown = NoView

(* mvf.createObject("view", [...]): the view is created with its base     *)
(* parameters and its timeline, or the call throws on a key that is not a *)
(* parameter.  errtest.js ends here; lockpart.js schedules its frames      *)
(* (lines 227-229) and runs the animation (line 230).                      *)
CreateView ==
    /\ pc = "create"
    /\ IF \A k \in 1..Len(Timeline) : DOMAIN Timeline[k] \subseteq TimelineParams
         THEN /\ view' = ViewBase
              /\ pending' = 1..Len(Timeline)
              /\ pc' = IF Script = "lockpart" THEN "run" ELSE "done"
         ELSE /\ pc' = "thrown"
              /\ UNCHANGED <<view, pending>>
    /\ UNCHANGED <<frame, shown>>

\* Entries and frames due no later than every other pending one; the
\* animation ends with its last frame.
FrameTick == frame * TicksPerFrame

LastFrameTick == (MaxFrames - 1) * TicksPerFrame

FrameDue == frame < MaxFrames /\ \A k \in pending : FrameTick <= EntryTick(k)

EntryDue(k) ==
    /\ EntryTick(k) <= LastFrameTick
    /\ \A j \in pending : EntryTick(k) <= EntryTick(j)
    /\ frame < MaxFrames => EntryTick(k) <= FrameTick

(* A timeline entry takes effect: the view's parameters it names change.  *)
ApplyEntry(k) ==
    /\ pc = "run"
    /\ EntryDue(k)
    /\ view' = [p \in DOMAIN view |->
                   IF p \in DOMAIN Timeline[k] THEN Timeline[k][p] ELSE view[p]]
    /\ pending' = pending \ {k}
    /\ UNCHANGED <<pc, frame, shown>>

(* A frame is drawn with the view's parameters in force.                   *)
DrawFrame ==
    /\ pc = "run"
    /\ FrameDue
    /\ shown' = view
    /\ frame' = frame + 1
    /\ UNCHANGED <<pc, view, pending>>

(* a2d.run() returns when the scheduled frames are drawn; entries due     *)
(* after the last frame stay pending.                                      *)
RunReturns ==
    /\ pc = "run"
    /\ frame = MaxFrames
    /\ \A k \in pending : EntryTick(k) > LastFrameTick
    /\ pc' = "done"
    /\ UNCHANGED <<view, pending, frame, shown>>

Next ==
    \/ CreateView
    \/ \E k \in pending : ApplyEntry(k)
    \/ DrawFrame
    \/ RunReturns

Spec == Init /\ [][Next]_vars /\ WF_vars(Next)

-----------------------------------------------------------------------------
(* The last frame lockpart.js draws comes after the whole timeline: the    *)
(* view is at rest, every rate set back to 0 (lines 211, 215, 220), and    *)
(* turned back to phi = theta = psi = 0 (lines 221-225).  Too few frames  *)
(* (line 227) or an entry later than the animation would end it mid-turn. *)
AnimationEndsAtRest ==
    (Script = "lockpart" /\ pc = "done") =>
        /\ pending = {}
        /\ shown # NoView
        /\ shown.phiRate = 0 /\ shown.thetaRate = 0 /\ shown.psiRate = 0
        /\ shown.phi = 0 /\ shown.theta = 0 /\ shown.psi = 0
=============================================================================
