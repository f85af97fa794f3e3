# TLA+ models of the libbzdev scripts

This directory holds TLA+ models of the scripts in `src/`, the TLC configurations that check them, and TLAPS proofs of their main invariants, for every value of the constants.

The repository is a set of example and test scripts for the `org.bzdev` Java library (see `spec.md`). The scripts drive a discrete-event simulator, 3D model construction, path building and a number of factories. The library itself is not here. So every model translates the script's own control from its lines, and models the library calls it makes from the library's documented contract. The PROJECT.json map marks each such definition `spec_modelled`.

## 1. Inventory

### Components, their state and operations

| Component | Source | State | Operations | Interaction |
|---|---|---|---|---|
| FIFO task queue script | `tests/devqsim/stest2.js` | clock, pending events, FIFO queue (entries, busy head), `count`, the task's position in its code | task start, task resume after a queue entry, `callable.call`, end of a queue entry's processing | the task and the call object share one `FifoTaskQueue`; both are started at time 0 |
| Calls and pausing task | `tests/devqsim/stest.js` | clock, events, loop variable `i`, output | the two scheduled calls, task start, task resume after `TaskThread.pause` | the calls and the task are interleaved by event time |
| Task object | `tests/devqsim/testsim.js` | clock, events, `i`, output | task start, task resume | none |
| Simulation-function factories | `tests/devqsim/ftest.js` | each factory's parameters, the objects created | `createFactory`, `set`, `clear`, `createObject` | parameters persist in a factory across `createObject` calls until `clear()` |
| Lock part | `examples/p3d/lockpart.js` | host bindings, parameters, the `Model3D` (rectangles in order), STL written | host checks, parameter defaults, ten rectangle blocks under debugging flags, `printable` then `writeSTL` | every block's rectangles must meet every other block's edge to edge |
| Path builder configuration | `tests/geom/pbtest.js` | the builder's winding rule and points | `configurePathBuilder` → `configPathBuilderAux` (recursive over nested arrays) | its result is meant to equal `SplinePathBuilder.configure` |
| Smart meter example | `examples/smartmeter/script.js` | host bindings, clock, events, the utility's reduction fraction, printed lines | host checks, setup, `scheduleCallObject` ×2, the two calls, `run(endtime)` | the calls change the utility's reduction fraction that the home actors read |
| View of a 3D model | `examples/p3d/lockpart.js` 193-230, `examples/p3d/errtest.js` | the view's parameters, pending timeline entries, frame index, last frame drawn | `createObject("view", ...)`, a timeline entry taking effect, a frame drawn, `a2d.run()` returning | entries and frames due at the same tick run in either order |
| Remaining scripts | `tests/anim2d`, `tests/bin`, `tests/math`, `tests/scripting`, `tests/util`, `tests/drama` | objects of the external library | straight-line creation and printing | none of their own |
| Expression interpreter (`spec.md`) | not under `src/` | global environment, objects and arrays | `parse`, `setGlobalValue`, `setFunction` | persistent environment shared by successive `parse` calls |

### The hard behaviours

- **Simultaneous events.** In stest2.js the task and the call object are both due at time 0. Later, a queue entry's end and the resumed actor's new add fall on the same tick. The simulator's tie-break among events due at the same tick is not part of the scripts' contract. The models let TLC choose freely among them, so every property holds for every tie-break.
- **A shared queue with re-entrant adds.** The call object adds itself to the FIFO from inside its own call (stest2.js:28). Meanwhile the task adds itself three times (lines 15, 17, 19). An add to an idle queue must start processing at once; an add behind a busy head must wait.
- **Termination by a counter.** `count++ == 3` (stest2.js:27) stops the call object after its fourth call.
- **Out-of-order scheduling.** stest.js schedules the call due at 4.0 before the one due at 2.0, and pauses a task between them.
- **Stale parameters.** ftest.js reuses each factory three times and relies on `clear()` between configurations.
- **A long sequence of geometric calls.** lockpart.js adds 84 rectangles that must close into one solid. It does this for any parameters the host binds beforehand.
- **Recursion with branches that test the wrong operand.** pbtest.js:21 and :24 compare `spec.type`, the enclosing array's type, instead of `spec[i].type`.

### What makes each component correct

- **stest2.js:**
  - no actor is ever pending twice;
  - the queue runs exactly while it holds entries;
  - the clock never goes back;
  - `run()` returns only after four calls, the task's three queue passes and its end;
  - `run()` does return.
- **stest.js, testsim.js:** when `run()` returns, the output is exactly the expected lines, and `run()` does return.
- **ftest.js:** each created function object is defined by exactly one source: names, an object literal, or a string.
- **lockpart.js:**
  - an STL file is written exactly when the parameters describe a solid;
  - what is written is closed, outward-facing and has the designed volume.
- **stest2.js as a client of the queue:** passes are served back to back, one processing time each, and an actor goes on only after its own pass (the abstract `Stest2Service`).
- **smartmeter/script.js:** both reductions run, in time order, before the end time, and the later one is in force at the end.
- **lockpart.js's animation:** the last frame shows the part at rest and turned back to its start.
- **pbtest.js:** the script's copy of `configPathBuilderAux` builds the path that `SplinePathBuilder.configure` documents, and throws exactly on the specs it rejects.

The hazards, with the lines where they bite, are listed in PROJECT.json.

## 2. Modules

| Module | Models | State → code | Actions → code |
|---|---|---|---|
| `DevqsimEvents` | the simulator's event list (contract) | an event is `[at, act]` | `Earliest`: the events `sim.run()` may run next |
| `Stest2` | stest2.js | `now`, `events`, `fifo` (head first), `busy`, `count`, `taskStep` | `StartTask`, `ResumeTask` (lines 13-21), `CallObject` (25-29), `FifoDone` (queue contract), helper `AddToFifo` (`addCurrentTask`/`addCallObject`) |
| `Stest` | stest.js | `now`, `events`, `i`, `out` | `Call`, `StartTask`, `ResumeTask` |
| `Testsim` | testsim.js | `now`, `events`, `i`, `out` | `StartTask`, `ResumeTask` |
| `Ftest` | ftest.js | `pc` over `Program` (the script's factory statements in order), `made`, `params`, `objs` | `CreateFactory`, `Set`, `Clear`, `Create` |
| `DevqsimSuite` | the four devqsim scripts together | Stest2's variables plus `s1*`, `ts*`, `ft*` | one script steps at a time |
| `Lockpart` | lockpart.js | `pc`, `hostStl`, `hostDa`, `p` (parameters), `m3d` (rectangles), `stl` | `Preamble` (6-13), `SetParams` (15-36), `AddBlock(b)` (each `if (flag) {...}`, 56-186), `VerifyAndWrite` (188-192) |
| `Pbtest` | pbtest.js | `pc`, `spec`, `wrIn`, `pb` | `ConfigurePathBuilder` (34-49), with `AuxStep` for `configPathBuilderAux` (7-32) |
| `Stest2Service` | what stest2.js gets from the queue (abstract) | `clock`, `steps`, `calls`, `tServed`, `cServed` | `TaskStep`, `CallStep` (the script's actors), `ServeTask`, `ServeCall` (one pass) |
| `Smartmeter` | smartmeter/script.js | `pc`, `hostOs`, `hostImg`, `now`, `events`, `frac` (tenths), `log` | `Preamble` (4-17), `Setup` (19-90), `Schedule1`/`Schedule2` (92-100), `CallObject`, `RunReturns` (102-103) |
| `P3dView` | the view of lockpart.js 193-230 and errtest.js 12-47 | `pc`, `view`, `pending`, `frame`, `shown` | `CreateView`, `ApplyEntry(k)`, `DrawFrame`, `RunReturns` |
| `ExamplesSuite` | Smartmeter and the two views together | Smartmeter's variables plus `lp*`, `et*` | one script steps at a time |
| `Stest2Proofs` | proofs about `Stest2` | | |
| `Stest2RefinementProofs` | proof that `Stest2` implements `Stest2Service` | | |
| `StestProofs`, `TestsimProofs` | proofs about `Stest` and `Testsim` | | |
| `DevqsimSuiteProofs` | proofs that the devqsim suite keeps each script's properties | | |
| `SmartmeterProofs` | proofs about `Smartmeter` and lockpart.js's view in `ExamplesSuite` | | |
| `FtestProofs` | proofs about `Ftest` | | |
| `P3dViewProofs` | proofs about `P3dView` for lockpart.js | | |

Modelling choices:

- **Queue and simulator contract.** The FIFO queue's behaviour is its documented contract:
  - an entry added to an idle queue starts its processing time at once;
  - when the head's time ends, it leaves the queue, its actor is resumed (a task) or called (a call object) at that time, and the next entry starts.
- **Events as a set.** A pending event is identified by its time and kind. NoDoubleActivation shows that no two pending events ever coincide in both.
- **Rectangles.** A rectangle is its four corners in the order that gives its outward normal:
  - `addH` faces +z and `addV` faces (p2 − p1) × z, which is what the script's own use of them implies;
  - `printable` means every rectangle is non-degenerate, no directed edge occurs twice, and every edge meets its reverse.
- **Coordinates.** Parameters are integers, so every coordinate the script computes is exact.
- **Refinement mapping of stest2.js.** `Stest2Service` forgets the event list and the queue order. `clock` is `now`, `steps` is `taskStep`, `calls` is `count`. An actor's passes over (`Served`) are the queue entries it has added (`PassesAsked`: the task's first three steps, every call but the fourth) less the one it may have waiting. A task start, resume or call is a `TaskStep` or `CallStep`; the end of a queue entry is a `ServeTask` or `ServeCall`, one processing time after the previous one.
- **Smartmeter.** Fractions are tenths and times are ticks. `Math.round` is `RoundDiv`. The graph, axes and actors (lines 34-84) are one `Setup` step, since they are library configuration with no branch.
- **Views.** A timeline entry is a record from keys to values. `createObject` throws on a key that is not a factory parameter. Frames come every 1000 of 30000 ticks per second, `estimateFrameCount(32)` of them.
- **Engine equality in pbtest.js.** Whether the engine's `==` equates the string `"CONTROL"` with the Java enum constant is not fixed by the script. It is the constant `LooseEnumEq`, and both choices are run.

## 3. Runs

| Run | Checks | Shows |
|---|---|---|
| `devqsim_scripts` (MCDevqsimSuite.cfg, 44,100 states) | SuiteTypeOK, NoDoubleActivation, RunCompletes, StestRunCompletes, TestsimRunCompletes, OneSourcePerFunction, ServiceTiming; RunTerminates, StestTerminates, ServiceRefined | the devqsim scripts are correct under every tie-break of simultaneous events, and stest2.js implements `Stest2Service` |
| `examples_scripts` (MCExamplesSuite.cfg, 27,468 states) | TypeOK, ReductionsInTimeOrder, AnimationEndsAtRest | the smart meter's two reductions run in order before the end time for every host binding, and lockpart.js's last frame shows the part at rest under every order of entries and frames due at the same tick |
| `lockpart_geometry` (MCLockpart.cfg, 5,120 states) | PrintableIffAdmissible, SolidVolume | for each of the 256 subsets of host overrides (×4 host bindings), the 84 rectangles close into the designed solid exactly when every length is positive and z1 ≠ z2 (a raised frame when z2 > z1, a pocket when z2 < z1) |
| `pbtest_loose_equality` (MCPbtest.cfg, 167,048 states) | ConfigureMatchesContract | the script's configuration code meets the contract on 20,000+ specs of up to two levels and two entries, with 11 point types |
| `pbtest_strict_equality` (MCPbtestStrictEq.cfg, violation) | ConfigureMatchesContract | without loose enum equality, a `CONTROL` point given as a string is rejected (the finding in PROJECT.json) |

**Bounds:**

- **Devqsim.** The devqsim scripts run at 1000 ticks per unit, as the scripts do. `MaxTicks` = 10,000 lies past every script's last event (6.0, 4.0 and 50 ticks). It only cuts behaviours that would run forever, so a script that failed to stop is reported by the liveness properties, not hidden.
- **Lock part.** Each parameter has one override. Some overrides keep the part a solid: z1 = 15 under the default z2 = 20 (a raised frame), z1 = 15 with z2 = 10 (a pocket), w1 = 2, w2 = 3, h = 20, h1 = 1. Others make it degenerate: z2 = 10 with the default z1 = 10, w = 0, h2 = 0. So both sides of PrintableIffAdmissible are reached, and z2 below, equal to and above z1 all occur. The script's comments call z1 the first level and z2 the second, and nothing in lines 15-36 orders them.
- **Smart meter.** The script's own values: 1000 ticks per second and 16 hours, so 57,600,000 ticks, with both calls at rounded tenths of it. The state space is small because the data are exact, not bounded.
- **Views.** The script's own 30 fps and 32 seconds: 960 frames, so every timeline entry (the last at 30 s) falls inside the animation and ties between an entry and a frame at the same tick occur. AnimationEndsAtRest holds under both orders of such a tie, but it speaks only of the last frame. Which view an earlier tie frame shows is left open, because nothing in the repository says which order is intended. errtest.js's view runs in the same suite; its `"time2"` key makes `createObject` throw, which the model reproduces, and no property is stated about it.
- **Path specs.** The family includes the script's own `pathspec`, nested arrays, empty arrays and unknown types.

**Fairness.** Each devqsim script, Smartmeter and each view has weak fairness on its own `Next`. This is justified because `sim.run()` keeps running events while any is pending, and each script's run loop is independent. Lockpart and Pbtest check only safety. They are straight-line programs, and `CHECK_DEADLOCK FALSE` is set because each script simply ends (or throws).

Every property of a passing run has a mutant in PROJECT.json: a plausible bug in a mapped definition that TLC finds. Examples are a post-increment turned pre-increment, a lost `clear()`, a flipped rectangle, `y4` computed with `h2`, and a dropped recursion.

## 4. Proofs

**stest2.js (Stest2Proofs).** The following are proved with TLAPS for every `TicksPerUnit ∈ Nat \ {0}` and `MaxTicks ∈ Nat`:

- `Spec => []IInv`;
- TypeOK, NoDoubleActivation and RunCompletes as invariants.

The proof of `Spec => []IInv` rests on these facts:

- **The invariant needs strengthening.** RunCompletes alone is not inductive. The strengthening `IInv` adds:
  - NoPastEvent: no pending event is earlier than `now`;
  - NoDoubleActivation;
  - WorkConserving: the queue is busy exactly while it holds an entry and exactly while a completion event is pending;
  - TaskAccounting: the task is pending, by event or queue entry, exactly while `taskStep ∈ 1..3`, and has a start event exactly while `taskStep = 0`;
  - CallAccounting: the call object is pending exactly while `count < 4`.
- **Why it is inductive.** With these conjuncts, "no event left" forces an empty queue, `taskStep = 4` and `count = 4`.
- **Structure.** Each action has a lemma (`StartTaskStep`, `ResumeTaskStep`, `CallObjectStep`, `FifoDoneStep`), split by the code's branches. They rest on lemmas about `Append`, `Head`, `Tail` and `Range` of the queue, and on `AddToFifoFacts`.

**The refinement (Stest2RefinementProofs).** `ServiceTimingHolds` proves `Spec => []ServiceTiming` and `ServiceRefinedHolds` proves `Spec => ServiceRefined` (that is, `Service!Spec`), for every `TicksPerUnit`.

- **Strengthening.** `RInv == IInv /\ ServiceTiming`. ServiceTiming says the clock is `(passes over) × ProcTime`, every pending start or wake-up is due now, and the queue's completion one processing time later. The mapped clock step of `ServeTask`/`ServeCall` needs exactly this.
- **Why IInv is needed.** A completion runs only if it is earliest; ServiceTiming puts every other event at `now`, before it, so NoDoubleActivation leaves no other event. That is what makes a queue pass take the clock from `now` to `now + ProcTime` with nothing in between. TaskAccounting and CallAccounting give `Served = taskStep` (or `count`) when the actor runs, the abstract guard.
- **Structure.** Like a two-phase-commit refinement proof: `InitRefines` (initial states map to `Service!Init`), one lemma per action (`StartTaskRefines`, `ResumeTaskRefines`, `CallObjectRefines`, `FifoDoneRefines`) split by the code's branches, `StepRefines` for `[Next]_vars`, and a PTL step.

**stest.js and testsim.js (StestProofs, TestsimProofs).** Each script is a single task loop plus fixed calls, so every reachable state is determined by the loop variable `i`. The inductive invariant lists those states:

- **`TInv` (testsim.js)** has three cases: before the start, paused in pass `i ∈ 0..4` (clock `10 + 10i`, the `i + 1` lines printed so far given by `Printed(i + 1)`, one resume pending), and ended.
  - `TestsimTypeCorrect` and `TestsimRunCompletesHolds` follow for every `MaxTicks`.
  - Lemmas: `PrintedIsSeq`, `PrintedAppend` (one more pass appends the next line), `TInvTypeOK`, `TInvCompletes`.
- **`SInv` (stest.js)** has five cases: before 2.0, after the call at 2.0, paused in pass `i`, after the last pass, and after the call at 4.0. The printed lines are always a prefix `Shown(m)` of the seven expected times.
  - `StestTypeCorrect` and `StestRunCompletesHolds` follow.
  - Lemmas: `TicksLinear`, `ShownAppend`, `EarliestOfTwo` (which of the two pending events runs), `SInvTypeOK`, `SInvCompletes`.
- **Hypothesis `TicksDecimal`.** stest.js's theorems assume the tick rate is a multiple of 10 (the script's is 1000.0). The script's times are tenths of a unit, and `sim.getTicks` rounds them down. At 5 or 15 ticks per unit, 3.0 + k·0.1 no longer advances by one tick per pause, and TLC finds StestRunCompletes violated. The hypothesis is needed, not a convenience.

**The suites (DevqsimSuiteProofs, SmartmeterProofs).** The runs check these properties on the suites, where the scripts interleave. The suite proofs carry the component theorems over:

- **Each script stays inside its own specification.** `SuiteStepProjects` shows every suite step is, for each script, one of its steps or a stutter. `StestSame` and `TestsimSame` show that the suite's instances (`S1`, `TS`) and the proofs' instances (`SP`, `TP`) define the same formulas.
- **The script invariants hold together in the suite.** `ScriptsInvariant` proves `SInv /\ TInv` inductive for `SuiteSpec`. `TestsimInvariantInSuite` proves `TInv` alone, without the tick-rate hypothesis. `SuiteRunsStest2` gives stest2.js's `Spec`, hence `IInv`.
- **Theorems about the suites.**
  - `SuiteTypeCorrect`: SuiteTypeOK.
  - `SuiteStestRunCompletes`, under `TicksDecimal`.
  - `SuiteTestsimRunCompletes`, for every tick rate.
  - `SuiteReductionsInTimeOrder`: Smartmeter's TypeOK and ReductionsInTimeOrder in `ExamplesSuite`.
  - `SuiteOneSourcePerFunction`: ftest.js's OneSourcePerFunction in the devqsim suite. `FtestSame` relates the suite's instance `FT` to the proofs' instance `FP`.
  - `SuiteAnimationEndsAtRest`: lockpart.js's AnimationEndsAtRest in `ExamplesSuite`, under `NoViewIsSentinel` (below). `LockpartSame` relates `LP` to `LPP`.

**smartmeter/script.js (SmartmeterProofs).** The proofs cover every tick rate and run length with at least 5 ticks in the run (`RunLength`; the script's run is 57,600,000 ticks).

- **Why 5 ticks.** Below 5 ticks, `Math.round` of 0.4 and of 0.6 of the run can coincide (4 ticks: both are 2), and then either call may run first.
- **Invariant `MInv`.** It lists the script's states by `pc` and by how many calls have run.
- **Lemma `TimesInRun`.** It gives `0 < time1 < time2 <= endtime`.
- **Theorems.** `SmartmeterTypeCorrect` and `ReductionsInTimeOrderHolds` follow.

**ftest.js (FtestProofs).** The script is one fixed sequence of 24 factory statements, so its state is a function of `pc`.

- **Invariant `FInv`.** `SffBefore(n)` and `Sf2fBefore(n)` give each factory's parameters before statement `n`. `FInv` says `params` equals them, `made` holds sf2f from statement 11 on, and every object made has one source.
- **Lemmas.**
  - `ProgramAt` lists the 24 statements.
  - `BeforeAt` writes each factory's parameters before each statement as `WithKeys(S, v)`, the keys of `S` set to `v`.
  - `WithKeysAdd` covers a `set`, `NoParamsWith` a `clear`, and `SetKeysWith` gives the keys set in `WithKeys(S, v)`.
- **Structure.** `NextFInv` has one case per statement: the statement fixes the only action enabled, and then its effect on `params` or `objs`.
- **Theorems.** `FtestInvariant` and `OneSourcePerFunctionHolds`.
- **Model change.** `Create` first added the new object with TLC's `@@` and `:>`, which the provers cannot expand. It now builds the same function with a constructor, where an existing name keeps its object. The run gives the same result.

**lockpart.js's view (P3dViewProofs).** This covers `Script = "lockpart"`.

- **Invariant `PInv`.** After `CreateView`:
  - the pending entries are `(n + 1)..6` and the view is `ViewAfter[n]`, the base view with the first `n` entries applied;
  - the last frame drawn shows some `ViewAfter[a]`, and every entry after `a` is due no earlier than that frame;
  - when the run has returned, all 960 frames are drawn and no entry is pending.
- **Why the entries apply in order.** The entry ticks (60000, 360000, ..., 900000) strictly increase, and `EntryDue` takes an entry no later than every other pending one. So the entry applied is always `n + 1` (`EarliestIsNext`), and `ApplyStep` gives `ViewAfter[n + 1]`.
- **Why the animation ends at rest.** The last frame is at tick 959000, after the last entry, at 900000. So `a = 6`, and `ViewAfter[6]` has zero rates and zero angles (`PInvAtRest`).
- **Hypothesis `NoViewIsSentinel`.** The "no view yet" value `NoView` is a model value and is not itself a view. In TLC this holds by the nature of model values. A proof must state it.
- **Model change.** `TimingFacts` needs the timeline's `time` fields. The timeline was written with `:>` and `@@`, so it is now written as records with the same fields. The run gives the same result.
- **Theorems.** `ViewInvariant` and `AnimationEndsAtRestHolds`.

**Only model-checked:**

- **Liveness.** The liveness properties (RunTerminates, StestTerminates) need fairness and ENABLED, which TLAPS does not handle here.
- **Pbtest.** Its operators are RECURSIVE. What they compute for every input would need induction over data, which the installed provers cannot instantiate.
- **Lockpart.** PrintableIffAdmissible and SolidVolume are statements about 84 symbolic rectangles: the cardinality of 336 directed edges and a `SumFunction` fold, for every choice of overrides. TLC covers the 256 subsets of overrides. A proof would need lemmas about cardinality and folds of concatenated sequences that the provers cannot reach at this size.

## 5. Not modelled

- **smartmeter/script.js's actors.** The homes, the utility and the temperature condition are classes of the host application, not in this repository. Only the fraction the script sets is modelled, so whether the homes read it in order (line 92) is not checked.
- **drama/test.js.** It only configures external objects.
- **The straight-line smoke scripts.**
- **The printing and animation** parts of modelled scripts.
- **The expression interpreter described in `spec.md`.** Its code and test scripts are not under `src/`.

## 6. Plan for later work

1. Model the interpreter's environment from `spec.md` as a spec-modelled component:
   - global persistence across `parse()`;
   - object aliasing;
   - errors that leave earlier bindings in place.
2. Prove Lockpart's type invariant and a step lemma for `AddBlock`. SequencesExt declares no RECURSIVE operator, so `Reverse` may stay. The obstacle is the size of the rectangle list, and the folds behind `SumFunction`.
3. An abstract specification of stest.js and testsim.js (the printed lines as a sequence), refined in the same way as Stest2Service. `SInv` and `TInv` are the invariants such a refinement proof would rest on.
