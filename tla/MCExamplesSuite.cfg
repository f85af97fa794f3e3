CONSTANT TicksPerUnit <- MCTicksPerUnit
CONSTANT MaxTime <- MCMaxTime
CONSTANT NoFraction = NoFraction
CONSTANT NoView = NoView
SPECIFICATION SuiteSpec
INVARIANT TypeOK ReductionsInTimeOrder AnimationEndsAtRest
\* Each script ends: after its last statement, or at a throw.
CHECK_DEADLOCK FALSE
