CONSTANT TicksPerUnit <- MCTicksPerUnit
CONSTANT MaxTicks <- MCMaxTicks
SPECIFICATION SuiteSpec
INVARIANT SuiteTypeOK NoDoubleActivation RunCompletes StestRunCompletes TestsimRunCompletes OneSourcePerFunction ServiceTiming
PROPERTY RunTerminates StestTerminates ServiceRefined
\* Each script ends when sim.run() returns with no event left.
CHECK_DEADLOCK FALSE
