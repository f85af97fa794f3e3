CONSTANT LooseEnumEq = TRUE
CONSTANT InputSpecs <- MCInputSpecs
CONSTANT WindingRules <- MCWindingRules
SPECIFICATION Spec
INVARIANT ConfigureMatchesContract
\* configurePathBuilder runs once; the script then ends or has thrown.
CHECK_DEADLOCK FALSE
