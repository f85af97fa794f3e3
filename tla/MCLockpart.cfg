CONSTANT Override <- MCOverride
CONSTANT Shown <- MCShown
CONSTANT Undef = Undef
SPECIFICATION Spec
INVARIANT PrintableIffAdmissible SolidVolume
\* The script ends: after its last statement, or at the throw of lines 7, 12.
CHECK_DEADLOCK FALSE
