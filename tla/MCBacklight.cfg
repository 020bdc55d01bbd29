CONSTANT Lights <- MCLights
SPECIFICATION Spec
INVARIANT TypeOK
INVARIANT LevelMatchesInputs
PROPERTY NoFlicker
CHECK_DEADLOCK TRUE
