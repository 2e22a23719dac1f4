SPECIFICATION Spec
PROPERTY ResetOnlyWhenFinished
CHECK_DEADLOCK FALSE
