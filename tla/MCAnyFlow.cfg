SPECIFICATION Spec
INVARIANT ResultsAsExpected
PROPERTY ProgramsEnd
CHECK_DEADLOCK FALSE
