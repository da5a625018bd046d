SPECIFICATION Spec
CONSTANTS
    MaxErrors = 1
INVARIANTS Listening
CHECK_DEADLOCK FALSE
