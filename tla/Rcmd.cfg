SPECIFICATION Spec
INVARIANTS Honest RightCommand KeptAfterMark
PROPERTY Ends
CHECK_DEADLOCK FALSE
