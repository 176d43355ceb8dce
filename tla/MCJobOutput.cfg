SPECIFICATION Spec
CONSTANT MaxOutput = 2
INVARIANTS OutputKept CaptureIsWhole
PROPERTIES BodyKept RowSettled
CHECK_DEADLOCK FALSE
