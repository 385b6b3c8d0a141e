SPECIFICATION Spec
CONSTANTS
    Text = text
    Frames = {text, other}
    Readers = {r1, r2}
    MaxFrames = 4
INVARIANTS
    OneReadAtATime
    ReadsOwnSocket
PROPERTIES
    DeliversStream
CHECK_DEADLOCK FALSE
