SPECIFICATION Spec
CONSTANTS
    Text = text
    Frames = {text, other}
    Readers = {r1, r2}
    MaxFrames = 4
INVARIANT
    ReadyForNext
CHECK_DEADLOCK FALSE
