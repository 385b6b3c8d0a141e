SPECIFICATION FormSpec
CONSTANTS
    Forms <- MCForms
    Letters = {"x"}
    MaxFaults = 1
INVARIANTS
    PartsAsSent
    BufferBounded
    NothingLeft
