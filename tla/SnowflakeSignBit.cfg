\* Two nodes and a clock reaching the sign bit (timestamp 8 of 4 bits):
\* are ids of later milliseconds larger?
CONSTANTS
    TsBits = 4
    NodeBits = 1
    SeqBits = 2
    Nodes = {0, 1}
    MaxTime = 9
    MaxCallsPerMs = 3
    MaxCalls = 3
SPECIFICATION Spec
INVARIANT IdsTimeOrdered
CHECK_DEADLOCK FALSE
