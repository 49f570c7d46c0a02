\* Two nodes, the clock running through the whole timestamp range (the
\* sign bit at 8, MAX_TIMESTAMP at 15) and one millisecond past it, where
\* nextval raises ERROR; at most MAX_SEQ_ID calls per node per millisecond.
\* Callers may stop calling, so the system may stop.
CONSTANTS
    TsBits = 4
    NodeBits = 1
    SeqBits = 2
    Nodes = {0, 1}
    MaxTime = 16
    MaxCallsPerMs = 3
    MaxCalls = 5
SPECIFICATION Spec
INVARIANT IdsUnique
CHECK_DEADLOCK FALSE
