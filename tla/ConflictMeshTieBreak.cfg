\* Three nodes, concurrent inserts and updates of one key: the tie-break
\* on equal commit timestamps.
CONSTANTS
    A = A
    B = B
    C = C
    Nodes = {A, B, C}
    SeqId <- MCSeqId
    Ops = {"insert", "update"}
    MaxTs = 2
    MaxWrites = 3
    Handlers <- MCNoHandlers
SPECIFICATION Spec
INVARIANT Converged
\* Users may stop writing: a quiescent mesh is a legitimate final state.
CHECK_DEADLOCK FALSE
