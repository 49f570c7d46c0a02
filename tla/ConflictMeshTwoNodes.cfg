\* Two nodes, concurrent inserts and updates of one key.
CONSTANTS
    A = A
    B = B
    C = C
    Nodes = {A, B}
    SeqId <- MCSeqId
    Ops = {"insert", "update"}
    MaxTs = 4
    MaxWrites = 4
    Handlers <- MCIgnoreHandlers
SPECIFICATION Spec
INVARIANT Converged
\* Users may stop writing: a quiescent mesh is a legitimate final state.
CHECK_DEADLOCK FALSE
