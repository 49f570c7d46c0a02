\* DDL and TRUNCATE replication among three nodes, sessions whose
\* search_path names at most one schema.  Behaviours end when the
\* statement bound is reached and every stream is drained.
CONSTANTS
    Nodes = {A, B, C}
    Schemas = {s1, s2}
    s1 = s1
    s2 = s2
    t = t
    Names = {t}
    NoSchema = NoSchema
    Paths <- MCSingleSchemaPaths
    MaxStmts = 4
    UserTriggers <- MCEarlyTruncateTrigger
    Persistences <- MCPermanent
    UserNodes = {A, B, C}
    ReplicateNodes = {A, B, C}
SPECIFICATION Spec
INVARIANT TypeOK
INVARIANT ExecutedAtMostOnce
PROPERTY StatementsEventuallyReplicated
INVARIANT ConvergedWhenQuiet
CHECK_DEADLOCK FALSE
