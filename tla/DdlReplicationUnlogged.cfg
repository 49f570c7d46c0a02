\* Two nodes; users on A may create UNLOGGED tables and ALTER tables, and
\* nobody calls pgactive_replicate_ddl_command.  Is every statement that
\* is not local by design replicated to B?
CONSTANTS
    Nodes = {A, B}
    Schemas = {s1, s2}
    s1 = s1
    s2 = s2
    t = t
    Names = {t}
    NoSchema = NoSchema
    Paths <- MCSingleSchemaPaths
    MaxStmts = 3
    UserTriggers = {}
    Persistences <- MCWithUnlogged
    UserNodes = {A}
    ReplicateNodes = {}
SPECIFICATION Spec
PROPERTY StatementsEventuallyReplicated
CHECK_DEADLOCK FALSE
