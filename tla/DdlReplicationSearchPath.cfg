\* A session whose search_path names two schemas runs an unqualified
\* CREATE TABLE; the peer replays it with the search_path string
\* pgactive_capture_ddl stored.
CONSTANTS
    Nodes = {A, B}
    Schemas = {s1, s2}
    s1 = s1
    s2 = s2
    t = t
    Names = {t}
    NoSchema = NoSchema
    Paths <- MCTwoSchemaPaths
    MaxStmts = 2
    UserTriggers = {}
    Persistences <- MCPermanent
    UserNodes = {A, B}
    ReplicateNodes = {A, B}
SPECIFICATION Spec
PROPERTY StatementsEventuallyReplicated
CHECK_DEADLOCK FALSE
