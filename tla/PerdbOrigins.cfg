\* Two peers detached while this node stays ready, no reconnections and no
\* errors; the build reads back the last name written into the roname array.
CONSTANTS
    Peers = {p1, p2}
    Self = self
    Detachable = {p1, p2}
    NoNode = NoNode
    MaxReconnects = 0
    MaxErrors = 0
    BufferReads = {TRUE}
SPECIFICATION Spec
INVARIANT NoLeakedOrigin
CHECK_DEADLOCK FALSE
