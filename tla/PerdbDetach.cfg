\* Two peers and this node; any of them may be detached.
CONSTANTS
    Peers = {p1, p2}
    Self = self
    Detachable = {p1, p2, self}
    NoNode = NoNode
    MaxReconnects = 3
    MaxErrors = 1
    BufferReads = {TRUE, FALSE}
SPECIFICATION Spec
PROPERTY SlotDroppedAfterTermination DetachedPeerReleased SelfDetachReleasesSlots
CHECK_DEADLOCK FALSE
