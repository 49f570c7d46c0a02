\* A worker error between a local commit and its WAL flush, then a server
\* crash: the restarted worker confirms the unflushed commit upstream.
CONSTANTS
    Rows <- MCRows
    StopLsn = 0
    MaxErrors = 1
    MaxCrashes = 1
    MaxInFlight = 3
SPECIFICATION Spec
INVARIANT NoLostTransaction
