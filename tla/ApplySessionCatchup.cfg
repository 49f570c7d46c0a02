\* A catchup worker replaying up to replay_stop_lsn (the last upstream
\* transaction, which writes nothing), with ERROR exits and restarts from
\* the replication origin: nothing is applied twice and the stop is reached.  The worker exits for
\* good, so the system may stop.
CONSTANTS
    Rows <- MCRows
    StopLsn = 3
    MaxErrors = 2
    MaxCrashes = 0
    MaxInFlight = 3
SPECIFICATION Spec
INVARIANT AppliedOnce
PROPERTY CatchupEventuallyStops
CHECK_DEADLOCK FALSE
