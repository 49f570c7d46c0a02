\* Server crashes without worker errors: the session implements the
\* abstract confirmed-flush specification, applies nothing twice, and a
\* backend waiting for the slot to pass an LSN eventually returns.
CONSTANTS
    Rows <- MCRows
    StopLsn = 0
    MaxErrors = 0
    MaxCrashes = 2
    MaxInFlight = 3
SPECIFICATION Spec
INVARIANT TypeOK
INVARIANT AppliedOnce
PROPERTY ImplementsConfirmedFlush
PROPERTY WaitForSlotsReturns
