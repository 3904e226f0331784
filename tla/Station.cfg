SPECIFICATION FairSpec
CONSTANTS
    NoJob = NoJob
    Kinds = {"beacon"}
    ServiceOf <- MCServiceOf
    MaxManual = 1
    MaxRestarts = 2
    RfQueueMax = 1
INVARIANTS TypeOK OneScheduledPending OncePerInterval OutcomeTrue
PROPERTIES RecoveredKeepGoing DispatcherServes CutsNoFrame
