SPECIFICATION FairSpec
CONSTANTS
    NoJob = NoJob
    Kinds = {"beacon", "status"}
    ServiceOf <- MCServiceOf
    MaxManual = 0
    MaxRestarts = 1
    RfQueueMax = 1
PROPERTY StatusKeepsGoing
