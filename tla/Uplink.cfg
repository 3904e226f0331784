SPECIFICATION FairSpec
CONSTANTS
    Connections = {c1, c2}
    NoConnection = NoConnection
    QueueMax = 1
    RxQueueMax = 1
    MaxNotifyFailures = 1
INVARIANTS TypeOK OneReader NoReplay StopLeavesNothing
PROPERTIES Answered Reconnects FollowsSettings StopEnds
