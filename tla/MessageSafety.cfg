SPECIFICATION Spec
CONSTANTS
    NoMessage = NoMessage
    Messages = {m1}
    Numbered = {m1}
    MaxTncs = 1
    MAX_TX_ATTEMPTS = 3
    Receivers = {"rf", "aprsis"}
    WebThreads = {w1}
    Pacing = TRUE
    MaxManualRounds = 2
    MaxCoreCrashes = 1
    MaxWebCrashes = 1
INVARIANTS TypeOK Consistent RetriesBounded
PROPERTIES SettledIsFinal AtMostOnce
CHECK_DEADLOCK FALSE
