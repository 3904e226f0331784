SPECIFICATION Spec
CONSTANTS
    NoMessage = NoMessage
    Messages = {m1}
    Numbered = {m1}
    MaxTncs = 2
    MAX_TX_ATTEMPTS = 2
    Receivers = {"aprsis"}
    WebThreads = {w1}
    Pacing = TRUE
    MaxManualRounds = 1
    MaxCoreCrashes = 0
    MaxWebCrashes = 0
PROPERTY RoundFailsWhole
CHECK_DEADLOCK FALSE
