SPECIFICATION FairSpec
CONSTANTS
    NoMessage = NoMessage
    Messages = {m1}
    Numbered = {m1}
    MaxTncs = 1
    MAX_TX_ATTEMPTS = 2
    Receivers = {"aprsis"}
    WebThreads = {w1}
    Pacing = FALSE
    MaxManualRounds = 1
    MaxCoreCrashes = 0
    MaxWebCrashes = 0
PROPERTY AckedNeverNoAck
CHECK_DEADLOCK FALSE
