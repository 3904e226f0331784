SPECIFICATION Spec
CONSTANTS
    message = message
    position = position
    position2 = position2
    alice = alice
    bob = bob
    NoStation = NoStation
    Packets = {message, position, position2}
    Flows = {2}
    Stations = {alice, bob}
    Sender <- MCSender
    Recipient <- MCRecipient
    IsPosition <- MCIsPosition
    Delay <- MCDelay
    Window <- MCWindow
    Retention = 3
    SeenMax = 3
    PendingMax = 2
    PendingPerFlow = 2
    TOKEN = 2
    FlowRate = 2
    FlowBurst = 3
    SourceRate = 2
    SourceBurst = 3
    MaxLag = 0
    MaxTime = 4
INVARIANT OnePositionPerMessage
CHECK_DEADLOCK FALSE
