SPECIFICATION Spec
CONSTANTS
    message = message
    position = position
    position2 = position2
    alice = alice
    bob = bob
    NoStation = NoStation
    Packets = {message, position, position2}
    Flows = {1, 2}
    Stations = {alice, bob}
    Sender <- MCSender
    Recipient <- MCRecipient
    IsPosition <- MCIsPosition
    Delay <- MCDelay
    Window <- MCWindow
    Retention = 3
    SeenMax = 2
    PendingMax = 2
    PendingPerFlow = 1
    TOKEN = 2
    FlowRate = 1
    FlowBurst = 2
    SourceRate = 1
    SourceBurst = 1
    MaxLag = 1
    MaxTime = 9
INVARIANTS TypeOK PendingOnce RatesBounded
PROPERTIES NotHeardOnRf NotRepeated
CHECK_DEADLOCK FALSE
CONSTRAINT FewPackets
SYMMETRY AnyPosition
