SPECIFICATION FairSpec
CONSTANTS
    position = position
    newer = newer
    alice = alice
    Packets = {position, newer}
    NoStation = NoStation
    PositionOf <- MCPositionOf
    Flows = {1, 2}
    Window <- MCWindow
    QueueMax = 2
    MaxLag = 1
    MaxLate = 1
INVARIANTS TypeOK CountsWaiting OncePerWindow
PROPERTIES OnlyUnheard Drained SilentAfterStop Stops
