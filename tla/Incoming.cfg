SPECIFICATION FairSpec
CONSTANTS
    Messages = {m1, m2}
    Receivers = {"rf", "aprsis"}
    MaxAcks = 4
    MaxDeletes = 1
    MaxCrashes = 1
CONSTRAINT TwoMessagesOrFaults
INVARIANTS TypeOK AckedWasStored FewCopies
PROPERTIES Delivered
