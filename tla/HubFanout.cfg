\* Two listeners publish two events to two clients that join, read and leave.
CONSTANTS
    Conn = {c1, c2}
    Listener = {l1, l2}
    Nobody = Nobody
    SendBuffer = 1
    MaxEvents = 2
SPECIFICATION FairSpec
INVARIANTS
    TypeOK
    OneWriter
    NoGaps
PROPERTIES
    ImplementsStream
    PublishReturns
    GoneIsRemoved
    EverythingArrives
CHECK_DEADLOCK FALSE
