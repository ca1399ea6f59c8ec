\* A client that stays connected and stops reading.
CONSTANTS
    Conn = {c1, c2}
    Listener = {l1}
    Nobody = Nobody
    SendBuffer = 1
    MaxEvents = 2
SPECIFICATION StallingSpec
PROPERTY
    ReadersAreServed
CHECK_DEADLOCK FALSE
