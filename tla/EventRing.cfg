CONSTANTS
    Capacity = 3
    Event = {e1, e2, e3}
    ZeroEvent = ZeroEvent
SPECIFICATION Spec
INVARIANT TypeOK
PROPERTY RefinesLog
