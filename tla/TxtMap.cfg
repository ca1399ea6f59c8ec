\* Two keys, one request, two records.
CONSTANTS
    Key = {k1, k2}
    Request = {r1}
    MaxPackets = 2
SPECIFICATION Spec
INVARIANT
    AnswerIsSnapshot
CHECK_DEADLOCK FALSE
