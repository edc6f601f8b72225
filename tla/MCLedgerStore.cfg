\* Every fault together; each property excepts the ones it does not survive.  A
\* record that open refuses stays refused: the system really stops there.
SPECIFICATION Spec
CONSTANTS
    SegmentEvents = 2
    MaxAppends = 5
    Faults = {"error", "setlen", "syncdir", "newline", "power", "cut"}
    Junk = Junk
    NoHead = NoHead
INVARIANTS
    RecordIsSound
    VerdictIsTrue
    AckedIsRecorded
CHECK_DEADLOCK FALSE
