\* The directory of a fresh segment cannot be synced.
SPECIFICATION Spec
CONSTANTS
    SegmentEvents = 2
    MaxAppends = 5
    Faults = {"syncdir"}
    Junk = Junk
    NoHead = NoHead
INVARIANT
    ChainIsFileWhateverFails
