\* Six plans, two crashes or failures, one STOP, arches that answer anew; a client
\* that keeps stepping and a human that answers.
SPECIFICATION FairSpec
CONSTANTS
    Plans <- MCPlans
    Contents = {a, b}
    MaxSteps = 5
    MaxCalls = 5
    MaxFaults = 2
    MaxStops = 1
INVARIANTS
    ReleaseIsApproved
    RecordIsWhole
    CommandSettles
PROPERTIES
    HeldTaskIsStill
    TaskSettles
CHECK_DEADLOCK FALSE
