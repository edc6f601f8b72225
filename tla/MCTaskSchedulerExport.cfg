\* A draft that crashed after its artefact was attached, and the release of what it left.
SPECIFICATION Spec
CONSTANTS
    Plans <- MCSubmitted
    Contents = {a, b}
    MaxSteps = 5
    MaxCalls = 3
    MaxFaults = 1
    MaxStops = 1
INVARIANT
    ExportIsApproved
CHECK_DEADLOCK FALSE
