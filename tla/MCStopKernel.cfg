\* One business and the node itself (two scopes), four ids: two STOPs and two RESUMEs in
\* any order, with a crash or a failed write at every step.
SPECIFICATION Spec
CONSTANTS
    Businesses = {b1}
    NodeScope = node
    MaxId = 4
    MaxRuns = 1
INVARIANTS
    TypeOK
    MemoryIsDisk
    AckedStopHolds
    AckedResumeLifts
    ResumesAreGenuine
PROPERTY
    ImplementsAuthority
