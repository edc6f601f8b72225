\* Two modules, three approvals (given for the subject, for another one, and by a
\* test), a device that may be enrolled with either key, two faults; three nodes with
\* two STOPs; three nodes writing one key; two clocks of which one may be two or three
\* ticks past a skew of one; two holders of a federation root.
SPECIFICATION MCSpec
CONSTANTS
    Devices = {"phone"}
    Keys = {"k1", "k2"}
    Approvals <- MCApprovals
    Manifests <- MCManifests
    Verdicts <- MCVerdicts
    Times = {0, 1}
    ExportScopes = {"vertical", "business"}
    MaxFaults = 2
    Nodes = {"n1", "n2", "n3"}
    StopIds <- MCStopIds
    Owner <- MCOwner
    Authors = {"n1", "n2", "n3"}
    DocKeys = {"k"}
    Values = {1, 2}
    MaxWrites = 3
    Clocks = {"n1", "n2"}
    MaxTime = 3
    MaxSkew = 1
    MaxStamps = 3
    KeyIds = {"k1", "k2"}
    Holders = {"ann", "bob"}
    Roots <- MCRoots
    NoKey = "none"
INVARIANTS
    EffectsAreBacked
    HotIsJustified
    StopsConverge
    NoSilentLoss
    AcceptedIsSigned
PROPERTIES
    ImplementsAuthority
    ClockOrders
CHECK_DEADLOCK FALSE
