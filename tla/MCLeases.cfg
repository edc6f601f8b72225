\* Two holders, two partitions, short and long leases that expire, renewals, restarts.
SPECIFICATION Spec
CONSTANTS
    Holders = {h1, h2}
    Partitions = {p1, p2}
    Ttls = {0, 1}
    MaxTime = 3
    MaxGrants = 3
    NoLease = NoLease
INVARIANTS
    Exclusion
    TableIsTrue
PROPERTY
    NumbersMoveOn
SYMMETRY Symmetry
