\* Two threads, one subject with two payloads; two registers, one made from each of
\* two objects, two callers; every write can fail or be cut short by a crash.
SPECIFICATION MCSpec
CONSTANTS
    Keys = {k1}
    Texts = {p1, p2}
    Threads = {t1, t2}
    MaxDeks = 3
    Nobody = Nobody
    Objects <- MCObjects
    Callers <- MCCallers
    Dests <- MCDests
    MaxRegisters = 2
    MaxArtefacts = 1
    MaxSyscalls = 6
    MaxCutShort = 1
SYMMETRY Interchangeable
INVARIANTS
    PromisesAreKept
    RowsAreLabelled
    CallersSeeTheirOwn
    ReleasesAreContained
PROPERTY
    ImplementsContract
\* A master key file that does not decode stops every start: the system really
\* stops there.
CHECK_DEADLOCK FALSE
