\* Two requests in flight, three challenges for a map of two, a clock that runs
\* past their expiry, broken connections and a daemon that restarts; four inferences,
\* mounts and edits, one fault; budgets that fit all, some or none of the register.
SPECIFICATION MCSpec
CONSTANTS
    Devices = {human, stranger}
    Enrolled = {human}
    Slots = {t1, t2}
    MaxNonces = 3
    MaxWall = 2
    Ttl = 2
    MaxChallenges = 2
    Manifests <- MCManifests
    Budgets = {18, 24}
    Goals <- MCGoals
    Labels <- MCLabels
    Edits <- MCEdits
    Clearances <- MCClearances
    Roles = {"draft", "judge"}
    Answers <- MCAnswers
    MaxCalls = 4
    MaxFaults = 1
INVARIANTS
    OneActPerNonce
    ChallengesAreKept
    ProjectionKeepsItsWord
    EffectsInOrder
    MountsAreKept
PROPERTIES
    ActsAreTimely
    SendsAreCleared
SYMMETRY Interchangeable
CHECK_DEADLOCK FALSE
