CONSTANTS
    EMPTY = EMPTY
    MISSING = MISSING
    t0 = t0
    t1 = t1
    Topics <- MCTopics
    DefaultTopic = t0
    EnumBits = 8
    Provisioned <- MCProvisioned
    Patches <- MCLongPatches
    MaxVersion = 1
    MaxFaults = 0
SPECIFICATION Spec
INVARIANT IntervalsInRange
CHECK_DEADLOCK FALSE
