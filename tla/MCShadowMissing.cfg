CONSTANTS
    EMPTY = EMPTY
    MISSING = MISSING
    t0 = t0
    t1 = t1
    Topics <- MCTopics
    DefaultTopic = t0
    EnumBits = 8
    Provisioned <- MCUnprovisioned
    Patches <- MCTopicPatches
    MaxVersion = 1
    MaxFaults = 0
SPECIFICATION Spec
PROPERTY BootCompletes
CHECK_DEADLOCK FALSE
