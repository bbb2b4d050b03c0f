CONSTANTS
    EMPTY = EMPTY
    MISSING = MISSING
    t0 = t0
    t1 = t1
    Topics <- MCTopics
    DefaultTopic = t0
    EnumBits = 8
    Provisioned <- MCProvisioned
    Patches <- MCTopicPatches
    MaxVersion = 1
    MaxFaults = 0
SPECIFICATION OnlineSpec
PROPERTY TopicStored
CHECK_DEADLOCK FALSE
