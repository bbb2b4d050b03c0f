CONSTANTS
    EMPTY = EMPTY
    MISSING = MISSING
    t0 = t0
    t1 = t1
    Topics <- MCTopics
    DefaultTopic = t0
    EnumBits = 8
    Provisioned <- MCProvisioned
    Patches <- MCPatches
    MaxVersion = 3
    MaxFaults = 2
SPECIFICATION Spec
INVARIANTS
    TypeOK
    DurablePrefix
    RebootInvisible
    VersionCoversAttributes
PROPERTIES
    Converges
    ImplementsSync
    NoStepBack
CHECK_DEADLOCK FALSE
