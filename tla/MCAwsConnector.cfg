CONSTANT MSG_QUEUE_SZ = 5
SPECIFICATION Spec
INVARIANTS
    TypeOK
    NothingLost
    EventsInOrder
    ReadyMeansRequested
    OverflowNeedsShadow
PROPERTIES
    ReachesReady
    TracksPhases
