CONSTANTS
    m302720 = m302720
    m901 = m901
    m2minternet = m2minternet
    Sims <- MCSims
    NoSim = NoSim
    apn_lookup_table <- MCTable
    DefaultApn = eseye1
    NoApn = NoApn
    MaxNotices = 2
    MSG_QUEUE_SZ = 5
    MaxVersion = 2
SPECIFICATION Spec
INVARIANT ApnFitsCard
