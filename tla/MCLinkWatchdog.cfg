CONSTANTS
    LTE_MAX_LINK_DOWN = 4
    MaxReports = 8
SPECIFICATION Spec
INVARIANTS
    TypeOK
    NoEarlyReboot
    RebootsAfterN
