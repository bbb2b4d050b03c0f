CONSTANTS
    REBOOT_DELAY = 4
    ACK_LATENCY = 2
    SERIAL_LEN = 12
    LEN_SER_NUM = 8
    MaxSms = 3
SPECIFICATION Spec
INVARIANTS
    TypeOK
    StartupGate
    RebootAcked
PROPERTIES
    GateOpens
    RebootHappens
