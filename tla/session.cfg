SPECIFICATION FairSpec
CONSTANTS
    Conn = {c1}
    Token = {t1}
    Requests <- OneFault
    Leeway = 2
    Interval = 2
    Horizon = 6
INVARIANTS
    AdmittedWhileValid
    HonestNotice
    DroppedWithinInterval
PROPERTIES
    NoStalePass
    ImplementsSupervision
    HandshakeEnds
    InvalidIsDropped
    EndsWithConnection
