SPECIFICATION FairSpec
CHECK_DEADLOCK FALSE
CONSTANTS
    Conns = {c1, c2, c3, c4, c5, c6}
    NoConn = NoConn
    Loops = {l1, l2, l3, l4, l5, l6}
    MaxFaults = 2
INVARIANTS NeverStranded LoopsBounded
PROPERTIES Settles ShutdownEnds
