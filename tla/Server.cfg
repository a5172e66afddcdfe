\* Two I/O threads and two connections, one on each loop.
SPECIFICATION FairSpec
CONSTANTS
    Loops = {l1, l2}
    Conns = {c1, c2}
    Functors <- ServerFunctors
    None = None
INVARIANTS
    ServerTypeOK
    NoLostWakeup
PROPERTIES
    ClosedStaysClosed
    ImplementsExecutor
    QueuedFunctorTakesEffect
    StopEnds
