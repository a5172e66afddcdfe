\* Four threads, one of them with a timeout, compete for two connections.
SPECIFICATION FairSpec
CONSTANTS
    Threads = {t1, t2, t3, t4}
    Impatient = {t4}
    PoolSize = 2
    MaxCalls = 2
    Faults = {"db"}
INVARIANTS
    PoolTypeOK
    PoolConserves
    NoSleeperBesideIdle
PROPERTIES
    EveryCallReturns
