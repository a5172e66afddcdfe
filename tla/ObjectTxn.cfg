\* Concurrent transactions and a check, statement by statement; no symmetry.
SPECIFICATION FairSpec
CONSTANTS
    Keys = {k1}
    Slots = {k1}
    SlotOf <- OwnSlot
    Content = {c1, c2}
    PartIds = {}
    None = None
    Requests = {r1, r2, r3}
    MaxAttempts = 2
INVARIANTS
    TypeOK
PROPERTIES
    ImplementsObjectStore
    CheckIsAtomic
    EveryRequestAnswered
