\* The collector's queue without failures; no symmetry.
SPECIFICATION FairSpec
CONSTANTS
    Keys = {k1, k2}
    Slots = {k1, k2}
    SlotOf <- OwnSlot
    Content = {c1, c2}
    PartIds = {}
    None = None
    BatchSize = 2
    Faults = {}
    Requests = {r1, r2, r3}
    MaxAttempts = 2
INVARIANTS
    ZeroCountIsQueued
PROPERTIES
    ZeroCountIsReclaimed
