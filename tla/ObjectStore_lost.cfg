\* A commit that follows the collector's second check.
SPECIFICATION Spec
CONSTANTS
    Keys = {k1, k2}
    Slots = {k1, k2}
    SlotOf <- OwnSlot
    Content = {c1, c2}
    PartIds = {}
    None = None
    BatchSize = 2
    Faults = {}
    Requests = {r1, r2}
    MaxAttempts = 2
INVARIANTS
    ObjectContentOnDisk
