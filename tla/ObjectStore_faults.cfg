\* Two keys, two contents, three concurrent requests, every kind of failure.
SPECIFICATION Spec
CONSTANTS
    Keys = {k1, k2}
    Slots = {k1, k2}
    SlotOf <- OwnSlot
    Content = {c1, c2}
    PartIds = {p1}
    None = None
    BatchSize = 2
    Faults = {"abort", "db", "io", "crash", "header"}
    Requests = {r1, r2, r3}
    MaxAttempts = 2
SYMMETRY Symmetry
INVARIANTS
    TypeOK
    CountsCoverReferences
    CommittedContentSurvives
