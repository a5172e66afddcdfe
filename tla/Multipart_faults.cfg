\* Concurrent parts and finishers, every kind of failure.
SPECIFICATION MultipartSpec
CONSTANTS
    Keys = {k1}
    Slots = {k1}
    SlotOf <- OwnSlot
    Content = {c1, c2}
    PartIds <- AllParts
    None = None
    BatchSize = 2
    Faults = {"abort", "db", "io", "crash", "header"}
    Requests = {r1}
    MaxAttempts = 1
    Uploads = {u1}
    UploadKey <- OneKey
    MaxParts = 1
    PartContent = {c1, c2}
    Concat <- Joined
    PartRequests = {q1, q2}
    Sequential = FALSE
SYMMETRY Symmetry
INVARIANTS
    MultipartTypeOK
PROPERTIES
    ReferencedBytesLeaveTwoWays
