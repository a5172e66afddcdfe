\* Clients that finish an upload once, after its parts; two-part merges.
SPECIFICATION MultipartSpec
CONSTANTS
    Keys = {k1}
    Slots = {k1}
    SlotOf <- OwnSlot
    Content = {c1, c2}
    PartIds <- AllParts
    None = None
    BatchSize = 2
    Faults = {"io", "abort"}
    Requests = {r1}
    MaxAttempts = 2
    Uploads = {u1}
    UploadKey <- OneKey
    MaxParts = 2
    PartContent = {c1}
    Concat <- Joined
    PartRequests = {q1, q2}
    Sequential = TRUE
SYMMETRY Symmetry
INVARIANTS
    CountsCoverLiveReferences
