\* Uploads whose writes may fail.
SPECIFICATION Spec
CONSTANTS
    Kinds <- Uploads
    MaxRequests = 1
    MaxConns = 1
    MaxFile = 1
    Pipelining = TRUE
    Faults = {"io", "eof", "reset"}
    None = None
INVARIANT
    StoredUploadIsWhole
