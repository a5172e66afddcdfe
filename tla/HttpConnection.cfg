\* Two pipelined requests per connection, two connections with the same fd.
SPECIFICATION FairSpec
CONSTANTS
    Kinds <- AllKinds
    MaxRequests = 2
    MaxConns = 2
    MaxFile = 1
    Pipelining = TRUE
    Faults = {"io", "eof", "reset"}
    None = None
INVARIANTS
    ConnTypeOK
    UploadContextIsOwn
    HandledInOrderWithBody
    ResponsesPaired
    HeldConnectionIsTimed
PROPERTIES
    FirstRequestAnswered
