\* Two threads and three requests; one call, statement or record may fail.
SPECIFICATION Spec
CONSTANTS
    Threads = {t1, t2}
    foo = foo
    Foo = Foo
    Names = {foo, Foo}
    Fold <- OneFold
    a = a
    A = A
    ab = ab
    z = z
    Keys = {a, A, ab, z}
    Weight <- WeightOf
    IndexEntry <- EntryOf
    v1 = v1
    v2 = v2
    ik = ik
    Content = {v1, v2}
    IdemKeys = {ik}
    IdemKeyOf <- KeyOf
    Mix <- Requested
    MaxKeys = 1
    MaxSize = 2
    MaxBuckets = 2
    Old <- Start
    MaxCalls = 3
    MaxFaults = 1
    CacheKeys <- Objects
    Payloads <- Rows
    Garbage = Garbage
    None = None
SYMMETRY Symmetric
INVARIANTS
    MetadataTypeOK
    ServedWasCommitted
    StaleEntryOnlyByRace
    StaleBucketOnlyByRace
    ExecutedOnce
    ListingIsComplete
    
