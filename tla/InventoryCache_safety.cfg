\* Every handler, two concurrent requests and one invalidation; a snapshot is
\* served for two units of time and fetched within one.
SPECIFICATION Spec
CONSTANTS
    r1 = r1
    r2 = r2
    Readers <- TwoReaders
    Systems <- AllSystems
    TTL = 2
    FetchTime = 1
    MaxTime = 3
    MaxGen = 1
SYMMETRY ReaderSymmetry
INVARIANTS
    TypeOK
    InvalidationSticks
PROPERTIES
    AnswersFollowInvalidation
    NobodyFailsForAnother
    
