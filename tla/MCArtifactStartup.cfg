SPECIFICATION StartupSpec
CONSTANTS
    Task = {t1, t2}
    MaxInstance = 2
    Manifest <- MCManifest
    Catalog <- MCCatalog
    Policies <- MCPolicies
    Loader <- MCLoader
    Stray <- MCStray
    Writable <- MCWritable
    Gate = gate
    Nobody = nobody
    MaxWrites = 2
INVARIANTS
    EngineIsOwned
    EvidenceWasTrue
PROPERTIES
    HandoffIsCurrent
    OldTaskIsHarmless
    EngineLoadsApproved
SYMMETRY TaskSymmetry
