SPECIFICATION FairSpec
CONSTANTS
    Reqs = {r1, r2}
    Preload = TRUE
    BatchSize = 1
    MaxVersion = 2
    MaxMats = 3
INVARIANTS
    OneActive
    VersionsGenuine
PROPERTIES
    ImplementsKeyStore
    RotationKeepsActive
    OverdueExpires
    CacheCleaned
