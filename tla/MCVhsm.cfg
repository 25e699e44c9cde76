SPECIFICATION FairSpec
CONSTANTS
    Conns = {c1, c2, c3}
    Tags = {t1, t2}
    MaxPermits = 2
    Threshold = 3
    TotalShares = 3
    MaxKeys = 2
    MaxSecrets = 1
INVARIANTS
    SealCoherent
    InFlight
    OnlyInstalledKeys
    CaKeyProvenance
    PermitsConserved
PROPERTIES
    ImplementsVault
    EveryTaskEnds
