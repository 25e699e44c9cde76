SPECIFICATION FairSpec
CONSTANTS
    Mints = {m1}
    Attempts = 3
    Ttls <- MCTtls
    DaySecs = 4
INVARIANTS
    
    RecordsTrue
PROPERTIES
    EveryMintEnds
