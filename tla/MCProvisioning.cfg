SPECIFICATION FairSpec
CONSTANTS
    a = a
    b = b
    n = n
    m = m
    Reqs = {r1, r2, r3}
    Tags = {t}
    Ids = {a, b}
    Names = {n, m}
    Files <- MCFiles
    Provisioned = {a}
    Pool = 2
INVARIANTS
    CommittedWhole
    NoDuplicates
    LoadedOnRecord
PROPERTIES
    ImplementsCatalogue
    EveryRequestEnds
