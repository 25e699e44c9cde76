SPECIFICATION FairSpec
CONSTANTS
    Reqs = {r1, r2}
    MaxItems = 2
    MaxIds = 2
INVARIANTS
    LiveHasAccount
    AnswerOnRecord
    OnlyActiveStored
PROPERTIES
    CommitSupersedes
    RevokedByReplacement
    ImplementsRegister
    EveryIssueEnds
