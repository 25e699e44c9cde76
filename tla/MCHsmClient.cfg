SPECIFICATION FairSpec
CONSTANTS
    Users = {u1}
    Wants = {0, 1, 2}
    MaxStarts = 3
INVARIANT AnsweredOnRecord
PROPERTIES
    ImplementsCall
    EveryCallEnds
    StartsWhenUnsealed
