SPECIFICATION Spec
CONSTANTS
    Reqs = {r1}
    MaxItems = 1
    MaxIds = 1
INVARIANT AccountsOnRecord
