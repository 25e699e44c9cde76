SPECIFICATION Spec
CONSTANTS
    Conns = {c1, c2}
    Nonces = {n}
    Stamps = {1}
    Sub = 2
    MaxSkew = 1
    NonceTtl = 1
    Limit = 2
    Window = 1
    MaxNow = 5
    MaxAdmits = 4
    MaxCount = 3
SYMMETRY ConnSymmetry
INVARIANT WindowLimit
PROPERTY NonceSpent
