SPECIFICATION Spec
CONSTANT Writers = {w1, w2, w3}
INVARIANT NoFork
CHECK_DEADLOCK FALSE
