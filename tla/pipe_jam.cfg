SPECIFICATION Spec
CONSTANTS
    Thread = {t1, t2}
    t1 = t1
    t2 = t2
    MaxPut = 2
    Capacity = 2
    MaxOpenFailure = 0
INVARIANT NeverJammed
\* The calls of putMessage are bounded and the server may jam or die.
CHECK_DEADLOCK FALSE
