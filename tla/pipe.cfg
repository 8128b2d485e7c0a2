SPECIFICATION FairSpec
CONSTANTS
    Thread = {t1, t2, t3}
    t1 = t1
    t2 = t2
    t3 = t3
    MaxPut = 2
    Capacity = 2
    MaxOpenFailure = 1
INVARIANT TypeOK
INVARIANT LockExclusive
INVARIANT NeverEndOfFile
INVARIANT PerSenderOrder
PROPERTY IsLossyPoll
PROPERTY EveryPutSettles
\* The calls of putMessage are bounded and the server may jam or die.
CHECK_DEADLOCK FALSE
