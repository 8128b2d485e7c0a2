SPECIFICATION FairSpec
CONSTANTS
    MaxHops = 3
    Word = 32
    Pid <- ThreePids
    MaxStray = 1
    MaxCopies = 1
INVARIANT TypeOK
INVARIANT LinesInOrder
INVARIANT CleanTrace
INVARIANT OwnTimes
PROPERTY TraceEnds
\* The trace ends.
CHECK_DEADLOCK FALSE
