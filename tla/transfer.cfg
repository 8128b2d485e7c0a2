SPECIFICATION FairSpec
CONSTANTS
    File = {"even", "odd", "small"}
    Block = 3
    Size <- Mixed
    OnServer = {"odd", "small"}
    MaxCommand = 3
INVARIANT TypeOK
INVARIANT BlocksArrive
INVARIANT GetsStayInFrame
PROPERTY GetEnds
\* The user may stop typing, and either program may end.
CHECK_DEADLOCK FALSE
