SPECIFICATION Spec
CONSTANTS
    File = {"even", "odd", "small"}
    Block = 3
    Size <- Mixed
    OnServer = {"odd"}
    MaxCommand = 1
INVARIANT ReceivedIsCopy
\* The user may stop typing, and either program may end.
CHECK_DEADLOCK FALSE
