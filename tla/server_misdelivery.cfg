SPECIFICATION IdealSpec
CONSTANTS
    Conn = {1, 2, 3}
    Fd <- TwoFds
    MaxUserNum = 4
    MaxId = 3
    UserId <- DistinctIds
    MaxSend = 1
    MaxEvents = 4
INVARIANT OnlyTheAddressee
\* Every client may have come and gone.
CHECK_DEADLOCK FALSE
