SPECIFICATION FairSpec
CONSTANTS
    Conn = {1, 2, 3}
    Fd <- TwoFds
    MaxUserNum = 2
    MaxId = 1
    UserId <- UserReturns
    MaxSend = 2
    MaxEvents = 4
INVARIANT TypeOK
INVARIANT InboxInOrder
INVARIANT MisdeliveryNeedsReuse
INVARIANT DuplicateNeedsReuse
PROPERTY DispatchReachesList
PROPERTY EveryMessageSettles
PROPERTY QuitIsNoticed
\* Every client may have come and gone.
CHECK_DEADLOCK FALSE
