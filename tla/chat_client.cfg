SPECIFICATION FairSpec
CONSTANTS
    File = {"odd", "even", "small"}
    Text = {"hi"}
    Peer = {"ann", "bob"}
    Block = 2
    Size <- Sizes
    OnServer = {"odd", "even"}
    MaxCommand = 3
INVARIANT TypeOK
INVARIANT InFrame
INVARIANT TransfersArrive
INVARIANT ForwardedAsTyped
INVARIANT ShownAsDelivered
PROPERTY GetEnds
PROPERTY DeliveredIsShown
PROPERTY ServerEndIsNoticed
\* The user may leave.
CHECK_DEADLOCK FALSE
