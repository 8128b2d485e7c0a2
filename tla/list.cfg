SPECIFICATION FairSpec
CONSTANTS
    Fd <- TwoFds
    MaxUserNum = 2
    MaxId = 2
    MaxAttach = 4
INVARIANT TypeOK
INVARIANT QuietRegistrationStays
PROPERTY IsTable
PROPERTY ConnReturns
