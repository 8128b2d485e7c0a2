SPECIFICATION OneProcess
CONSTANTS
    Fd <- TwoFds
    MaxUserNum = 2
    MaxId = 1
    MaxAttach = 8
INVARIANT UniqueIdsSuffice
\* The process may die, and there is no other.
CHECK_DEADLOCK FALSE
