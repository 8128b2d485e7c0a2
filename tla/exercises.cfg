SPECIFICATION FairExercises
CONSTANTS
    Node = {1, 2, 3}
    Root = 0
    Outside = 9
    name <- Names
    MaxDepth = 4
    MaxOdd = 3
    SomeKind <- OneDir
    SomeUp <- TwoInRoot
    Files = 2
    Modes <- FiveBits
    Letter = {"x", "y"}
    Space = {" "}
    LineEnd = "eol"
    MaxLength = 4
INVARIANT TypeOK
INVARIANT InPlace
INVARIANT EndsAsFound
INVARIANT ReportsAreRight
PROPERTY Ends
\* The programs end.
CHECK_DEADLOCK FALSE
