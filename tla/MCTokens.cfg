CONSTANTS
    Letters <- MCLetters
    Sep <- MCSep
    Fold <- MCFold
    Sources <- MCSources
    MaxTokens = 2
    MaxLength = 3
SPECIFICATION Spec
INVARIANTS
    TypeOK
    ReadsTheTokens
    FallsBackOnlyWithoutTags
    PlainTagsAreStored
CHECK_DEADLOCK FALSE
