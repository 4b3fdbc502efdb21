SPECIFICATION FairSpec
CONSTANTS
    d1 = d1
    d2 = d2
    Sources = {d1, d2}
    NoSource = NoSource
    MaxQuestions = 2
    MaxDerived = 2
    MaxReplies = 1
    MaxSessions = 3
    MaxChats = 3
    MaxOpenings = 1
    MaxDeletions = 1
    MaxMoves = 4
INVARIANTS
    TypeOK
    OneSourcePerChat
    OneDerivedAtATime
    NothingSentAfterLeaving
PROPERTIES
    LoadingEnds
    KeysAreGivenBack
CHECK_DEADLOCK FALSE
