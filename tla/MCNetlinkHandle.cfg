SPECIFICATION FairSpec
CONSTANTS
    SeqLimit = 3
    QueueLimit = 2
    MaxEvents = 2
    MaxSends = 2
    Nothing = Nothing
INVARIANTS
    TypeOK
    GapsReported
    RightAnswer
PROPERTIES
    EventuallyTold
    HandleIsFeed
