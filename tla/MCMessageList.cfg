SPECIFICATION FairSpec
CONSTANTS
    Messages = {m1, m2, m3}
    Payloads = {p1}
    Lists = {d1, d2}
    NULL = NULL
INVARIANTS
    TypeOK
    ListShape
    Ownership
PROPERTIES
    IterationComplete
    ImplementsQueue
    LoopsEnd
    LoopsAdvance
