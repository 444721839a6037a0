SPECIFICATION FairSpec
CONSTANTS
    Clients = {c1}
    Ids = {i1, i2}
    Vals = {strange, odd, bad}
    Reported = {strange}
    Noted = {strange}
    Rejected = {bad}
    Absent = Absent
    Dump = Dump
    Nothing = Nothing
    MaxMoments = 3
CONSTRAINT FewMoments
INVARIANTS
    TypeOK
    SnapshotDump
    NothingLeaks
    ErrorReported
PROPERTIES
    EveryCallReturns
