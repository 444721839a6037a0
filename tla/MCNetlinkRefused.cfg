SPECIFICATION Spec
CONSTANTS
    Clients = {c1}
    Ids = {i1}
    Vals = {good}
    Reported = {good}
    Noted = {}
    Rejected = {}
    Absent = Absent
    Dump = Dump
    Nothing = Nothing
    MaxMoments = 2
CONSTRAINT FewMoments
PROPERTIES
    RefusalNamed
