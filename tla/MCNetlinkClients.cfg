SPECIFICATION Spec
CONSTANTS
    Clients = {c1, c2}
    Ids = {i1, i2}
    Vals = {good}
    Reported = {good}
    Noted = {}
    Rejected = {}
    Absent = Absent
    Dump = Dump
    Nothing = Nothing
    MaxMoments = 2
SYMMETRY Symmetry
CONSTRAINT FewMoments
INVARIANTS
    AcknowledgedChange
PROPERTIES
    ImplementsAtomic
