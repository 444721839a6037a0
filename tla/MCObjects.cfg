SPECIFICATION ObjSpec
CONSTANTS
    Slots = {a1, a2}
    Ips = {x, y}
    Lens = {24}
    Prefixes = {"24"}
    Tables = {"main", "t1"}
    Labels = {l1}
    Cells = {c1, c2, c3}
    CloneNamed = FALSE
    Ids = {}
    Mtus = {m}
    IfFlags = {up, noarp}
    Ports = {"80"}
    MaxStored = 2
    NoBus = NoBus
    NULL = NULL
SYMMETRY Symmetry
INVARIANTS
    ObjTypeOK
    LabelsOwned
    DumpedAsRequested
    RouteReadBack
    RouteFound
    RuleNamesOwned
    RuleReadBack
    LinkFlagsAsAsked
    PolicyPorts
    PolicyReadBack
    PolicyFound
    PayloadsTyped
PROPERTIES
    AddrsAreValues
    RulesAreValues
