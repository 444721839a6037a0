SPECIFICATION LinkSpec
CONSTANTS
    Slots = {a1}
    Ips = {x}
    Prefixes = {"24"}
    Labels = {l1}
    Cells = {c1}
    Ids = {i, j}
    Mtus = {m}
    IfFlags = {up}
    NULL = NULL
SYMMETRY LinkSymmetry
INVARIANTS
    LinkInfoOwn
    LinkReadBack
