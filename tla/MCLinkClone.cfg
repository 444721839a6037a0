SPECIFICATION LinkSpec
CONSTANTS
    Slots = {a1}
    Ips = {x}
    Prefixes = {"24"}
    Labels = {l1}
    Cells = {c1}
    Ids = {i}
    Mtus = {m}
    IfFlags = {up, noarp}
    NULL = NULL
INVARIANTS
    LinkFiltered
