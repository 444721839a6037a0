SPECIFICATION RuleSpec
CONSTANTS
    Slots = {a1, a2}
    Ips = {x}
    Prefixes = {"24"}
    Labels = {l1}
    Cells = {c1, c2}
    CloneNamed = TRUE
    NULL = NULL
INVARIANTS
    RuleNamesOwned
