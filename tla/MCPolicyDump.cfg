SPECIFICATION PolicySpec
CONSTANTS
    Slots = {a1}
    Ips = {x}
    Prefixes = {}
    Labels = {}
    Cells = {}
    Ports = {"80"}
    NULL = NULL
INVARIANTS
    PolicyDumped
