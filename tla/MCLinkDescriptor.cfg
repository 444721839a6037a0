SPECIFICATION Spec
CONSTANTS
    Procs = {p, q}
    Names = {n1, n2}
    TunTypes = {"tun"}
    MaxIndex = 2
    NULL = NULL
SYMMETRY Symmetry
INVARIANTS
    DescriptorControls
