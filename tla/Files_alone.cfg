SPECIFICATION Spec
CONSTANTS
    a = a
    b = b
    Files = {a, b}
    Images = {a}
    k1 = k1
    k2 = k2
    k3 = k3
    Items = {k1, k2, k3}
    r1 = r1
    Requests = {r1}
    Jobs = {"delete", "restore", "erase", "retain", "clean up"}
    MayFail = TRUE
    MayCrash = TRUE
SYMMETRY Symmetry
CHECK_DEADLOCK FALSE
INVARIANTS
    FilesTypeOK
    FilesAreThere
    NothingLeftBehind
    
