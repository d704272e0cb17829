SPECIFICATION Spec
CONSTANTS
    a = a
    b = b
    Files = {a, b}
    Images = {a}
    k1 = k1
    k2 = k2
    Items = {k1, k2}
    r1 = r1
    r2 = r2
    Requests = {r1, r2}
    Jobs = {"delete", "restore", "retain"}
    MayFail = FALSE
    MayCrash = FALSE
CHECK_DEADLOCK FALSE

    
PROPERTIES
    EveryRequestEnds
