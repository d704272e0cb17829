\* One record of each kind, two requests at once, two deletions.
SPECIFICATION Spec
CONSTANTS
    Rows <- OneOfEach
    TableOf <- OneOfEachTable
    Items = {i1, i2}
    Requests = {t1, t2}
    Past <- TwoViews
    None = None
SYMMETRY Interchangeable
INVARIANTS
    
    BytesFollowTheRow
    
CHECK_DEADLOCK FALSE
