SPECIFICATION ConcurrentSpec
CONSTANTS
    Invoices = {1, 2}
    p1 = p1
    p2 = p2
    Payments = {p1, p2}
    Projects = {"j1"}
    Customers = {"c1"}
    Totals = {2}
    Discounts = {0}
    Money = {0, 1, 2}
    StatusEdits = {"cancelled"}
    AdvanceEdits = {}
    RawAmounts = {}
    RawSubtotals = {}
    RawPaidAt = {}
    LedgerFloor = 0
    r1 = r1
    r2 = r2
    Requests = {r1, r2}
    Jobs <- AllJobs
    MayDie = TRUE
    Total = 2
    Worth = 2
CHECK_DEADLOCK FALSE

    
PROPERTIES
    EveryRequestEnds
