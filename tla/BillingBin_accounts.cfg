SPECIFICATION BinSpec
CONSTANTS
    p1 = p1
    Invoices = {1, 2}
    Payments = {p1}
    Projects = {"j1", "j2"}
    Customers = {"c1", "c2"}
    Totals = {1, 2}
    Discounts = {0, 2}
    Money = {0, 1, 2}
    StatusEdits = {"cancelled"}
    AdvanceEdits = {}
    RawAmounts = {}
    RawSubtotals = {}
    RawPaidAt = {}
    LedgerFloor = 0
CHECK_DEADLOCK FALSE
INVARIANTS
    AmountFollowsItems
    AdvanceWithinAmount
    HistoryMatchesAdvance
    PaidMeansSettled
    
    StatementsReconcile
    BinnedPaymentHoldsNothing
PROPERTIES
    PromiseKept
    ClosedStaysClosed
    OverUseOnlyByRestore
