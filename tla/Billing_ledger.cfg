SPECIFICATION Spec
CONSTANTS
    p1 = p1
    p2 = p2
    Invoices = {1, 2}
    Payments = {p1, p2}
    Projects = {"j1"}
    Customers = {"c1"}
    Totals = {2}
    Discounts = {0}
    Money = {0, 1, 2}
    StatusEdits = {"paid", "cancelled"}
    AdvanceEdits = {0}
    RawAmounts = {1}
    RawSubtotals = {}
    RawPaidAt = {}
    LedgerFloor = 1
SYMMETRY PaymentSymmetry
CHECK_DEADLOCK FALSE
INVARIANTS
    TypeOK
    
    SharesWithinPayment
    CancelledHoldsNoShare
