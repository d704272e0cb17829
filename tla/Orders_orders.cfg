\* One request at a time, one source of either kind.
SPECIFICATION Spec
CONSTANTS
    Threads = {t1}
    Projects <- OneProject
    Invoices <- TwoIds
    Sources = {s1}
    Kinds = {"note", "quotation", "job"}
    Files = {f1}
    None = None
INVARIANTS
    BilledOnce
    
    LinksAgree
    
CHECK_DEADLOCK FALSE
