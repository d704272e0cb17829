\* Two requests at a time: a note is billed twice.
SPECIFICATION Spec
CONSTANTS
    Threads = {t1, t2}
    Projects <- OneProject
    Invoices <- TwoIds
    Sources = {s1}
    Kinds = {"note"}
    Files = {f1}
    None = None
INVARIANT
    BilledOnce
CHECK_DEADLOCK FALSE
