\* Two of everything that can overlap.
SPECIFICATION Spec
CONSTANTS
    Uploads = {u1, u2}
    TotalChunks = 2
    Uploaders = {t1, t2}
    Nobody = Nobody
    Readers = {r1, r2}
    Writers = {w1}
    CacheTTL = 2
    Pieces = {f1, f2}
    Downloads = {d1, d2}
    Sessions = {s1, s2}
    Settings = {x, y}
    MaxEntries = 4
    Unset = Unset
    Admins = {a1, a2}
    Visitors = {v1, v2}
    Dumps = {b1, b2, b3}
    Scripts = {p1, p2}
    KeepDays = 2
    Clients = {c1, c2}
    MinutesKept = 2
    LastMinute = 4
    MaxCounted = 3
    ScanJobs = {j1, j2}
INVARIANTS
    
    NoStaleReads
    LinksKeepTheirWord
    NeverWithoutABackup
    HealthIsTrue

    
    
CHECK_DEADLOCK FALSE
