SPECIFICATION Spec
CHECK_DEADLOCK FALSE
CONSTANTS
    Request = {r1}
    Hostel = {r1}
    NoRequest = NoRequest
    File = {f1}
    NoFile = NoFile
    Tab = {t1}
    Staff = {s1, s2}
    Worker = {w1}
    Killable = {}
    OldDocs = {}
    Cooldown = 3
    PendingTTL = 2
    MaxClock = 2
    f1 = f1
    r1 = r1
    s1 = s1
    s2 = s2
    t1 = t1
    w1 = w1
INVARIANTS
    ApprovedKeepsReceipt
