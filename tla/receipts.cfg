SPECIFICATION Spec
CHECK_DEADLOCK FALSE
CONSTANTS
    Request = {r1}
    Hostel = {r1}
    NoRequest = NoRequest
    File = {f1, f2}
    NoFile = NoFile
    Tab = {t1, t2}
    Staff = {s1}
    Worker = {w1}
    Killable = {s1, w1}
    OldDocs = {}
    Cooldown = 3
    PendingTTL = 3
    MaxClock = 4
    f1 = f1
    f2 = f2
    r1 = r1
    s1 = s1
    t1 = t1
    t2 = t2
    w1 = w1
PROPERTIES
    SettledStands
    UsedReceiptKept
