SPECIFICATION Spec
CHECK_DEADLOCK FALSE
CONSTANTS
    Request = {r1}
    Hostel = {}
    NoRequest = NoRequest
    File = {}
    NoFile = NoFile
    Tab = {t1, t2}
    Staff = {s1}
    Worker = {}
    Killable = {}
    OldDocs <- OldAll
    Cooldown = 3
    PendingTTL = 2
    MaxClock = 2
    r1 = r1
    s1 = s1
    t1 = t1
    t2 = t2
PROPERTIES
    ApprovedIsFinal
