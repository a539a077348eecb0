SPECIFICATION FairCountedSpec
CHECK_DEADLOCK FALSE
CONSTANTS
    Request = {r1}
    Hostel = {}
    NoRequest = NoRequest
    File = {}
    NoFile = NoFile
    Tab = {t1, t2}
    Staff = {s1, s2}
    Worker = {w1}
    Killable = {t1, s1, w1}
    OldDocs <- OldAll
    Cooldown = 3
    PendingTTL = 2
    MaxClock = 6
    r1 = r1
    s1 = s1
    s2 = s2
    t1 = t1
    t2 = t2
    w1 = w1
INVARIANTS
    TypeOK
    PauseClosesRequest
    InductiveInvariant
    PauseEarned
PROPERTIES
    PauseServed
    OnlyRejectionUsesAttempt
    ImplementsContract
    UnansweredEnds
    PauseEnds
