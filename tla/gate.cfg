SPECIFICATION FairCountedSpec
CONSTANTS
    Browser = {b1, b2}
    Password = {p1, p2}
    NoPassword = none
    b1 = b1
    b2 = b2
    p1 = p1
    p2 = p2
    none = none
    MaxFailures = 2
    MaxAttempts = 2
    MaxSends = 2
    MaxResets = 1
    Casts <- Stories
INVARIANT TypeOK
INVARIANT LockEarned
INVARIANT CodesLimited
PROPERTY OldPasswordOut
PROPERTY SetupOnce
PROPERTY AccessEnds
CHECK_DEADLOCK FALSE
