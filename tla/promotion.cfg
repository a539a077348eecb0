SPECIFICATION FairSpec
CHECK_DEADLOCK FALSE
CONSTANTS
    Student = {s1, s2, s3}
    NoStudent = NoStudent
    Dept = {d1, d2}
    AllDepts = AllDepts
    DeptOf <- Departments
    StartSems <- Rosters
    StartDues <- Dues
    Active = {}
    Promoter = {p1}
    Undoer = {u1}
    Worker = {w1, w2}
    Killable = {p1, w1}
    Faults = {"apply"}
    Slow = FALSE
    MaxRuns = 2
    s1 = s1
    s2 = s2
    s3 = s3
    d1 = d1
    d2 = d2
    p1 = p1
    u1 = u1
    w1 = w1
    w2 = w2
INVARIANTS
    TypeOK
    OneAtATime
    ClassesWhole
PROPERTIES
    UndoneIsUndone
    ImplementsContract
    Recovered
