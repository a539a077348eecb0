SPECIFICATION Spec
CHECK_DEADLOCK FALSE
CONSTANTS
    Student = {s1, s2}
    NoStudent = NoStudent
    Dept = {d1, d2}
    AllDepts = AllDepts
    DeptOf <- Departments
    StartSems <- OneClass
    StartDues <- Dues
    Active = {s1}
    Promoter = {p1}
    Undoer = {u1}
    Worker = {}
    Killable = {p1}
    Faults = {"restore"}
    Slow = FALSE
    MaxRuns = 2
    s1 = s1
    s2 = s2
    s3 = s3
    d1 = d1
    d2 = d2
    p1 = p1
    u1 = u1
PROPERTIES
    OnlyJournalledMoves
