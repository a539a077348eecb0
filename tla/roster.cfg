SPECIFICATION RosterSpec
CHECK_DEADLOCK FALSE
CONSTANTS
    Student = {s1, s2, s3, s4}
    RegOf <- RegNos
    Dept = {d1, d2}
    Sem = {1, 2, 8}
    NoPlace = NoPlace
    Copy = {c1, c2}
    NoCopy = NoCopy
    StartRosters <- Rosters
    StartArchives <- Archives
    Editor = {e1, e2}
    Casts <- Separate
    Resave = TRUE
    Killable = {e1}
    s1 = s1
    s2 = s2
    s3 = s3
    s4 = s4
    d1 = d1
    d2 = d2
    c1 = c1
    c2 = c2
    e1 = e1
    e2 = e2
INVARIANTS
    RosterTypeOK
    ClassesWhole
    NobodyLost
PROPERTIES
    RestoredWhole
    PromotionAlone
