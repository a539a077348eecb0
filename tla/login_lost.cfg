SPECIFICATION PortalSpec
CHECK_DEADLOCK FALSE
CONSTANTS
    Student = {s1, s2}
    RegOf <- RegNos
    Dept = {d1, d2}
    Sem = {1}
    NoPlace = NoPlace
    Copy = {c1}
    NoCopy = NoCopy
    StartRosters <- Rosters
    StartArchives <- Archives
    Editor = {e1}
    Casts <- OneEach
    Resave = FALSE
    Killable = {}
    DeptId = {i1, i2, i3, i4, i5}
    NoCode = NoCode
    Gone = Gone
    StartRegisters <- Registers
    Defaults = {d1}
    Clerk = {k1, k2}
    DeskOf <- OnlyRenames
    Apart <- LoginWriters
    Visitor = {}
    Starter = {p1}
    Restarts = TRUE
    s1 = s1
    s2 = s2
    d1 = d1
    d2 = d2
    i1 = i1
    i2 = i2
    k1 = k1
    k2 = k2
    e1 = e1
PROPERTIES
    RenameKeepsLogin
