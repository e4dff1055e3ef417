SPECIFICATION Spec
CONSTANTS
    s1 = s1
    s2 = s2
    m1 = m1
    m2 = m2
    t1 = t1
    t2 = t2
    r1 = r1
    r2 = r2
    null = null
    Statements <- MCTwo
    Sources = {m1, m2}
    Threads = {t1, t2}
    Reports <- MCReports
    Measured <- MCMeasured
    Numbers <- MCShort
    Window = 1
    MaxEvents = 6
SYMMETRY MCSymmetry
INVARIANTS TypeOK EmittedOnce NothingInvented ConflictsSurface ConclusiveIsComplete
PROPERTY NothingDisputedEmitted
CHECK_DEADLOCK FALSE
