SPECIFICATION Spec
CONSTANTS
    t1 = t1
    t2 = t2
    p1 = p1
    p2 = p2
    whole = whole
    lame = lame
    unscanned = unscanned
    Null = Null
    Threads <- MCThreads
    Pointers <- MCPointers
    Modules <- MCModules
    Hooked <- MCHooked
    Readable <- MCReadable
    Settings <- MCSettings
    Wrap = 4
    MaxUnknown = 1
    MaxNumber = 6
    Texts <- MCTexts
    Configs <- MCConfigs
    Window = 1
SYMMETRY MCSymmetry
INVARIANTS TypeOK ReportIsTrue VerdictIsTrue JudgedWhenOrderly DoctorSound DoctorSucceeds
CHECK_DEADLOCK FALSE
