SPECIFICATION FairSpec
CONSTANTS
    Target = Target
    Launcher = Launcher
    child = child
    Descendants <- MCDescendants
    Depth <- MCDepth
    Settings <- MCSettings
    None = None
INVARIANTS TypeOK NobodyLeftUnreported StatusIsTheTargets InterruptIsClean
CHECK_DEADLOCK FALSE
PROPERTY RunEnds
