SPECIFICATION Spec
CONSTANTS
    Pids <- MCThree
    Tokens = {t1, t2}
    NoPid = 0
    NoToken = noToken
    NoReason = noReason
    MaxFollowedProcesses = 2
    MaxProcessImages = 2
    SeenStatuses = {"ACTIVE", "DETECTED_UNSUPPORTED", "FAILED"}
    SeenReasons = {"lost"}
    MaxOmitted = 1
    MaxGeneration = 2
SYMMETRY MCTokenSymmetry
INVARIANTS TypeOK CapsHold AncestryFollowed ImagesAccounted ActiveMeansCovered
PROPERTY HistoryKept
CHECK_DEADLOCK FALSE
