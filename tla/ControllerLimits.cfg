SPECIFICATION Spec
CONSTANTS
    Target = 1
    Launcher = Launcher
    NoPid = 0
    NoToken = NoToken
    NoReason = NoReason
    NoInst = NoInst
    Pids <- MCThree
    Tokens <- MCTokens
    MaxFollowedProcesses = 2
    MaxProcessImages = 4
    Settings <- FaultsOrCaps
INVARIANTS TypeOK CoverageSound GatedIsHandled SurvivorsReported
