SPECIFICATION Spec
CONSTANTS
    Target = 1
    Launcher = Launcher
    NoPid = 0
    NoToken = NoToken
    NoReason = NoReason
    NoInst = NoInst
    Pids <- MCTwo
    Tokens <- MCTokens
    MaxFollowedProcesses = 2
    MaxProcessImages = 4
    Settings <- Escape
INVARIANT CoverageSound
