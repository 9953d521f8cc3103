SPECIFICATION Spec
CONSTANTS
    Requests  = {r1, r2}
    Inputs    <- MCInputs
    Users     = {"1", "2", "3"}
    Friends   <- MCFriends
    members   <- MCMembers
    Sizes     = 2
    real      <- MCReal
    CacheSize = 2
INVARIANTS
    AnswerFits
    BestAvatar
PROPERTIES
    OnlyDownloadsHang
