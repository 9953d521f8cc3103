SPECIFICATION Spec
CONSTANTS
    Requests     = {r1}
    Mxids        = {alice}
    None         = None
    Main         = Main
    ManagerPort  = 1
    StartMayFail = TRUE
    MayStop      = TRUE
PROPERTIES
    ConnectGivesUp
