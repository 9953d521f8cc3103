SPECIFICATION Spec
CONSTANTS
    Requests     = {r1, r2}
    Mxids        = {alice, bob}
    None         = None
    Main         = Main
    ManagerPort  = 1
    StartMayFail = TRUE
    MayStop      = TRUE
INVARIANT
    IInv
PROPERTIES
    StopStopsAll
    RequestsAnswered
    StopEnds
