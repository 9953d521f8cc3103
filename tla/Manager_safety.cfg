SPECIFICATION Spec
CONSTANTS
    Requests     = {r1, r2, r3}
    Mxids        = {alice, bob}
    None         = None
    Main         = Main
    ManagerPort  = 1
    StartMayFail = TRUE
    MayStop      = FALSE
SYMMETRY Symmetry
INVARIANTS
    OneInstancePerClient
    WebUIWhileStarting
    NoOrphan
    DisconnectStops
