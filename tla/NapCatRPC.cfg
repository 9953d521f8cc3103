SPECIFICATION Spec
CONSTANTS
    Calls    = {r1, r2}
    Handlers = {h1, h2}
    NoCall   = NoCall
INVARIANTS
    OwnResponse
    WaiterTableExact
    IInv
PROPERTIES
    Implements
    LateLookupIsDropped
    CallsReturn
    HandlersFinish
