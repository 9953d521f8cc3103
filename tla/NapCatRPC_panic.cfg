SPECIFICATION Spec
CONSTANTS
    Calls    = {r1}
    Handlers = {h1}
    NoCall   = NoCall
INVARIANTS
    NeverPanics
