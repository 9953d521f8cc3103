SPECIFICATION Spec
CONSTANTS
    Requests = {g1, g2}
    None     = None
    Torn     = Torn
INVARIANTS
    UntroubledSucceeds
    IInv
PROPERTIES
    RequestsAnswered
