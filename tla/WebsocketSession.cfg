SPECIFICATION Spec
CONSTANTS
    Sessions = {s1, s2, s3}
    Writers  = {w1, w2}
    None     = None
INVARIANTS
    NoSocketLeak
    WritesOnOpen
    InstalledIsServed
    IInv
PROPERTIES
    LostIsCleared
    WritersFinish
