SPECIFICATION Spec
CONSTANTS
    Events  = {e1, e2, e3}
    c1      = c1
    c2      = c2
    Chats   = {c1, c2}
    NoKey   = NoKey
    Free    = Free
    Keys    <- MCKeys
    Buckets = {0, 1}
    hash    <- MCHash
INVARIANTS
    BucketInv
    TransmittedOnce
PROPERTIES
    Implements
    EventsHandled
