SPECIFICATION Spec
CONSTANTS
    Events   = {e1, e2}
    Media    = {e1}
    Requests = {q1}
    Sessions = {s1}
    Chats    = {c1}
    chatOf   <- MCChatOf
    Buckets  = {0}
    hash     <- MCHash
    None     = None
INVARIANTS
    Joined
    UndisturbedCallAnswered
    IInv
PROPERTIES
    EventsHandled
