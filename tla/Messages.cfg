SPECIFICATION Spec
CONSTANTS
    Frames   <- MCFrames
    Outgoing <- MCOutgoing
    prefix   <- MCPrefix
    NoFrame  = NoFrame
INVARIANTS
    NothingUntold
    KeyIsChat
    GivesUpLast
    SentIsUnderstood
