SPECIFICATION FairSpec
CONSTANTS
    Variants = {"v1"}
    MaxSend <- MCFew
    Window = 1
    Peer = {}
    HalfOpen = {"v1"}
PROPERTY SessionEnds
