SPECIFICATION FairSpec
CONSTANTS
    Variants = {"v1", "pure", "tunnel", "blind"}
    MaxSend <- MCMaxSend
    Window = 2
    Peer = {"reset"}
    HalfOpen = {"tunnel"}
INVARIANTS RelayInv BytesInOrder
PROPERTIES ImplementsPipe EveryByteArrives SessionEnds
