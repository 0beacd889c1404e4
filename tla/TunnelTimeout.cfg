SPECIFICATION Spec
CONSTANTS
    Variants = {"tunnel"}
    MaxSend <- MCFew
    Window = 2
    Peer = {}
    HalfOpen = {"tunnel"}
PROPERTY OnlyIdleConnectionsTimeOut
