SPECIFICATION Spec
CONSTANTS
    N = 1
    MaxBody = 1
    Cap = 1
    UpLimit = 1
    Peer <- ReqTrailers
INVARIANT EndIsHandled
