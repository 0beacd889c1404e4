SPECIFICATION FairSpec
CONSTANTS
    Checked <- Programs
    Host = {"a", "b"}
    MaxReq = 2
    Requests <- MCRequests
    Responses <- MCResponses
    Cap = 1
    Peer = {"info"}
INVARIANTS ExchangeInv Paired CutIsVisible RightOrigin AnalyzedInOrder CutCaptureIsTold
PROPERTIES CloseIsHonoured EveryRequestSettles
