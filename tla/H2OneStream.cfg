SPECIFICATION FairSpec
CONSTANTS
    N = 1
    MaxBody = 2
    Cap = 1
    UpLimit = 1
    Peer <- OneStream
INVARIANTS NoLostWakeup StreamMapsAgree CompleteRequest CompleteResponse AnalyzedOnce OwesNothing
PROPERTIES SettledIsFinal ResponsesArrive RequestsArrive
