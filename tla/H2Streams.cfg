SPECIFICATION Spec
CONSTANTS
    N = 2
    MaxBody = 1
    Cap = 1
    UpLimit = 1
    Peer <- TwoStreams
INVARIANTS PassingInv NoCrossTalk AbortsPropagate
