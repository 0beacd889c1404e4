SPECIFICATION Spec
CONSTANTS
    Checked = {"v2", "v3", "v4", "planA", "planB", "pureM2", "noMitm", "mitmPure", "engine"}
    Messages <- MCMessages
    Chunk = 5
    MaxHead = 9
    Cap = 2
    LengthOf <- MCLengthOf
    SizeOf <- MCSizeOf
INVARIANTS ReaderInv BodyIntact NeverGuesses BufferBounded CaptureIsBody TunnelFromTheFirstByte
