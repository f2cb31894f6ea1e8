\* Boundaries of 2, a margin of 6 and a buffer of 12; the upload's two processes
\* end, and so may everything.
CONSTANTS
    c1 = c1
    Forms <- MCForms
    BoundaryLength = 2
    HeadLength = 2
    BufMax = 12
    Margin = 6
    Cancellers <- OneCanceller
    Retries = 2
SPECIFICATION UploadFairSpec
INVARIANTS PartsAreExact DeliveredIsExact NoTempsLeft SignalFitsFiles HandshakeIsExact
PROPERTIES UploadCompletes CgiIsAnswered
CHECK_DEADLOCK FALSE
