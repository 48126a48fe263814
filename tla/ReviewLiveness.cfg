\* Two cases with the same score, so that List may answer in either order.
CONSTANTS
    a = a
    b = b
    c = c
    confirmed_fraud = confirmed_fraud
    None = None
    Cases = {b, c}
    Labels = {confirmed_fraud}
    Score <- MCScore
    MaxOpen = 2
    MaxOpens = 3
    QueueInStream = 2
    MaxFrames = 1
    MaxFaults = 1
SPECIFICATION FairSpec
PROPERTIES RowsConverge
\* Every case may be resolved and shown as such.
CHECK_DEADLOCK FALSE
