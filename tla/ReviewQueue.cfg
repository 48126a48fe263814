\* Three cases, two of them with the same score; a store and frames of two;
\* one request, answer or stream lost.  One resolution: nothing branches on it.
CONSTANTS
    a = a
    b = b
    c = c
    confirmed_fraud = confirmed_fraud
    None = None
    Cases = {a, b, c}
    Labels = {confirmed_fraud}
    Score <- MCScore
    MaxOpen = 2
    MaxOpens = 3
    QueueInStream = 2
    MaxFrames = 1
    MaxFaults = 1
SPECIFICATION Spec
SYMMETRY MCSymmetry
INVARIANTS TypeOK OldestFirst EachOpeningLabelledOnce EachCaseShownOnce GoneStaysGone
\* Every case may be resolved and shown as such.
CHECK_DEADLOCK FALSE
