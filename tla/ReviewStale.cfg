\* One case, resolved once; nothing is lost.
CONSTANTS
    a = a
    b = b
    c = c
    confirmed_fraud = confirmed_fraud
    None = None
    Cases = {a}
    Labels = {confirmed_fraud}
    Score <- MCScore
    MaxOpen = 1
    MaxOpens = 1
    QueueInStream = 1
    MaxFrames = 1
    MaxFaults = 0
SPECIFICATION Spec
PROPERTIES ResumeBringsNothingBack
CHECK_DEADLOCK FALSE
