\* Two requests to the simulator, and the consumer; one slot.
CONSTANTS
    r1 = r1
    r2 = r2
    r3 = r3
    post = post
    Main = Main
    None = None
    Requests = {r1, r2}
    Posts = {}
    Rates = {0, 1}
    Capacity = 1
    MaxBatch = 1
SPECIFICATION FairSpec
PROPERTIES ShutdownEnds SwitchingEnds
\* The process ends.
CHECK_DEADLOCK FALSE
