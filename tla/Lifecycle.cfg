\* Three requests to the simulator, a post and the consumer; one slot.
CONSTANTS
    r1 = r1
    r2 = r2
    r3 = r3
    post = post
    Main = Main
    None = None
    Requests = {r1, r2, r3}
    Posts = {post}
    Rates = {0, 1, 2}
    Capacity = 1
    MaxBatch = 2
SPECIFICATION Spec
SYMMETRY RequestSymmetry
INVARIANTS TypeOK OneSimulatorAtItsRate ReportedTruthfully NoPanicUnlessTimedOut
PROPERTIES ExpiryStopsItsOwn
\* The process ends.
CHECK_DEADLOCK FALSE
