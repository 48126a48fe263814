\* Two processes, one partition of two records, two faults and two orderly moves.
CONSTANTS
    c1 = c1
    c2 = c2
    p1 = p1
    p2 = p2
    None = None
    Consumers = {c1, c2}
    Partitions = {p1}
    Undecodable <- FirstIsPoison
    MaxLog = 2
    MaxFaults = 2
    MaxMoves = 2
SPECIFICATION Spec
SYMMETRY ConsumerSymmetry
INVARIANTS TypeOK AtLeastOnce PoisonParked NoReplayWithoutFault LagIsOwnBacklog
PROPERTIES StopsCommittingForGood KeepsPromise
\* The group may come to rest: every record read, every budget spent.
CHECK_DEADLOCK FALSE
