\* Two processes, one partition of one record, two faults and two orderly moves.
CONSTANTS
    c1 = c1
    c2 = c2
    p1 = p1
    p2 = p2
    None = None
    Consumers = {c1, c2}
    Partitions = {p1}
    Undecodable <- FirstIsPoison
    MaxLog = 1
    MaxFaults = 2
    MaxMoves = 2
SPECIFICATION FairSpec
PROPERTIES EveryRecordHandled
\* The group may come to rest: every record read, every budget spent.
CHECK_DEADLOCK FALSE
