\* Two workers, unthrottled, paced below one per tick, and at two per tick.
CONSTANTS
    g1 = g1
    g2 = g2
    None = None
    Workers = {g1, g2}
    Rates = {0, 10, 80}
    BatchSize = 2
    MaxSends = 2
SPECIFICATION FairSpec
INVARIANTS ReportIsTrue
PROPERTIES ReportComes
\* Every worker has its sends, and a run ends.
CHECK_DEADLOCK FALSE
