\* Two workers, three transactions, a ring of two, a ticker and a scrape.
CONSTANTS
    w1 = w1
    w2 = w2
    Workers = {w1, w2}
    Bounds <- MCBounds
    Samples <- MCSamples
    RingSize = 2
    Trickle = 2
    MaxScored = 3
SPECIFICATION Spec
SYMMETRY MCSymmetry
INVARIANTS TypeOK ScrapeAgrees DecisionsAreExplained RatesAddUp FeedIsTrue QuantileIsRank
