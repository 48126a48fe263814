\* Two workers, a hot and a cold card, a batch, the simulator and two posts.
CONSTANTS
    b = b
    s = s
    h = h
    bad = bad
    w1 = w1
    w2 = w2
    hot = hot
    cold = cold
    t1 = t1
    t2 = t2
    t3 = t3
    t4 = t4
    t5 = t5
    t6 = t6
    t7 = t7
    t8 = t8
    t9 = t9
    Txs = {t1, t2, t3, t4, t5, t6, t7, t8, t9}
    Cards = {hot, cold}
    Workers = {w1, w2}
    Batchers = {b}
    Simulators = {s}
    Posters = {h, bad}
    Invalid = {t9}
    Work <- MCWork
    CardOf <- MCCardOf
    HashOf <- MCHashOf
    Capacity <- MCCapacity
SPECIFICATION FairSpec
INVARIANTS TypeOK CardOrder AcceptedIsAPrefix StopDrains
PROPERTIES EverythingReturns KeepsPromise
\* The pool is at rest once Stop has returned.
CHECK_DEADLOCK FALSE
