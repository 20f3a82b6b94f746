CONSTANTS
    Txs = {t1, t2}
    Readings = {p, q}
    MaxTime = 3
    MaxRemovals = 1
SPECIFICATION WatchSpec
SYMMETRY WatchSymmetry
INVARIANT NoSurvivingRow
