SPECIFICATION CacheSpec
CONSTANTS
    Loaders = {l1, l2, l3}
    Writers = {w1, w2}
    NoEntry = NoEntry
    MaxCommits = 4
SYMMETRY Symmetry
INVARIANTS NextReplySeesTheWrite CacheMissesOnlyOpenWrites
