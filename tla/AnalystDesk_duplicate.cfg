\* Two requests to score the same transaction.
SPECIFICATION DeskSpec
CONSTANTS
    Servers = {w1, w2}
    Transactions = {t1}
    MaxVerdicts = 0
    NoEntry = NoEntry
SYMMETRY Symmetric
INVARIANT ScoredWithoutDuplicate
