CONSTANTS
    KeyId = {r1}
    Req = {r1}
    Watcher = {w1}
    None = None
    Old = Old
    TTL = {None, 1}
    MaxNow = 1
    Capacity = 1
    MaxOps = 3
    Key <- MCKey
    Event <- MCEvent
    Transactions <- MCTransactions
    Imports <- MCImports
    Batches <- MCBatches
SPECIFICATION MCSpec
SYMMETRY Symmetry
CHECK_DEADLOCK FALSE
INVARIANTS TransactionAtomic
