SPECIFICATION LedgerSpec
CONSTANTS
    Prices = {6, 12, 18}
    Sizes = {1, 2}
    MaxFills = 4
INVARIANT PaperPnlReconciled
CHECK_DEADLOCK FALSE
