\* Three requests over one receipt, two transactions at a time.
CONSTANTS
    r1 = r1
    r2 = r2
    r3 = r3
    e1 = e1
    e2 = e2
    w1 = w1
    w2 = w2
    None = None
    Requests = {r1, r2, r3}
    Entries = {e1}
    Workers = {w1, w2}
    Cash = {r3}
    Amount <- Amounts
    EntryAmount <- EntryAmounts
    Opening <- InDebt
    MaxSpent = 1
    MaxIncome = 0
    Operations <- Everything
SPECIFICATION Spec
SYMMETRY WorkerSymmetry
INVARIANTS
    TypeOK
    BalanceExplained
    CreditedOnce
    MatchedIsFunded
PROPERTIES
    ConfirmedIsFinal
    NeverBelow
    OldestFirst
CHECK_DEADLOCK FALSE
