SPECIFICATION Spec
CONSTANTS
    stock = stock
    note = note
    right = right
    r1 = r1
    r2 = r2
    r3 = r3
    Holdings = {stock, note, right}
    Direct = {stock, note, right}
    Settleable = {stock, note}
    Fungible = {stock}
    UnitValue <- MCUnitValue
    Start <- MCStart
    Amounts = {1, 2}
    Requests = {r1, r2, r3}
    Operations = {"pledge", "settle", "issue"}
    MaxCrashes = 1
SYMMETRY Symmetry
CHECK_DEADLOCK FALSE
INVARIANTS CoveredWhenApart ValueKept
PROPERTY EscrowKept
