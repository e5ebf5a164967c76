SPECIFICATION Spec
CONSTANTS
    stock = stock
    note = note
    right = right
    r1 = r1
    r2 = r2
    r3 = r3
    Holdings = {stock, note}
    Direct = {stock, note}
    Settleable = {stock, note}
    Fungible = {stock}
    UnitValue <- MCUnitValue
    Start <- MCStart
    Amounts = {2}
    Requests = {r1, r2}
    Operations = {"pledge"}
    MaxCrashes = 0
SYMMETRY Symmetry
CHECK_DEADLOCK FALSE
INVARIANT PledgeCovered
