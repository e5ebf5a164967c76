SPECIFICATION Spec
CONSTANTS
    a1 = a1
    i1 = i1
    i2 = i2
    sue = sue
    tom = tom
    rev = rev
    r1 = r1
    r2 = r2
    r3 = r3
    Users = {sue, tom, rev}
    Agreements = {a1}
    Invoices = {i1, i2}
    Requests = {r1, r2, r3}
    Sponsor = sue
    Reviewers = {rev}
    Supplier <- MCSupplier
    Of <- MCOf
    Amount = 2
    Shares = {0, 1, 2}
    MaxCrashes = 1
SYMMETRY Symmetry
CHECK_DEADLOCK FALSE
INVARIANTS DeclineIsHonoured PaysOnlyWhatWasVerified WalletHoldsAll
PROPERTY ContractKept
