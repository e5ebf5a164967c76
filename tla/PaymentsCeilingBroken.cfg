SPECIFICATION Spec
CONSTANTS
    m1 = m1
    ann = ann
    bob = bob
    r1 = r1
    r2 = r2
    r3 = r3
    Mandates = {m1}
    Requests = {r1, r2}
    Users = {ann, bob}
    Amounts = {2}
    Granter <- MCGranter
    MaxPerPayment <- MCPerPayment
    MaxTotal <- MCTotal
    Opening <- MCOpening
    Purse = 4
    MaxCrashes = 0
INVARIANT Ceiling
