SPECIFICATION SearchSpec
CONSTANTS
    n1 = n1
    n2 = n2
    n3 = n3
    n4 = n4
    Nodes = {n1, n2, n3, n4}
    Origin = n1
    NoSigner = nosigner
    NoAnswer = noanswer
    Links <- MCLinks
    Weight <- MCWeight
    K = 2
    MaxTtl = 3
    MaxChanges = 2
INVARIANT SignedIsProven
CHECK_DEADLOCK FALSE
