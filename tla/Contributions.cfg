SPECIFICATION Spec
CONSTANTS
    c1 = c1
    c2 = c2
    con = con
    d1 = d1
    d2 = d2
    d3 = d3
    Offers = {c1, c2}
    Contributor <- MCContributor
    Wants <- MCWants
    Values = {1, 2}
    Decisions = {d1, d2, d3}
    MaxCrashes = 1
SYMMETRY Symmetry
INVARIANTS EarnsAtMostOnce AcceptedIsIssued
PROPERTY DecisionIsFinal
