SPECIFICATION LiveSpec
CONSTANTS
    a = a
    b = b
    c = c
    d = d
    e = e
    None = None
    Origin = a
    Asks <- MCAsks
    Review = {d}
    MaxDecisions = 2
    MaxEvents = 2
CHECK_DEADLOCK FALSE
INVARIANTS TypeOK OneRowPerNode ContactByConsent AskerByCommitment

PROPERTIES AnswerArrives RefusalArrives CommitmentArrives
