SPECIFICATION Spec
CONSTANTS
    a = a
    b = b
    c = c
    d = d
    e = e
    None = None
    Origin = a
    Asks <- MCApart
    Review = {d}
    MaxDecisions = 2
    MaxEvents = 2
CHECK_DEADLOCK FALSE

PROPERTY AcceptanceStands
