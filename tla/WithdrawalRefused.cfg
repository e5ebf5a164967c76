SPECIFICATION AccountSpec
CONSTANT MaxTraces = 2
INVARIANT Withdrawal
CHECK_DEADLOCK FALSE
