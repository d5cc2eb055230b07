CONSTANTS
    w1 = w1
    d1 = d1
    d2 = d2
    d3 = d3
    Drawers = {w1}
    Depositors = {d1, d2, d3}
    Amount = 8
    Calls = 3
SPECIFICATION BankFairSpec
INVARIANTS BankTypeOK NoMutualWait
PROPERTIES TakesTurns Rests
