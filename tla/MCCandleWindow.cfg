SPECIFICATION Spec
CONSTANTS
    risk = risk
    scanner = scanner
    Callers = {risk, scanner}
    Window <- Windows
    Trading <- TwoWeeks
    LastDay = 9
    MaxLag = 1
    LookbackDays = 4
INVARIANTS
    WindowComplete
CHECK_DEADLOCK FALSE
