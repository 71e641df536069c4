CONSTANTS
    c1 = c1
    c2 = c2
    c3 = c3
    Clicks = {c1, c2}
    Nowhere = Nowhere
    MaxFaults = 0
SPECIFICATION Spec
INVARIANT RacersBothSucceed
CHECK_DEADLOCK FALSE
