CONSTANTS
    c1 = c1
    c2 = c2
    c3 = c3
    Clicks = {c1, c2, c3}
    Nowhere = Nowhere
    MaxFaults = 2
SPECIFICATION FairSpec
INVARIANTS TypeOK OneSample AllOrNothing
PROPERTY ShownSettles
CHECK_DEADLOCK FALSE
