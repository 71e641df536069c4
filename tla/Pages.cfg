CONSTANTS
    starter = starter
    pro = pro
    Absent = Absent
    Unlimited = Unlimited
    Tiers = {starter, pro}
    TierCap <- MCTierCap
    FreeCap = 1
    Grace = 0
    Rows = {1, 2, 3, 4}
    MaxBuilds = 3
    CrmDeals = {deal1, deal2}
    MaxImports = 2
    MaxPicked = 2
    StallDays = 1
    QuietDays = 2
    LastDay = 2
    MaxOthers = 1
    MaxElsewhere = 1
    d1 = d1
    d2 = d2
    Domains = {d1, d2}
    MaxRedirects = 1
    MaxLookups = 2
    MaxMade = 1
    Plans = {starter, pro}
    MaxToggles = 2
    MaxMoves = 2
SPECIFICATION Spec
SYMMETRY PagesSymmetry
INVARIANTS
    PagesTypeOK
    SettledTabAgrees
    NothingHalfImported
    SummaryIsTrue
    OneSignal
    WallIsTrue
    SuggestionIsCurrent
    ChargedIsShown
    PagesLeadOn
CHECK_DEADLOCK FALSE
