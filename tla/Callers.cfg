CONSTANTS
    a1 = a1
    a2 = a2
    b1 = b1
    b2 = b2
    GlobalDaily = 3
    DefaultDaily = 2
    DailyFloor = 3
    DailyCeiling = 3
    HourlyFloor = 2
    HourlyCeiling = 2
    TargetLimit = 1
    Hour = 2
    Day = 3
    Calls = {a1, a2}
    MaxCodes = 3
    MaxArrivals = 3
    MaxClock = 2
    MaxTrouble = 1
    MaxWait = 1
    Ttl = 2
    Cooldown = 1
    MaxAttempts = 2
    AttemptCap = 2
    InviteCap = 2
    Steps = {1, 2}
    RoomCalls = {a1, a2}
    MaxRoomCalls = 3
    Buyers = {"buyer"}
    Links = {1, 2}
    CrmCalls = {a1, a2}
    Instances = {b1, b2}
    MaxTokens = 3
    MaxCrmCalls = 2
    Mailboxes = {a1, a2}
    Signups = {b1, b2}
    Browsers = {1}
    ResetTabs = {1}
    MaxLinks = 2
SPECIFICATION Spec
SYMMETRY CallerSymmetry
INVARIANTS
    CallersTypeOK
    OneSessionPerCode
    GuessBudget
    LiveCodesAreRead
    NeverOvercharged
    CompletionLoggedOnce
    UrgedIsCompletable
    SampleStaysOwn
    StoredTokenWorks
    CleanDisconnect
    OneTenantEach
    PasswordNeedsRecovery
PROPERTIES
    CompletionIsTheBuyers
    ClosedDealIsKept
CHECK_DEADLOCK FALSE
