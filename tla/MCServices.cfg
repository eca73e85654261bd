CONSTANTS
    None = None Everybody = Everybody h1 = h1 h2 = h2 v1 = v1 v2 = v2
    Handlers = {h1, h2} Overlaps = {TRUE, FALSE} MaxRequests = 3 MaxTime = 2 MaxFaults = 1
    Cats = {c1} Items = {i1} BasePrices = {1, 2} MenuWrites <- WritesTried Kinds <- KindsTried
    Customers = {v1, v2} Employees = {u1, u2} Contacts = {w1, w2} StaffRoles = {k1} Points = {1, 2}
    Users = {v1, v2} Hooks = {k1} BadgeTtl = 1
    Bills <- BillsTried Profiles <- ProfilesTried Values <- ValuesTried
    ProfileTTL = 2 SettingTTL = 1 TaxWrites = 1
    Callers = {h1} Days = {v1, v2} Reports <- ReportsTried Enough = 2 ReportTTL = 1 ReportWrites = 2 MaxCalls = 2
    Amounts <- AmountsTried Periods = {1, 30} Levels <- LevelsTried Spreads = {0, 3, 48}
    Events <- EventsTried Reviewers = {v1} PageSize = 1 MaxEntries = 2 MaxReviews = 1
    MachineNames = {"order", "kot", "table", "subscription", "user", "purchase_order", "payment", "inventory", "analytics", "forecast"}
    Size = 2
    Calls = {h1, h2, u1} OrderKeys = {v1, v2} Tables = {k1} SubmitFaults = 2
    Limit <- LimitsTried LoginLimit = 1 Window = 3 AbuseThreshold = 2 RateRequests = 4 Seconds = 4
    Resources = {w1, w2} ResponseTTL = 2
    Emails = {v1, v2} Tenants = {w1, w2} States = {k1} Devices = {i1} TrustAfter = 1 AccountRequests = 4
    SystemRoles <- RolesTried MaxCrashes = 2
    RoleIds = {v1, v2, c1} MaxInheritanceDepth = 1 Rules <- RulesTried Accesses <- AccessesTried
    Restaurants = {w1, w2} Grants = {"reports.read", "menu.update", "inventory.create"} Routes <- RoutesTried
SPECIFICATION Spec
SYMMETRY Symmetry
INVARIANTS
    MenuSound
    PeopleSound
    NotificationsSound
    TaxesSound
    PipelinesSound
    FiguresSound
    AuditSound
    FleetSound
    SubmitSound
    RateLimitSound
    ResponseCacheSound
    AccountsSound
    StartupSound
    RulesSound
CHECK_DEADLOCK FALSE
