CONSTANTS
    \* AuditChain
    Events = {1, 2, 3, 4}
    MaxTime = 1
    Limits = {1, 9}
    MaxBatches = 2
    MaxDamage = 1
    \* BranchHours
    Day = 3
    Week = 2
    LastDate = 3
    Schedules = {s1, s2}
    Specials = {h1, h2}
    Starts = {1, 2}
    Holidays = {2}
    WeeklyChoices <- MCWeekly
    SpecialChoices <- MCSpecial
    \* OrderPricing
    Lines = {1, 2, 3}
    LineAmounts = {0, 1, 5}
    Scale = 10
    TaxRules <- MCTaxRules
    \* Menu
    Variants = {v1}
    Stations = {k1}
    TaxClasses = {c1}
    Amounts = {1, 2}
    LastClock = 1
    MaxPrices = 2
    Base = Base
    None = None
    \* TaxProfiles
    Profiles = {p1, p2}
    Rates = {rate}
    MaxInstant = 1
    MaxRevision = 2
    \* LoginThrottle
    Logins = {l1, l2}
    Accounts = {x1}
    Perimeter = {ip}
    AccountLimit = 2
    PerimeterLimit = 3
    Window = 2
    Lockout = 2
    LastTick = 3
    \* MultiFactor
    Requests = {f1, f2, f3}
    MaxCredentials = 2
    \* Access
    Devices = {d1}
    Roles = {r1, r2}
    Sessions = {n1, n2}
    Arrivals = {a1}
    MaxEra = 2
    NoDevice = NoDevice
    \* Privacy
    Contacts = {o1, o2}
    Inquiries = {q1, q2}
    LastKey = 2
    NoContact = NoContact
    \* SecurityAlerts
    Happenings = {e1, e2, e3}
    LastMoment = 2
    MaxUnresolved = 1
    \* Layout
    Areas = {w1, w2}
    Tables = {t1, t2}
    NoArea = NoArea
    \* CashierRuntime
    LineIds = {1}
    MostUnits = 2
    LastRevision = 3
    QueueLength = 2
    MaxForeign = 1
    \* Commands
    Keys = {y1, y2}
    Attempts = {g1, g2, g3}
    LastVersion = 2
    NoRecord = NoRecord
    \* Availability
    Ingredients = {"flour", "egg"}
    Shelves = {"bar", "store"}
    Portion = 1
    RecipeBook <- MCRecipeBook
    Proposals <- MCProposals
    Ledgers <- MCLedgers
    LastInstant = 1
    MostOrdered = 2
    MostRecords = 1
    \* Pages
    Clicks = {b1, b2}
    LoadSlots = {z1, z2}
    LastRow = 3
    Nobody = Nobody
CONSTRAINT SmallOffice
SPECIFICATION Spec
\* every part stops when its bounds are reached
CHECK_DEADLOCK FALSE
INVARIANTS
    BackOfficeTypeOK TillAgreesWithServer TaxReconciles ActiveItemIsComplete
    TaxIsAsApproved CodesAreSpentOnce ErasedForGood EventsCountOnce
    ActiveTablesAreInActiveAreas ScreenIsBacked CommandsTakeEffectOnce QuotesAddUp
PROPERTIES
    ChainIsReliable ResolutionIsTimetable PricesStand LocksHold WithdrawnAccessStays
    DecidedOnWhatStands
