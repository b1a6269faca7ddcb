SPECIFICATION Spec
CONSTANTS
    Keypads = {"h1", "h2"}
    Inputs = {"", "1", "2", "3", "4", "66000001", "66000002", "123456"}
    Recipients = {"66000001", "66000002"}
    Amounts = {"1", "2", "3", "66000001", "123456"}
    Otps = {"123456"}
    UssdSettings <- MCUssdSettings

    Consumers = {"c1", "c2"}   Officers = {"o1", "o2"}   NoEvent = NoEvent
    FinancialEvents <- MCFinancialEvents
    WalletsOf <- MCWalletsOf
    AmlSettings <- MCAmlSettings

    KycFiles = {"f1", "f2"}   NoFile = "none"   Clerks = {"c1", "c2"}
    KycSettings <- MCKycSettings

    Workers = {"w1", "w2"}   NoticeRows = 2   MaxAttempts = 4
    Types = {"TRANSACTION", "SYSTEM"}
    Messages <- MCMessages
    NotificationSettings <- MCNotificationSettings

    Phones = {"p"}   Handlers = {"h1", "h2"}   NoRequest = NoRequest   LockoutAfter = 3
    AuthRequests <- MCAuthRequests
    AuthSettings <- MCAuthSettings

    PaymentRows = 2   Keys = {"k1", "k2"}   NoKey = "no"   Customers = {"c1", "c2", "c3"}
    MaxPinFailures = 2   MaxTimers = 2
    PaymentSettings <- MCPaymentSettings

    Endpoints = {"h1", "h2"}   HookEvents = {"e1", "e2"}   AttemptRows = 3
    Wants <- MCWants
    HookSettings <- MCHookSettings

    Shops = {"m1", "m2"}   ConsoleCalls = {"c1", "c2"}
    ConsoleSettings <- MCConsoleSettings

    Users = {"u1", "u2"}   Batches = {"b1", "b2"}   MaxLines = 2
    BulkSettings <- MCBulkSettings

    Merchants = {"m1", "m2", "m3"}
    SchemaSettings <- MCSchemaSettings

    Fold <- MCFold
    Lists <- MCLists
    ScreeningSettings <- MCScreeningSettings

    Wallets = {"w1", "w2", "w3"}   Amount = 3
    AuditSettings <- MCAuditSettings

    FormKeys = {"k"}   PaymentSlots = {"s1", "s2"}   MaxPolls = 2   PageLimit = 25   RecentLimit = 1
    PagesSettings <- MCPagesSettings

    PageHooks = {1, 2, 3}   EventTypes = {"e1"}   HookSlots = {"s1", "s2"}
    MaxHooks = 2   AttemptLimit = 1
    HookPageSettings <- MCHookPageSettings

    Members = {"m1", "m2"}   WebSlots = {1, 2}   SignIns = 2
    RolesOf <- MCRolesOf
    WebSettings <- MCWebSettings

    TryTimes = {0, 8, 48}   Downtimes = {10, 400}
    SignatureSettings <- MCSignatureSettings
INVARIANT
    FreezeIsHeeded
