SPECIFICATION AccountsSpec
CONSTANTS
    NONE = NONE KEEP = KEEP
    ann = ann bob = bob call1 = call1 call2 = call2 pay1 = pay1 pay2 = pay2
    Accounts = {ann, bob}
    Founder = ann
    Granted = {"owner", "admin"}
    OrgCalls = {call1, call2}
    Invitations = {1, 2}
    MaxOrgCalls = 4
    Tabs = {t1}
    Fetches = {call1, call2}
    MaxSessions = 3
    MaxLogins = 1
    MaxSessionFaults = 1
    MaxSessionTime = 2
    SessionTtl = 2
    AccessTtl = 1
    Environments = {"test", "live"}
    KeyIds = {key1}
    CustomerIds = {u1}
    PaymentIds = {p1}
    ProjectCalls = {call1, call2}
    Emails = {"a", "b"}
    MaxProjectCalls = 5
    Refundable = {pay1, pay2}
    Amount <- Twos
    RefundCalls = {call1, call2}
    Keys = {k}
    r1 = r1  r2 = r2  r3 = r3  r4 = r4  r5 = r5  r6 = r6  k1 = k1  k2 = k2  k3 = k3
    Requests = {r1, r2, r3}
    Slots = {k1, k2}
    SlotOf <- SameKeyPair
    PartitionOf <- Partitions
    Retention = 2
    TxTimeout = 1
    MaxTime = 4
    Routes = {pay1, pay2}
    OrganizationOf <- OneOrganization
    LogEnvironments = {NONE, "live"}
    RequestIds = {NONE, "r"}
    LastPage = 2
    MaxLogActs = 3
    ConsoleViews = {"webhooks"}
    ConsoleEnvironments = {"test", "live"}
    LastPart = 2
    MaxConsoleActs = 3
    MaxRosterActs = 2
    ListViews = {"overview", "organizations", "projects"}
    Tenants = {call1, call2}
    MaxListActs = 2
    KeyViews = {"shell", "keys"}
    KeyEnvironments = {"test", "live"}
    Issued = {call1, call2}
    MaxKeyActs = 2
SYMMETRY Swap
INVARIANTS
    CommittedCarriesResponse
    AtMostOncePerWindow
    ReplayIsFaithful
    ClaimNeverExhausted
    TrailTellsMembership
    CoalescedRefreshRaisesNoAlarm
    OneLiveSessionPerLogin
    PaymentKeepsCustomer
    NeverOverRefunded
    TableIsOneList
    SecretNotReshown
    RefundAllOrNothing
    RefusedOnlyWhenStale
    CreatedIsListed
    RevokedMeansRevoked
PROPERTIES
    ImplementsContract
    InvitationUsedOnce
    OwnerRoleOnlyFromOwners
CHECK_DEADLOCK FALSE
