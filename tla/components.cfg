SPECIFICATION Spec
CHECK_DEADLOCK FALSE
CONSTANTS
    c1 = c1
    c2 = c2
    i1 = i1
    i2 = i2
    b1 = b1
    b2 = b2
    u1 = u1
    u2 = u2
    u3 = u3
    s1 = s1
    s2 = s2
    Session = {s1, s2}
    Targets <- MCTargets
    Data = {"shared_key", "long_cursor", "foreign_link"}
    Leaves = {"documents", "customers", "draft_actions", "payment_allocations", "notification_actions",
              "payment_rules", "prediction_records", "automation_decisions", "portfolio_sessions",
              "llm_usage_events"}
    Late = {"documents", "blockers"}
    Files <- MCFiles
    Contents = {"clean", "infected"}
    Infected = {"infected"}
    Starts = {"IMPORTED", "PAID"}
    Statuses = {"PAID", "DISPUTED", "OVERDUE"}
    MaxSignals = 4
    Users = {u1, u2, u3}
    Customers = {c1}
    RuleIds = {1, 2}
    Days = {1, 2, 3}
    Drafts <- MCDrafts
    Definitions <- MCDefinitions
    Pages <- MCPages
    MaxAttempts = 3
    MaxMessages = 6
    PageSize = 2
    Bucket = 5
    MaxPolicies = 2
    MaxVersion = 2
    Policies <- MCPolicies
INVARIANT TypeOK
INVARIANT SchemaFollowsRevision
INVARIANT StatementsApply
INVARIANT TenantTablesGuarded
INVARIANT LinksStayInTenant
INVARIANT OrmMatchesHead
INVARIANT OrderRespectsLinks
INVARIANT ImportsExact
INVARIANT DocumentsStored
INVARIANT SuccessfulUploadsKept
INVARIANT SignalsInOrder
INVARIANT RulesDecide
INVARIANT RecordsOnceInOrder
INVARIANT SentSafely
INVARIANT DecisionsRecordedOnce
PROPERTY DeletionAllOrNothing
PROPERTY ObjectsReported
PROPERTY CasesEnd
PROPERTY PublishedForGood
PROPERTY FullSyncsComplete
