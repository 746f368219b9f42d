SPECIFICATION Spec
CONSTANTS
    h1 = h1
    h2 = h2
    Incidents = {i1}
    WebhookHandlers = {h1}
    CallbackHandlers = {c1}
    EmptyId = EmptyId
    ChatId = ChatId
    None = None
    Metadata = {"acknowledged_at"}
    Budgets <- LeasesBudgets
INVARIANT TypeOK
INVARIANT NeverAhead
INVARIANT StartedIsClean
PROPERTY OnlyHolderReleases
CHECK_DEADLOCK FALSE
