SPECIFICATION Spec
CONSTANTS
    h1 = h1
    h2 = h2
    Incidents = {i1}
    WebhookHandlers = {h1, h2}
    CallbackHandlers = {c1}
    EmptyId = EmptyId
    ChatId = ChatId
    None = None
    Metadata = {}
    Budgets <- NoTtlBudgets
INVARIANT RecordsExpire
SYMMETRY Symmetry
CHECK_DEADLOCK FALSE
