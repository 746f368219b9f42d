SPECIFICATION Spec
CONSTANTS
    i1 = i1
    c1 = c1
    c2 = c2
    c3 = c3
    m1 = m1
    Incidents = {i1}
    Clients = {c1, c2, c3}
    EmptyId = EmptyId
    ChatId = ChatId
    None = None
    Error = Error
    IncidentTtl = 0
    DedupTtl = 2
    LockTtl = 3
    I64Max = 9999
    MaxDelay = 1
    MaxNow = 6
    Skew <- SomeSkew
    Writes <- SomeWrites
    Delivered = {"incident_resolved"}
    Messages = {m1}
    Names = {"ada"}
    Stamps = {"at"}
INVARIANT HashesParse
INVARIANT StoresAgree
INVARIANT OnlyStraysLast
INVARIANT AloneInLease
PROPERTY ReadBack
PROPERTY CommandsAsInBot
SYMMETRY Symmetry
CONSTRAINT RecordsOrLocks
CHECK_DEADLOCK FALSE
