\* One user logs out and another signs up.
SPECIFICATION PaymentsSpec
CONSTANTS
    ann = ann  bob = bob  p = p
    Users <- MCUsers
    SafeUsers <- MCUsers
    Passwords <- OnePassword
    Limit = 8
    DefaultBalance = 2
    Changes = {}
    Amounts = {}
    Counts = {5}
    Prefixes = {}
    Seed <- OnlyAnn
    MaxTxns = 6
    MaxRequests = 3
    PartialWrites = FALSE
    Forms <- Signups
    Patient = TRUE
    MaxOthers = 0
    Typed = {1}
    Pays <- Nothing
INVARIANTS
    DashboardOwn
\* The user leaves.
CHECK_DEADLOCK FALSE
