\* A user who logs in or signs up, pays, looks at the history and locks the
\* account.
SPECIFICATION FairPaymentsSpec
CONSTANTS
    ann = ann  bob = bob  p = p
    Users <- MCUsers
    SafeUsers <- MCUsers
    Passwords <- OnePassword
    Limit = 8
    DefaultBalance = 2
    Changes = {}
    Amounts = {}
    Counts = {5}
    Prefixes = {}
    Seed <- OnlyAnn
    MaxTxns = 6
    MaxRequests = 2
    PartialWrites = FALSE
    Forms <- Entering
    Patient = TRUE
    MaxOthers = 0
    Typed = {1}
    Pays <- AllPayments
PROPERTIES
    SpinnersStop
\* The user leaves.
CHECK_DEADLOCK FALSE
