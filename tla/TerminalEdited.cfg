\* A user who goes on typing while a login is under way.
SPECIFICATION PaymentsSpec
CONSTANTS
    ann = ann  bob = bob  p = p
    Users <- MCUsers
    SafeUsers <- MCUsers
    Passwords <- OnePassword
    Limit = 8
    DefaultBalance = 2
    Changes = {}
    Amounts = {}
    Counts = {5}
    Prefixes = {}
    Seed <- BobLocked
    MaxTxns = 6
    MaxRequests = 1
    PartialWrites = FALSE
    Forms <- Login
    Patient = FALSE
    MaxOthers = 0
    Typed = {1}
    Pays <- Nothing
PROPERTIES
    LockedStayOut
\* The user leaves.
CHECK_DEADLOCK FALSE
