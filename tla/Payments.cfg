\* A patient user who logs in, withdraws, refreshes, looks at the history,
\* changes the password, logs out and comes back as somebody else, while one
\* request of another session deposits, locks an account or unlocks it.  The
\* accounts start alike and may be swapped.
SPECIFICATION PaymentsSpec
CONSTANTS
    ann = ann  bob = bob  p = p
    Users <- MCUsers
    SafeUsers <- MCUsers
    Passwords <- OnePassword
    Limit = 8
    DefaultBalance = 2
    Changes = {1}
    Amounts = {}
    Counts = {5}
    Prefixes = {}
    Seed <- Both
    MaxTxns = 6
    MaxRequests = 4
    PartialWrites = FALSE
    Forms <- Visits
    Patient = TRUE
    MaxOthers = 1
    Typed = {1}
    Pays <- OneAccount
SYMMETRY Swap
INVARIANTS
    TerminalTypeOK
    HistoryOwn
    PasswordsVerified
    ShownBalanceCurrent
PROPERTIES
    WithdrawalsTakeMoney
    LockedStayOut
\* The user leaves.
CHECK_DEADLOCK FALSE
