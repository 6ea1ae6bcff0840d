\* The process may die inside save(): files of two moments are mixed.
SPECIFICATION DbSpec
CONSTANTS
    ann = ann  bob = bob  p = p
    Users <- MCUsers
    SafeUsers <- MCUsers
    Passwords <- MCPasswords
    Limit = 16
    DefaultBalance = 3
    Changes = {2}
    Amounts = {1}
    Counts = {1}
    Prefixes <- MCPrefixes
    Seed <- MCSeed
    MaxTxns = 5
    Requests <- MCMoves
    Rank <- MCRank
    CrashDuringSave = TRUE
    OpenMayFail = FALSE
    MaxSubmitted = 1
    MaxStops = 1
INVARIANTS
    TransfersPaired
