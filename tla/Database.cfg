\* Three requests of any kind, one of the accounts opened on the way, saves,
\* a stop or a crash between saves, and a restart.
SPECIFICATION DbSpec
CONSTANTS
    ann = ann  bob = bob  p = p
    Users <- MCUsers
    SafeUsers <- MCUsers
    Passwords <- MCPasswords
    Limit = 16
    DefaultBalance = 3
    Changes = {2}
    Amounts = {1}
    Counts = {1}
    Prefixes <- MCPrefixes
    Seed <- MCAnnSeed
    MaxTxns = 5
    Requests <- MCAll
    Rank <- MCRank
    CrashDuringSave = FALSE
    OpenMayFail = FALSE
    MaxSubmitted = 3
    MaxStops = 2
INVARIANTS
    CleanMeansSaved
PROPERTIES
    StopLosesNothing
    DurableSpec
