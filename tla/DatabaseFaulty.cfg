\* Files that cannot be opened and a death inside save(): the threads keep
\* their promises although the files do not.
SPECIFICATION FairSpec
CONSTANTS
    ann = ann  bob = bob  p = p
    Users <- MCUsers
    SafeUsers <- MCUsers
    Passwords <- MCPasswords
    Limit = 16
    DefaultBalance = 3
    Changes = {2}
    Amounts = {1}
    Counts = {1}
    Prefixes <- MCPrefixes
    Seed <- MCSeed
    MaxTxns = 5
    Requests <- MCMoves
    Rank <- MCRank
    CrashDuringSave = TRUE
    OpenMayFail = TRUE
    MaxSubmitted = 2
    MaxStops = 2
INVARIANTS
    AnswersInOrder
PROPERTIES
    RequestsAnswered
    StopEnds
    ChangesSaved
