\* Two clients that send two packets each and may hang up at any moment, a stop or a crash.
SPECIFICATION ServerSpec
CONSTANTS
    ann = ann  bob = bob  p = p  s1 = s1  s2 = s2
    Users <- MCUsers
    SafeUsers <- MCUsers
    Passwords <- MCPasswords
    Limit = 16
    DefaultBalance = 3
    Changes = {}
    Amounts = {1}
    Counts = {}
    Prefixes <- MCPrefixes
    Seed <- MCSeed
    MaxTxns = 5
    Requests <- MCRequests
    Rank <- MCRank
    CrashDuringSave = FALSE
    OpenMayFail = FALSE
    MaxSubmitted = 4
    MaxStops = 1
    Sessions <- MCSessions
    Packets <- MCPackets
    MaxPackets = 2
SYMMETRY MCSymmetry
INVARIANTS
    ServerTypeOK
    RequestsOwned
PROPERTIES
    SessionsServe
