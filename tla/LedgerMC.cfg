\* Two accounts, one of them seeded, self-transfers, wrap-around at 8.
SPECIFICATION Spec
CONSTANTS
    ann = ann  bob = bob  dots = dots  p = p  q = q
    Users <- MCUsers
    SafeUsers <- MCSafeUsers
    Passwords <- MCOnePassword
    Limit = 8
    DefaultBalance = 3
    Changes <- MCChanges
    Amounts = {1, 3}
    Counts = {0, 2}
    Prefixes <- MCPrefixes
    Seed <- MCLockedSeed
    MaxTxns = 3
INVARIANTS
    TypeOK
    BalancesAgree
    HistoryChains
    NoOverdraft
    TransfersPaired
PROPERTIES
    LockedAccountsFrozen
    MoneyConserved
