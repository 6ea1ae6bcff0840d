SPECIFICATION SequentialSpec
CONSTANTS
    Keys = {1, 2, 3, 4, 5}
    Values = {1, 2}
    MaxItems = 4
    Risky = {}
    Subjects = {"table", "tree", "list", "forward list", "vector", "text", "algorithms", "payloads"}
    DefaultBuckets = 2
    MaxTreeKey = 8
    TreeSeeds <- MCTreeSeeds
    SsoCapacity = 1
    Insertion = 2
    MaxSorted = 6
    BlockSize = 5
    LengthSize = 2
    MaxMessage = 11
    TypedNames <- MCTypedNames
    PasswordTexts <- MCPasswordTexts
    PaidAmounts = {1, 7}
    MaxRecords = 2
    NameLen = 2
INVARIANTS
    TablesHold
    EraseLoopsContinue
    TreesBalanced
    TreesHold
    ListsHold
    VectorsHold
    TextsHold
    RangesSorted
    DigestOfMessage
    RequestsRead
    HistoryTells
CHECK_DEADLOCK FALSE
