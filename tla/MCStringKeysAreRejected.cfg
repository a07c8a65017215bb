SPECIFICATION MCSpec
CONSTANTS
    HiveIds <- MCHives
    Targets = {0, 1}
    Payloads <- MCPayloads
    Ids = {1, 2}
    IdSpace = 2
    Flood = 3
    MaxTtl = 3
    Ks <- MCKs
    MaxRoute = 3
    CompactRoom = 7
    Rooms = {3, 6, 30}
    MaxNesting = 2
    MaxItems = 5
    Counts = {0, 1, 2}
    Lengths = {0, 2}
    WideArg = 2
    MaxPayload = 2
    WordSpace = 4
    Prefixes = 2
INVARIANTS StringKeysAreRejected
CHECK_DEADLOCK FALSE
