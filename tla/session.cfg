SPECIFICATION Spec
CONSTANTS
    Name = {"a", "b", "c", "d"}
    Path <- MCPath
    Val = {1}
    NoVal = 0
    NBranches = 3
    Arg <- MCArg
    String <- MCString
    Cwd = 7
    Strlen <- MCStrlen
    PATHLEN_MAX = 42
    Device <- MCDevice
    IsUser = FALSE
    Disks <- MCDisks
    MaxArgs = 4
    HashOf <- MCHash
    primes <- MCPrimes
    MemoryShort = TRUE
INVARIANTS MountedAsAsked StatfsBounded HiddenMatches ListingExact EmptyExact TablesFind
CHECK_DEADLOCK FALSE
VIEW MCView
