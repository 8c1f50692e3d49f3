SPECIFICATION Spec
CONSTANTS
    Name = {"a", "b", "c", "d"}
    Path <- MCPath
    Val = {1}
    NoVal = 0
    NBranches = 3
    Arg <- MCArg
    String <- MCString
    Cwd = 7
    Strlen <- MCStrlen
    PATHLEN_MAX = 42
    Device <- MCDevice
    IsUser = TRUE
    Disks <- MCDisks
    MaxArgs = 4
    HashOf <- MCHash
    primes <- MCPrimes
    MemoryShort = TRUE
INVARIANTS HiddenParentsSeen
CHECK_DEADLOCK FALSE
VIEW MCView
