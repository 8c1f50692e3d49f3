SPECIFICATION Spec
CONSTANTS
    Name = {"a", "b", "x", "y"}
    Path <- DeepPath
    Val = {1, 2}
    NoVal = 0
    NBranches = 3
    Mounts <- MountsOfThree
    Envs <- EnvsNoFault
    AnyDirRename = FALSE
    Refusal = {"EACCES", "+EACCES", "EROFS", "EXDEV"}
INVARIANTS ReaddirMatchesLookup
PROPERTIES OnlyNewNamesLeak ImplementsTreeView
CHECK_DEADLOCK FALSE
VIEW DiskView
