SPECIFICATION Spec
CONSTANTS
    Name = {"a", "b", "x"}
    Path <- MCPath
    Val = {1, 2}
    NoVal = 0
    NBranches = 2
    Mounts <- MountsRwRo
    Envs <- EnvsNoFault
    AnyDirRename = FALSE
    Refusal = {}
INVARIANTS ReaddirMatchesLookup CutlastWritable CowInvisible
PROPERTIES ReadOnlyUntouched ImplementsTreeView
CHECK_DEADLOCK FALSE
VIEW DiskView
