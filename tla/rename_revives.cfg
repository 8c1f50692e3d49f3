SPECIFICATION HSpec
CONSTANTS
    Name = {"a", "b", "c", "x", "y"}
    Path <- FlatPath
    Val = {1}
    NoVal = 0
    NBranches = 2
    Mounts <- MountsDirOfTwo
    Envs <- EnvsNoFault
    AnyDirRename = TRUE
INVARIANT RenameRevivesNothing
CHECK_DEADLOCK FALSE
