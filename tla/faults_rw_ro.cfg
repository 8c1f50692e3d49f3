SPECIFICATION Spec
CONSTANTS
    Name = {"a", "b", "x"}
    Path <- MCPath
    Val = {1}
    NoVal = 0
    NBranches = 2
    Mounts <- MountsFaults
    Envs <- EnvsFaults
    AnyDirRename = FALSE
    Refusal = {}
INVARIANTS TypeOK CowInvisible
PROPERTIES FailureUnseen 
CHECK_DEADLOCK FALSE
VIEW DiskView
