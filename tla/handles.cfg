SPECIFICATION Spec
CONSTANTS
    f1 = f1
    f2 = f2
    i1 = i1
    i2 = i2
    i3 = i3
    i4 = i4
    u1 = u1
    u2 = u2
    New = New
    Hole = Hole
    NoInode = NoInode
    NoFile = NoFile
    User = {u1, u2}
    File = {f1, f2}
    Inode = {i1, i2, i3, i4}
    LowerInode <- BothLower
    Chunks = 1
    Faults = TRUE
    Op = {"open_r", "open_w", "chmod", "truncate", "link", "unlink"}
INVARIANTS LossNeedsOverlap HandlesNamed
PROPERTIES LowerUntouched
SYMMETRY Users
CHECK_DEADLOCK FALSE
VIEW SoundState
