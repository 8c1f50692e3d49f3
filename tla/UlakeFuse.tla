----------------------------- MODULE UlakeFuse -----------------------------
(***************************************************************************)
(* The handlers that change the union: fuse_operations.c and the rmdir and *)
(* unlink of readrmdir.c.  Each action is one whole handler, run on a path *)
(* that the kernel has looked up first, and leaves in ret what the handler *)
(* returns ("OK" for 0, "ENOENT" for -ENOENT, "+EACCES" for EACCES).       *)
(***************************************************************************)
EXTENDS UlakeCow

CONSTANTS Mounts,        \* the mounts to start from: options and branch contents
          Envs,          \* what the branch file systems may do to a call
          AnyDirRename   \* TRUE: every directory is renamed; FALSE: see SafeDirRename

ASSUME MountsAssumption ==
    \A m \in Mounts : m.uopt \in Options /\ m.disk \in Disk /\ WellFormed(m.disk)

ASSUME EnvsAssumption == Envs \subseteq Env

ASSUME AnyDirRenameAssumption == AnyDirRename \in BOOLEAN

VARIABLES fs,    \* the disk
          ret    \* the last call: its handler, its path and what it returned

vars == <<uopt, fs, ret>>

Op == {"chmod", "chown", "utimens", "truncate", "create", "mkdir", "mknod",
       "symlink", "open", "unlink", "rmdir", "rename"}

Init ==
    /\ \E m \in Mounts : uopt = m.uopt /\ fs = m.disk
    /\ ret = [op |-> "mount", path |-> Root, res |-> "OK"]

Return(op, p, d, res) ==
    /\ fs' = d
    /\ ret' = [op |-> op, path |-> p, res |-> res]
    /\ UNCHANGED uopt

-----------------------------------------------------------------------------
(* chmod, chown, utimens, truncate: copy up, then change the copy.         *)

SetAttr(op, p, v, env) ==
    \E c \in {find_rw_branch_cow(fs, p, env)} :
        IF c.branch = -1 THEN Return(op, p, c.disk, c.err)
        ELSE Return(op, p, [c.disk EXCEPT !.tree[c.branch][p].val = v], "OK")

chmod(p, v, env) == Lookup(fs, p).kind # "none" /\ SetAttr("chmod", p, v, env)

chown(p, v, env) == Lookup(fs, p).kind # "none" /\ SetAttr("chown", p, v, env)

utimens(p, v, env) == Lookup(fs, p).kind # "none" /\ SetAttr("utimens", p, v, env)

truncate(p, v, env) == Lookup(fs, p).kind = "reg" /\ SetAttr("truncate", p, v, env)

-----------------------------------------------------------------------------
(* create, mkdir, mknod, symlink: the kernel found nothing at p, but the   *)
(* branch chosen may have something there that a branch above hides.       *)

Negative(p) == Walk(fs, p) /\ Lookup(fs, p) = Absent

\* errno of a system call that makes an entry at p of a branch
NewErr(d, b, p) ==
    IF ~Exists(d, b, u_dirname(p)) THEN "ENOENT"
    ELSE IF ~IsDir(d, b, u_dirname(p)) THEN "ENOTDIR"
    ELSE IF Exists(d, b, p) THEN "EEXIST"
    ELSE "OK"

Put(d, b, p, node) == [d EXCEPT !.tree[b][p] = node]

\* open(2) with O_CREAT or creat(2): a regular file there is opened as it is
OpenErr(d, b, p) ==
    IF NewErr(d, b, p) # "EEXIST" THEN NewErr(d, b, p)
    ELSE CASE d.tree[b][p].kind = "reg" -> "OK"
           [] d.tree[b][p].kind = "dir" -> "EISDIR"
           [] OTHER                     -> "ENXIO"

\* The system call at p of branch c.branch answers err; if that is "OK" it leaves d.
Made(op, p, c, err, d) ==
    IF c.branch = -1 THEN Return(op, p, c.disk, c.err)
    ELSE IF err # "OK" THEN Return(op, p, c.disk, err)
    ELSE Return(op, p, d, "OK")

\* The flags have neither O_EXCL nor O_TRUNC.  v is what the file then is: of one
\* that was there, the contents it had, with the owner and the mode of the call.
create(p, v, env) ==
    /\ Negative(p)
    /\ \E c \in {find_rw_branch_cutlast(fs, p, env)} :
          LET d == Put(c.disk, c.branch, p, [kind |-> "reg", val |-> v])
          IN  Made("create", p, c, OpenErr(c.disk, c.branch, p), remove_hidden(d, p, c.branch))

\* mutant: the whiteout is removed, as the other handlers do
mkdir_RemoveHidden(p, v, env) ==
    /\ Negative(p)
    /\ \E c \in {find_rw_branch_cutlast(fs, p, env)} :
          LET d == Put(c.disk, c.branch, p, [kind |-> "dir", val |-> v])
          IN  Made("mkdir", p, c, NewErr(c.disk, c.branch, p), remove_hidden(d, p, c.branch))

\* a whiteout of p stays: what p had on the branches below is not to come back
mkdir(p, v, env) ==
    /\ Negative(p)
    /\ \E c \in {find_rw_branch_cutlast(fs, p, env)} :
          LET d == Put(c.disk, c.branch, p, [kind |-> "dir", val |-> v])
          IN  Made("mkdir", p, c, NewErr(c.disk, c.branch, p), d)

\* a regular file is made with creat(2), which truncates one that is there
mknod(p, kind, v, env) ==
    /\ Negative(p)
    /\ \E c \in {find_rw_branch_cutlast(fs, p, env)} :
          LET err == IF kind = "reg" THEN OpenErr(c.disk, c.branch, p)
                     ELSE NewErr(c.disk, c.branch, p)
              d   == Put(c.disk, c.branch, p, [kind |-> kind, val |-> v])
          IN  Made("mknod", p, c, err, remove_hidden(d, p, c.branch))

symlink(p, v, env) ==
    /\ Negative(p)
    /\ \E c \in {find_rw_branch_cutlast(fs, p, env)} :
          LET d == Put(c.disk, c.branch, p, [kind |-> "spec", val |-> v])
          IN  Made("symlink", p, c, NewErr(c.disk, c.branch, p), remove_hidden(d, p, c.branch))

-----------------------------------------------------------------------------
\* open for writing: only regular files are opened through the handler
open(p, env) ==
    /\ Lookup(fs, p).kind = "reg"
    /\ \E c \in {find_rw_branch_cutlast(fs, p, env)} :
          LET err == IF Exists(c.disk, c.branch, p) THEN OpenErr(c.disk, c.branch, p)
                     ELSE "ENOENT"
          IN  Made("open", p, c, err, remove_hidden(c.disk, p, c.branch))

-----------------------------------------------------------------------------
(* unlink and rmdir: remove on a writable branch and hide what is below,   *)
(* or hide what is on a read-only branch.                                  *)

RmdirErr(d, b, p) ==
    IF \E c \in Children(p) : Exists(d, b, c) THEN "ENOTEMPTY" ELSE "OK"

\* mutant: unlink_ro is never chosen
unlink_AnyBranch(p, env) ==
    LET i == find_rorw_branch(fs, p)
    IN  /\ Lookup(fs, p).kind \notin {"none", "dir"}
        /\ Return("unlink", p,
                  maybe_whiteout(Put(fs, i, p, Absent), p, i, "file", env).disk, "OK")

\* mutant: the result of maybe_whiteout is returned, when the file is gone already
unlink_WhiteoutErr(p, env) ==
    LET i    == find_rorw_branch(fs, p)
        hide == maybe_whiteout(Put(fs, i, p, Absent), p, i, "file", env)
    IN  /\ Lookup(fs, p).kind \notin {"none", "dir"}
        /\ uopt.rw[i]
        /\ Return("unlink", p, hide.disk, hide.err)

unlink(p, env) ==
    LET i    == find_rorw_branch(fs, p)
        up   == find_lowest_rw_branch(i)
        hide == do_create_whiteout(fs, p, up, "file", env)
    IN  /\ Lookup(fs, p).kind \notin {"none", "dir"}
        /\ IF uopt.rw[i]
           THEN Return("unlink", p,
                       maybe_whiteout(Put(fs, i, p, Absent), p, i, "file", env).disk, "OK")
           ELSE IF ~uopt.cow THEN Return("unlink", p, fs, "EROFS")
           ELSE IF up = -1 THEN Return("unlink", p, fs, "EACCES")
           ELSE Return("unlink", p, hide.disk, hide.err)

\* rmdir_ro answers -EACCES itself, and ulakefs_rmdir negates it once more
rmdir(p, env) ==
    LET i    == find_rorw_branch(fs, p)
        up   == find_lowest_rw_branch(i)
        hide == do_create_whiteout(fs, p, up, "dir", env)
    IN  /\ Lookup(fs, p).kind = "dir"
        /\ IF dir_not_empty(fs, p) THEN Return("rmdir", p, fs, "ENOTEMPTY")
           ELSE IF uopt.rw[i]
           THEN IF RmdirErr(fs, i, p) # "OK" THEN Return("rmdir", p, fs, RmdirErr(fs, i, p))
                ELSE Return("rmdir", p,
                            maybe_whiteout(Put(fs, i, p, Absent), p, i, "dir", env).disk, "OK")
           ELSE IF ~uopt.cow THEN Return("rmdir", p, fs, "EROFS")
           ELSE IF up = -1 THEN Return("rmdir", p, fs, "+EACCES")
           ELSE Return("rmdir", p, hide.disk, IF hide.err = "EEXIST" THEN "EFAULT" ELSE hide.err)

-----------------------------------------------------------------------------
(* rename: both ends on one writable branch, copied up if they are not.    *)

\* the kernel's checks before it calls the handler
RenameAllowed(from, to) ==
    LET f == Lookup(fs, from)
        t == Lookup(fs, to)
    IN  /\ f.kind # "none" /\ Walk(fs, to)
        /\ ~IsPrefix(from, to) /\ ~IsPrefix(to, from)
        /\ t.kind # "none" => (f.kind = "dir") = (t.kind = "dir")
        /\ f.kind = "dir" => \A b \in Branch : PathBound(fs.tree[b], from, to)

\* The directories that rename moves without losing, merging or reviving files:
\* all of it on one branch, nothing deleted from it, its new name on no branch.
SafeDirRename(from, to) ==
    Lookup(fs, from).kind = "dir" =>
        /\ \A b, c \in Branch : Exists(fs, b, from) /\ Exists(fs, c, from) => b = c
        /\ \A b \in Branch, q \in Subtree(from) : fs.wh[b][q] = "none"
        /\ \A b \in Branch : ~Exists(fs, b, to)

\* errno of rename(2) on branch b
RenameErr(d, b, from, to) ==
    IF ~Exists(d, b, u_dirname(to)) THEN "ENOENT"
    ELSE IF ~IsDir(d, b, u_dirname(to)) THEN "ENOTDIR"
    ELSE IF ~Exists(d, b, to) THEN "OK"
    ELSE IF IsDir(d, b, from) THEN IF IsDir(d, b, to) THEN RmdirErr(d, b, to) ELSE "ENOTDIR"
    ELSE IF IsDir(d, b, to) THEN "EISDIR" ELSE "OK"

\* rename(2) on branch w.branch of w.disk, the whiteout of from, that of to
Move(from, to, w, env) ==
    LET b    == w.branch
        err  == RenameErr(w.disk, b, from, to)
        mode == IF IsDir(w.disk, b, from) THEN "dir" ELSE "file"
        d    == [w.disk EXCEPT !.tree[b] = Graft(w.disk.tree[b], from, to)]
    IN  IF err # "OK" THEN Return("rename", from, w.disk, err)
        ELSE Return("rename", from,
                    remove_hidden(maybe_whiteout(d, from, b, mode, env).disk, to, b), "OK")

\* mutant: the file is renamed on its own branch, whichever that of the target is
rename_OwnBranch(from, to, env) ==
    /\ RenameAllowed(from, to)
    /\ AnyDirRename \/ SafeDirRename(from, to)
    /\ \E c \in {find_rw_branch_cutlast(fs, to, env)} :
          IF c.branch = -1 THEN Return("rename", from, c.disk, c.err)
          ELSE \E w \in {find_rw_branch_cow_common(c.disk, from, TRUE, env)} :
                  IF w.branch = -1 THEN Return("rename", from, w.disk, w.err)
                  ELSE Move(from, to, w, env)

\* find_rw_branch_cow_common repeats the tests that the code makes before it
\* calls it (from is somewhere, its branch read-only).  The code for a read-only
\* branch after the copy is dead: the branch is writable by then.
rename(from, to, env) ==
    /\ RenameAllowed(from, to)
    /\ AnyDirRename \/ SafeDirRename(from, to)
    /\ \E c \in {find_rw_branch_cutlast(fs, to, env)} :
          IF c.branch = -1 THEN Return("rename", from, c.disk, c.err)
          ELSE \E w \in {find_rw_branch_cow_common(c.disk, from, TRUE, env)} :
                  IF w.branch = -1 THEN Return("rename", from, w.disk, w.err)
                  ELSE IF w.branch # c.branch THEN Return("rename", from, w.disk, "EXDEV")
                  ELSE Move(from, to, w, env)

-----------------------------------------------------------------------------

\* the handlers of one path
Handler(p, env) ==
    \/ \E v \in Val : \/ chmod(p, v, env)
                      \/ chown(p, v, env)
                      \/ utimens(p, v, env)
                      \/ truncate(p, v, env)
                      \/ create(p, v, env)
                      \/ mkdir(p, v, env)
                      \/ symlink(p, v, env)
                      \/ \E kind \in {"reg", "spec", "sock"} : mknod(p, kind, v, env)
    \/ open(p, env)
    \/ unlink(p, env)
    \/ rmdir(p, env)

Next == \E p \in Path, env \in Envs :
            Handler(p, env) \/ \E to \in Path : rename(p, to, env)

Spec == Init /\ [][Next]_vars

-----------------------------------------------------------------------------

\* The state is a set of branch trees in which every entry lives in a directory.
TypeOK ==
    /\ uopt \in Options
    /\ fs \in Disk
    /\ WellFormed(fs)
    /\ ret \in [op : Op \cup {"mount"}, path : Path \cup {Root}, res : Errno \cup {"OK"}]
=============================================================================
