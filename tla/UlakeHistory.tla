---------------------------- MODULE UlakeHistory ----------------------------
(***************************************************************************)
(* UlakeFuse with a history variable: the disk before the last call and    *)
(* the second path of a rename.  The properties are what comments in the   *)
(* code say of a call; each is refuted by what the code does.              *)
(***************************************************************************)
EXTENDS UlakeFuse

VARIABLE last    \* [disk, to] of the last call

hvars == <<uopt, fs, ret, last>>

HInit == Init /\ last = [disk |-> fs, to |-> Root]

HNext ==
    \E p \in Path, env \in Envs :
        \/ Handler(p, env) /\ last' = [disk |-> fs, to |-> p]
        \/ \E to \in Path : rename(p, to, env) /\ last' = [disk |-> fs, to |-> to]

HSpec == HInit /\ [][HNext]_hvars

Shown(d, p) == Lookup(d, p).kind # "none"

Was(p) == Shown(last.disk, p)

DirRenamed ==
    ret.op = "rename" /\ ret.res = "OK" /\ Lookup(last.disk, ret.path).kind = "dir"

-----------------------------------------------------------------------------

(***************************************************************************)
(* fuse_operations.c:377: "Currently if we rename a read-only branch, we   *)
(* need to copy over all files to the renamed directory on the read-write  *)
(* branch": whatever a renamed directory showed, it shows under its new    *)
(* name (ulakefs_rename).                                                  *)
(***************************************************************************)
RenameCopiesAll ==
    DirRenamed => \A q \in Subtree(ret.path) :
        Was(q) => Shown(fs, Source(last.to, ret.path, q))

(***************************************************************************)
(* readrmdir.c:334: "we create a file with a HIDE tag in an upper level    *)
(* branch.  To other fuse functions this tag means, not to expose the      *)
(* lower level file": a file that is still on a branch but was deleted     *)
(* from its directory does not come back when the directory is renamed     *)
(* (copy_directory).                                                       *)
(***************************************************************************)
RenameRevivesNothing ==
    DirRenamed => \A q \in Subtree(ret.path), b \in Branch :
        LET new == Source(last.to, ret.path, q)
        IN  Exists(last.disk, b, q) /\ ~Was(q) => ~Shown(fs, new) \/ Was(new)
=============================================================================
