------------------------------ MODULE UlakeCow ------------------------------
(***************************************************************************)
(* general.c: creating paths, copying up and whiteouts.  Each operator is  *)
(* one function of the code applied to a disk; it returns the disk it      *)
(* leaves, also when it fails half way, and its result.                    *)
(*                                                                         *)
(* What the branch file systems may do is in the record env:               *)
(*   env.fail   paths at which mkdir, mknod or the copying of data fails   *)
(*   env.torn   a failed copy of data leaves a truncated file behind       *)
(*   env.hide   whiteouts can be created                                   *)
(*   env.order  the order in which readdir(3) lists a directory            *)
(***************************************************************************)
EXTENDS UlakeDisk

Env == [fail : SUBSET Path, torn : BOOLEAN, hide : BOOLEAN, order : [Path -> Nat]]

\* what a failed call may answer
Errno == {"ENOENT", "EACCES", "EROFS", "EXDEV", "EEXIST", "EISDIR", "ENOTDIR",
          "ENOTEMPTY", "ENOSPC", "ENXIO", "EFAULT", "+EACCES"}

-----------------------------------------------------------------------------
(* Whiteouts.                                                              *)

\* remove_hidden deletes on every branch up to maxbranch, read-only or not
remove_hidden(d, p, maxbranch) ==
    IF uopt.cow
    THEN [d EXCEPT !.wh = [b \in Branch |->
            IF b <= maxbranch THEN [d.wh[b] EXCEPT ![p] = "none"] ELSE d.wh[b]]]
    ELSE d

\* Without copy-on-write the .ulakefs directory is never made, so the open or
\* mkdir below it fails; open() accepts a whiteout file that is already there.
do_create_whiteout(d, p, branch_rw, mode, env) ==
    LET old == d.wh[branch_rw][p]
        err == IF ~uopt.cow THEN "ENOENT"
               ELSE IF ~env.hide THEN "ENOSPC"
               ELSE IF mode = "file" /\ old = "dir" THEN "EISDIR"
               ELSE IF mode = "dir" /\ old # "none" THEN "EEXIST"
               ELSE "OK"
    IN  [disk |-> IF err = "OK" THEN [d EXCEPT !.wh[branch_rw][p] = mode] ELSE d,
         err  |-> err]

\* mutant: the whiteout after a removal is forgotten
maybe_whiteout_Never(d, p, branch_rw, mode, env) == [disk |-> d, err |-> "OK"]

maybe_whiteout(d, p, branch_rw, mode, env) ==
    IF find_rorw_branch(d, p) # -1
    THEN do_create_whiteout(d, p, branch_rw, mode, env)
    ELSE [disk |-> d, err |-> "OK"]

-----------------------------------------------------------------------------
(* Directories.  path_create makes the missing prefixes of p on rw one     *)
(* after the other, each a copy of the one on ro, and stops at the first   *)
(* mkdir that fails; do_create accepts whatever is at a prefix already.    *)

Missing(d, p, rw) == {q \in PrefixesOf[p] : ~Exists(d, rw, q)}

\* do_create fails at q
Blocked(d, q, ro, rw, env) ==
    \/ q \in env.fail
    \/ ~Exists(d, ro, q)
    \/ Exists(d, rw, u_dirname(q)) /\ ~IsDir(d, rw, u_dirname(q))

\* mutant: the new directory does not get the attributes of the old one
DirCopy_NoSetfile(node) == [kind |-> "dir", val |-> NoVal]

DirCopy(node) == [kind |-> "dir", val |-> node.val]

path_create(d, p, ro, rw, env) ==
    LET blocked == {q \in Missing(d, p, rw) : Blocked(d, q, ro, rw, env)}
        made    == {q \in Missing(d, p, rw) : \A r \in blocked : Len(q) < Len(r)}
    IN  IF uopt.cow
        THEN [disk |-> [d EXCEPT !.tree[rw] = [q \in Path |->
                          IF q \in made THEN DirCopy(d.tree[ro][q]) ELSE d.tree[rw][q]]],
              ok   |-> blocked = {}]
        ELSE [disk |-> d, ok |-> TRUE]

-----------------------------------------------------------------------------
(* Copying up.                                                             *)

\* mutant: a copy that fails leaves the file it has opened
CopyNode_LeavesFile(d, p, ro, rw, env) ==
    LET ok == IsDir(d, rw, u_dirname(p)) /\ d.tree[ro][p].kind # "sock" /\ p \notin env.fail
    IN  [disk |-> [d EXCEPT !.tree[rw][p] = IF ok THEN d.tree[ro][p]
                                            ELSE [kind |-> "reg", val |-> NoVal]],
         err  |-> IF ok THEN "OK" ELSE "ENOSPC"]

\* mutant: a socket is passed over as if it had been copied
CopyNode_SocketIgnored(d, p, ro, rw, env) ==
    [disk |-> IF d.tree[ro][p].kind = "sock" THEN d
              ELSE [d EXCEPT !.tree[rw][p] = d.tree[ro][p]],
     err  |-> "OK"]

\* copy_file, copy_link, copy_fifo and copy_special; the socket case of cow_cp
\* returns with whatever errno the lookup left, which is ENOENT.
CopyNode(d, p, ro, rw, env) ==
    LET kind == d.tree[ro][p].kind
        err  == IF kind = "sock" \/ ~Exists(d, rw, u_dirname(p)) THEN "ENOENT"
                ELSE IF ~IsDir(d, rw, u_dirname(p)) THEN "ENOTDIR"
                ELSE IF kind = "reg" /\ IsDir(d, rw, p) THEN "EISDIR"
                ELSE IF kind = "spec" /\ Exists(d, rw, p) THEN "EEXIST"
                ELSE IF p \in env.fail THEN "ENOSPC"
                ELSE "OK"
        torn == err = "ENOSPC" /\ kind = "reg" /\ env.torn
    IN  [disk |-> IF err = "OK" THEN [d EXCEPT !.tree[rw][p] = d.tree[ro][p]]
                  ELSE IF torn THEN [d EXCEPT !.tree[rw][p] = [kind |-> "reg", val |-> NoVal]]
                  ELSE d,
         err  |-> err]

\* the depth-first walk of copy_directory meets f before q
Before(order, f, q) ==
    \/ IsStrictPrefix(f, q)
    \/ \E a \in PrefixesOf[f], b \in PrefixesOf[q] :
          a # b /\ u_dirname(a) = u_dirname(b) /\ order[a] < order[b]

\* mutant: the result of path_create is not looked at
copy_directory_Unchecked(d, p, ro, rw, env) ==
    LET top     == path_create(d, p, ro, rw, env)
        members == {q \in Subtree(p) : q # p /\ Exists(d, ro, q)}
    IN  [disk |-> [top.disk EXCEPT !.tree[rw] = [q \in Path |->
                      IF q \in members \ env.fail THEN d.tree[ro][q] ELSE top.disk.tree[rw][q]]],
         err  |-> "OK"]

\* The members are copied in the order readdir lists them, down to the first
\* that fails.  p is not on rw when this is called, so nothing is in the way.
copy_directory(d, p, ro, rw, env) ==
    LET top     == path_create(d, p, ro, rw, env)
        members == {q \in Subtree(p) : q # p /\ Exists(d, ro, q)}
        failing == {q \in members : q \in env.fail \/ d.tree[ro][q].kind = "sock"}
        copied  == {q \in members \ failing : \A f \in failing : ~Before(env.order, f, q)}
        torn    == {f \in failing : /\ env.torn /\ d.tree[ro][f].kind = "reg"
                                    /\ \A g \in failing \ {f} : ~Before(env.order, g, f)}
    IN  IF ~top.ok THEN [disk |-> top.disk, err |-> "ENOSPC"]
        ELSE [disk |-> [top.disk EXCEPT !.tree[rw] = [q \in Path |->
                          IF q \in copied THEN d.tree[ro][q]
                          ELSE IF q \in torn THEN [kind |-> "reg", val |-> NoVal]
                          ELSE top.disk.tree[rw][q]]],
              err  |-> IF failing = {} THEN "OK"
                       ELSE IF failing \cap env.fail = {} THEN "ENOENT" ELSE "ENOSPC"]

\* the result of creating the parent directories is not looked at
cow_cp(d, p, ro, rw, copy_dir, env) ==
    LET d1 == path_create(d, u_dirname(p), ro, rw, env).disk
        pc == path_create(d1, p, ro, rw, env)
    IN  IF d.tree[ro][p].kind # "dir" THEN CopyNode(d1, p, ro, rw, env)
        ELSE IF copy_dir THEN copy_directory(d1, p, ro, rw, env)
        ELSE [disk |-> pc.disk, err |-> IF pc.ok THEN "OK" ELSE "ENOSPC"]

-----------------------------------------------------------------------------
(* Where may p be written?  A branch, or -1 with errno.                    *)

\* mutant: after the copy the branch it was found on is the answer
find_rw_branch_cow_common_NoSwitch(d, p, copy_dir, env) ==
    LET i  == find_rorw_branch(d, p)
        rw == find_lowest_rw_branch(i)
        cp == cow_cp(d, p, i, rw, copy_dir, env)
    IN  IF i = -1 THEN [disk |-> d, branch |-> -1, err |-> "ENOENT"]
        ELSE IF uopt.rw[i] \/ ~uopt.cow \/ rw = -1 THEN [disk |-> d, branch |-> i, err |-> "OK"]
        ELSE [disk |-> cp.disk, branch |-> i, err |-> cp.err]

\* the answer when cow_cp has returned cp
Copied(cp, p, rw) ==
    IF cp.err # "OK" THEN [disk |-> cp.disk, branch |-> -1, err |-> cp.err]
    ELSE [disk |-> remove_hidden(cp.disk, p, rw), branch |-> rw, err |-> "OK"]

find_rw_branch_cow_common(d, p, copy_dir, env) ==
    LET i  == find_rorw_branch(d, p)
        rw == find_lowest_rw_branch(i)
    IN  IF i = -1 THEN [disk |-> d, branch |-> -1, err |-> "ENOENT"]
        ELSE IF uopt.rw[i] THEN [disk |-> d, branch |-> i, err |-> "OK"]
        ELSE IF ~uopt.cow \/ rw = -1 THEN [disk |-> d, branch |-> -1, err |-> "EACCES"]
        ELSE Copied(cow_cp(d, p, i, rw, copy_dir, env), p, rw)

find_rw_branch_cow(d, p, env) == find_rw_branch_cow_common(d, p, FALSE, env)

\* mutant: the branch of the parent is the answer, writable or not
ParentBranch_NoRwCheck(d, p, rw_hint, env) ==
    LET i == find_rorw_branch(d, u_dirname(p))
    IN  [disk |-> d, branch |-> i, err |-> IF i = -1 THEN "ENOENT" ELSE "OK"]

\* The parent's branch is given up for the writable one only if path_create
\* succeeds; otherwise the branch found, read-only or not, is the answer.
ParentBranch(d, p, rw_hint, env) ==
    LET dname == u_dirname(p)
        i     == find_rorw_branch(d, dname)
        rw    == IF rw_hint = -1 THEN find_lowest_rw_branch(NBranches) ELSE rw_hint
        pc    == path_create(d, dname, i, rw, env)
    IN  IF i = -1 THEN [disk |-> d, branch |-> -1, err |-> "ENOENT"]
        ELSE IF uopt.rw[i] /\ rw_hint \in {-1, i} THEN [disk |-> d, branch |-> i, err |-> "OK"]
        ELSE IF ~uopt.cow \/ rw = -1 THEN [disk |-> d, branch |-> -1, err |-> "EACCES"]
        ELSE [disk |-> pc.disk, branch |-> IF pc.ok THEN rw ELSE i, err |-> "OK"]

\* the answer when find_rw_branch_cow has answered c
OrParentBranch(c, p, rw_hint, env) ==
    IF c.branch >= 0 \/ c.err # "ENOENT" THEN c ELSE ParentBranch(c.disk, p, rw_hint, env)

__find_rw_branch_cutlast(d, p, rw_hint, env) ==
    OrParentBranch(find_rw_branch_cow(d, p, env), p, rw_hint, env)

find_rw_branch_cutlast(d, p, env) == __find_rw_branch_cutlast(d, p, -1, env)
=============================================================================
