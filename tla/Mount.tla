------------------------------- MODULE Mount -------------------------------
(***************************************************************************)
(* The start of the program: options.c and main of Ulakefs.c, and what     *)
(* depends on the names of the branches: path_hidden as it searches a      *)
(* string, and statfs.  A string is its length and whether it starts or    *)
(* ends with a slash.                                                      *)
(***************************************************************************)
EXTENDS UlakeDisk

CONSTANTS Arg,           \* arguments: [key, list], a list being branches with their flags
          String,        \* the string of each branch, and of the chroot
          Cwd,           \* the length of the working directory
          Strlen,        \* strlen of each path, as the kernel gives it
          PATHLEN_MAX,
          Device,        \* the file system of each branch: [dev, bsize, blocks, bfree]
          IsUser         \* neither UID 0 nor GID 0

ASSUME MountAssumption ==
    /\ Arg \subseteq [key : STRING, list : Seq([name : DOMAIN Device, flag : STRING])]
    /\ Cwd \in Nat /\ PATHLEN_MAX \in Nat
    /\ DOMAIN Device \subseteq DOMAIN String
    /\ \A n \in DOMAIN String : String[n] \in [len : Nat, lead : BOOLEAN, trail : BOOLEAN]
    /\ Strlen \in [Path -> Nat]
    /\ \A p \in Path : Strlen[p] > IF u_dirname(p) = Root THEN 0 ELSE Strlen[u_dirname(p)]
    /\ IsUser \in BOOLEAN
    /\ \A b \in DOMAIN Device :
          /\ Device[b] \in [dev : Nat, bsize : Nat \ {0}, blocks : Nat, bfree : Nat]
          /\ Device[b].bfree <= Device[b].blocks
    /\ \A a, b \in DOMAIN Device : Device[a].dev = Device[b].dev => Device[a] = Device[b]

VARIABLES given,   \* history: the arguments handled so far
          opts,    \* uopt of the program, and the arguments kept for libfuse
          main     \* "options", "mounted", or how the program ended

-----------------------------------------------------------------------------
(* Strings.                                                                *)

METADIR == [len |-> 9, lead |-> FALSE, trail |-> TRUE]

HIDETAG == 8

\* one string after another: no slash twice, none missing
build_path(s, t) ==
    [len   |-> s.len + t.len + (IF s.len = 0 \/ s.trail # t.lead THEN 0
                                ELSE IF s.trail THEN -1 ELSE 1),
     lead  |-> IF s.len = 0 THEN t.lead ELSE s.lead,
     trail |-> t.trail]

TooLong(s) == s.len + 1 > PATHLEN_MAX

make_absolute(s) ==
    IF s.lead THEN s ELSE [s EXCEPT !.len = Cwd + 1 + @, !.lead = TRUE]

add_trailing_slash(s) ==
    IF s.trail THEN s ELSE [s EXCEPT !.len = @ + 1, !.trail = TRUE]

\* a path as the kernel gives it
PathString(p) ==
    [len |-> IF p = Root THEN 1 ELSE Strlen[p], lead |-> TRUE, trail |-> p = Root]

-----------------------------------------------------------------------------
(* The options.                                                            *)

\* uopt_init
NoOptions == [branches |-> <<>>, cow |-> FALSE, chroot |-> FALSE, statfs_omit_ro |-> FALSE,
              relaxed_permissions |-> FALSE, doexit |-> FALSE, kept |-> <<>>]

\* mutant: read-only only if the flag says so
add_branch_Writable(b) ==
    [name |-> b.name, rw |-> b.flag # "RO", path |-> String[b.name], path_len |-> 0]

\* writable only if the flag says so
add_branch(b) == [name |-> b.name, rw |-> b.flag = "RW", path |-> String[b.name], path_len |-> 0]

\* The first list with a branch in it counts.  Any other argument of this kind
\* is kept for libfuse: the mountpoint, which is a list of one, by intention.
parse_branches(o, a) ==
    IF o.branches # <<>> \/ a.list = <<>> THEN [o EXCEPT !.kept = Append(@, a)]
    ELSE [o EXCEPT !.branches = [k \in DOMAIN a.list |-> add_branch(a.list[k])]]

ulakefs_opt_proc(o, a) ==
    CASE a.key \in {"nonopt", "dirs"} -> parse_branches(o, a)
      [] a.key \in {"cow", "chroot", "statfs_omit_ro", "relaxed_permissions"} ->
            [o EXCEPT ![a.key] = TRUE]
      [] a.key \in {"help", "version"} ->
            [o EXCEPT !.doexit = TRUE, !.kept = Append(@, a)]
      [] OTHER -> [o EXCEPT !.kept = Append(@, a)]

\* the string that post_opts opens and measures
BranchPath(o, b) ==
    IF o.chroot THEN build_path(String["chroot"], add_trailing_slash(b.path))
    ELSE add_trailing_slash(make_absolute(b.path))

\* What BUILD_PATH leaves in the buffer; whether it had room is not looked at.
\* Of two strings, the first stays, with a slash if neither has one to join them.
OpenedPath(o, b) ==
    LET root == String["chroot"]
    IN  IF ~TooLong(BranchPath(o, b)) THEN BranchPath(o, b)
        ELSE IF ~o.chroot \/ TooLong(root) THEN [len |-> 0, lead |-> FALSE, trail |-> FALSE]
        ELSE IF root.len = 0 \/ root.trail \/ b.path.lead THEN root
        ELSE add_trailing_slash(root)

\* a branch keeps its path in the chroot, and the length outside of it
Opened(o, b) ==
    [b EXCEPT !.path     = add_trailing_slash(IF o.chroot THEN @ ELSE make_absolute(@)),
              !.path_len = OpenedPath(o, b).len]

ulakefs_post_opts(o) ==
    [o EXCEPT !.branches = [k \in DOMAIN @ |-> Opened(o, @[k])]]

-----------------------------------------------------------------------------
(* main.                                                                   *)

\* libfuse mounts if it is left with one mountpoint and options that it knows
fuse_main(o) ==
    IF o.doexit THEN "help"
    ELSE IF Len(o.kept) = 1 /\ o.kept[1].key = "nonopt" /\ o.kept[1].list # <<>> THEN "mounted"
    ELSE "usage"

\* How the program goes on when the options are read.  An empty path is not opened.
Outcome(o) ==
    IF ~o.doexit /\ o.branches = <<>> THEN "no_branch"
    ELSE IF o.relaxed_permissions /\ ~IsUser THEN "refused"
    ELSE IF \E k \in DOMAIN o.branches : OpenedPath(o, o.branches[k]).len = 0 THEN "died"
    ELSE fuse_main(o)

\* one argument
Option ==
    /\ main = "options"
    /\ \E a \in Arg : /\ given' = Append(given, a)
                      /\ opts' = ulakefs_opt_proc(opts, a)
    /\ UNCHANGED <<uopt, main>>

\* Bound: NBranches branches are mounted
Main ==
    /\ main = "options"
    /\ Outcome(opts) = "mounted" => Len(opts.branches) = NBranches
    /\ main' = Outcome(opts)
    /\ IF main' = "mounted"
       THEN /\ opts' = ulakefs_post_opts(opts)
            /\ uopt' = [cow |-> opts.cow, rw |-> [b \in Branch |-> opts.branches[b + 1].rw]]
       ELSE UNCHANGED <<uopt, opts>>
    /\ UNCHANGED given

-----------------------------------------------------------------------------
(* path_hidden on strings.                                                 *)

WhiteoutPath(p, b) ==
    build_path(build_path(opts.branches[b + 1].path, METADIR), PathString(p))

\* where the j-th name of p ends in the whiteout path on branch b
EndOf(p, b, j) == WhiteoutPath(SubSeq(p, 1, j), b).len

\* mutant: the parents are not looked up
Walked_PathOnly(p, b) == {Len(p)} \ {0}

\* the path itself is looked up wherever the walk starts; a parent only if it
\* ends behind that
Walked(p, b) ==
    {j \in 1 .. Len(p) :
        \/ j = Len(p)
        \/ EndOf(p, b, j) > opts.branches[b + 1].path_len + METADIR.len - 1}

\* The test of the length forgets the end of the string: the longest name that
\* passes it is looked up without its last character.
filedir_hidden(d, p, b, j) ==
    LET n == EndOf(p, b, j) + HIDETAG
    IN  IF n > PATHLEN_MAX THEN "ENAMETOOLONG"
        ELSE IF n < PATHLEN_MAX /\ d.wh[b][SubSeq(p, 1, j)] # "none" THEN "hidden" ELSE "no"

\* the first answer of the walk that is not "no"
path_hidden_string(d, p, b) ==
    LET hits == {j \in Walked(p, b) : filedir_hidden(d, p, b, j) # "no"}
    IN  IF ~uopt.cow \/ TooLong(WhiteoutPath(p, b)) \/ hits = {} THEN "no"
        ELSE filedir_hidden(d, p, b, CHOOSE j \in hits : \A k \in hits : j <= k)

-----------------------------------------------------------------------------
(* ulakefs_statfs.                                                         *)

Dev(k) == Device[opts.branches[k].name]

\* mutant: only the branch before is compared
Repeated_LastOnly(k) == Dev(k - 1).dev = Dev(k).dev

Repeated(k) == \E j \in 1 .. k - 1 : Dev(j).dev = Dev(k).dev

\* n blocks of branch k in blocks of the first branch
Normalized(n, k) == (n * Dev(k).bsize) \div Dev(1).bsize

CountBranch(s, k) ==
    IF Repeated(k) THEN s
    ELSE IF opts.branches[k].rw
         THEN [s EXCEPT !.blocks = @ + Normalized(Dev(k).blocks, k),
                        !.bfree = @ + Normalized(Dev(k).bfree, k)]
    ELSE IF opts.statfs_omit_ro THEN s
    ELSE [s EXCEPT !.blocks = @ + Normalized(Dev(k).blocks, k)]

\* what the first k branches add up to
counted[k \in 1 .. Len(opts.branches)] ==
    IF k = 1 THEN Dev(1) ELSE CountBranch(counted[k - 1], k)

statfs == counted[Len(opts.branches)]

-----------------------------------------------------------------------------
(* Properties.                                                             *)

Mounted == main = "mounted"

\* where the arguments have lists of branches, without the empty ones
Lists == {k \in DOMAIN given : given[k].key \in {"nonopt", "dirs"} /\ given[k].list # <<>>}

Given(key) == \E k \in DOMAIN given : given[k].key = key

\* Whatever the order of the arguments, the union that is mounted has the
\* branches of the first list in their order, read-only unless marked RW, the
\* mountpoint is what follows, and each flag holds that was given anywhere.
MountedAsAsked ==
    Mounted =>
        /\ \E first, second \in Lists :
              LET list == given[first].list
              IN  /\ first < second /\ Lists = {first, second}
                  /\ [k \in DOMAIN opts.branches |-> opts.branches[k].name]
                         = [k \in DOMAIN list |-> list[k].name]
                  /\ \A b \in Branch : uopt.rw[b] <=> list[b + 1].flag = "RW"
                  /\ opts.kept[1] = given[second] /\ given[second].key = "nonopt"
        /\ \A key \in {"cow", "chroot", "statfs_omit_ro", "relaxed_permissions"} :
              opts[key] <=> Given(key)
        /\ opts.relaxed_permissions => IsUser

\* the first branch on each file system
FirstOf == {k \in 1 .. Len(opts.branches) : \A j \in 1 .. k - 1 : Dev(j).dev # Dev(k).dev}

\* the space of the file systems under the first k branches
held[k \in 1 .. Len(opts.branches)] ==
    (IF k = 1 THEN 0 ELSE held[k - 1])
        + (IF k \in FirstOf THEN Dev(k).blocks * Dev(k).bsize ELSE 0)

\* statfs reports no space that the file systems under the branches do not
\* have, counts each of them once, and loses less than a block for each branch
\* to the different block sizes.
StatfsBounded ==
    Mounted =>
        LET n        == Len(opts.branches)
            bsize    == Dev(1).bsize
            reported == statfs.blocks * bsize
        IN  /\ reported <= held[n]
            /\ ~opts.statfs_omit_ro => reported > held[n] - n * bsize
            /\ statfs.bfree <= statfs.blocks
            /\ \A k \in FirstOf : opts.branches[k].rw =>
                  (statfs.bfree + 1) * bsize > Dev(k).bfree * Dev(k).bsize
=============================================================================
