----------------------------- MODULE UlakeUnion -----------------------------
(***************************************************************************)
(* What the handlers of UlakeFuse guarantee.                               *)
(***************************************************************************)
EXTENDS UlakeFuse

CONSTANT Refusal    \* the errors a handler may return in this mount (see TreeView)

(***************************************************************************)
(* The handlers implement the one-tree view: whatever branch a file is on, *)
(* and however often it is copied up, hidden and made anew, a call that    *)
(* returns 0 has exactly its POSIX effect on what the lookups show, and a  *)
(* call that fails changes nothing there (fuse_operations.c, readrmdir.c). *)
(***************************************************************************)
Tree1 == INSTANCE TreeView WITH view <- View(fs), ret <- ret

ImplementsTreeView == Tree1!Spec

\* e has the files of d on the read-only branches, and fewer whiteouts there
ReadOnlyKept(d, e) ==
    \A b \in Branch : ~uopt.rw[b] =>
        /\ e.tree[b] = d.tree[b]
        /\ \A p \in Path : e.wh[b][p] \in {d.wh[b][p], "none"}

(***************************************************************************)
(* No call ever creates, changes or removes a file on a branch that was    *)
(* mounted read-only (find_rw_branch_cow_common, find_rw_branch_cutlast    *)
(* and the *_ro functions keep every write off it).  Whiteouts there may   *)
(* only disappear: remove_hidden deletes them on all branches it passes.   *)
(***************************************************************************)
ReadOnlyUntouched == [][ReadOnlyKept(fs, fs')]_vars

(***************************************************************************)
(* A directory listing shows exactly the names that getattr then finds:    *)
(* ulakefs_readdir, which merges whole branches, and find_branch, which    *)
(* stops at the first answer, apply the same whiteouts.                    *)
(***************************************************************************)
ReaddirMatchesLookup ==
    \A p \in Path \cup {Root} :
        (p = Root \/ Lookup(fs, p).kind = "dir") =>
            ulakefs_readdir(fs, p) = {c \in Children(p) : Lookup(fs, c).kind # "none"}

\* paths a handler can be called with
Reachable(p) == p # Root /\ Walk(fs, p)

\* find_rw_branch_cutlast answers with a writable branch for p, or fails
Writable(p, env) ==
    LET c == find_rw_branch_cutlast(fs, p, env)
    IN  c.branch # -1 => uopt.rw[c.branch]

(***************************************************************************)
(* Every path that a handler can be called with gets a writable branch or  *)
(* an error (general.c:270 "Find a writable branch").                      *)
(***************************************************************************)
CutlastWritable == \A p \in Path, env \in Envs : Reachable(p) => Writable(p, env)

\* On read-only branches e differs from d at most in what is at p, and has no more
\* whiteouts.
ReadOnlyKeptBut(d, e, p) ==
    \A b \in Branch : ~uopt.rw[b] => \A q \in Path :
        /\ q # p => e.tree[b][q] = d.tree[b][q]
        /\ e.wh[b][q] \in {d.wh[b][q], "none"}

(***************************************************************************)
(* When the parent of a new name cannot be copied up, find_rw_branch_      *)
(* cutlast answers with the branch it found, read-only or not              *)
(* (general.c:326), and the file is made there.  This is all that ever     *)
(* reaches a read-only branch: one call that makes a name the lookups do   *)
(* not show, is given no writable branch for it and returns 0 writes that  *)
(* one name there.  No other call writes a read-only branch, and no call   *)
(* leaves anything there when it fails.                                    *)
(***************************************************************************)
NewNameLeaks(p) ==
    /\ ret'.op \in {"create", "mkdir", "mknod", "symlink"} /\ ret'.res = "OK"
    /\ ret'.path = p /\ Negative(p)
    /\ \E env \in Envs : ~Writable(p, env)
    /\ ReadOnlyKeptBut(fs, fs', p)

OnlyNewNamesLeak ==
    [][ReadOnlyKept(fs, fs') \/ \E p \in Path : NewNameLeaks(p)]_vars

\* the files that a failed copy may leave truncated
Torn(env) == IF env.torn THEN env.fail ELSE {}

\* f shows what g shows, or else a truncated copy of one of the files in torn
ShowsButTorn(f, g, torn) ==
    \/ f = g
    \/ \E q \in torn : g[q].kind = "reg" /\ f = [g EXCEPT ![q] = [kind |-> "reg", val |-> NoVal]]

(***************************************************************************)
(* Copying up is invisible: preparing any path for writing, whether that   *)
(* succeeds or fails, leaves every path as the user saw it.  The exception *)
(* is the one file whose copying was cut short: copy_file does not remove  *)
(* the copy, and it hides the whole file (general.c:738).                  *)
(***************************************************************************)
CowInvisible ==
    \A p \in Path, env \in Envs : Reachable(p) =>
        ShowsButTorn(View(find_rw_branch_cutlast(fs, p, env).disk), View(fs), Torn(env))

(***************************************************************************)
(* A call that fails shows nothing of what it had done by then: no handler *)
(* leaves a change of the view behind when it returns an error, though     *)
(* directories were made or files copied for it (fuse_operations.c:391-440 *)
(* and every other handler that first asks for a writable branch), except  *)
(* one truncated copy if it was the copying of data that failed.           *)
(***************************************************************************)
FailureUnseen ==
    [][ret'.res # "OK" =>
          ShowsButTorn(View(fs)', View(fs),
                       IF ret'.res = "ENOSPC" THEN UNION {Torn(env) : env \in Envs} ELSE {})]_vars
=============================================================================
