----------------------------- MODULE UlakeDisk -----------------------------
(***************************************************************************)
(* The branches of a union mount and the lookups that every handler starts *)
(* from: general.c (path_hidden, find_branch, find_lowest_rw_branch) and   *)
(* readrmdir.c (ulakefs_readdir, dir_not_empty).                           *)
(*                                                                         *)
(* A disk d holds for each branch a tree of files and the whiteouts of its *)
(* .ulakefs directory: d.wh[b][p] is the kind of .ulakefs/p_HIDDEN~ on     *)
(* branch b.  The lookups are operators on a disk, since the code runs     *)
(* them on the disk as the earlier steps of a handler left it.             *)
(***************************************************************************)
EXTENDS Paths

CONSTANT NBranches      \* uopt.nbranches

ASSUME NBranchesAssumption == NBranches \in Nat \ {0}

VARIABLE uopt           \* the mount options: fixed once main() has parsed them

Branch == 0 .. NBranches - 1

Options == [rw : [Branch -> BOOLEAN], cow : BOOLEAN]

Disk == [tree : [Branch -> Tree], wh : [Branch -> [Path -> {"none", "file", "dir"}]]]

WellFormed(d) == \A b \in Branch : IsTree(d.tree[b])

Exists(d, b, p) == HasNode(d.tree[b], p)

IsDir(d, b, p) == HasDir(d.tree[b], p)

-----------------------------------------------------------------------------
(* Lookups.                                                                *)

\* the path or one of its parents has a whiteout on branch b
path_hidden(d, p, b) ==
    uopt.cow /\ \E q \in PrefixesOf[p] : d.wh[b][q] # "none"

\* Branch i answers for p: p is there, and no branch above has or hides it.
Answers(d, p, i) ==
    /\ Exists(d, i, p)
    /\ \A j \in 0 .. i - 1 : ~Exists(d, j, p) /\ ~path_hidden(d, p, j)

find_rorw_branch(d, p) ==
    IF \E i \in Branch : Answers(d, p, i)
    THEN CHOOSE i \in Branch : Answers(d, p, i)
    ELSE -1

\* the first writable branch strictly above branch_ro, or -1
find_lowest_rw_branch(branch_ro) ==
    LET above == {i \in Branch : i < branch_ro /\ uopt.rw[i]}
    IN  IF above = {} THEN -1
        ELSE CHOOSE i \in above : \A j \in above : i <= j

-----------------------------------------------------------------------------
(* Directory listings.  Branch i is listed if no branch above hides the    *)
(* directory (subdir_hidden ends the loop); a name is taken from it unless *)
(* a branch above has a whiteout for it (the hash table whiteouts, filled  *)
(* after the branch itself is listed).                                     *)

\* mutant: the loop goes on below a branch that hides the directory
Listed_NoSubdirHidden(d, p, i) ==
    {c \in Children(p) :
        /\ IsDir(d, i, p)
        /\ Exists(d, i, c)
        /\ \A j \in 0 .. i - 1 : uopt.cow => d.wh[j][c] = "none"}

\* mutant: nothing is listed below the first branch that has the directory
Listed_TopOnly(d, p, i) ==
    {c \in Children(p) :
        IsDir(d, i, p) /\ Exists(d, i, c) /\ \A j \in 0 .. i - 1 : ~IsDir(d, j, p)}

Listed(d, p, i) ==
    {c \in Children(p) :
        /\ IsDir(d, i, p)
        /\ Exists(d, i, c)
        /\ \A j \in 0 .. i - 1 :
              /\ ~path_hidden(d, p, j)
              /\ uopt.cow => d.wh[j][c] = "none"}

ulakefs_readdir(d, p) == UNION {Listed(d, p, i) : i \in Branch}

dir_not_empty(d, p) == \E i \in Branch : Listed(d, p, i) # {}

-----------------------------------------------------------------------------
(* What a user sees.  The kernel walks a path one name at a time and asks  *)
(* getattr for each prefix, so a file is reached through directories only. *)

\* ulakefs_getattr on the answering branch
getattr(d, p) ==
    LET i == find_rorw_branch(d, p)
    IN  IF i = -1 THEN Absent ELSE d.tree[i][p]

Walk(d, p) == \A q \in PrefixesOf[p] \ {p} : getattr(d, q).kind = "dir"

Lookup(d, p) == IF Walk(d, p) THEN getattr(d, p) ELSE Absent

View(d) == [p \in Path |-> Lookup(d, p)]
=============================================================================
