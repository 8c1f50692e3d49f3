------------------------------ MODULE Listing ------------------------------
(***************************************************************************)
(* ulakefs_readdir and dir_not_empty of readrmdir.c entry by entry, with   *)
(* the hash tables of hashtable.c that they keep names in.  UlakeDisk has  *)
(* what they compute as operators on one disk; here the directories are    *)
(* read while other threads copy files up, the tables grow, and memory may *)
(* run out.                                                                *)
(*                                                                         *)
(* A listing cannot meet a removal, a rename or a creation in its          *)
(* directory: the kernel locks the directory.  Opening a file for writing  *)
(* is not kept out.                                                        *)
(***************************************************************************)
EXTENDS UlakeCow

CONSTANTS HashOf,       \* string_hash and hash, for each name
          primes,       \* the table lengths
          MemoryShort   \* malloc may fail

ASSUME ListingAssumption ==
    /\ HashOf \in [Name -> Nat]
    /\ primes \in Seq(Nat \ {0}) /\ primes # <<>>
    /\ MemoryShort \in BOOLEAN

VARIABLES fs,   \* the disk
          ls    \* the locals of the handler that is reading a directory

-----------------------------------------------------------------------------
(* hashtable.c.  A chain is the set of its keys: no search depends on its  *)
(* order.  primeindex stands for the length of the table.                  *)

create_hashtable == [primeindex |-> 1, entrycount |-> 0,
                     table |-> [b \in 0 .. primes[1] - 1 |-> {}]]

tablelength(h) == primes[h.primeindex]

\* my_ceil adds one to every number
loadlimit(h) == (65 * tablelength(h)) \div 100 + 1

indexFor(length, k) == HashOf[Last(k)] % length

Keys(h) == UNION {h.table[b] : b \in DOMAIN h.table}

hashtable_search(h, k) == k \in h.table[indexFor(tablelength(h), k)]

\* mutant: the chains are taken over as they are
hashtable_expand_KeepsChains(h) ==
    LET newsize == primes[h.primeindex + 1]
    IN  [h EXCEPT !.primeindex = @ + 1,
                  !.table = [b \in 0 .. newsize - 1 |-> IF b \in DOMAIN @ THEN @[b] ELSE {}]]

hashtable_expand(h) ==
    LET newsize == primes[h.primeindex + 1]
    IN  [h EXCEPT !.primeindex = @ + 1,
                  !.table = [b \in 0 .. newsize - 1 |-> {k \in Keys(h) : indexFor(newsize, k) = b}]]

Full(h) == h.entrycount + 1 > loadlimit(h) /\ h.primeindex < Len(primes)

\* the tables from which the insertion goes on: an expansion that gets no
\* memory leaves the table as it is
Room(h) == IF ~Full(h) THEN {h}
           ELSE {hashtable_expand(h)} \cup (IF MemoryShort THEN {h} ELSE {})

\* the outcomes of an insertion
hashtable_insert(h, k) ==
    UNION {{[t EXCEPT !.entrycount = @ + 1, !.table[indexFor(tablelength(t), k)] = @ \cup {k}]}
           \cup (IF MemoryShort THEN {t} ELSE {}) : t \in Room(h)}

-----------------------------------------------------------------------------
Idle == [at |-> "idle", call |-> "", dir |-> Root, i |-> 0, left |-> {}, hidden |-> FALSE,
         files |-> create_hashtable, whiteouts |-> create_hashtable,
         filled |-> [p \in Path |-> 0], lost |-> FALSE, not_empty |-> FALSE]

\* the kernel calls on a directory that it has looked up
Start(call, dir) ==
    /\ ls.at = "idle"
    /\ IF dir = Root THEN call = "readdir" ELSE Lookup(fs, dir).kind = "dir"
    /\ ls' = [Idle EXCEPT !.at = "branch", !.call = call, !.dir = dir]
    /\ UNCHANGED <<uopt, fs>>

Entries(i) == {c \in Children(ls.dir) : Exists(fs, i, c)}

Whiteouts(i) == {c \in Children(ls.dir) : fs.wh[i][c] # "none"}

\* path_hidden and opendir on branch i, if the loop gets that far
NextBranch ==
    /\ ls.at = "branch"
    /\ IF ls.i = NBranches \/ ls.hidden THEN ls' = [ls EXCEPT !.at = "done"]
       ELSE ls' = [ls EXCEPT !.hidden = path_hidden(fs, ls.dir, ls.i),
                     !.at = IF IsDir(fs, ls.i, ls.dir) THEN "dir" ELSE "closed",
                     !.left = IF IsDir(fs, ls.i, ls.dir) THEN Entries(ls.i) ELSE {}]
    /\ UNCHANGED <<uopt, fs>>

\* mutant: a removed file is shown
Shown_NoWhiteouts(c) == ~hashtable_search(ls.files, c)

\* not met on a branch above and not hidden by one
Shown(c) == /\ ~hashtable_search(ls.files, c)
            /\ uopt.cow => ~hashtable_search(ls.whiteouts, c)

\* readdir(3) gives each entry that was there at opendir
ReadEntry(c) ==
    /\ ls.at = "dir"
    /\ c \in ls.left
    /\ IF ~Shown(c) THEN ls' = [ls EXCEPT !.left = @ \ {c}]
       ELSE IF ls.call = "dir_not_empty" THEN ls' = [ls EXCEPT !.at = "done", !.not_empty = TRUE]
       ELSE \E t \in hashtable_insert(ls.files, c) :
               ls' = [ls EXCEPT !.left = @ \ {c}, !.files = t, !.filled[c] = @ + 1,
                                !.lost = @ \/ c \notin Keys(t)]
    /\ UNCHANGED <<uopt, fs>>

\* one that came later it may give or not
ReadNewEntry(c) ==
    /\ ls.at = "dir"
    /\ c \in Entries(ls.i) \ ls.left
    /\ ls.filled[c] = 0 /\ Shown(c)
    /\ ls.call = "readdir"
    /\ \E t \in hashtable_insert(ls.files, c) :
          ls' = [ls EXCEPT !.files = t, !.filled[c] = @ + 1, !.lost = @ \/ c \notin Keys(t)]
    /\ UNCHANGED <<uopt, fs>>

\* mutant: whiteouts are read only where the directory is missing
CloseDir_NoWhiteouts ==
    /\ ls.at = "dir"
    /\ ls.left = {}
    /\ ls' = [ls EXCEPT !.at = "branch", !.i = @ + 1]
    /\ UNCHANGED <<uopt, fs>>

CloseDir ==
    /\ ls.at = "dir"
    /\ ls.left = {}
    /\ ls' = [ls EXCEPT !.at = "closed"]
    /\ UNCHANGED <<uopt, fs>>

\* read_whiteouts opens the directory's part of .ulakefs
OpenWhiteouts ==
    /\ ls.at = "closed"
    /\ ls' = IF uopt.cow THEN [ls EXCEPT !.at = "whiteouts", !.left = Whiteouts(ls.i)]
             ELSE [ls EXCEPT !.at = "branch", !.i = @ + 1]
    /\ UNCHANGED <<uopt, fs>>

is_hiding(c) ==
    /\ ls.at = "whiteouts"
    /\ c \in ls.left
    /\ IF hashtable_search(ls.whiteouts, c) THEN ls' = [ls EXCEPT !.left = @ \ {c}]
       ELSE \E t \in hashtable_insert(ls.whiteouts, c) :
               ls' = [ls EXCEPT !.left = @ \ {c}, !.whiteouts = t, !.lost = @ \/ c \notin Keys(t)]
    /\ UNCHANGED <<uopt, fs>>

CloseWhiteouts ==
    /\ ls.at = "whiteouts"
    /\ ls.left = {}
    /\ ls' = [ls EXCEPT !.at = "branch", !.i = @ + 1]
    /\ UNCHANGED <<uopt, fs>>

\* A key that strdup could not copy is hashed, and hashtable_expand clears the
\* rest of a table grown in place through a pointer it never set: the program
\* dies.
OutOfMemory ==
    /\ MemoryShort
    /\ \/ ls.at = "dir" /\ \E c \in ls.left : Shown(c) /\ ls.call = "readdir"
       \/ ls.at = "whiteouts" /\ \E c \in ls.left : ~hashtable_search(ls.whiteouts, c)
    /\ ls' = [Idle EXCEPT !.at = "dead"]
    /\ UNCHANGED <<uopt, fs>>

\* the handler answers
Answer ==
    /\ ls.at = "done"
    /\ ls' = Idle
    /\ UNCHANGED <<uopt, fs>>

\* another thread opens c for writing
CopyUp(c) ==
    /\ ls.call = "readdir" /\ c \in Children(ls.dir)
    /\ \E i \in {find_rorw_branch(fs, c)} : i > 0 /\ ~uopt.rw[i]
    /\ fs' = find_rw_branch_cow(fs, c, [fail |-> {}, torn |-> FALSE, hide |-> TRUE,
                                        order |-> [p \in Path |-> 0]]).disk
    /\ UNCHANGED <<uopt, ls>>

Read == \/ \E dir \in Path \cup {Root}, call \in {"readdir", "dir_not_empty"} : Start(call, dir)
        \/ NextBranch \/ CloseDir \/ OpenWhiteouts \/ CloseWhiteouts \/ Answer
        \/ \E c \in ls.left : ReadEntry(c) \/ is_hiding(c)
        \/ \E c \in Path : ReadNewEntry(c) \/ CopyUp(c)
        \/ OutOfMemory

-----------------------------------------------------------------------------
(* Properties.                                                             *)

Filled == {c \in Path : ls.filled[c] > 0}

\* A listing shows each name that a lookup finds in the directory, whatever
\* files are copied up while it is read and even if memory runs out; it shows
\* none twice and no other, unless an insertion into a table failed.
ListingExact ==
    ls.at = "done" /\ ls.call = "readdir" =>
        /\ ulakefs_readdir(fs, ls.dir) \subseteq Filled
        /\ ~ls.lost => /\ Filled = ulakefs_readdir(fs, ls.dir)
                       /\ \A c \in Path : ls.filled[c] <= 1

\* A directory counts as empty exactly if no lookup finds a name in it; when
\* memory runs out it may count as filled, never as empty if it is not.
EmptyExact ==
    ls.at = "done" /\ ls.call = "dir_not_empty" =>
        /\ dir_not_empty(fs, ls.dir) => ls.not_empty
        /\ ~ls.lost => ls.not_empty = dir_not_empty(fs, ls.dir)

\* However often a table has grown or failed to, each key in it is found and
\* counted.
TablesFind ==
    \A h \in {ls.files, ls.whiteouts} :
        /\ \A k \in Keys(h) : hashtable_search(h, k)
        /\ h.entrycount = Cardinality(Keys(h))
=============================================================================
