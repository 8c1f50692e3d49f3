----------------------------- MODULE SessionProofs -----------------------------
(***************************************************************************)
(* The hash tables of hashtable.c find what was put in, and the handlers   *)
(* that read a directory with them show what a lookup finds, for any       *)
(* branches, names, table lengths and hash values, while files are copied  *)
(* up and when memory runs out.  Then the start of the program: main       *)
(* mounts what was asked for, path_hidden finds the whiteouts by their     *)
(* strings, and statfs adds up the space of the file systems.              *)
(***************************************************************************)
EXTENDS Session, UlakeCowProofs, FiniteSetTheorems

\* a table of the length that primeindex stands for
Table == UNION {[primeindex : {n}, entrycount : Nat, table : [0 .. primes[n] - 1 -> SUBSET Path]] :
                    n \in 1 .. Len(primes)}

\* each key is in the chain of its hash, and counted
Filed(h) ==
    /\ \A b \in DOMAIN h.table : \A k \in h.table[b] : indexFor(tablelength(h), k) = b
    /\ IsFiniteSet(Keys(h))
    /\ h.entrycount = Cardinality(Keys(h))

Looping == {"branch", "dir", "closed", "whiteouts"}

Local == [at : Looping \cup {"idle", "done", "dead"}, call : {"", "readdir", "dir_not_empty"},
          dir : Path \cup {Root}, i : Nat, left : SUBSET Path, hidden : BOOLEAN,
          files : Table, whiteouts : Table, filled : [Path -> Nat], lost : BOOLEAN,
          not_empty : BOOLEAN]

TablesFiled == Filed(ls.files) /\ Filed(ls.whiteouts)

\* a whiteout of c on branch j counts
Marked(j, c) == uopt.cow /\ fs.wh[j][c] # "none"

\* the names below the directory that the branches above n hide
MarkedAbove(n) == {c \in Children(ls.dir) : \E j \in 0 .. n - 1 : Marked(j, c)}

HiddenAbove(n) == \E j \in 0 .. n - 1 : path_hidden(fs, ls.dir, j)

\* where the loop is: the branch, and what it knows of the whiteouts above
LoopState ==
    /\ ls.at = "branch" => ls.i \in Branch \cup {NBranches} /\ (ls.hidden <=> HiddenAbove(ls.i))
    /\ ls.at \in Looping \ {"branch"} =>
          ls.i \in Branch /\ ~HiddenAbove(ls.i) /\ (ls.hidden <=> path_hidden(fs, ls.dir, ls.i))
    /\ ls.at = "dir" => IsDir(fs, ls.i, ls.dir) /\ ls.left \subseteq Entries(ls.i)
    /\ ls.at \in Looping \ {"whiteouts"} =>
          /\ Keys(ls.whiteouts) \subseteq MarkedAbove(ls.i)
          /\ ~ls.lost => MarkedAbove(ls.i) \subseteq Keys(ls.whiteouts)
    /\ ls.at = "whiteouts" =>
          /\ uopt.cow /\ ls.left \subseteq Whiteouts(ls.i)
          /\ Keys(ls.whiteouts) \subseteq MarkedAbove(ls.i + 1)
          /\ ~ls.lost => MarkedAbove(ls.i + 1) \subseteq Keys(ls.whiteouts) \cup ls.left

\* the first branch that the loop has not begun
Coming == IF ls.at = "branch" THEN ls.i ELSE ls.i + 1

\* the loop will still meet c
Pending(c) ==
    /\ ls.at \in Looping
    /\ \/ ls.at = "dir" /\ c \in ls.left /\ c \in Listed(fs, ls.dir, ls.i)
       \/ \E j \in Branch : j >= Coming /\ c \in Listed(fs, ls.dir, j)

Active == ls.at \in Looping \cup {"done"}

\* what was shown, and that nothing is left out
Answered ==
    Active =>
        /\ ls.call = "readdir" => ~ls.not_empty
        /\ ls.call = "dir_not_empty" => Filled = {}
        /\ ls.call # ""
        /\ Keys(ls.files) \subseteq Filled
        /\ ~ls.lost => \A c \in Path : ls.filled[c] = IF c \in Keys(ls.files) THEN 1 ELSE 0
        /\ ~ls.lost => Filled \subseteq ulakefs_readdir(fs, ls.dir)
        /\ ~ls.lost /\ ls.not_empty => ulakefs_readdir(fs, ls.dir) # {}
        /\ \A c \in ulakefs_readdir(fs, ls.dir) : c \in Filled \/ ls.not_empty \/ Pending(c)

Reading == ls \in Local /\ TablesFiled /\ Sound(fs) /\ LoopState /\ Answered

NotYet == ~Mounted => ls = Idle

SInv == Reading /\ NotYet
-----------------------------------------------------------------------------
(* Hash tables.                                                            *)

(* The parts of a table. *)
LEMMA TableParts ==
    ASSUME NEW h \in Table
    PROVE  /\ h.primeindex \in 1 .. Len(primes)
           /\ tablelength(h) \in Nat \ {0}
           /\ h.entrycount \in Nat
           /\ h.table \in [0 .. tablelength(h) - 1 -> SUBSET Path]
           /\ Keys(h) \subseteq Path
           /\ h = [primeindex |-> h.primeindex, entrycount |-> h.entrycount, table |-> h.table]
  <1>1. PICK n \in 1 .. Len(primes) :
           h \in [primeindex : {n}, entrycount : Nat, table : [0 .. primes[n] - 1 -> SUBSET Path]]
    BY DEF Table
  <1>2. primes[n] \in Nat \ {0}
    BY ListingAssumption
  <1>3. h.primeindex = n /\ tablelength(h) = primes[n]
    BY <1>1 DEF tablelength
  <1> QED BY <1>1, <1>2, <1>3 DEF Keys

(* Parts that fit make a table. *)
LEMMA MakeTable ==
    ASSUME NEW n \in 1 .. Len(primes), NEW c \in Nat, NEW t \in [0 .. primes[n] - 1 -> SUBSET Path]
    PROVE  [primeindex |-> n, entrycount |-> c, table |-> t] \in Table
  BY DEF Table

(* indexFor answers with a chain of the table. *)
LEMMA IndexRange ==
    ASSUME NEW n \in Nat \ {0}, NEW k \in Path
    PROVE  indexFor(n, k) \in 0 .. n - 1
  <1>1. k \in Seq(Name) /\ Len(k) \in Nat \ {0}
    BY PathFacts
  <1>2. Last(k) \in Name
    BY <1>1, ElementOfSeq DEF Last
  <1>3. HashOf[Last(k)] \in Nat
    BY <1>2, ListingAssumption
  <1>4. \A m \in Nat : m % n \in 0 .. n - 1
    OBVIOUS
  <1> QED BY <1>3, <1>4 DEF indexFor

(* Each key of a table is found, and no other. *)
LEMMA TableSearch ==
    ASSUME NEW h \in Table, Filed(h), NEW k \in Path
    PROVE  hashtable_search(h, k) <=> k \in Keys(h)
  <1>1. /\ DOMAIN h.table = 0 .. tablelength(h) - 1
        /\ indexFor(tablelength(h), k) \in 0 .. tablelength(h) - 1
    BY TableParts, IndexRange
  <1> QED BY <1>1 DEF hashtable_search, Keys, Filed

(* A new table is empty. *)
LEMMA EmptyTable == create_hashtable \in Table /\ Filed(create_hashtable) /\ Keys(create_hashtable) = {}
  <1> DEFINE h == create_hashtable
  <1>1. Len(primes) \in Nat \ {0}
    BY ListingAssumption, EmptySeq
  <1>2. 1 \in 1 .. Len(primes)
    BY <1>1
  <1>3. h \in Table
    <2>1. [b \in 0 .. primes[1] - 1 |-> {}] \in [0 .. primes[1] - 1 -> SUBSET Path]
      OBVIOUS
    <2> QED BY <1>2, <2>1, MakeTable DEF create_hashtable
  <1>4. Keys(h) = {} /\ \A b \in DOMAIN h.table : h.table[b] = {}
    BY DEF create_hashtable, Keys
  <1>5. h.entrycount = 0
    BY DEF create_hashtable
  <1> HIDE DEF h
  <1> QED BY <1>3, <1>4, <1>5, FS_EmptySet DEF Filed, h

(* An expansion keeps the keys. *)
LEMMA Expand ==
    ASSUME NEW h \in Table, Filed(h), h.primeindex < Len(primes)
    PROVE  /\ hashtable_expand(h) \in Table
           /\ Filed(hashtable_expand(h))
           /\ Keys(hashtable_expand(h)) = Keys(h)
  <1> DEFINE n == h.primeindex + 1
             chain == [b \in 0 .. primes[n] - 1 |-> {k \in Keys(h) : indexFor(primes[n], k) = b}]
             e == hashtable_expand(h)
  <1>1. /\ h.primeindex \in 1 .. Len(primes) /\ Keys(h) \subseteq Path /\ h.entrycount \in Nat
        /\ h = [primeindex |-> h.primeindex, entrycount |-> h.entrycount, table |-> h.table]
    BY TableParts
  <1>2. Len(primes) \in Nat
    BY ListingAssumption, EmptySeq
  <1>3. n \in 1 .. Len(primes)
    BY <1>1, <1>2
  <1>4. primes[n] \in Nat \ {0}
    BY <1>3, ListingAssumption
  <1>5. e = [primeindex |-> n, entrycount |-> h.entrycount, table |-> chain]
    <2>1. e = [h EXCEPT !.primeindex = n, !.table = chain]
      BY DEF hashtable_expand
    <2> HIDE DEF e, n, chain
    <2> QED BY <1>1, <2>1
  <1>6. chain \in [0 .. primes[n] - 1 -> SUBSET Path]
    BY <1>1
  <1> HIDE DEF n, e
  <1>7. e \in Table
    BY <1>1, <1>3, <1>5, <1>6, MakeTable
  <1>8. e.table = chain /\ tablelength(e) = primes[n] /\ e.entrycount = h.entrycount
    BY <1>5 DEF tablelength
  <1>9. Keys(e) = Keys(h)
    <2>1. \A k \in Keys(h) : indexFor(primes[n], k) \in 0 .. primes[n] - 1
      BY <1>1, <1>4, IndexRange
    <2>2. \A b \in 0 .. primes[n] - 1 : e.table[b] = {k \in Keys(h) : indexFor(primes[n], k) = b}
      BY <1>8
    <2>3. DOMAIN e.table = 0 .. primes[n] - 1
      BY <1>8
    <2>4. \A k : k \in Keys(e) <=> \E b \in 0 .. primes[n] - 1 : k \in e.table[b]
      BY <2>3 DEF Keys
    <2> HIDE DEF chain
    <2> QED BY <2>1, <2>2, <2>4
  <1>10. \A b \in DOMAIN e.table : \A k \in e.table[b] : indexFor(tablelength(e), k) = b
    BY <1>8
  <1>11. IsFiniteSet(Keys(e)) /\ e.entrycount = Cardinality(Keys(e))
    BY <1>8, <1>9 DEF Filed
  <1> HIDE DEF chain
  <1> QED BY <1>7, <1>9, <1>10, <1>11 DEF Filed, e

\* h with k in its chain, and counted
Put(h, k) == [h EXCEPT !.entrycount = @ + 1, !.table[indexFor(tablelength(h), k)] = @ \cup {k}]

(* A new key is filed with the others. *)
LEMMA PutFiles ==
    ASSUME NEW h \in Table, Filed(h), NEW k \in Path, k \notin Keys(h)
    PROVE  Put(h, k) \in Table /\ Filed(Put(h, k)) /\ Keys(Put(h, k)) = Keys(h) \cup {k}
  <1> DEFINE n == tablelength(h)
             i == indexFor(n, k)
             chain == [h.table EXCEPT ![i] = h.table[i] \cup {k}]
             e == Put(h, k)
  <1>1. /\ h.primeindex \in 1 .. Len(primes) /\ n \in Nat \ {0} /\ h.entrycount \in Nat
        /\ h.table \in [0 .. n - 1 -> SUBSET Path]
        /\ h = [primeindex |-> h.primeindex, entrycount |-> h.entrycount, table |-> h.table]
    BY TableParts
  <1>2. i \in 0 .. n - 1
    BY <1>1, IndexRange
  <1>3. e = [primeindex |-> h.primeindex, entrycount |-> h.entrycount + 1, table |-> chain]
    <2>1. e = [h EXCEPT !.entrycount = h.entrycount + 1, !.table = chain]
      <3>1. e = [h EXCEPT !.entrycount = h.entrycount + 1, !.table[i] = h.table[i] \cup {k}]
        BY DEF Put
      <3> HIDE DEF e, i, n
      <3> QED BY <1>1, <3>1
    <2> HIDE DEF e, chain
    <2> QED BY <1>1, <2>1
  <1>4. chain \in [0 .. n - 1 -> SUBSET Path]
    BY <1>1
  <1>5. e \in Table
    <2>1. h.entrycount + 1 \in Nat /\ n = primes[h.primeindex]
      BY <1>1 DEF tablelength
    <2> HIDE DEF e, chain, n
    <2> QED BY <1>1, <1>3, <1>4, <2>1, MakeTable
  <1>6. e.table = chain /\ tablelength(e) = n /\ e.entrycount = h.entrycount + 1
    BY <1>3 DEF tablelength
  <1>7. \A b \in 0 .. n - 1 : chain[b] = IF b = i THEN h.table[b] \cup {k} ELSE h.table[b]
    BY <1>1
  <1>8. DOMAIN chain = 0 .. n - 1 /\ DOMAIN h.table = 0 .. n - 1
    BY <1>1
  <1>11. i = indexFor(n, k)
    OBVIOUS
  <1> HIDE DEF e, chain, n, i
  <1>9. Keys(e) = Keys(h) \cup {k}
    BY <1>2, <1>6, <1>7, <1>8 DEF Keys
  <1>10. \A b \in DOMAIN e.table : \A q \in e.table[b] : indexFor(tablelength(e), q) = b
    <2> TAKE b \in DOMAIN e.table
    <2> TAKE q \in e.table[b]
    <2>1. b \in 0 .. n - 1
      BY <1>6, <1>8
    <2>2. q \in h.table[b] \/ (b = i /\ q = k)
      BY <2>1, <1>6, <1>7
    <2>3. q \in h.table[b] => indexFor(n, q) = b
      BY <2>1, <1>8 DEF Filed, n
    <2> QED BY <2>2, <2>3, <1>6, <1>11
  <1>12. IsFiniteSet(Keys(e)) /\ e.entrycount = Cardinality(Keys(e))
    BY <1>6, <1>9, FS_AddElement DEF Filed
  <1> QED BY <1>5, <1>9, <1>10, <1>12 DEF Filed, e

(* An insertion adds the key, or leaves the keys as they are. *)
LEMMA Insert ==
    ASSUME NEW h \in Table, Filed(h), NEW k \in Path, k \notin Keys(h),
           NEW t \in hashtable_insert(h, k)
    PROVE  t \in Table /\ Filed(t) /\ Keys(t) \in {Keys(h), Keys(h) \cup {k}}
  <1>1. PICK r \in Room(h) : t = Put(r, k) \/ t = r
    BY DEF hashtable_insert, Put
  <1>2. r \in Table /\ Filed(r) /\ Keys(r) = Keys(h)
    <2>1. r = h \/ (Full(h) /\ r = hashtable_expand(h))
      BY DEF Room
    <2> QED BY <2>1, Expand DEF Full
  <1> QED BY <1>1, <1>2, PutFiles

-----------------------------------------------------------------------------
(* Copying up.                                                             *)

\* e is d with more on the way to c, and the same whiteouts
Grown(d, e, c) ==
    /\ Sound(e) /\ e.wh = d.wh
    /\ \A b \in Branch, q \in Path :
          /\ Exists(d, b, q) => e.tree[b][q] = d.tree[b][q]
          /\ Exists(e, b, q) => Exists(d, b, q) \/ q \in PrefixesOf[c]

(* What has grown twice has grown. *)
LEMMA GrownTransitive ==
    ASSUME NEW d, NEW e, NEW f, NEW c, Grown(d, e, c), Grown(e, f, c)
    PROVE  Grown(d, f, c)
  <1> SUFFICES ASSUME NEW b \in Branch, NEW q \in Path
               PROVE  /\ Exists(d, b, q) => f.tree[b][q] = d.tree[b][q]
                      /\ Exists(f, b, q) => Exists(d, b, q) \/ q \in PrefixesOf[c]
    BY DEF Grown
  <1>1. q # Root
    BY PathFacts
  <1> QED BY <1>1 DEF Grown, Exists, HasNode

(* Making the directories on the way to c, or some of them, is growth. *)
LEMMA PathCreateGrows ==
    ASSUME NEW d, Sound(d), NEW c \in Path, NEW p \in {c, u_dirname(c)},
           NEW ro \in Branch, NEW rw \in Branch, NEW env
    PROVE  Grown(d, path_create(d, p, ro, rw, env).disk, c)
  <1> DEFINE e == path_create(d, p, ro, rw, env).disk
  <1>1. p \in Path \cup {Root} /\ PrefixesOf[p] \subseteq PrefixesOf[c]
    BY PathFacts, PrefixesOfChild
  <1>2. /\ Sound(e)
        /\ e.wh = d.wh
        /\ \A b \in Branch : b # rw => e.tree[b] = d.tree[b]
        /\ \A q \in Path : q \notin PrefixesOf[p] \/ Exists(d, rw, q)
                           => e.tree[rw][q] = d.tree[rw][q]
    BY <1>1, PathCreate
  <1> HIDE DEF e
  <1>3. ASSUME NEW b \in Branch, NEW q \in Path
        PROVE  /\ Exists(d, b, q) => e.tree[b][q] = d.tree[b][q]
               /\ Exists(e, b, q) => Exists(d, b, q) \/ q \in PrefixesOf[c]
    BY <1>1, <1>2 DEF Exists, HasNode
  <1> QED BY <1>2, <1>3 DEF Grown, e

(* Copying c itself is growth. *)
LEMMA CopyNodeGrows ==
    ASSUME NEW d, Sound(d), NEW c \in Path, NEW ro \in Branch, NEW rw \in Branch, NEW env,
           Exists(d, ro, c), ~Exists(d, rw, c)
    PROVE  Grown(d, CopyNode(d, c, ro, rw, env).disk, c)
  <1> DEFINE e == CopyNode(d, c, ro, rw, env).disk
             half == [kind |-> "reg", val |-> NoVal]
  <1>1. Sound(e) /\ e.wh = d.wh /\ \A b \in Branch : b # rw => e.tree[b] = d.tree[b]
    BY CopyNodeFacts
  <1>2. e \in {d, [d EXCEPT !.tree[rw][c] = d.tree[ro][c]], [d EXCEPT !.tree[rw][c] = half]}
    BY DEF CopyNode
  <1> HIDE DEF e, half
  <1>3. \A q \in Path : q # c => e.tree[rw][q] = d.tree[rw][q]
    <2>1. \A n : \A q \in Path : q # c => [d EXCEPT !.tree[rw][c] = n].tree[rw][q] = d.tree[rw][q]
      <3> TAKE n
      <3> DEFINE t == [d.tree[rw] EXCEPT ![c] = n]
      <3>1. d.tree[rw] \in [Path -> Entry] /\ d.tree \in [Branch -> Tree] /\ d \in Disk
        BY DEF Sound, Disk, Tree
      <3>2. [d EXCEPT !.tree[rw][c] = n].tree[rw] = t
        BY <3>1 DEF Disk
      <3>3. \A q \in Path : q # c => t[q] = d.tree[rw][q]
        BY <3>1
      <3> QED BY <3>2, <3>3
    <2>2. CASE e = d
      BY <2>2
    <2>3. CASE e # d
      <3>1. PICK n : e = [d EXCEPT !.tree[rw][c] = n]
        BY <1>2, <2>3
      <3> QED BY <2>1, <3>1
    <2> QED BY <2>2, <2>3
  <1>4. c \in PrefixesOf[c]
    BY PrefixesOfChild
  <1>5. ASSUME NEW b \in Branch, NEW q \in Path
        PROVE  /\ Exists(d, b, q) => e.tree[b][q] = d.tree[b][q]
               /\ Exists(e, b, q) => Exists(d, b, q) \/ q \in PrefixesOf[c]
    BY <1>1, <1>3, <1>4 DEF Exists, HasNode
  <1> QED BY <1>1, <1>5 DEF Grown, e

(* Copying c without what is below it is growth. *)
LEMMA CowCpGrows ==
    ASSUME NEW d, Sound(d), NEW c \in Path, NEW ro \in Branch, NEW rw \in Branch, ro # rw,
           NEW env, Exists(d, ro, c), ~Exists(d, rw, c)
    PROVE  Grown(d, cow_cp(d, c, ro, rw, FALSE, env).disk, c)
  <1> DEFINE d1 == path_create(d, u_dirname(c), ro, rw, env).disk
             e == cow_cp(d, c, ro, rw, FALSE, env).disk
  <1>1. Grown(d, d1, c)
    BY PathCreateGrows
  <1>2. u_dirname(c) \in Path \cup {Root} /\ c \notin PrefixesOf[u_dirname(c)] /\ c # Root
    BY PathFacts, PrefixesOfChild
  <1>3. d1.tree[rw][c] = d.tree[rw][c] /\ d1.tree[ro] = d.tree[ro]
    BY <1>2, PathCreate
  <1>4. Exists(d1, ro, c) /\ ~Exists(d1, rw, c)
    BY <1>2, <1>3 DEF Exists, HasNode
  <1>5. e = CopyNode(d1, c, ro, rw, env).disk \/ e = path_create(d1, c, ro, rw, env).disk
    BY DEF cow_cp
  <1> HIDE DEF d1, e
  <1>6. Sound(d1)
    BY <1>1 DEF Grown
  <1>7. Grown(d1, e, c)
    BY <1>4, <1>5, <1>6, CopyNodeGrows, PathCreateGrows
  <1> QED BY <1>1, <1>7, GrownTransitive DEF e

(* Opening c for writing changes no whiteout, takes nothing away and adds  *)
(* nothing but c and the directories on the way to it.                     *)
LEMMA CopyUpGrows ==
    ASSUME NEW d, Sound(d), NEW c \in Path, NEW env
    PROVE  Grown(d, find_rw_branch_cow(d, c, env).disk, c)
  <1> DEFINE e == find_rw_branch_cow(d, c, env).disk
             i == find_rorw_branch(d, c)
             rw == find_lowest_rw_branch(i)
             cp == cow_cp(d, c, i, rw, FALSE, env)
  <1>1. Grown(d, d, c)
    BY DEF Grown
  <1>2. CASE i = -1 \/ uopt.rw[i] \/ ~uopt.cow \/ rw = -1
    <2>1. e = d
      BY <1>2 DEF find_rw_branch_cow, find_rw_branch_cow_common
    <2> QED BY <1>1, <2>1
  <1>3. CASE i # -1 /\ ~uopt.rw[i] /\ uopt.cow /\ rw # -1
    <2>1. e = cp.disk \/ e = remove_hidden(cp.disk, c, rw)
      BY <1>3 DEF find_rw_branch_cow, find_rw_branch_cow_common, Copied
    <2>2. i \in Branch /\ Answers(d, c, i)
      BY <1>3, FindType
    <2>3. rw \in Branch /\ rw < i
      BY <1>3, <2>2, LowestRw
    <2> HIDE DEF i, rw, e
    <2>4. i # rw /\ i \in Nat /\ rw \in Nat /\ \A b \in Branch : b <= rw => b \in 0 .. i - 1
      BY <2>2, <2>3, BranchFacts
    <2>5. rw \in 0 .. i - 1
      BY <2>3, <2>4
    <2>6. Exists(d, i, c) /\ ~Exists(d, rw, c)
      BY <2>2, <2>5 DEF Answers
    <2>7. Grown(d, cp.disk, c)
      BY <2>2, <2>3, <2>4, <2>6, CowCpGrows
    <2>8. remove_hidden(cp.disk, c, rw) = cp.disk
      <3> DEFINE f == cp.disk
                 w == [b \in Branch |-> IF b <= rw THEN [f.wh[b] EXCEPT ![c] = "none"] ELSE f.wh[b]]
      <3>1. f \in Disk /\ f.wh = d.wh
        BY <2>7 DEF Grown, Sound
      <3>2. \A b \in Branch : b <= rw => f.wh[b][c] = "none"
        <4>1. c \in PrefixesOf[c]
          BY PrefixesOfChild
        <4>2. \A b \in Branch : b <= rw => ~path_hidden(d, c, b)
          BY <2>2, <2>4 DEF Answers
        <4> QED BY <1>3, <3>1, <4>1, <4>2 DEF path_hidden
      <3>3. remove_hidden(f, c, rw) = [f EXCEPT !.wh = w]
        BY <1>3 DEF remove_hidden
      <3> HIDE DEF f
      <3>4. w = f.wh
        <4>1. f.wh \in [Branch -> [Path -> {"none", "file", "dir"}]]
          BY <3>1 DEF Disk
        <4>2. \A b \in Branch : b <= rw => [f.wh[b] EXCEPT ![c] = "none"] = f.wh[b]
          BY <3>2, <4>1
        <4>3. \A b \in Branch : w[b] = f.wh[b]
          BY <4>2
        <4> HIDE DEF w
        <4>4. w = [b \in Branch |-> w[b]]
          BY DEF w
        <4>5. f.wh = [b \in Branch |-> f.wh[b]]
          BY <4>1
        <4> QED BY <4>3, <4>4, <4>5
      <3> HIDE DEF w
      <3>5. [f EXCEPT !.wh = w] = f
        BY <3>1, <3>4 DEF Disk
      <3> QED BY <3>3, <3>5 DEF f
    <2> QED BY <2>1, <2>7, <2>8 DEF e
  <1> QED BY <1>2, <1>3

(* What is listed in the directory of c stays listed, and no name is added. *)
LEMMA GrownListing ==
    ASSUME NEW d, Sound(d), NEW e, NEW p \in Path \cup {Root}, NEW c \in Children(p),
           Grown(d, e, c), find_rorw_branch(d, c) # -1
    PROVE  /\ \A i \in Branch : Listed(d, p, i) \subseteq Listed(e, p, i)
           /\ ulakefs_readdir(e, p) = ulakefs_readdir(d, p)
           /\ \A i \in Branch, q \in Path \cup {Root} : IsDir(d, i, q) => IsDir(e, i, q)
           /\ \A i \in Branch, q \in Path : Exists(d, i, q) => Exists(e, i, q)
  <1>1. \A i \in Branch, q \in Path : Exists(d, i, q) => Exists(e, i, q)
    BY DEF Grown, Exists, HasNode
  <1>2. \A i \in Branch, q \in Path \cup {Root} : IsDir(d, i, q) => IsDir(e, i, q)
    <2>1. \A i \in Branch, q \in Path : IsDir(d, i, q) => Exists(d, i, q)
      BY DEF IsDir, Exists, HasDir, HasNode
    <2> QED BY <2>1 DEF Grown, IsDir, HasDir
  <1>3. e.wh = d.wh
    BY DEF Grown
  <1>4. \A q, j : path_hidden(e, q, j) <=> path_hidden(d, q, j)
    BY <1>3 DEF path_hidden
  <1>5. c \in Path /\ u_dirname(c) = p /\ Children(p) \subseteq Path
    BY DEF Children
  <1>6. \A i \in Branch : Listed(d, p, i) \subseteq Listed(e, p, i)
    BY <1>1, <1>2, <1>3, <1>4, <1>5 DEF Listed
  <1>7. c \in ulakefs_readdir(d, p)
    BY ReaddirFinds DEF Sound
  <1>8. ASSUME NEW i \in Branch, NEW q \in Listed(e, p, i), q # c
        PROVE  q \in Listed(d, p, i)
    <2>1. q \in Path /\ u_dirname(q) = p /\ Exists(e, i, q)
      BY DEF Listed, Children
    <2>2. q \notin PrefixesOf[c]
      BY <1>5, <1>8, <2>1, PrefixSameDir, IsPrefixSelf DEF PrefixesOf
    <2>3. Exists(d, i, q)
      BY <2>1, <2>2 DEF Grown
    <2>4. IsDir(d, i, p)
      BY <2>1, <2>3 DEF Sound, WellFormed, IsTree, Exists, IsDir
    <2> QED BY <1>3, <1>4, <2>3, <2>4 DEF Listed
  <1>9. ulakefs_readdir(e, p) = ulakefs_readdir(d, p)
    BY <1>6, <1>7, <1>8 DEF ulakefs_readdir
  <1> QED BY <1>1, <1>2, <1>6, <1>9

-----------------------------------------------------------------------------
(* What the loop knows.                                                    *)

(* The fields of the locals. *)
LEMMA LocalParts ==
    ASSUME ls \in Local
    PROVE  /\ ls.at \in Looping \cup {"idle", "done", "dead"}
           /\ ls.call \in {"", "readdir", "dir_not_empty"}
           /\ ls.dir \in Path \cup {Root} /\ ls.i \in Nat /\ ls.left \subseteq Path
           /\ ls.hidden \in BOOLEAN /\ ls.lost \in BOOLEAN /\ ls.not_empty \in BOOLEAN
           /\ ls.files \in Table /\ ls.whiteouts \in Table /\ ls.filled \in [Path -> Nat]
  BY DEF Local

(* The locals at rest. *)
LEMMA IdleLocal ==
    /\ Idle \in Local /\ [Idle EXCEPT !.at = "dead"] \in Local
    /\ Filed(Idle.files) /\ Filed(Idle.whiteouts)
    /\ Idle.at = "idle" /\ [Idle EXCEPT !.at = "dead"].at = "dead"
    /\ [Idle EXCEPT !.at = "dead"].files = Idle.files
    /\ [Idle EXCEPT !.at = "dead"].whiteouts = Idle.whiteouts
  <1>1. create_hashtable \in Table /\ Filed(create_hashtable)
    BY EmptyTable
  <1>2. [p \in Path |-> 0] \in [Path -> Nat]
    OBVIOUS
  <1>3. Idle \in Local
    BY <1>1, <1>2 DEF Idle, Local, Looping
  <1>4. Idle.files = create_hashtable /\ Idle.whiteouts = create_hashtable /\ Idle.at = "idle"
    BY DEF Idle
  <1>5. /\ [Idle EXCEPT !.at = "dead"] \in Local /\ [Idle EXCEPT !.at = "dead"].at = "dead"
        /\ [Idle EXCEPT !.at = "dead"].files = Idle.files
        /\ [Idle EXCEPT !.at = "dead"].whiteouts = Idle.whiteouts
    BY <1>3 DEF Local
  <1> QED BY <1>1, <1>3, <1>4, <1>5

(* A step that leaves the disk and the directory alone changes nothing that *)
(* is read from them.                                                       *)
LEMMA Quiet ==
    ASSUME uopt' = uopt, fs' = fs, ls'.dir = ls.dir
    PROVE  /\ \A n : /\ MarkedAbove(n)' = MarkedAbove(n)
                     /\ HiddenAbove(n)' <=> HiddenAbove(n)
                     /\ Entries(n)' = Entries(n)
                     /\ Whiteouts(n)' = Whiteouts(n)
                     /\ Listed(fs, ls.dir, n)' = Listed(fs, ls.dir, n)
           /\ ulakefs_readdir(fs, ls.dir)' = ulakefs_readdir(fs, ls.dir)
  BY DEF MarkedAbove, Marked, HiddenAbove, path_hidden, Entries, Exists, Whiteouts, Listed,
         ulakefs_readdir, IsDir

(* The marks and the hidden directories above the next branch. *)
LEMMA NextMarks ==
    ASSUME NEW n \in Nat
    PROVE  /\ MarkedAbove(n + 1) = MarkedAbove(n) \cup (IF uopt.cow THEN Whiteouts(n) ELSE {})
           /\ HiddenAbove(n + 1) <=> HiddenAbove(n) \/ path_hidden(fs, ls.dir, n)
           /\ MarkedAbove(0) = {} /\ ~HiddenAbove(0)
  <1>1. \A j : j \in 0 .. n + 1 - 1 <=> j \in 0 .. n - 1 \/ j = n
    OBVIOUS
  <1>2. \A j : j \notin 0 .. 0 - 1
    OBVIOUS
  <1> QED BY <1>1, <1>2 DEF MarkedAbove, HiddenAbove, Marked, Whiteouts

(* What is listed of a branch. *)
LEMMA ListedIff ==
    ASSUME NEW n \in Nat
    PROVE  /\ Listed(fs, ls.dir, n) = IF IsDir(fs, n, ls.dir) /\ ~HiddenAbove(n)
                                      THEN Entries(n) \ MarkedAbove(n) ELSE {}
           /\ \A k \in 0 .. n - 1 : path_hidden(fs, ls.dir, k) => Listed(fs, ls.dir, n) = {}
  BY DEF Listed, HiddenAbove, Entries, MarkedAbove, Marked

(* In the loop over a directory's entries, what is shown is listed, and an  *)
(* entry is passed over if it is not listed or was there before.            *)
LEMMA ShownListed ==
    ASSUME Reading, ls.at = "dir", NEW c \in Entries(ls.i)
    PROVE  /\ Shown(c) => c \notin Keys(ls.files)
           /\ Shown(c) /\ ~ls.lost => c \in Listed(fs, ls.dir, ls.i)
                                      /\ c \in ulakefs_readdir(fs, ls.dir)
           /\ ~Shown(c) /\ c \in Listed(fs, ls.dir, ls.i) => c \in Filled
  <1>1. c \in Path
    BY DEF Entries, Children
  <1>2. /\ hashtable_search(ls.files, c) <=> c \in Keys(ls.files)
        /\ hashtable_search(ls.whiteouts, c) <=> c \in Keys(ls.whiteouts)
    BY <1>1, TableSearch, LocalParts DEF Reading, TablesFiled
  <1>3. /\ ls.i \in Branch /\ ls.i \in Nat /\ ~HiddenAbove(ls.i) /\ IsDir(fs, ls.i, ls.dir)
        /\ Keys(ls.whiteouts) \subseteq MarkedAbove(ls.i)
        /\ ~ls.lost => MarkedAbove(ls.i) \subseteq Keys(ls.whiteouts)
    BY BranchFacts DEF Reading, LoopState, Looping
  <1>4. Listed(fs, ls.dir, ls.i) = Entries(ls.i) \ MarkedAbove(ls.i)
    BY <1>3, ListedIff
  <1>5. ~uopt.cow => MarkedAbove(ls.i) = {}
    BY DEF MarkedAbove, Marked
  <1>6. Listed(fs, ls.dir, ls.i) \subseteq ulakefs_readdir(fs, ls.dir)
    BY <1>3 DEF ulakefs_readdir
  <1>7. Keys(ls.files) \subseteq Filled
    BY DEF Reading, Answered, Active, Looping
  <1> QED BY <1>2, <1>3, <1>4, <1>5, <1>6, <1>7 DEF Shown

-----------------------------------------------------------------------------
(* The steps of a handler.                                                 *)

(* A handler that has not begun or is dead has nothing to answer for. *)
LEMMA AtRest ==
    ASSUME ls \in Local, TablesFiled, Sound(fs), ls.at \in {"idle", "dead"}
    PROVE  Reading
  BY DEF Reading, LoopState, Answered, Active, Looping

LEMMA StartReads ==
    ASSUME Reading, NEW call \in {"readdir", "dir_not_empty"}, NEW dir \in Path \cup {Root},
           Start(call, dir)
    PROVE  Reading'
  <1>1. /\ ls' = [Idle EXCEPT !.at = "branch", !.call = call, !.dir = dir]
        /\ uopt' = uopt /\ fs' = fs
    BY DEF Start
  <1>2. Idle \in Local /\ Filed(create_hashtable) /\ Keys(create_hashtable) = {}
    BY IdleLocal, EmptyTable
  <1>3. /\ ls' \in Local /\ ls'.at = "branch" /\ ls'.call = call /\ ls'.dir = dir /\ ls'.i = 0
        /\ ls'.hidden = FALSE /\ ls'.files = create_hashtable
        /\ ls'.whiteouts = create_hashtable /\ ls'.lost = FALSE /\ ls'.not_empty = FALSE
        /\ ls'.filled = [p \in Path |-> 0]
    <2>1. ls' \in Local
      BY <1>1, <1>2 DEF Local, Looping
    <2>2. ls'.at = "branch" /\ ls'.call = call /\ ls'.dir = dir
      BY <1>1, <1>2 DEF Local
    <2>3. /\ ls'.i = Idle.i /\ ls'.hidden = Idle.hidden /\ ls'.files = Idle.files
          /\ ls'.whiteouts = Idle.whiteouts /\ ls'.lost = Idle.lost
          /\ ls'.not_empty = Idle.not_empty /\ ls'.filled = Idle.filled
      BY <1>1, <1>2 DEF Local
    <2> QED BY <2>1, <2>2, <2>3 DEF Idle
  <1>4. TablesFiled' /\ Sound(fs)'
    BY <1>1, <1>2, <1>3 DEF TablesFiled, Reading, Sound, Disk, WellFormed
  <1>5. MarkedAbove(0)' = {} /\ ~HiddenAbove(0)'
    <2>1. \A j : j \notin 0 .. 0 - 1
      OBVIOUS
    <2> QED BY <2>1 DEF MarkedAbove, HiddenAbove
  <1>6. 0 \in Branch
    BY NBranchesAssumption DEF Branch
  <1>7. LoopState'
    BY <1>2, <1>3, <1>5, <1>6 DEF LoopState, Looping
  <1>8. Filled' = {}
    BY <1>3 DEF Filled
  <1>9. \A c \in ulakefs_readdir(fs, ls.dir)' : Pending(c)'
    BY <1>3, BranchFacts DEF ulakefs_readdir, Pending, Coming, Looping
  <1>10. Answered'
    BY <1>2, <1>3, <1>8, <1>9 DEF Answered
  <1> QED BY <1>3, <1>4, <1>7, <1>10 DEF Reading

(* A name that the loop has yet to meet is listed on a branch it reaches. *)
LEMMA PendingReached ==
    ASSUME Reading, NEW c, Pending(c)
    PROVE  /\ ls.at = "branch" => ls.i \in Branch /\ ~ls.hidden
           /\ ls.at \in Looping
  <1>1. ls.at \in Looping
    BY DEF Pending
  <1>2. CASE ls.at = "branch"
    <2>1. /\ ls.i \in Branch \cup {NBranches} /\ ls.i \in Nat
          /\ ls.hidden <=> HiddenAbove(ls.i)
      BY <1>2, LocalParts DEF Reading, LoopState
    <2>2. PICK j \in Branch : j >= ls.i /\ c \in Listed(fs, ls.dir, j)
      BY <1>2 DEF Pending, Coming
    <2>3. j \in Nat /\ j < NBranches
      BY <2>2, NBranchesAssumption DEF Branch
    <2>4. ls.i # NBranches
      BY <2>1, <2>2, <2>3, NBranchesAssumption
    <2>5. \A k \in 0 .. ls.i - 1 : k \in 0 .. j - 1
      BY <2>1, <2>2, <2>3
    <2>6. ~HiddenAbove(ls.i)
      <3>1. \A k \in 0 .. j - 1 : ~path_hidden(fs, ls.dir, k)
        BY <2>2, <2>3, ListedIff
      <3> QED BY <2>5, <3>1 DEF HiddenAbove
    <2> QED BY <1>1, <2>1, <2>4, <2>6
  <1> QED BY <1>1, <1>2

LEMMA NextBranchReads ==
    ASSUME Reading, NextBranch
    PROVE  Reading'
  <1>1. uopt' = uopt /\ fs' = fs /\ ls.at = "branch" /\ ls \in Local
    BY DEF NextBranch, Reading
  <1>2. /\ ls.i \in Branch \cup {NBranches} /\ (ls.hidden <=> HiddenAbove(ls.i))
        /\ Keys(ls.whiteouts) \subseteq MarkedAbove(ls.i)
        /\ ~ls.lost => MarkedAbove(ls.i) \subseteq Keys(ls.whiteouts)
    BY <1>1 DEF Reading, LoopState, Looping
  <1>3. CASE ls.i = NBranches \/ ls.hidden
    <2>1. ls' = [ls EXCEPT !.at = "done"]
      BY <1>3 DEF NextBranch
    <2>2. /\ ls' \in Local /\ ls'.at = "done" /\ ls'.call = ls.call /\ ls'.dir = ls.dir
          /\ ls'.files = ls.files /\ ls'.whiteouts = ls.whiteouts /\ ls'.filled = ls.filled
          /\ ls'.lost = ls.lost /\ ls'.not_empty = ls.not_empty
      BY <1>1, <2>1 DEF Local
    <2>3. ulakefs_readdir(fs, ls.dir)' = ulakefs_readdir(fs, ls.dir) /\ Filled' = Filled
      BY <1>1, <2>2, Quiet DEF Filled
    <2>4. \A c : ~Pending(c)
      BY <1>1, <1>3, PendingReached, BranchFacts, NBranchesAssumption DEF Branch
    <2>5. LoopState'
      BY <2>2 DEF LoopState, Looping
    <2>6. Answered'
      BY <1>1, <2>2, <2>3, <2>4 DEF Answered, Active, Looping, Reading
    <2> QED BY <1>1, <2>2, <2>5, <2>6 DEF Reading, TablesFiled, Sound, Disk, WellFormed
  <1>4. CASE ~(ls.i = NBranches \/ ls.hidden)
    <2> DEFINE h == path_hidden(fs, ls.dir, ls.i)
               at == IF IsDir(fs, ls.i, ls.dir) THEN "dir" ELSE "closed"
               left == IF IsDir(fs, ls.i, ls.dir) THEN Entries(ls.i) ELSE {}
    <2>1. ls' = [ls EXCEPT !.hidden = h, !.at = at, !.left = left]
      BY <1>4 DEF NextBranch
    <2>2. h \in BOOLEAN /\ at \in {"dir", "closed"} /\ left \subseteq Path
      BY DEF path_hidden, Entries, Children
    <2>3. (at = "dir" <=> IsDir(fs, ls.i, ls.dir)) /\ (at = "dir" => left = Entries(ls.i))
      OBVIOUS
    <2>4. h <=> path_hidden(fs, ls.dir, ls.i)
      OBVIOUS
    <2> HIDE DEF h, at, left
    <2>5. /\ ls' \in Local /\ ls'.at = at /\ ls'.hidden = h /\ ls'.left = left
          /\ ls'.call = ls.call /\ ls'.dir = ls.dir /\ ls'.i = ls.i
          /\ ls'.files = ls.files /\ ls'.whiteouts = ls.whiteouts /\ ls'.filled = ls.filled
          /\ ls'.lost = ls.lost /\ ls'.not_empty = ls.not_empty
      BY <1>1, <2>1, <2>2 DEF Local, Looping
    <2>6. /\ \A n : /\ MarkedAbove(n)' = MarkedAbove(n)
                    /\ HiddenAbove(n)' <=> HiddenAbove(n)
                    /\ Entries(n)' = Entries(n)
                    /\ Listed(fs, ls.dir, n)' = Listed(fs, ls.dir, n)
          /\ ulakefs_readdir(fs, ls.dir)' = ulakefs_readdir(fs, ls.dir)
          /\ Filled' = Filled
      BY <1>1, <2>5, Quiet DEF Filled
    <2>7. path_hidden(fs, ls.dir, ls.i)' <=> h
      BY <1>1, <2>4, <2>5 DEF path_hidden
    <2>8. IsDir(fs, ls.i, ls.dir)' <=> IsDir(fs, ls.i, ls.dir)
      BY <1>1, <2>5 DEF IsDir
    <2>9. LoopState'
      <3>1. ls.i \in Branch /\ ~HiddenAbove(ls.i)
        BY <1>2, <1>4
      <3>2. at = "dir" => IsDir(fs, ls.i, ls.dir)' /\ ls'.left \subseteq Entries(ls.i)'
        BY <2>3, <2>5, <2>6, <2>8
      <3> QED BY <1>2, <2>2, <2>5, <2>6, <2>7, <3>1, <3>2 DEF LoopState, Looping
    <2>10. ASSUME NEW c, Pending(c) PROVE Pending(c)'
      <3>1. PICK j \in Branch : j >= ls.i /\ c \in Listed(fs, ls.dir, j)
        BY <1>1, <2>10 DEF Pending, Coming
      <3>2. c \in Listed(fs, ls.dir, j)'
        BY <3>1, <2>6
      <3>3. ls'.at \in Looping /\ Coming' = ls.i + 1
        BY <2>2, <2>5 DEF Looping, Coming
      <3>4. CASE j = ls.i
        <4>1. IsDir(fs, ls.i, ls.dir) /\ c \in Entries(ls.i)
          BY <3>1, <3>4 DEF Listed, Entries
        <4>2. c \in Listed(fs, ls.dir, ls.i)'
          BY <2>5, <3>2, <3>4
        <4>3. ls'.at = "dir" /\ c \in ls'.left
          BY <2>3, <2>5, <4>1
        <4> QED BY <3>3, <4>2, <4>3 DEF Pending
      <3>5. CASE j # ls.i
        <4>1. j >= ls.i + 1
          <5>1. ls.i \in Nat /\ j \in Nat
            BY <1>1, BranchFacts, LocalParts
          <5> QED BY <3>1, <3>5, <5>1
        <4> QED BY <3>1, <3>2, <3>3, <4>1 DEF Pending
      <3> QED BY <3>4, <3>5
    <2>11. Answered'
      BY <1>1, <2>2, <2>5, <2>6, <2>10 DEF Answered, Active, Looping, Reading
    <2> QED BY <1>1, <2>5, <2>9, <2>11 DEF Reading, TablesFiled, Sound, Disk, WellFormed
  <1> QED BY <1>3, <1>4

LEMMA CloseDirReads ==
    ASSUME Reading, CloseDir
    PROVE  Reading'
  <1>1. /\ uopt' = uopt /\ fs' = fs /\ ls.at = "dir" /\ ls.left = {} /\ ls \in Local
        /\ ls' = [ls EXCEPT !.at = "closed"]
    BY DEF CloseDir, Reading
  <1>2. /\ ls' \in Local /\ ls'.at = "closed" /\ ls'.hidden = ls.hidden /\ ls'.left = ls.left
        /\ ls'.call = ls.call /\ ls'.dir = ls.dir /\ ls'.i = ls.i
        /\ ls'.files = ls.files /\ ls'.whiteouts = ls.whiteouts /\ ls'.filled = ls.filled
        /\ ls'.lost = ls.lost /\ ls'.not_empty = ls.not_empty
    BY <1>1 DEF Local, Looping
  <1>3. /\ \A n : /\ MarkedAbove(n)' = MarkedAbove(n)
                  /\ HiddenAbove(n)' <=> HiddenAbove(n)
                  /\ Listed(fs, ls.dir, n)' = Listed(fs, ls.dir, n)
        /\ ulakefs_readdir(fs, ls.dir)' = ulakefs_readdir(fs, ls.dir)
        /\ Filled' = Filled
    BY <1>1, <1>2, Quiet DEF Filled
  <1>4. path_hidden(fs, ls.dir, ls.i)' <=> path_hidden(fs, ls.dir, ls.i)
    BY <1>1, <1>2 DEF path_hidden
  <1>5. LoopState'
    BY <1>1, <1>2, <1>3, <1>4 DEF LoopState, Looping, Reading
  <1>6. \A c : Pending(c) => Pending(c)'
    BY <1>1, <1>2, <1>3 DEF Pending, Coming, Looping
  <1>7. Answered'
    BY <1>1, <1>2, <1>3, <1>6 DEF Answered, Active, Looping, Reading
  <1> QED BY <1>1, <1>2, <1>5, <1>7 DEF Reading, TablesFiled, Sound, Disk, WellFormed

(* An entry that is passed over was there before, or is not listed. *)
LEMMA PassedOver ==
    ASSUME Reading, ls.at = "dir", NEW c \in ls.left, ~Shown(c),
           uopt' = uopt, fs' = fs, ls' = [ls EXCEPT !.left = @ \ {c}]
    PROVE  Reading'
  <1>1. ls \in Local /\ c \in Entries(ls.i)
    BY DEF Reading, LoopState, Looping
  <1>2. /\ ls' \in Local /\ ls'.at = "dir" /\ ls'.hidden = ls.hidden /\ ls'.left = ls.left \ {c}
        /\ ls'.call = ls.call /\ ls'.dir = ls.dir /\ ls'.i = ls.i
        /\ ls'.files = ls.files /\ ls'.whiteouts = ls.whiteouts /\ ls'.filled = ls.filled
        /\ ls'.lost = ls.lost /\ ls'.not_empty = ls.not_empty
    BY <1>1 DEF Local, Looping
  <1>3. /\ \A n : /\ MarkedAbove(n)' = MarkedAbove(n)
                  /\ HiddenAbove(n)' <=> HiddenAbove(n)
                  /\ Entries(n)' = Entries(n)
                  /\ Listed(fs, ls.dir, n)' = Listed(fs, ls.dir, n)
        /\ ulakefs_readdir(fs, ls.dir)' = ulakefs_readdir(fs, ls.dir)
        /\ Filled' = Filled
    BY <1>2, Quiet DEF Filled
  <1>4. /\ path_hidden(fs, ls.dir, ls.i)' <=> path_hidden(fs, ls.dir, ls.i)
        /\ IsDir(fs, ls.i, ls.dir)' <=> IsDir(fs, ls.i, ls.dir)
    BY <1>2 DEF path_hidden, IsDir
  <1>5. LoopState'
    BY <1>2, <1>3, <1>4 DEF LoopState, Looping, Reading
  <1>6. ASSUME NEW x, Pending(x) PROVE x \in Filled' \/ Pending(x)'
    <2>1. c \in Listed(fs, ls.dir, ls.i) => c \in Filled
      BY <1>1, ShownListed
    <2> QED BY <1>2, <1>3, <1>6, <2>1 DEF Pending, Coming, Looping
  <1>7. Answered'
    BY <1>2, <1>3, <1>6 DEF Answered, Active, Looping, Reading
  <1> QED BY <1>2, <1>5, <1>7 DEF Reading, TablesFiled, Sound, Disk, WellFormed

(* An entry that is shown is filed, unless memory is short, and listed. *)
LEMMA ShownFiled ==
    ASSUME Reading, ls.at = "dir", NEW c \in Entries(ls.i), Shown(c), ls.call = "readdir",
           NEW left, left \subseteq ls.left, ls.left \ left \subseteq {c},
           NEW t \in hashtable_insert(ls.files, c),
           uopt' = uopt, fs' = fs,
           ls' = [ls EXCEPT !.left = left, !.files = t, !.filled[c] = @ + 1,
                            !.lost = @ \/ c \notin Keys(t)]
    PROVE  Reading'
  <1> DEFINE lost == ls.lost \/ c \notin Keys(t)
             filled == [ls.filled EXCEPT ![c] = ls.filled[c] + 1]
  <1>1. ls \in Local /\ TablesFiled /\ c \in Path
    BY DEF Reading, Entries, Children
  <1>2. ls.files \in Table /\ ls.filled \in [Path -> Nat] /\ ls.left \subseteq Path
    BY <1>1, LocalParts
  <1>3. /\ c \notin Keys(ls.files)
        /\ ~ls.lost => c \in ulakefs_readdir(fs, ls.dir)
    BY ShownListed
  <1>4. t \in Table /\ Filed(t) /\ Keys(t) \in {Keys(ls.files), Keys(ls.files) \cup {c}}
    BY <1>1, <1>2, <1>3, Insert DEF TablesFiled
  <1>5. /\ filled \in [Path -> Nat]
        /\ \A x \in Path : filled[x] = IF x = c THEN ls.filled[x] + 1 ELSE ls.filled[x]
    BY <1>1, <1>2
  <1>6. ls' = [ls EXCEPT !.left = left, !.files = t, !.filled = filled, !.lost = lost]
    <2>1. ls' = [ls EXCEPT !.left = left, !.files = t,
                           !.filled = [ls.filled EXCEPT ![c] = ls.filled[c] + 1],
                           !.lost = ls.lost \/ c \notin Keys(t)]
      BY <1>1 DEF Local
    <2> QED BY <2>1
  <1>7. lost \in BOOLEAN /\ (~lost <=> ~ls.lost /\ c \in Keys(t))
    BY <1>1, LocalParts
  <1> HIDE DEF lost, filled
  <1>8. /\ ls' \in Local /\ ls'.at = "dir" /\ ls'.hidden = ls.hidden /\ ls'.left = left
        /\ ls'.call = "readdir" /\ ls'.dir = ls.dir /\ ls'.i = ls.i
        /\ ls'.files = t /\ ls'.whiteouts = ls.whiteouts /\ ls'.filled = filled
        /\ ls'.lost = lost /\ ls'.not_empty = ls.not_empty
    BY <1>1, <1>2, <1>4, <1>5, <1>6, <1>7 DEF Local, Looping
  <1>9. /\ \A n : /\ MarkedAbove(n)' = MarkedAbove(n)
                  /\ HiddenAbove(n)' <=> HiddenAbove(n)
                  /\ Entries(n)' = Entries(n)
                  /\ Listed(fs, ls.dir, n)' = Listed(fs, ls.dir, n)
        /\ ulakefs_readdir(fs, ls.dir)' = ulakefs_readdir(fs, ls.dir)
    BY <1>8, Quiet
  <1>10. Filled' = Filled \cup {c}
    <2>1. \A x \in Path : (filled[x] > 0 <=> ls.filled[x] > 0 \/ x = c)
      BY <1>2, <1>5
    <2> QED BY <1>1, <1>8, <2>1 DEF Filled
  <1>11. /\ path_hidden(fs, ls.dir, ls.i)' <=> path_hidden(fs, ls.dir, ls.i)
         /\ IsDir(fs, ls.i, ls.dir)' <=> IsDir(fs, ls.i, ls.dir)
    BY <1>8 DEF path_hidden, IsDir
  <1>12. LoopState'
    BY <1>7, <1>8, <1>9, <1>11 DEF LoopState, Looping, Reading
  <1>13. ASSUME NEW x, Pending(x) PROVE x \in Filled' \/ Pending(x)'
    BY <1>8, <1>9, <1>10, <1>13 DEF Pending, Coming, Looping
  <1>14. Answered
    BY DEF Reading
  <1>15. ASSUME ~lost, NEW x \in Path
         PROVE  filled[x] = IF x \in Keys(t) THEN 1 ELSE 0
    <2>1. /\ Keys(t) = Keys(ls.files) \cup {c}
          /\ ls.filled[x] = IF x \in Keys(ls.files) THEN 1 ELSE 0
      BY <1>4, <1>7, <1>14, <1>15 DEF Answered, Active, Looping
    <2> QED BY <1>3, <1>5, <2>1
  <1>16. Keys(t) \subseteq Filled'
    BY <1>4, <1>10, <1>14 DEF Answered, Active, Looping
  <1>17. ~lost => Filled' \subseteq ulakefs_readdir(fs, ls.dir)
    BY <1>3, <1>7, <1>10, <1>14 DEF Answered, Active, Looping
  <1>18. ~ls.not_empty
    BY <1>14 DEF Answered, Active, Looping
  <1>19. Answered'
    <2>1. Active /\ \A x \in ulakefs_readdir(fs, ls.dir) :
                       x \in Filled \/ ls.not_empty \/ Pending(x)
      BY <1>14 DEF Answered, Active, Looping
    <2>2. \A x \in ulakefs_readdir(fs, ls.dir)' : x \in Filled' \/ Pending(x)'
      BY <1>9, <1>10, <1>13, <1>18, <2>1
    <2> QED BY <1>8, <1>9, <1>15, <1>16, <1>17, <1>18, <2>2 DEF Answered
  <1> QED BY <1>1, <1>4, <1>8, <1>12, <1>19 DEF Reading, TablesFiled, Sound, Disk, WellFormed

LEMMA ReadEntryReads ==
    ASSUME Reading, NEW c, ReadEntry(c)
    PROVE  Reading'
  <1>1. /\ uopt' = uopt /\ fs' = fs /\ ls.at = "dir" /\ c \in ls.left /\ ls \in Local
        /\ c \in Entries(ls.i)
    BY DEF ReadEntry, Reading, LoopState, Looping
  <1>2. CASE ~Shown(c)
    BY <1>1, <1>2, PassedOver DEF ReadEntry
  <1>3. CASE Shown(c) /\ ls.call = "dir_not_empty"
    <2>1. ls' = [ls EXCEPT !.at = "done", !.not_empty = TRUE]
      BY <1>3 DEF ReadEntry
    <2>2. /\ ls' \in Local /\ ls'.at = "done" /\ ls'.call = ls.call /\ ls'.dir = ls.dir
          /\ ls'.files = ls.files /\ ls'.whiteouts = ls.whiteouts /\ ls'.filled = ls.filled
          /\ ls'.lost = ls.lost /\ ls'.not_empty = TRUE
      BY <1>1, <2>1 DEF Local
    <2>3. ulakefs_readdir(fs, ls.dir)' = ulakefs_readdir(fs, ls.dir) /\ Filled' = Filled
      BY <1>1, <2>2, Quiet DEF Filled
    <2>4. ~ls.lost => ulakefs_readdir(fs, ls.dir) # {}
      BY <1>1, <1>3, ShownListed
    <2>5. LoopState'
      BY <2>2 DEF LoopState, Looping
    <2>6. Answered'
      BY <1>1, <1>3, <2>2, <2>3, <2>4 DEF Answered, Active, Looping, Reading
    <2> QED BY <1>1, <2>2, <2>5, <2>6 DEF Reading, TablesFiled, Sound, Disk, WellFormed
  <1>4. CASE Shown(c) /\ ls.call # "dir_not_empty"
    <2>1. ls.call = "readdir"
      BY <1>1, <1>4, LocalParts DEF Reading, Answered, Active, Looping
    <2> DEFINE left == ls.left \ {c}
    <2>2. PICK t \in hashtable_insert(ls.files, c) :
             ls' = [ls EXCEPT !.left = @ \ {c}, !.files = t, !.filled[c] = @ + 1,
                              !.lost = @ \/ c \notin Keys(t)]
      BY <1>4 DEF ReadEntry
    <2>3. ls' = [ls EXCEPT !.left = left, !.files = t, !.filled[c] = @ + 1,
                           !.lost = @ \/ c \notin Keys(t)]
      BY <2>2
    <2>4. left \subseteq ls.left /\ ls.left \ left \subseteq {c}
      OBVIOUS
    <2> HIDE DEF left
    <2> QED BY <1>1, <1>4, <2>1, <2>3, <2>4, ShownFiled
  <1> QED BY <1>2, <1>3, <1>4

LEMMA ReadNewEntryReads ==
    ASSUME Reading, NEW c, ReadNewEntry(c)
    PROVE  Reading'
  <1>1. /\ uopt' = uopt /\ fs' = fs /\ ls.at = "dir" /\ c \in Entries(ls.i) /\ ls \in Local
        /\ Shown(c) /\ ls.call = "readdir"
    BY DEF ReadNewEntry, Reading
  <1>2. PICK t \in hashtable_insert(ls.files, c) :
           ls' = [ls EXCEPT !.files = t, !.filled[c] = @ + 1, !.lost = @ \/ c \notin Keys(t)]
    BY DEF ReadNewEntry
  <1> DEFINE left == ls.left
  <1>3. ls' = [ls EXCEPT !.left = left, !.files = t, !.filled[c] = @ + 1,
                         !.lost = @ \/ c \notin Keys(t)]
    <2> DEFINE l == ls.lost \/ c \notin Keys(t)
    <2>1. l \in BOOLEAN
      OBVIOUS
    <2> QED BY <1>1, <1>2 DEF Local
  <1>4. left \subseteq ls.left /\ ls.left \ left \subseteq {c}
    OBVIOUS
  <1> HIDE DEF left
  <1> QED BY <1>1, <1>3, <1>4, ShownFiled

(* The loop goes on with the next branch. *)
LEMMA BranchDone ==
    ASSUME Reading, ls.at \in {"closed", "whiteouts"},
           ls.at = "closed" => ~uopt.cow, ls.at = "whiteouts" => ls.left = {},
           uopt' = uopt, fs' = fs, ls' = [ls EXCEPT !.at = "branch", !.i = @ + 1]
    PROVE  Reading'
  <1>1. ls \in Local /\ ls.i \in Nat
    BY LocalParts DEF Reading
  <1>2. /\ ls' \in Local /\ ls'.at = "branch" /\ ls'.hidden = ls.hidden /\ ls'.left = ls.left
        /\ ls'.call = ls.call /\ ls'.dir = ls.dir /\ ls'.i = ls.i + 1
        /\ ls'.files = ls.files /\ ls'.whiteouts = ls.whiteouts /\ ls'.filled = ls.filled
        /\ ls'.lost = ls.lost /\ ls'.not_empty = ls.not_empty
    <2> DEFINE n == ls.i + 1
    <2>1. n \in Nat /\ ls' = [ls EXCEPT !.at = "branch", !.i = n]
      BY <1>1
    <2> HIDE DEF n
    <2>2. /\ ls' \in Local /\ ls'.at = "branch" /\ ls'.i = n
      BY <1>1, <2>1 DEF Local, Looping
    <2>3. /\ ls'.hidden = ls.hidden /\ ls'.left = ls.left
          /\ ls'.call = ls.call /\ ls'.dir = ls.dir
          /\ ls'.files = ls.files /\ ls'.whiteouts = ls.whiteouts /\ ls'.filled = ls.filled
          /\ ls'.lost = ls.lost /\ ls'.not_empty = ls.not_empty
      BY <1>1, <2>1 DEF Local
    <2> QED BY <2>2, <2>3 DEF n
  <1>3. /\ \A n : /\ MarkedAbove(n)' = MarkedAbove(n)
                  /\ HiddenAbove(n)' <=> HiddenAbove(n)
                  /\ Listed(fs, ls.dir, n)' = Listed(fs, ls.dir, n)
        /\ ulakefs_readdir(fs, ls.dir)' = ulakefs_readdir(fs, ls.dir)
        /\ Filled' = Filled
    BY <1>2, Quiet DEF Filled
  <1>4. /\ MarkedAbove(ls.i + 1) = MarkedAbove(ls.i) \cup (IF uopt.cow THEN Whiteouts(ls.i) ELSE {})
        /\ HiddenAbove(ls.i + 1) <=> HiddenAbove(ls.i) \/ path_hidden(fs, ls.dir, ls.i)
    BY <1>1, NextMarks
  <1>5. /\ ls.i \in Branch /\ ~HiddenAbove(ls.i) /\ (ls.hidden <=> path_hidden(fs, ls.dir, ls.i))
        /\ Keys(ls.whiteouts) \subseteq MarkedAbove(ls.i + 1)
        /\ ~ls.lost => MarkedAbove(ls.i + 1) \subseteq Keys(ls.whiteouts)
    BY <1>4 DEF Reading, LoopState, Looping
  <1>6. ls.i + 1 \in Branch \cup {NBranches}
    BY <1>5, NBranchesAssumption DEF Branch
  <1>7. LoopState'
    <2>1. /\ MarkedAbove(ls.i)' = MarkedAbove(ls.i + 1)
          /\ HiddenAbove(ls.i)' <=> HiddenAbove(ls.i + 1)
      BY <1>2, <1>3
    <2> QED BY <1>2, <1>4, <1>5, <1>6, <2>1 DEF LoopState, Looping
  <1>8. \A c : Pending(c) => Pending(c)'
    BY <1>2, <1>3 DEF Pending, Coming, Looping
  <1>9. Answered'
    BY <1>2, <1>3, <1>8 DEF Answered, Active, Looping, Reading
  <1> QED BY <1>2, <1>7, <1>9 DEF Reading, TablesFiled, Sound, Disk, WellFormed

(* A step over the whiteouts of a branch that leaves none out unfiled. *)
LEMMA WhiteoutsRead ==
    ASSUME Reading, ls.at \in {"closed", "whiteouts"}, uopt.cow, uopt' = uopt, fs' = fs,
           NEW left, left \subseteq Whiteouts(ls.i), NEW t \in Table, Filed(t),
           NEW lost \in BOOLEAN, ls.lost => lost,
           Keys(t) \subseteq MarkedAbove(ls.i + 1),
           ~lost => MarkedAbove(ls.i + 1) \subseteq Keys(t) \cup left,
           ls' = [ls EXCEPT !.at = "whiteouts", !.left = left, !.whiteouts = t, !.lost = lost]
    PROVE  Reading'
  <1>1. ls \in Local /\ left \subseteq Path
    BY DEF Reading, Whiteouts, Children
  <1>2. /\ ls' \in Local /\ ls'.at = "whiteouts" /\ ls'.hidden = ls.hidden /\ ls'.left = left
        /\ ls'.call = ls.call /\ ls'.dir = ls.dir /\ ls'.i = ls.i
        /\ ls'.files = ls.files /\ ls'.whiteouts = t /\ ls'.filled = ls.filled
        /\ ls'.lost = lost /\ ls'.not_empty = ls.not_empty
    BY <1>1 DEF Local, Looping
  <1>3. /\ \A n : /\ MarkedAbove(n)' = MarkedAbove(n)
                  /\ HiddenAbove(n)' <=> HiddenAbove(n)
                  /\ Whiteouts(n)' = Whiteouts(n)
                  /\ Listed(fs, ls.dir, n)' = Listed(fs, ls.dir, n)
        /\ ulakefs_readdir(fs, ls.dir)' = ulakefs_readdir(fs, ls.dir)
        /\ Filled' = Filled
    BY <1>2, Quiet DEF Filled
  <1>4. path_hidden(fs, ls.dir, ls.i)' <=> path_hidden(fs, ls.dir, ls.i)
    BY <1>2 DEF path_hidden
  <1>5. MarkedAbove(ls.i + 1)' = MarkedAbove(ls.i + 1) /\ Whiteouts(ls.i)' = Whiteouts(ls.i)
    BY <1>2, <1>3
  <1>6. LoopState'
    BY <1>2, <1>3, <1>4, <1>5 DEF LoopState, Looping, Reading
  <1>7. \A c : Pending(c) => Pending(c)'
    BY <1>2, <1>3 DEF Pending, Coming, Looping
  <1>8. Answered'
    BY <1>2, <1>3, <1>7 DEF Answered, Active, Looping, Reading
  <1> QED BY <1>2, <1>6, <1>8 DEF Reading, TablesFiled, Sound, Disk, WellFormed

LEMMA OpenWhiteoutsReads ==
    ASSUME Reading, OpenWhiteouts
    PROVE  Reading'
  <1>1. uopt' = uopt /\ fs' = fs /\ ls.at = "closed" /\ ls \in Local /\ TablesFiled
    BY DEF OpenWhiteouts, Reading
  <1>2. CASE ~uopt.cow
    BY <1>1, <1>2, BranchDone DEF OpenWhiteouts
  <1>3. CASE uopt.cow
    <2> DEFINE left == Whiteouts(ls.i)
    <2>1. ls' = [ls EXCEPT !.at = "whiteouts", !.left = left]
      BY <1>3 DEF OpenWhiteouts
    <2>2. ls.i \in Nat /\ ls.whiteouts \in Table /\ ls.lost \in BOOLEAN
      BY <1>1, LocalParts
    <2>3. MarkedAbove(ls.i + 1) = MarkedAbove(ls.i) \cup left
      BY <1>3, <2>2, NextMarks
    <2>4. left \subseteq Whiteouts(ls.i)
      OBVIOUS
    <2> HIDE DEF left
    <2>5. ls' = [ls EXCEPT !.at = "whiteouts", !.left = left, !.whiteouts = ls.whiteouts,
                           !.lost = ls.lost]
      BY <1>1, <2>1 DEF Local
    <2>6. /\ Keys(ls.whiteouts) \subseteq MarkedAbove(ls.i + 1)
          /\ ~ls.lost => MarkedAbove(ls.i + 1) \subseteq Keys(ls.whiteouts) \cup left
      BY <1>1, <2>3 DEF Reading, LoopState, Looping
    <2> QED BY <1>1, <1>3, <2>2, <2>4, <2>5, <2>6, WhiteoutsRead DEF TablesFiled
  <1> QED BY <1>2, <1>3

LEMMA IsHidingReads ==
    ASSUME Reading, NEW c, is_hiding(c)
    PROVE  Reading'
  <1>1. uopt' = uopt /\ fs' = fs /\ ls.at = "whiteouts" /\ c \in ls.left
    BY DEF is_hiding
  <1>2. /\ ls \in Local /\ TablesFiled /\ uopt.cow /\ ls.left \subseteq Whiteouts(ls.i)
        /\ Keys(ls.whiteouts) \subseteq MarkedAbove(ls.i + 1)
        /\ ~ls.lost => MarkedAbove(ls.i + 1) \subseteq Keys(ls.whiteouts) \cup ls.left
    BY <1>1 DEF Reading, LoopState
  <1>3. ls.i \in Nat /\ ls.whiteouts \in Table /\ ls.lost \in BOOLEAN /\ Filed(ls.whiteouts)
    BY <1>2, LocalParts DEF TablesFiled
  <1>4. c \in Path
    BY <1>1, <1>2, LocalParts
  <1> DEFINE left == ls.left \ {c}
  <1>5. CASE hashtable_search(ls.whiteouts, c)
    <2>1. c \in Keys(ls.whiteouts)
      BY <1>3, <1>4, <1>5, TableSearch
    <2>2. /\ left \subseteq Whiteouts(ls.i)
          /\ ~ls.lost => MarkedAbove(ls.i + 1) \subseteq Keys(ls.whiteouts) \cup left
      BY <1>2, <2>1
    <2>3. ls' = [ls EXCEPT !.left = left]
      BY <1>5 DEF is_hiding
    <2> HIDE DEF left
    <2>4. ls' = [ls EXCEPT !.at = "whiteouts", !.left = left, !.whiteouts = ls.whiteouts,
                           !.lost = ls.lost]
      BY <1>1, <1>2, <2>3 DEF Local
    <2> QED BY <1>1, <1>2, <1>3, <2>2, <2>4, WhiteoutsRead
  <1>6. CASE ~hashtable_search(ls.whiteouts, c)
    <2>1. c \notin Keys(ls.whiteouts)
      BY <1>3, <1>4, <1>6, TableSearch
    <2>2. PICK t \in hashtable_insert(ls.whiteouts, c) :
             ls' = [ls EXCEPT !.left = @ \ {c}, !.whiteouts = t, !.lost = @ \/ c \notin Keys(t)]
      BY <1>6 DEF is_hiding
    <2>3. t \in Table /\ Filed(t) /\ Keys(t) \in {Keys(ls.whiteouts), Keys(ls.whiteouts) \cup {c}}
      BY <1>3, <1>4, <2>1, Insert
    <2> DEFINE lost == ls.lost \/ c \notin Keys(t)
    <2>4. /\ left \subseteq Whiteouts(ls.i)
          /\ c \in MarkedAbove(ls.i + 1)
      BY <1>1, <1>2, <1>3, NextMarks
    <2>5. /\ Keys(t) \subseteq MarkedAbove(ls.i + 1)
          /\ ~lost => MarkedAbove(ls.i + 1) \subseteq Keys(t) \cup left
      BY <1>2, <2>3, <2>4
    <2>6. lost \in BOOLEAN /\ (ls.lost => lost)
      OBVIOUS
    <2>7. ls' = [ls EXCEPT !.left = left, !.whiteouts = t, !.lost = lost]
      BY <2>2
    <2> HIDE DEF left, lost
    <2>8. ls' = [ls EXCEPT !.at = "whiteouts", !.left = left, !.whiteouts = t, !.lost = lost]
      BY <1>1, <1>2, <2>7 DEF Local
    <2> QED BY <1>1, <1>2, <2>3, <2>4, <2>5, <2>6, <2>8, WhiteoutsRead
  <1> QED BY <1>5, <1>6

LEMMA CloseWhiteoutsReads ==
    ASSUME Reading, CloseWhiteouts
    PROVE  Reading'
  BY BranchDone DEF CloseWhiteouts

LEMMA OutOfMemoryReads ==
    ASSUME Reading, OutOfMemory
    PROVE  Reading'
  <1>1. /\ uopt' = uopt /\ fs' = fs /\ ls' = [Idle EXCEPT !.at = "dead"]
    BY DEF OutOfMemory
  <1>2. /\ ls' \in Local /\ ls'.at = "dead" /\ Filed(ls'.files) /\ Filed(ls'.whiteouts)
    BY <1>1, IdleLocal
  <1>3. Sound(fs)'
    BY <1>1 DEF Reading, Sound, Disk, WellFormed
  <1> QED BY <1>2, <1>3 DEF Reading, TablesFiled, LoopState, Answered, Active, Looping

LEMMA AnswerReads ==
    ASSUME Reading, Answer
    PROVE  Reading'
  <1>1. /\ uopt' = uopt /\ fs' = fs /\ ls' = Idle
    BY DEF Answer
  <1>2. /\ ls' \in Local /\ ls'.at = "idle" /\ Filed(ls'.files) /\ Filed(ls'.whiteouts)
    BY <1>1, IdleLocal
  <1>3. Sound(fs)'
    BY <1>1 DEF Reading, Sound, Disk, WellFormed
  <1> QED BY <1>2, <1>3 DEF Reading, TablesFiled, LoopState, Answered, Active, Looping

LEMMA CopyUpReads ==
    ASSUME Reading, NEW c, CopyUp(c)
    PROVE  Reading'
  <1> DEFINE env == [fail |-> {}, torn |-> FALSE, hide |-> TRUE, order |-> [p \in Path |-> 0]]
  <1>1. /\ uopt' = uopt /\ ls' = ls /\ c \in Children(ls.dir) /\ find_rorw_branch(fs, c) # -1
        /\ fs' = find_rw_branch_cow(fs, c, env).disk
    BY DEF CopyUp
  <1>2. ls \in Local /\ Sound(fs) /\ c \in Path /\ ls.dir \in Path \cup {Root}
    BY <1>1, LocalParts DEF Reading, Children
  <1>3. Grown(fs, fs', c)
    BY <1>1, <1>2, CopyUpGrows
  <1>4. /\ \A i \in Branch : Listed(fs, ls.dir, i) \subseteq Listed(fs', ls.dir, i)
        /\ ulakefs_readdir(fs', ls.dir) = ulakefs_readdir(fs, ls.dir)
        /\ \A i \in Branch, q \in Path \cup {Root} : IsDir(fs, i, q) => IsDir(fs', i, q)
        /\ \A i \in Branch, q \in Path : Exists(fs, i, q) => Exists(fs', i, q)
    <2>1. PICK e : e = fs'
      OBVIOUS
    <2>2. Grown(fs, e, c)
      BY <1>3, <2>1
    <2> HIDE DEF env
    <2>3. /\ \A i \in Branch : Listed(fs, ls.dir, i) \subseteq Listed(e, ls.dir, i)
          /\ ulakefs_readdir(e, ls.dir) = ulakefs_readdir(fs, ls.dir)
          /\ \A i \in Branch, q \in Path \cup {Root} : IsDir(fs, i, q) => IsDir(e, i, q)
          /\ \A i \in Branch, q \in Path : Exists(fs, i, q) => Exists(e, i, q)
      BY <1>1, <1>2, <2>2, GrownListing
    <2> QED BY <2>1, <2>3
  <1>5. fs'.wh = fs.wh /\ Sound(fs')
    BY <1>3 DEF Grown
  <1>6. \A n : /\ MarkedAbove(n)' = MarkedAbove(n)
               /\ HiddenAbove(n)' <=> HiddenAbove(n)
               /\ Whiteouts(n)' = Whiteouts(n)
    BY <1>1, <1>5 DEF MarkedAbove, Marked, HiddenAbove, path_hidden, Whiteouts
  <1>7. path_hidden(fs, ls.dir, ls.i)' <=> path_hidden(fs, ls.dir, ls.i)
    BY <1>1, <1>5 DEF path_hidden
  <1>8. \A i \in Branch : Listed(fs, ls.dir, i) \subseteq Listed(fs, ls.dir, i)'
    BY <1>1, <1>4 DEF Listed, path_hidden
  <1>9. ulakefs_readdir(fs, ls.dir)' = ulakefs_readdir(fs, ls.dir)
    <2>1. \A i : Listed(fs, ls.dir, i)' = Listed(fs', ls.dir, i)
      BY <1>1 DEF Listed, path_hidden
    <2>2. ulakefs_readdir(fs, ls.dir)' = ulakefs_readdir(fs', ls.dir)
      BY <2>1 DEF ulakefs_readdir
    <2> QED BY <1>4, <2>2
  <1>10. \A i \in Branch : /\ IsDir(fs, i, ls.dir) => IsDir(fs, i, ls.dir)'
                           /\ Entries(i) \subseteq Entries(i)'
    BY <1>1, <1>2, <1>4 DEF IsDir, Entries, Children, Exists
  <1>11. LoopState'
    BY <1>1, <1>6, <1>7, <1>10 DEF LoopState, Looping, Reading
  <1>12. Filled' = Filled
    BY <1>1 DEF Filled
  <1>13. \A x : Pending(x) => Pending(x)'
    <2>1. ls.at = "dir" => ls.i \in Branch
      BY DEF Reading, LoopState, Looping
    <2> QED BY <1>1, <1>8, <2>1 DEF Pending, Coming
  <1>14. Answered'
    BY <1>1, <1>9, <1>12, <1>13 DEF Answered, Active, Looping, Reading
  <1>15. Sound(fs)'
    BY <1>5 DEF Sound, Disk, WellFormed
  <1> QED BY <1>1, <1>2, <1>11, <1>14, <1>15 DEF Reading, TablesFiled

-----------------------------------------------------------------------------
(* The program.                                                            *)

(* Each step of a handler, and each copy that another thread makes, keeps  *)
(* the tables and what the loop knows.                                     *)
LEMMA ReadReads ==
    ASSUME Reading, Read
    PROVE  Reading'
  <1>1. ASSUME NEW dir \in Path \cup {Root}, NEW call \in {"readdir", "dir_not_empty"},
               Start(call, dir)
        PROVE  Reading'
    BY <1>1, StartReads
  <1>2. CASE NextBranch
    BY <1>2, NextBranchReads
  <1>3. CASE CloseDir
    BY <1>3, CloseDirReads
  <1>4. CASE OpenWhiteouts
    BY <1>4, OpenWhiteoutsReads
  <1>5. CASE CloseWhiteouts
    BY <1>5, CloseWhiteoutsReads
  <1>6. CASE Answer
    BY <1>6, AnswerReads
  <1>7. ASSUME NEW c \in ls.left, ReadEntry(c)
        PROVE  Reading'
    BY <1>7, ReadEntryReads
  <1>8. ASSUME NEW c \in ls.left, is_hiding(c)
        PROVE  Reading'
    BY <1>8, IsHidingReads
  <1>9. ASSUME NEW c \in Path, ReadNewEntry(c)
        PROVE  Reading'
    BY <1>9, ReadNewEntryReads
  <1>10. ASSUME NEW c \in Path, CopyUp(c)
         PROVE  Reading'
    BY <1>10, CopyUpReads
  <1>11. CASE OutOfMemory
    BY <1>11, OutOfMemoryReads
  <1> QED BY <1>1, <1>2, <1>3, <1>4, <1>5, <1>6, <1>7, <1>8, <1>9, <1>10, <1>11 DEF Read

LEMMA InitSInv == Init => SInv
  <1> SUFFICES ASSUME Init PROVE SInv
    OBVIOUS
  <1>1. ls = Idle /\ main # "mounted"
    BY DEF Init
  <1>2. Sound(fs)
    <2>1. Absent \in Entry /\ Absent.kind = "none"
      BY DEF Absent, Entry
    <2>2. \A b \in Branch, p \in Path : fs.tree[b][p] = Absent
      BY DEF Init
    <2>3. fs \in Disk
      BY <2>1 DEF Init, Disk, Tree
    <2>4. WellFormed(fs)
      BY <2>1, <2>2, PathFacts DEF WellFormed, IsTree, HasNode
    <2> QED BY <2>3, <2>4 DEF Sound
  <1>3. Reading
    BY <1>1, <1>2, IdleLocal, AtRest DEF TablesFiled
  <1> QED BY <1>1, <1>3 DEF SInv, NotYet, Mounted

LEMMA NextSInv == SInv /\ [Next]_vars => SInv'
  <1> SUFFICES ASSUME SInv, [Next]_vars PROVE SInv'
    OBVIOUS
  <1>1. ASSUME UNCHANGED <<main, uopt, fs, ls>> PROVE SInv'
    <2>1. ls' = ls /\ fs' = fs /\ uopt' = uopt /\ main' = main
      BY <1>1
    <2>2. LoopState'
      BY <2>1 DEF SInv, Reading, LoopState, MarkedAbove, Marked, HiddenAbove, path_hidden, IsDir,
                  Entries, Exists, Whiteouts
    <2>3. Answered'
      <3>1. \A n : Listed(fs, ls.dir, n)' = Listed(fs, ls.dir, n)
        BY <2>1, Quiet
      <3>2. ulakefs_readdir(fs, ls.dir)' = ulakefs_readdir(fs, ls.dir) /\ Filled' = Filled
        BY <2>1, Quiet DEF Filled
      <3>3. \A c : Pending(c) => Pending(c)'
        BY <2>1, <3>1 DEF Pending, Coming
      <3> QED BY <2>1, <3>2, <3>3 DEF SInv, Reading, Answered, Active
    <2> QED BY <2>1, <2>2, <2>3
            DEF SInv, Reading, TablesFiled, Sound, Disk, WellFormed, NotYet, Mounted
  <1>2. CASE Option /\ UNCHANGED <<fs, ls>>
    BY <1>1, <1>2 DEF Option
  <1>3. CASE Main /\ fs' \in (IF Outcome(opts) = "mounted" THEN Disks ELSE {fs}) /\ ls' = ls
    <2>1. ls = Idle
      BY <1>3 DEF SInv, NotYet, Mounted, Main
    <2>2. Sound(fs')
      BY <1>3, SessionAssumption DEF SInv, Reading, Sound
    <2>3. Sound(fs)'
      BY <2>2 DEF Sound, Disk, WellFormed
    <2>4. ls' = Idle
      BY <1>3, <2>1
    <2>5. Reading'
      BY <2>3, <2>4, IdleLocal DEF Reading, TablesFiled, LoopState, Answered, Active, Looping
    <2> QED BY <2>4, <2>5 DEF SInv, NotYet
  <1>4. CASE Mounted /\ Read /\ UNCHANGED <<given, opts, main>>
    BY <1>4, ReadReads DEF SInv, NotYet, Mounted
  <1>5. CASE UNCHANGED vars
    BY <1>1, <1>5 DEF vars
  <1> QED BY <1>2, <1>3, <1>4, <1>5 DEF Next

LEMMA SInvariant == Spec => []SInv
  BY InitSInv, NextSInv, PTL DEF Spec

-----------------------------------------------------------------------------
(* The theorems about tables and listings.                                 *)

(* For any keys, hash values and table lengths, a table finds and counts   *)
(* each key in it, however often it has grown or failed to: the tables of  *)
(* ulakefs_readdir and dir_not_empty, and hashtable.c under them.          *)
THEOREM TablesAlwaysFind == Spec => []TablesFind
  <1>1. SInv => TablesFind
    <2> SUFFICES ASSUME SInv, NEW h \in {ls.files, ls.whiteouts}
                 PROVE  /\ \A k \in Keys(h) : hashtable_search(h, k)
                        /\ h.entrycount = Cardinality(Keys(h))
      BY DEF TablesFind
    <2>1. h \in Table /\ Filed(h)
      BY LocalParts DEF SInv, Reading, TablesFiled
    <2> QED BY <2>1, TableParts, TableSearch DEF Filed
  <1> QED BY <1>1, SInvariant, PTL

(* A listing shows what lookups find, for any branches, files, whiteouts   *)
(* and options, while files are copied up and when memory runs out: none   *)
(* is left out, and with enough memory none is shown twice and no other.   *)
THEOREM ListingAlwaysExact == Spec => []ListingExact
  <1>1. SInv => ListingExact
    <2> SUFFICES ASSUME SInv, ls.at = "done", ls.call = "readdir"
                 PROVE  /\ ulakefs_readdir(fs, ls.dir) \subseteq Filled
                        /\ ~ls.lost => /\ Filled = ulakefs_readdir(fs, ls.dir)
                                       /\ \A c \in Path : ls.filled[c] <= 1
      BY DEF ListingExact
    <2>1. Answered /\ Active
      BY DEF SInv, Reading, Active
    <2>2. \A c : ~Pending(c)
      BY DEF Pending, Looping
    <2>3. ulakefs_readdir(fs, ls.dir) \subseteq Filled
      BY <2>1, <2>2 DEF Answered
    <2>4. ~ls.lost => Filled \subseteq ulakefs_readdir(fs, ls.dir)
      BY <2>1 DEF Answered
    <2>5. ~ls.lost => \A c \in Path : ls.filled[c] \in {0, 1}
      BY <2>1 DEF Answered
    <2> QED BY <2>3, <2>4, <2>5
  <1> QED BY <1>1, SInvariant, PTL

(* dir_not_empty says "empty" only of a directory in which no lookup finds *)
(* a name, and with enough memory of each of them.                         *)
THEOREM EmptyAlwaysExact == Spec => []EmptyExact
  <1>1. SInv => EmptyExact
    <2> SUFFICES ASSUME SInv, ls.at = "done", ls.call = "dir_not_empty"
                 PROVE  /\ dir_not_empty(fs, ls.dir) => ls.not_empty
                        /\ ~ls.lost => ls.not_empty = dir_not_empty(fs, ls.dir)
      BY DEF EmptyExact
    <2>1. Answered /\ Active /\ ls.not_empty \in BOOLEAN
      BY LocalParts DEF SInv, Reading, Active
    <2>2. \A c : ~Pending(c)
      BY DEF Pending, Looping
    <2>3. dir_not_empty(fs, ls.dir) <=> ulakefs_readdir(fs, ls.dir) # {}
      BY DEF dir_not_empty, ulakefs_readdir
    <2>4. ulakefs_readdir(fs, ls.dir) # {} => ls.not_empty
      BY <2>1, <2>2 DEF Answered
    <2>5. ~ls.lost /\ ls.not_empty => ulakefs_readdir(fs, ls.dir) # {}
      BY <2>1 DEF Answered
    <2>6. dir_not_empty(fs, ls.dir) \in BOOLEAN
      BY DEF dir_not_empty
    <2> QED BY <2>1, <2>3, <2>4, <2>5, <2>6
  <1> QED BY <1>1, SInvariant, PTL

-----------------------------------------------------------------------------
(* The mount.                                                              *)

Flag == {"cow", "chroot", "statfs_omit_ro", "relaxed_permissions"}

ListKey == {"nonopt", "dirs"}

BranchOption == [name : DOMAIN Device, rw : BOOLEAN, path : {String[n] : n \in DOMAIN String},
                 path_len : {0}]

OptionRecord == [branches : Seq(BranchOption), cow : BOOLEAN, chroot : BOOLEAN,
                 statfs_omit_ro : BOOLEAN, relaxed_permissions : BOOLEAN, doexit : BOOLEAN,
                 kept : Seq(Arg)]

FirstList(k) == k \in Lists /\ \A j \in Lists : k <= j

\* the branches are those of a list
Taken(list) ==
    /\ DOMAIN opts.branches = DOMAIN list
    /\ \A n \in DOMAIN list : /\ opts.branches[n].name = list[n].name
                              /\ opts.branches[n].rw <=> list[n].flag = "RW"

\* where the arguments that are kept were given
Keeps(idx) ==
    /\ idx \in [DOMAIN opts.kept -> DOMAIN given]
    /\ \A n \in DOMAIN opts.kept : opts.kept[n] = given[idx[n]] /\ ~FirstList(idx[n])
    /\ \A k \in Lists : FirstList(k) \/ \E n \in DOMAIN opts.kept : idx[n] = k

\* what the options know of the arguments handled so far
Asked ==
    /\ given \in Seq(Arg) /\ opts \in OptionRecord
    /\ opts.branches = <<>> <=> Lists = {}
    /\ Lists # {} => \E k : FirstList(k)
    /\ \A k : FirstList(k) => Taken(given[k].list)
    /\ \E idx : Keeps(idx)
    /\ \A key \in Flag : opts[key] <=> Given(key)

MountInv == MountedAsAsked /\ (main = "options" => Asked)

\* One argument more.
LEMMA ArgAdded ==
  ASSUME given \in Seq(Arg), NEW a \in Arg, given' = Append(given, a)
  PROVE  /\ given' \in Seq(Arg)
         /\ DOMAIN given' = DOMAIN given \cup {Len(given) + 1}
         /\ DOMAIN given = 1 .. Len(given) /\ Len(given) \in Nat
         /\ \A k \in DOMAIN given : given'[k] = given[k]
         /\ given'[Len(given) + 1] = a
         /\ Lists' = IF a.key \in ListKey /\ a.list # <<>> THEN Lists \cup {Len(given) + 1} ELSE Lists
         /\ \A key : Given(key)' <=> Given(key) \/ a.key = key
  <1>1. /\ given' \in Seq(Arg) /\ Len(given') = Len(given) + 1 /\ Len(given) \in Nat
        /\ \A k \in 1 .. Len(given) : given'[k] = given[k]
        /\ given'[Len(given) + 1] = a
    BY AppendProperties
  <1>2. DOMAIN given' = 1 .. Len(given) + 1 /\ DOMAIN given = 1 .. Len(given)
    BY <1>1
  <1>3. DOMAIN given' = DOMAIN given \cup {Len(given) + 1}
    BY <1>1, <1>2
  <1>4. Lists' = IF a.key \in ListKey /\ a.list # <<>> THEN Lists \cup {Len(given) + 1} ELSE Lists
    BY <1>1, <1>2, <1>3 DEF Lists, ListKey
  <1>5. \A key : Given(key)' <=> Given(key) \/ a.key = key
    BY <1>1, <1>2, <1>3 DEF Given
  <1> QED BY <1>1, <1>2, <1>3, <1>4, <1>5

\* The first list stays the first.
LEMMA FirstStays ==
  ASSUME given \in Seq(Arg), NEW a \in Arg, given' = Append(given, a),
         NEW k \in DOMAIN given
  PROVE  FirstList(k)' <=> FirstList(k)
  BY ArgAdded DEF FirstList, Lists

\* An argument that is no list with branches, or not the first, is kept.
LEMMA KeptAsked ==
  ASSUME Asked, NEW a \in Arg, given' = Append(given, a),
         a.key \notin Flag,
         a.key \in ListKey => opts.branches # <<>> \/ a.list = <<>>,
         opts' \in OptionRecord, opts'.branches = opts.branches,
         opts'.kept = Append(opts.kept, a),
         \A key \in Flag : opts'[key] = opts[key]
  PROVE  Asked'
  <1>0. PICK last, place : last = Len(given) + 1 /\ place = Len(opts.kept) + 1
    OBVIOUS
  <1>1. given \in Seq(Arg) /\ opts.kept \in Seq(Arg)
    BY DEF Asked, OptionRecord
  <1>2. /\ given' \in Seq(Arg) /\ DOMAIN given' = DOMAIN given \cup {last}
        /\ DOMAIN given = 1 .. Len(given) /\ Len(given) \in Nat
        /\ \A k \in DOMAIN given : given'[k] = given[k]
        /\ given'[last] = a /\ last = Len(given) + 1
        /\ Lists' = IF a.key \in ListKey /\ a.list # <<>> THEN Lists \cup {last} ELSE Lists
        /\ \A key : Given(key)' <=> Given(key) \/ a.key = key
    BY <1>0, <1>1, ArgAdded
  <1>3. /\ DOMAIN opts'.kept = DOMAIN opts.kept \cup {place}
        /\ place \notin DOMAIN opts.kept
        /\ \A n \in DOMAIN opts.kept : opts'.kept[n] = opts.kept[n]
        /\ opts'.kept[place] = a
    <2>1. /\ Append(opts.kept, a) \in Seq(Arg)
          /\ Len(Append(opts.kept, a)) = Len(opts.kept) + 1
          /\ \A n \in 1 .. Len(opts.kept) : Append(opts.kept, a)[n] = opts.kept[n]
          /\ Append(opts.kept, a)[Len(opts.kept) + 1] = a
      BY <1>1, AppendProperties
    <2>2. DOMAIN opts.kept = 1 .. Len(opts.kept) /\ Len(opts.kept) \in Nat
      BY <1>1
    <2>3. DOMAIN Append(opts.kept, a) = 1 .. Len(opts.kept) + 1
      BY <2>1
    <2> QED BY <1>0, <2>1, <2>2, <2>3
  <1>4. Lists \subseteq DOMAIN given
    BY DEF Lists
  <1>5. \A k \in DOMAIN given : FirstList(k)' <=> FirstList(k)
    BY <1>1, FirstStays
  <1>6. ~FirstList(last)'
    <2>1. CASE Lists' = Lists
      BY <2>1, <1>2, <1>4 DEF FirstList
    <2>2. CASE Lists' # Lists
      <3>1. PICK k \in Lists : TRUE
        BY <2>2, <1>2 DEF Asked
      <3>2. k \in Lists' /\ ~(last <= k)
        BY <3>1, <1>2, <1>4
      <3> QED BY <3>2 DEF FirstList
    <2> QED BY <2>1, <2>2
  <1>7. opts'.branches = <<>> <=> Lists' = {}
    BY <1>2 DEF Asked
  <1>8. Lists' # {} => \E k : FirstList(k)'
    <2> SUFFICES ASSUME Lists' # {} PROVE \E k : FirstList(k)'
      OBVIOUS
    <2>1. PICK k : FirstList(k)
      BY <1>7 DEF Asked
    <2>2. k \in DOMAIN given
      BY <2>1, <1>4 DEF FirstList
    <2> QED BY <2>1, <2>2, <1>5
  <1>9. \A k : FirstList(k)' => Taken(given[k].list)'
    <2> SUFFICES ASSUME NEW k, FirstList(k)' PROVE Taken(given[k].list)'
      OBVIOUS
    <2>1. k \in DOMAIN given /\ FirstList(k) /\ given'[k] = given[k]
      BY <1>2, <1>4, <1>5, <1>6 DEF FirstList
    <2>2. Taken(given[k].list)
      BY <2>1 DEF Asked, FirstList
    <2> QED BY <2>1, <2>2 DEF Taken
  <1>10. \E idx : Keeps(idx)'
    <2>1. PICK idx : Keeps(idx)
      BY DEF Asked
    <2>2. PICK new : new = [n \in DOMAIN opts'.kept |-> IF n = place THEN last ELSE idx[n]]
      OBVIOUS
    <2>3. new \in [DOMAIN opts'.kept -> DOMAIN given']
      BY <2>2, <2>1, <1>2, <1>3 DEF Keeps
    <2>4. ASSUME NEW n, n \in DOMAIN opts'.kept
          PROVE  opts'.kept[n] = given'[new[n]] /\ ~FirstList(new[n])'
      <3>1. CASE n = place
        BY <3>1, <2>2, <1>2, <1>3, <1>6
      <3>2. CASE n # place
        <4>1. n \in DOMAIN opts.kept /\ new[n] = idx[n] /\ idx[n] \in DOMAIN given
          BY <3>2, <2>4, <2>2, <2>1, <1>3 DEF Keeps
        <4>2. opts.kept[n] = given[idx[n]] /\ ~FirstList(idx[n])
          BY <4>1, <2>1 DEF Keeps
        <4>3. ~FirstList(idx[n])'
          BY <4>1, <4>2, <1>5
        <4>4. opts'.kept[n] = given'[idx[n]]
          BY <4>1, <4>2, <1>2, <1>3
        <4> QED BY <4>1, <4>3, <4>4
      <3> QED BY <3>1, <3>2
    <2>5. ASSUME NEW k, k \in Lists'
          PROVE  FirstList(k)' \/ \E n \in DOMAIN opts'.kept : new[n] = k
      <3>1. CASE k = last
        <4>1. place \in DOMAIN opts'.kept /\ new[place] = k
          BY <3>1, <2>2, <1>3
        <4> QED BY <4>1
      <3>2. CASE k # last
        <4>1. k \in Lists /\ k \in DOMAIN given
          BY <3>2, <2>5, <1>2, <1>4
        <4>2. CASE FirstList(k)
          BY <4>1, <4>2, <1>5
        <4>3. CASE ~FirstList(k)
          <5>1. PICK n \in DOMAIN opts.kept : idx[n] = k
            BY <4>1, <4>3, <2>1 DEF Keeps
          <5>2. n \in DOMAIN opts'.kept /\ new[n] = k
            BY <5>1, <2>2, <1>3
          <5> QED BY <5>2
        <4> QED BY <4>2, <4>3
      <3> QED BY <3>1, <3>2
    <2>6. Keeps(new)'
      BY <2>3, <2>4, <2>5 DEF Keeps
    <2> QED BY <2>6
  <1>11. \A key \in Flag : opts'[key] <=> Given(key)'
    BY <1>2 DEF Asked
  <1> QED BY <1>2, <1>7, <1>8, <1>9, <1>10, <1>11 DEF Asked

\* A flag is set wherever it is given.
LEMMA FlagAsked ==
  ASSUME Asked, NEW a \in Arg, given' = Append(given, a), a.key \in Flag,
         opts' = [opts EXCEPT ![a.key] = TRUE]
  PROVE  Asked'
  <1>1. given \in Seq(Arg) /\ opts \in OptionRecord
    BY DEF Asked
  <1>2. /\ opts' \in OptionRecord /\ opts'.branches = opts.branches /\ opts'.kept = opts.kept
        /\ \A key \in Flag : opts'[key] = IF key = a.key THEN TRUE ELSE opts[key]
    <2>1. CASE a.key = "cow"
      BY <2>1, <1>1 DEF OptionRecord, Flag
    <2>2. CASE a.key = "chroot"
      BY <2>2, <1>1 DEF OptionRecord, Flag
    <2>3. CASE a.key = "statfs_omit_ro"
      BY <2>3, <1>1 DEF OptionRecord, Flag
    <2>4. CASE a.key = "relaxed_permissions"
      BY <2>4, <1>1 DEF OptionRecord, Flag
    <2> QED BY <2>1, <2>2, <2>3, <2>4 DEF Flag
  <1>3. /\ given' \in Seq(Arg) /\ Lists' = Lists
        /\ DOMAIN given \subseteq DOMAIN given'
        /\ \A k \in DOMAIN given : given'[k] = given[k]
        /\ \A key : Given(key)' <=> Given(key) \/ a.key = key
    BY <1>1, ArgAdded DEF Flag, ListKey
  <1>4. Lists \subseteq DOMAIN given
    BY DEF Lists
  <1>5. \A k : FirstList(k)' <=> FirstList(k)
    BY <1>3 DEF FirstList
  <1>6. \A k : FirstList(k)' => Taken(given[k].list)'
    <2> SUFFICES ASSUME NEW k, FirstList(k)' PROVE Taken(given[k].list)'
      OBVIOUS
    <2>1. Taken(given[k].list) /\ given'[k] = given[k]
      BY <1>3, <1>4, <1>5 DEF Asked, FirstList
    <2> QED BY <2>1, <1>2 DEF Taken
  <1>7. \E idx : Keeps(idx)'
    <2>1. PICK idx : Keeps(idx)
      BY DEF Asked
    <2>2. Keeps(idx)'
      BY <2>1, <1>2, <1>3, <1>5 DEF Keeps
    <2> QED BY <2>2
  <1>8. opts'.branches = <<>> <=> Lists' = {}
    BY <1>2, <1>3 DEF Asked
  <1>9. Lists' # {} => \E k : FirstList(k)'
    BY <1>3, <1>5 DEF Asked
  <1>10. \A key \in Flag : opts'[key] <=> Given(key)'
    BY <1>2, <1>3 DEF Asked
  <1> QED BY <1>2, <1>3, <1>6, <1>7, <1>8, <1>9, <1>10 DEF Asked

\* The first list gives the branches.
LEMMA FirstAsked ==
  ASSUME Asked, NEW a \in Arg, given' = Append(given, a), a.key \in ListKey,
         opts.branches = <<>>, a.list # <<>>,
         opts' = [opts EXCEPT !.branches = [k \in DOMAIN a.list |-> add_branch(a.list[k])]]
  PROVE  Asked'
  <1>0. PICK last, taken : /\ last = Len(given) + 1
                           /\ taken = [k \in DOMAIN a.list |-> add_branch(a.list[k])]
    OBVIOUS
  <1>1. given \in Seq(Arg) /\ opts \in OptionRecord /\ Lists = {}
    BY DEF Asked
  <1>2. a.list \in Seq([name : DOMAIN Device, flag : STRING])
    BY MountAssumption
  <1>3. taken \in Seq(BranchOption) /\ taken # <<>> /\ DOMAIN taken = DOMAIN a.list
    <2>1. DOMAIN a.list = 1 .. Len(a.list) /\ Len(a.list) \in Nat /\ Len(a.list) # 0
      BY <1>2
    <2>2. \A k \in DOMAIN a.list : add_branch(a.list[k]) \in BranchOption
      <3> SUFFICES ASSUME NEW k \in DOMAIN a.list PROVE add_branch(a.list[k]) \in BranchOption
        OBVIOUS
      <3>1. a.list[k] \in [name : DOMAIN Device, flag : STRING]
        BY <1>2, <2>1, ElementOfSeq
      <3>2. a.list[k].name \in DOMAIN String
        BY <3>1, MountAssumption
      <3> QED BY <3>1, <3>2 DEF add_branch, BranchOption
    <2>3. taken \in [1 .. Len(a.list) -> BranchOption]
      BY <1>0, <2>1, <2>2
    <2>4. taken \in Seq(BranchOption)
      BY <2>1, <2>3
    <2>5. 1 \in DOMAIN taken
      BY <1>0, <2>1
    <2> QED BY <1>0, <2>4, <2>5, <2>1
  <1>4. /\ opts' \in OptionRecord /\ opts'.branches = taken /\ opts'.kept = opts.kept
        /\ \A key \in Flag : opts'[key] = opts[key]
    BY <1>0, <1>1, <1>3 DEF OptionRecord, Flag
  <1>5. /\ given' \in Seq(Arg) /\ Lists' = {last} /\ last \in Nat
        /\ DOMAIN given \subseteq DOMAIN given' /\ last \notin DOMAIN given
        /\ \A k \in DOMAIN given : given'[k] = given[k]
        /\ given'[last] = a
        /\ \A key : Given(key)' <=> Given(key) \/ a.key = key
    BY <1>0, <1>1, ArgAdded DEF ListKey
  <1>6. FirstList(last)'
    BY <1>5 DEF FirstList
  <1>7. Taken(a.list)'
    <2>1. \A n \in DOMAIN a.list : /\ opts'.branches[n].name = a.list[n].name
                                   /\ opts'.branches[n].rw = (a.list[n].flag = "RW")
      BY <1>0, <1>4 DEF add_branch
    <2> QED BY <2>1, <1>3, <1>4 DEF Taken
  <1>8. \E idx : Keeps(idx)'
    <2>1. PICK idx : Keeps(idx)
      BY DEF Asked
    <2>2. \A n \in DOMAIN opts.kept : idx[n] \in DOMAIN given /\ idx[n] # last
      BY <2>1, <1>5 DEF Keeps
    <2>3. \A n \in DOMAIN opts.kept : ~FirstList(idx[n])'
      BY <2>2, <1>5 DEF FirstList
    <2>4. Keeps(idx)'
      BY <2>1, <2>2, <2>3, <1>4, <1>5, <1>6 DEF Keeps
    <2> QED BY <2>4
  <1>9. \A key \in Flag : opts'[key] <=> Given(key)'
    BY <1>4, <1>5 DEF Asked, Flag, ListKey
  <1>10. opts'.branches = <<>> <=> Lists' = {}
    BY <1>3, <1>4, <1>5
  <1>11. \A k : FirstList(k)' => Taken(given[k].list)'
    BY <1>5, <1>7 DEF FirstList
  <1> QED BY <1>4, <1>5, <1>6, <1>8, <1>9, <1>10, <1>11 DEF Asked

LEMMA OptionAsked == ASSUME Asked, Option PROVE Asked'
  <1>1. PICK a \in Arg : given' = Append(given, a) /\ opts' = ulakefs_opt_proc(opts, a)
    BY DEF Option
  <1>2. opts \in OptionRecord /\ opts.kept \in Seq(Arg)
    BY DEF Asked, OptionRecord
  <1>3. Append(opts.kept, a) \in Seq(Arg)
    BY <1>2, AppendProperties
  <1>4. CASE a.key \in ListKey
    <2>1. opts' = parse_branches(opts, a)
      BY <1>1, <1>4 DEF ulakefs_opt_proc, ListKey
    <2>2. CASE opts.branches # <<>> \/ a.list = <<>>
      <3>1. opts' = [opts EXCEPT !.kept = Append(@, a)]
        BY <2>1, <2>2 DEF parse_branches
      <3>2. /\ opts' \in OptionRecord /\ opts'.branches = opts.branches
            /\ opts'.kept = Append(opts.kept, a)
            /\ \A key \in Flag : opts'[key] = opts[key]
        BY <3>1, <1>2, <1>3 DEF OptionRecord, Flag
      <3>3. a.key \notin Flag
        BY <1>4 DEF ListKey, Flag
      <3> QED BY <3>2, <3>3, <1>1, <2>2, KeptAsked
    <2>3. CASE opts.branches = <<>> /\ a.list # <<>>
      <3>1. opts' = [opts EXCEPT !.branches = [k \in DOMAIN a.list |-> add_branch(a.list[k])]]
        BY <2>1, <2>3 DEF parse_branches
      <3> QED BY <3>1, <1>1, <1>4, <2>3, FirstAsked
    <2> QED BY <2>2, <2>3
  <1>5. CASE a.key \in Flag
    <2>1. opts' = [opts EXCEPT ![a.key] = TRUE]
      BY <1>1, <1>5 DEF ulakefs_opt_proc, Flag
    <2> QED BY <2>1, <1>1, <1>5, FlagAsked
  <1>6. CASE a.key \notin ListKey \cup Flag
    <2>1. \/ opts' = [opts EXCEPT !.doexit = TRUE, !.kept = Append(@, a)]
          \/ opts' = [opts EXCEPT !.kept = Append(@, a)]
      BY <1>1, <1>6 DEF ulakefs_opt_proc, Flag, ListKey
    <2>2. /\ opts' \in OptionRecord /\ opts'.branches = opts.branches
          /\ opts'.kept = Append(opts.kept, a)
          /\ \A key \in Flag : opts'[key] = opts[key]
      BY <2>1, <1>2, <1>3 DEF OptionRecord, Flag
    <2> QED BY <2>2, <1>1, <1>6, KeptAsked
  <1> QED BY <1>4, <1>5, <1>6

\* What main mounts is what was asked for.
LEMMA MainAsked == ASSUME Asked, Main PROVE MountedAsAsked'
  <1> SUFFICES ASSUME Mounted' PROVE MountedAsAsked'
    BY DEF MountedAsAsked
  <1>1. Outcome(opts) = "mounted"
    BY DEF Mounted, Main
  <1>2. /\ opts.branches # <<>> /\ Len(opts.branches) = NBranches
        /\ opts.relaxed_permissions => IsUser
        /\ Len(opts.kept) = 1 /\ opts.kept[1].key = "nonopt" /\ opts.kept[1].list # <<>>
    BY <1>1 DEF Outcome, fuse_main, Main
  <1>3. /\ opts' = ulakefs_post_opts(opts) /\ given' = given
        /\ \A b \in Branch : uopt'.rw[b] = opts.branches[b + 1].rw
    BY <1>1 DEF Main
  <1>4. opts \in OptionRecord /\ opts.branches \in Seq(BranchOption) /\ opts.kept \in Seq(Arg)
    BY DEF Asked, OptionRecord
  <1>5. /\ opts'.kept = opts.kept
        /\ \A key \in Flag : opts'[key] = opts[key]
        /\ DOMAIN opts'.branches = DOMAIN opts.branches
        /\ \A k \in DOMAIN opts.branches : opts'.branches[k].name = opts.branches[k].name
    <2>1. \A k \in DOMAIN opts.branches : opts.branches[k] \in BranchOption
      BY <1>4
    <2>2. \A br \in BranchOption : Opened(opts, br).name = br.name
      BY DEF BranchOption, Opened
    <2>3. /\ opts'.kept = opts.kept
          /\ \A key \in Flag : opts'[key] = opts[key]
      BY <1>3, <1>4 DEF ulakefs_post_opts, OptionRecord, Flag
    <2>4. opts'.branches = [k \in DOMAIN opts.branches |-> Opened(opts, opts.branches[k])]
      BY <1>3, <1>4 DEF ulakefs_post_opts, OptionRecord
    <2> QED BY <2>1, <2>2, <2>3, <2>4
  <1>6. PICK idx : Keeps(idx)
    BY DEF Asked
  <1>7. DOMAIN opts.kept = {1}
    BY <1>2, <1>4
  <1>8. opts.kept[1] = given[idx[1]] /\ idx[1] \in DOMAIN given /\ ~FirstList(idx[1])
    BY <1>6, <1>7 DEF Keeps
  <1>9. idx[1] \in Lists
    BY <1>2, <1>8 DEF Lists
  <1>10. PICK first : FirstList(first)
    BY <1>9 DEF Asked
  <1>11. Taken(given[first].list)
    BY <1>10 DEF Asked
  <1>12. first \in Lists /\ first <= idx[1] /\ first # idx[1]
    BY <1>8, <1>9, <1>10 DEF FirstList
  <1>13. Lists \subseteq DOMAIN given /\ DOMAIN given \subseteq Nat
    BY DEF Asked, Lists
  <1>14. first < idx[1] /\ Lists = {first, idx[1]}
    <2>1. ASSUME NEW k \in Lists PROVE k \in {first, idx[1]}
      <3>1. CASE FirstList(k)
        <4>1. k <= first /\ first <= k /\ k \in Nat /\ first \in Nat
          BY <3>1, <1>10, <1>12, <1>13, <2>1 DEF FirstList
        <4> QED BY <4>1
      <3>2. CASE ~FirstList(k)
        BY <3>2, <1>6, <1>7 DEF Keeps
      <3> QED BY <3>1, <3>2
    <2> QED BY <2>1, <1>9, <1>12, <1>13
  <1>15. Lists' = Lists
    BY <1>3 DEF Lists
  <1>16. /\ [k \in DOMAIN opts'.branches |-> opts'.branches[k].name]
               = [k \in DOMAIN given[first].list |-> given[first].list[k].name]
         /\ \A b \in Branch : uopt'.rw[b] <=> given[first].list[b + 1].flag = "RW"
    <2>1. \A b \in Branch : b + 1 \in DOMAIN opts.branches
      BY <1>2, <1>4, NBranchesAssumption DEF Branch
    <2>2. \A k \in DOMAIN opts'.branches : opts'.branches[k].name = given[first].list[k].name
      BY <1>5, <1>11 DEF Taken
    <2>3. DOMAIN opts'.branches = DOMAIN given[first].list
      BY <1>5, <1>11 DEF Taken
    <2> QED BY <2>1, <2>2, <2>3, <1>3, <1>11 DEF Taken
  <1>17. \A key \in Flag : opts'[key] <=> Given(key)'
    BY <1>3, <1>5 DEF Asked, Given
  <1>18. opts'.relaxed_permissions => IsUser
    BY <1>2, <1>5 DEF Flag
  <1> QED BY <1>2, <1>3, <1>5, <1>8, <1>9, <1>12, <1>14, <1>15, <1>16, <1>17, <1>18
          DEF MountedAsAsked, Flag

LEMMA InitMountInv == Init => MountInv
  <1> SUFFICES ASSUME Init PROVE MountInv
    OBVIOUS
  <1>1. given = <<>> /\ opts = NoOptions /\ main = "options"
    BY DEF Init
  <1>2. Lists = {} /\ \A key : ~Given(key)
    BY <1>1 DEF Lists, Given
  <1>3. opts \in OptionRecord
    BY <1>1 DEF OptionRecord, NoOptions
  <1>4. Keeps([n \in {} |-> 0])
    BY <1>1, <1>2 DEF Keeps, NoOptions
  <1>5. given \in Seq(Arg)
    BY <1>1
  <1>6. /\ opts.branches = <<>>
        /\ \A key \in Flag : ~opts[key]
    BY <1>1 DEF Flag, NoOptions
  <1>7. Asked
    BY <1>2, <1>3, <1>4, <1>5, <1>6 DEF Asked, FirstList
  <1> QED BY <1>1, <1>7 DEF MountInv, MountedAsAsked, Mounted

LEMMA NextMountInv == MountInv /\ [Next]_vars => MountInv'
  <1> SUFFICES ASSUME MountInv, [Next]_vars PROVE MountInv'
    OBVIOUS
  <1>1. ASSUME UNCHANGED <<given, opts, main, uopt>> PROVE MountInv'
    <2>1. Lists' = Lists /\ \A key : Given(key)' <=> Given(key)
      BY <1>1 DEF Lists, Given
    <2>2. MountedAsAsked'
      BY <1>1, <2>1 DEF MountInv, MountedAsAsked, Mounted
    <2>3. \A k : FirstList(k)' <=> FirstList(k)
      BY <2>1 DEF FirstList
    <2>4. \A idx : Keeps(idx)' <=> Keeps(idx)
      BY <1>1, <2>1, <2>3 DEF Keeps
    <2>5. \A list : Taken(list)' <=> Taken(list)
      BY <1>1 DEF Taken
    <2>6. ASSUME main' = "options" PROVE Asked'
      <3>1. Asked
        BY <1>1, <2>6 DEF MountInv
      <3>2. \A k : FirstList(k)' => Taken(given[k].list)'
        BY <3>1, <1>1, <2>3, <2>5 DEF Asked
      <3>3. (\E idx : Keeps(idx)') /\ (Lists' # {} => \E k : FirstList(k)')
        BY <3>1, <2>1, <2>3, <2>4 DEF Asked
      <3> QED BY <3>1, <3>2, <3>3, <1>1, <2>1 DEF Asked
    <2> QED BY <2>2, <2>6 DEF MountInv
  <1>2. CASE Option
    <2>1. main = "options" /\ main' = "options"
      BY <1>2 DEF Option
    <2>2. Asked'
      BY <1>2, <2>1, OptionAsked DEF MountInv
    <2> QED BY <2>1, <2>2 DEF MountInv, MountedAsAsked, Mounted
  <1>3. CASE Main
    <2>1. main = "options" /\ main' = Outcome(opts)
      BY <1>3 DEF Main
    <2>2. main' # "options"
      BY <2>1 DEF Outcome, fuse_main
    <2>3. MountedAsAsked'
      BY <1>3, <2>1, MainAsked DEF MountInv
    <2> QED BY <2>2, <2>3 DEF MountInv
  <1>4. CASE Read /\ UNCHANGED <<given, opts, main>>
    <2>1. uopt' = uopt
      BY <1>4 DEF Read, Start, NextBranch, ReadEntry, ReadNewEntry, CloseDir, OpenWhiteouts,
                  is_hiding, CloseWhiteouts, OutOfMemory, Answer, CopyUp
    <2> QED BY <1>1, <1>4, <2>1
  <1>5. CASE UNCHANGED vars
    BY <1>1, <1>5 DEF vars
  <1> QED BY <1>2, <1>3, <1>4, <1>5 DEF Next

(* Whatever arguments there are and in whatever order they come, the union *)
(* that main mounts has the branches of the first list in their order, and *)
(* the flags that were given: ulakefs_opt_proc, parse_branches and main.   *)
THEOREM MountAlwaysAsAsked == Spec => []MountedAsAsked
  <1>1. MountInv => MountedAsAsked
    BY DEF MountInv
  <1> QED BY <1>1, InitMountInv, NextMountInv, PTL DEF Spec

-----------------------------------------------------------------------------
(* The whiteouts that path_hidden finds in a string.                       *)

\* The branches are as post_opts left them.
Measured ==
    \A b \in Branch :
        LET br == opts.branches[b + 1]
        IN  /\ br.path.len \in Nat /\ br.path.trail = TRUE
            /\ ~opts.chroot => br.path_len = br.path.len

MeasureInv == MountInv /\ (Mounted => Measured)

LEMMA MainMeasured == ASSUME Asked, Main, Mounted' PROVE Measured'
  <1>1. /\ opts' = ulakefs_post_opts(opts)
        /\ opts \in OptionRecord /\ opts.branches \in Seq(BranchOption)
        /\ Len(opts.branches) = NBranches
    BY DEF Mounted, Main, Asked, OptionRecord
  <1>2. /\ opts'.branches = [k \in DOMAIN opts.branches |-> Opened(opts, opts.branches[k])]
        /\ opts'.chroot = opts.chroot
    BY <1>1 DEF ulakefs_post_opts, OptionRecord
  <1>3. \A b \in Branch : b + 1 \in DOMAIN opts.branches
    BY <1>1, NBranchesAssumption DEF Branch
  <1> SUFFICES ASSUME NEW b \in Branch
               PROVE  LET br == Opened(opts, opts.branches[b + 1])
                      IN  /\ br.path.len \in Nat /\ br.path.trail = TRUE
                          /\ ~opts.chroot => br.path_len = br.path.len
    BY <1>2, <1>3 DEF Measured
  <1>4. PICK br : br = opts.branches[b + 1] /\ br \in BranchOption
    BY <1>1, <1>3
  <1> DEFINE Str == [len : Nat, lead : BOOLEAN, trail : BOOLEAN]
  <1>5. br.path \in Str
    BY <1>4, MountAssumption DEF BranchOption
  <1>6. make_absolute(br.path) \in Str
    <2>1. Cwd \in Nat
      BY MountAssumption
    <2>2. PICK s \in Str : s = br.path
      BY <1>5
    <2>3. Cwd + 1 + s.len \in Nat
      BY <2>1
    <2>4. [s EXCEPT !.len = Cwd + 1 + @, !.lead = TRUE] \in Str
      <3>1. \A n \in Nat : [s EXCEPT !.len = n, !.lead = TRUE] \in Str
        BY <2>2
      <3> QED BY <2>3, <3>1
    <2> QED BY <2>2, <2>3, <2>4 DEF make_absolute
  <1>7. \A s \in Str : add_trailing_slash(s).len \in Nat /\ add_trailing_slash(s).trail = TRUE
    BY DEF add_trailing_slash
  <1>8. /\ Opened(opts, br).path
              = add_trailing_slash(IF opts.chroot THEN br.path ELSE make_absolute(br.path))
        /\ Opened(opts, br).path_len = OpenedPath(opts, br).len
    BY <1>4 DEF Opened, BranchOption
  <1>9. ASSUME ~opts.chroot
        PROVE  OpenedPath(opts, br) = Opened(opts, br).path
    <2>1. ~opts.doexit
      BY DEF Mounted, Main, Outcome, fuse_main
    <2>2. OpenedPath(opts, br).len # 0
      BY <1>3, <1>4, <2>1 DEF Mounted, Main, Outcome
    <2>3. ASSUME TooLong(BranchPath(opts, br))
          PROVE  OpenedPath(opts, br).len = 0
      BY <1>9, <2>3 DEF OpenedPath
    <2> QED BY <1>8, <1>9, <2>2, <2>3 DEF OpenedPath, BranchPath
  <1>10. Opened(opts, br).path.len \in Nat /\ Opened(opts, br).path.trail = TRUE
    BY <1>5, <1>6, <1>7, <1>8
  <1> QED BY <1>4, <1>8, <1>9, <1>10

LEMMA InitMeasureInv == Init => MeasureInv
  BY InitMountInv DEF MeasureInv, Init, Mounted

LEMMA NextMeasureInv == MeasureInv /\ [Next]_vars => MeasureInv'
  <1> SUFFICES ASSUME MeasureInv, [Next]_vars PROVE MeasureInv'
    OBVIOUS
  <1>1. MountInv'
    BY NextMountInv DEF MeasureInv
  <1>2. CASE Option
    BY <1>1, <1>2 DEF Option, MeasureInv, Mounted
  <1>3. CASE Main
    <2>1. Asked
      BY <1>3 DEF Main, MeasureInv, MountInv
    <2> QED BY <1>1, <1>3, <2>1, MainMeasured DEF MeasureInv
  <1>4. CASE UNCHANGED <<opts, main>>
    BY <1>1, <1>4 DEF MeasureInv, Mounted, Measured
  <1> QED BY <1>2, <1>3, <1>4 DEF Next, vars

(* What is on the way to a path is its first names. *)
LEMMA PrefixIsSubSeq ==
    ASSUME NEW q \in Seq(Name), NEW p \in Seq(Name), IsPrefix(q, p)
    PROVE  q = SubSeq(p, 1, Len(q))
  <1> DEFINE s == SubSeq(q, 1, Len(q))
  <1>1. Len(q) \in Nat /\ \A i \in 1 .. Len(q) : q[i] \in Name
    OBVIOUS
  <1>2. s \in Seq(Name) /\ Len(s) = Len(q) /\ \A i \in 1 .. Len(q) : s[i] = q[i]
    BY <1>1, SubSeqProperties
  <1>3. s = q
    BY <1>2, SeqEqual
  <1> QED BY <1>3 DEF IsPrefix

\* The names up to the j-th one of a path are a path, and no longer.
LEMMA OnTheWay ==
  ASSUME NEW p \in Path, NEW j \in 1 .. Len(p)
  PROVE  /\ SubSeq(p, 1, j) \in PrefixesOf[p]
         /\ Strlen[SubSeq(p, 1, j)] <= Strlen[p]
  <1> DEFINE T == {q \in Path : IsPrefix(q, p) /\ Strlen[q] <= Strlen[p] /\ j <= Len(q)}
  <1>1. p \in Seq(Name) /\ Len(p) \in Nat /\ j \in Nat /\ 1 <= j /\ j <= Len(p)
    BY PathFacts
  <1>2. \A q \in Path : Strlen[q] \in Nat
    BY MountAssumption
  <1>3. p \in T
    BY <1>1, <1>2, IsPrefixSelf
  <1>4. PICK m \in T : \A q \in T : ~(Len(q) < Len(m))
    BY <1>3, LeastPath
  <1>5. m \in Path /\ m \in Seq(Name) /\ Len(m) \in Nat /\ j <= Len(m) /\ IsPrefix(m, p)
    BY <1>4, PathFacts
  <1>6. Len(m) = j
    <2> SUFFICES ASSUME j < Len(m) PROVE FALSE
      BY <1>1, <1>5
    <2>1. /\ u_dirname(m) \in Path \cup {Root}
          /\ Len(u_dirname(m)) = Len(m) - 1
          /\ u_dirname(m) \in Seq(Name)
          /\ \A i \in 1 .. Len(m) - 1 : u_dirname(m)[i] = m[i]
      BY <1>5, PathFacts
    <2>2. u_dirname(m) # Root
      BY <2>1, <1>1, <1>5 DEF Root
    <2>3. Strlen[u_dirname(m)] <= Strlen[p]
      BY <2>1, <2>2, <1>2, <1>3, <1>4, MountAssumption
    <2>4. IsPrefix(u_dirname(m), p)
      <3>1. Len(m) <= Len(p) /\ \A i \in 1 .. Len(m) : m[i] = p[i]
        BY <1>1, <1>5, PrefixPointwise
      <3>2. /\ Len(u_dirname(m)) <= Len(p)
            /\ \A i \in 1 .. Len(u_dirname(m)) : u_dirname(m)[i] = p[i]
        BY <3>1, <2>1, <1>1, <1>5
      <3> QED BY <3>2, <2>1, <1>1, PrefixPointwise
    <2>5. u_dirname(m) \in T
      BY <2>1, <2>2, <2>3, <2>4, <1>1, <1>5
    <2> QED BY <2>1, <2>5, <1>4, <1>5
  <1>7. m = SubSeq(p, 1, j)
    BY <1>1, <1>5, <1>6, PrefixIsSubSeq
  <1> QED BY <1>4, <1>7 DEF PrefixesOf

\* What build_path makes of a string that ends with a slash.
LEMMA BehindSlash ==
  ASSUME NEW s, NEW t, s.trail = TRUE, s.len \in Nat, t.len \in Nat, t.lead \in BOOLEAN
  PROVE  /\ build_path(s, t).trail = t.trail
         /\ s.len # 0 => build_path(s, t).len = IF t.lead THEN s.len + t.len - 1 ELSE s.len + t.len
         /\ s.len = 0 => build_path(s, t).len = t.len
  <1>1. build_path(s, t).trail = t.trail
    BY DEF build_path
  <1>2. build_path(s, t).len = s.len + t.len + (IF s.len = 0 \/ s.trail # t.lead THEN 0
                                                ELSE IF s.trail THEN -1 ELSE 1)
    BY DEF build_path
  <1>3. CASE t.lead = TRUE
    <2>1. s.trail = t.lead
      BY <1>3
    <2>2. (IF s.len = 0 \/ s.trail # t.lead THEN 0 ELSE IF s.trail THEN -1 ELSE 1)
              = IF s.len = 0 THEN 0 ELSE -1
      BY <2>1, <1>3
    <2>3. build_path(s, t).len = s.len + t.len + IF s.len = 0 THEN 0 ELSE -1
      BY <1>2, <2>2
    <2> QED BY <1>1, <1>3, <2>3
  <1>4. CASE t.lead = FALSE
    <2>1. s.trail # t.lead
      BY <1>4
    <2>2. (IF s.len = 0 \/ s.trail # t.lead THEN 0 ELSE IF s.trail THEN -1 ELSE 1) = 0
      BY <2>1
    <2>3. build_path(s, t).len = s.len + t.len + 0
      BY <1>2, <2>2
    <2> QED BY <1>1, <1>4, <2>3
  <1> QED BY <1>3, <1>4

\* How long the path of a whiteout is, without the tag.
LEMMA EndIs ==
  ASSUME Measured, NEW b \in Branch, NEW q \in Path
  PROVE  WhiteoutPath(q, b).len = opts.branches[b + 1].path.len + 8 + Strlen[q]
  <1>1. PICK s, t, u : /\ s = opts.branches[b + 1].path
                      /\ t = build_path(s, METADIR)
                      /\ u = PathString(q)
    OBVIOUS
  <1>2. s.len \in Nat /\ s.trail = TRUE /\ Strlen[q] \in Nat
    BY <1>1, MountAssumption DEF Measured
  <1>3. u.len = Strlen[q] /\ u.lead = TRUE
    BY <1>1, PathFacts DEF PathString
  <1>4. t.len = s.len + 9 /\ t.trail = TRUE
    <2>1. METADIR.len = 9 /\ METADIR.lead = FALSE /\ METADIR.trail = TRUE
      BY DEF METADIR
    <2>2. PICK m : m = METADIR
      OBVIOUS
    <2>3. m.len = 9 /\ m.lead = FALSE /\ m.trail = TRUE
      BY <2>1, <2>2
    <2>4. /\ build_path(s, m).trail = m.trail
          /\ s.len # 0 => build_path(s, m).len = IF m.lead THEN s.len + m.len - 1 ELSE s.len + m.len
          /\ s.len = 0 => build_path(s, m).len = m.len
      <3>1. m.len \in Nat
        BY <2>3
      <3>2. m.lead \in BOOLEAN
        BY <2>3
      <3> QED BY <1>2, <3>1, <3>2, BehindSlash
    <2>5. t = build_path(s, m)
      BY <1>1, <2>2
    <2> QED BY <1>2, <2>3, <2>4, <2>5
  <1>5. build_path(t, u).len = t.len + Strlen[q] - 1
    <2>1. t.len \in Nat /\ t.len # 0
      BY <1>2, <1>4
    <2> QED BY <1>2, <1>3, <1>4, <2>1, BehindSlash
  <1>6. WhiteoutPath(q, b) = build_path(t, u)
    BY <1>1 DEF WhiteoutPath
  <1> QED BY <1>1, <1>2, <1>4, <1>5, <1>6

(* For any arguments, names and lengths, the walk of path_hidden over the  *)
(* string finds the whiteouts of a path and its parents and no others, if  *)
(* the path leaves room for the tag and there is no chroot.                *)
THEOREM WalkFindsWhiteouts == Spec => []HiddenMatches
  <1>1. MeasureInv => HiddenMatches
    <2> SUFFICES ASSUME Measured, ~opts.chroot, NEW b \in Branch, NEW p \in Path, PathFits(p, b)
                 PROVE  path_hidden_string(fs, p, b) = "hidden" <=> path_hidden(fs, p, b)
      BY DEF MeasureInv, HiddenMatches
    <2> DEFINE s == opts.branches[b + 1].path.len
               Found(j) == fs.wh[b][SubSeq(p, 1, j)] # "none"
    <2>1. /\ s \in Nat /\ opts.branches[b + 1].path_len = s /\ PATHLEN_MAX \in Nat
          /\ Len(p) \in Nat \ {0} /\ Len(p) \in 1 .. Len(p)
      BY PathFacts, MountAssumption DEF Measured
    <2>2. \A q \in Path : Strlen[q] \in Nat /\ Strlen[q] > 0
      <3> SUFFICES ASSUME NEW q \in Path PROVE Strlen[q] \in Nat /\ Strlen[q] > 0
        OBVIOUS
      <3>1. u_dirname(q) # Root => u_dirname(q) \in Path
        BY PathFacts
      <3> QED BY <3>1, MountAssumption
    <2>3. SubSeq(p, 1, Len(p)) = p
      BY PathFacts, IsPrefixSelf, PrefixIsSubSeq
    <2>4. \A j \in 1 .. Len(p) : /\ SubSeq(p, 1, j) \in Path
                                 /\ Strlen[SubSeq(p, 1, j)] <= Strlen[p]
      BY OnTheWay DEF PrefixesOf
    <2>5. \A j \in 1 .. Len(p) : EndOf(p, b, j) = s + 8 + Strlen[SubSeq(p, 1, j)]
      BY <2>4, EndIs DEF EndOf
    <2>6. Walked(p, b) = 1 .. Len(p)
      <3>1. \A j \in 1 .. Len(p) : EndOf(p, b, j) > s + METADIR.len - 1
        BY <2>1, <2>2, <2>4, <2>5 DEF METADIR
      <3> QED BY <3>1, <2>1 DEF Walked
    <2>7. s + 8 + Strlen[p] + 8 < PATHLEN_MAX
      BY <2>1, <2>3, <2>5 DEF PathFits, HIDETAG
    <2>8. ~TooLong(WhiteoutPath(p, b))
      <3>1. PICK k \in Nat, m \in Nat : k = s /\ m = Strlen[p]
        BY <2>1, <2>2
      <3>2. WhiteoutPath(p, b).len = k + 8 + m
        BY <3>1, EndIs
      <3>3. k + 8 + m + 8 < PATHLEN_MAX
        BY <3>1, <2>7
      <3>4. ~(k + 8 + m + 1 > PATHLEN_MAX)
        BY <3>3, <2>1
      <3> QED BY <3>2, <3>4 DEF TooLong
    <2>9. \A j \in 1 .. Len(p) : filedir_hidden(fs, p, b, j) = IF Found(j) THEN "hidden" ELSE "no"
      <3> SUFFICES ASSUME NEW j \in 1 .. Len(p)
                   PROVE  filedir_hidden(fs, p, b, j) = IF Found(j) THEN "hidden" ELSE "no"
        OBVIOUS
      <3>1. EndOf(p, b, j) + HIDETAG < PATHLEN_MAX /\ ~(EndOf(p, b, j) + HIDETAG > PATHLEN_MAX)
        <4>1. PICK k \in Nat, m \in Nat : k = s /\ m = Strlen[p]
          BY <2>1, <2>2
        <4>2. PICK n \in Nat : n = Strlen[SubSeq(p, 1, j)]
          BY <2>2, <2>4
        <4>3. n <= m
          BY <4>1, <4>2, <2>4
        <4>4. EndOf(p, b, j) = k + 8 + n
          BY <4>1, <4>2, <2>5
        <4>5. k + 8 + m + 8 < PATHLEN_MAX
          BY <4>1, <2>7
        <4>6. k + 8 + n + 8 < PATHLEN_MAX /\ ~(k + 8 + n + 8 > PATHLEN_MAX)
          BY <4>3, <4>5, <2>1
        <4> QED BY <4>4, <4>6 DEF HIDETAG
      <3> QED BY <3>1 DEF filedir_hidden
    <2>10. path_hidden(fs, p, b) <=> uopt.cow /\ \E j \in 1 .. Len(p) : Found(j)
      <3>1. ASSUME NEW q \in PrefixesOf[p] PROVE Len(q) \in 1 .. Len(p) /\ q = SubSeq(p, 1, Len(q))
        BY PathFacts, PrefixPointwise, PrefixIsSubSeq DEF PrefixesOf
      <3>2. \A j \in 1 .. Len(p) : SubSeq(p, 1, j) \in PrefixesOf[p]
        BY OnTheWay
      <3>3. (\E q \in PrefixesOf[p] : fs.wh[b][q] # "none") <=> \E j \in 1 .. Len(p) : Found(j)
        <4>1. ASSUME NEW q \in PrefixesOf[p], fs.wh[b][q] # "none"
              PROVE  \E j \in 1 .. Len(p) : Found(j)
          <5>1. PICK j \in 1 .. Len(p) : q = SubSeq(p, 1, j)
            BY <3>1
          <5> QED BY <4>1, <5>1
        <4>2. ASSUME NEW j \in 1 .. Len(p), Found(j)
              PROVE  \E q \in PrefixesOf[p] : fs.wh[b][q] # "none"
          BY <3>2, <4>2
        <4> QED BY <4>1, <4>2
      <3> QED BY <3>3 DEF path_hidden
    <2> DEFINE hits == {j \in 1 .. Len(p) : filedir_hidden(fs, p, b, j) # "no"}
    <2>11. path_hidden_string(fs, p, b) =
              IF ~uopt.cow \/ hits = {} THEN "no"
              ELSE filedir_hidden(fs, p, b, CHOOSE j \in hits : \A k \in hits : j <= k)
      BY <2>6, <2>8 DEF path_hidden_string
    <2>12. hits = {j \in 1 .. Len(p) : Found(j)}
      BY <2>9
    <2>13. CASE ~uopt.cow \/ hits = {}
      BY <2>10, <2>11, <2>12, <2>13
    <2>14. CASE uopt.cow /\ hits # {}
      <3>1. \E j \in hits : \A k \in hits : j <= k
        <4>1. hits \subseteq Nat
          OBVIOUS
        <4>2. PICK j \in hits : \A k \in hits : ~(<<k, j>> \in OpToRel(<, Nat))
          BY <4>1, <2>14, NatLessThanWellFounded, WFMin
        <4>3. \A k \in hits : ~(k < j)
          BY <4>1, <4>2 DEF OpToRel
        <4>4. \A k \in hits : j <= k
          <5> HIDE DEF hits
          <5> QED BY <4>1, <4>3
        <4> QED BY <4>4
      <3>2. PICK j \in hits : j = CHOOSE i \in hits : \A k \in hits : i <= k
        BY <3>1
      <3>3. filedir_hidden(fs, p, b, j) = "hidden"
        BY <3>2, <2>9, <2>12
      <3> QED BY <3>2, <3>3, <2>10, <2>11, <2>12, <2>14
    <2> QED BY <2>13, <2>14
  <1> QED BY <1>1, InitMeasureInv, NextMeasureInv, PTL DEF Spec

-----------------------------------------------------------------------------
(* What statfs adds up.                                                    *)

Statvfs == [dev : Nat, bsize : Nat \ {0}, blocks : Nat, bfree : Nat]

LEMMA Distribute == \A x, y, z \in Int : (x + y) * z = x * z + y * z
  OBVIOUS

LEMMA TimesNat == \A x, y \in Nat : x * y \in Nat
  OBVIOUS

LEMMA TimesMono ==
  ASSUME NEW x \in Int, NEW y \in Int, NEW z \in Nat, x <= y
  PROVE  x * z <= y * z
  <1>1. PICK d \in Nat : y = x + d
    <2>1. y - x \in Nat /\ y = x + (y - x)
      OBVIOUS
    <2> QED BY <2>1
  <1>2. y * z = x * z + d * z
    BY <1>1, Distribute
  <1>3. d * z \in Nat /\ x * z \in Int
    BY TimesNat
  <1> QED BY <1>2, <1>3

LEMMA DivFacts ==
  ASSUME NEW a \in Nat, NEW b \in Nat \ {0}
  PROVE  a \div b \in Nat /\ (a \div b) * b <= a /\ a < (a \div b) * b + b
  OBVIOUS

LEMMA DivMono ==
  ASSUME NEW a \in Nat, NEW c \in Nat, NEW b \in Nat \ {0}, a <= c
  PROVE  a \div b <= c \div b
  <1>1. PICK q \in Nat, r \in Nat : q = a \div b /\ r = c \div b
    BY DivFacts
  <1>2. q * b <= a /\ c < r * b + b
    BY <1>1, DivFacts
  <1>3. ASSUME r + 1 <= q PROVE FALSE
    <2>1. (r + 1) * b <= q * b
      BY <1>3, TimesMono
    <2>2. (r + 1) * b = r * b + b
      BY Distribute
    <2>3. r * b \in Nat /\ q * b \in Nat
      BY TimesNat
    <2> QED BY <1>2, <2>1, <2>2, <2>3
  <1> QED BY <1>1, <1>3

\* x blocks of size b, and as many as there are in a bytes
LEMMA AddBlocks ==
  ASSUME NEW x \in Nat, NEW a \in Nat, NEW b \in Nat \ {0}
  PROVE  /\ x + a \div b \in Nat
         /\ x * b \in Nat
         /\ (x + a \div b) * b <= x * b + a
         /\ (x + a \div b) * b > x * b + a - b
         /\ (x + a \div b + 1) * b > a
         /\ (x + a \div b + 1) * b >= (x + 1) * b
  <1>1. PICK q \in Nat : q = a \div b /\ q * b <= a /\ a < q * b + b
    BY DivFacts
  <1>2. (x + q) * b = x * b + q * b /\ x * b \in Nat /\ q * b \in Nat
    BY Distribute, TimesNat
  <1>3. (x + q + 1) * b = (x + q) * b + b /\ (x + 1) * b = x * b + b
    BY Distribute
  <1>4. /\ x + q \in Nat
        /\ (x + q) * b <= x * b + a
        /\ (x + q) * b > x * b + a - b
    BY <1>1, <1>2
  <1>5. (x + q + 1) * b > a /\ (x + q + 1) * b >= (x + 1) * b
    BY <1>1, <1>2, <1>3
  <1> QED BY <1>1, <1>2, <1>4, <1>5

LEMMA LeastOf ==
  ASSUME NEW T, T \subseteq Nat, T # {}
  PROVE  \E m \in T : \A n \in T : ~(n < m)
  <1>1. PICK m \in T : \A n \in T : ~(<<n, m>> \in OpToRel(<, Nat))
    BY NatLessThanWellFounded, WFMin
  <1>2. \A n \in T : ~(n < m)
    BY <1>1 DEF OpToRel
  <1> QED BY <1>2

Follows(f, n, a, step) ==
    \A k \in 1 .. n : f[k] = IF k = 1 THEN a ELSE step[<<f[k - 1], k>>]

\* A function can be defined by what follows its last value.
LEMMA RecursionExists ==
  ASSUME NEW V, NEW n \in Nat, NEW a \in V, NEW step \in [V \X Nat -> V]
  PROVE  \E f \in [1 .. n -> V] : Follows(f, n, a, step)
  <1> DEFINE Defines(f, m) ==
                /\ f \in [1 .. m -> V]
                /\ \A k \in 1 .. m : f[k] = IF k = 1 THEN a ELSE step[<<f[k - 1], k>>]
             T == {m \in Nat : ~\E f : Defines(f, m)}
  <1> SUFFICES T = {}
    BY DEF Follows
  <1> SUFFICES ASSUME T # {} PROVE FALSE
    OBVIOUS
  <1>1. PICK m \in T : \A k \in T : ~(k < m)
    BY LeastOf
  <1>2. m # 0
    <2>1. Defines([k \in {} |-> a], 0)
      OBVIOUS
    <2> QED BY <1>1, <2>1
  <1>3. PICK l \in Nat : m = l + 1
    BY <1>1, <1>2
  <1>4. PICK f : Defines(f, l)
    <2>1. l < m
      BY <1>3
    <2>2. l \notin T
      BY <1>1, <2>1
    <2> HIDE DEF Defines
    <2> QED BY <2>2
  <1> DEFINE next == IF m = 1 THEN a ELSE step[<<f[l], m>>]
             g    == [k \in 1 .. m |-> IF k = m THEN next ELSE f[k]]
  <1>5. next \in V
    <2>1. CASE m = 1
      BY <2>1
    <2>2. CASE m # 1
      <3>1. l \in 1 .. l /\ m \in Nat
        BY <2>2, <1>3
      <3>2. f[l] \in V
        BY <3>1, <1>4
      <3> QED BY <3>1, <3>2, <2>2
    <2> QED BY <2>1, <2>2
  <1>6. \A k \in 1 .. m : k = m \/ k \in 1 .. l
    BY <1>3
  <1>7. g \in [1 .. m -> V]
    <2> HIDE DEF next
    <2> QED BY <1>4, <1>5, <1>6
  <1>8. \A k \in 1 .. m : g[k] = IF k = 1 THEN a ELSE step[<<g[k - 1], k>>]
    <2> SUFFICES ASSUME NEW k \in 1 .. m
                 PROVE  g[k] = IF k = 1 THEN a ELSE step[<<g[k - 1], k>>]
      OBVIOUS
    <2>1. k # 1 => k - 1 \in 1 .. l /\ k - 1 \in 1 .. m /\ k - 1 # m
      BY <1>3
    <2>2. k # 1 => g[k - 1] = f[k - 1]
      BY <2>1
    <2>3. CASE k = m
      <3>1. g[k] = next /\ (k # 1 => k - 1 = l)
        BY <2>3, <1>3
      <3> QED BY <3>1, <2>2, <2>3
    <2>4. CASE k # m
      <3>1. k \in 1 .. l /\ g[k] = f[k]
        BY <2>4, <1>6
      <3>2. f[k] = IF k = 1 THEN a ELSE step[<<f[k - 1], k>>]
        BY <3>1, <1>4
      <3> QED BY <3>1, <3>2, <2>2
    <2> QED BY <2>3, <2>4
  <1>9. Defines(g, m)
    BY <1>7, <1>8
  <1> QED BY <1>1, <1>9

\* Each branch that is mounted is on a file system.
Backed ==
    /\ Len(opts.branches) = NBranches
    /\ \A k \in 1 .. NBranches : opts.branches[k].name \in DOMAIN Device

LEMMA DevFacts ==
  ASSUME Backed, NEW k \in 1 .. NBranches
  PROVE  Dev(k) \in Statvfs /\ Dev(k).bfree <= Dev(k).blocks
  BY MountAssumption DEF Backed, Dev, Statvfs

LEMMA CountBranchType ==
  ASSUME Backed, NEW k \in 1 .. NBranches, NEW s \in Statvfs
  PROVE  CountBranch(s, k) \in Statvfs
  <1>1. /\ Dev(k) \in Statvfs /\ Dev(1) \in Statvfs
    BY DevFacts, NBranchesAssumption
  <1>2. Normalized(Dev(k).blocks, k) \in Nat /\ Normalized(Dev(k).bfree, k) \in Nat
    <2>1. PICK x \in Nat, y \in Nat, b \in Nat, c \in Nat \ {0} :
             x = Dev(k).blocks /\ y = Dev(k).bfree /\ b = Dev(k).bsize /\ c = Dev(1).bsize
      BY <1>1 DEF Statvfs
    <2>2. (x * b) \div c \in Nat /\ (y * b) \div c \in Nat
      BY TimesNat, DivFacts
    <2> QED BY <2>1, <2>2 DEF Normalized
  <1>3. PICK m \in Nat, n \in Nat :
           m = Normalized(Dev(k).blocks, k) /\ n = Normalized(Dev(k).bfree, k)
    BY <1>2
  <1>4. /\ [s EXCEPT !.blocks = @ + m, !.bfree = @ + n] \in Statvfs
        /\ [s EXCEPT !.blocks = @ + m] \in Statvfs
    <2>1. PICK x \in Nat, y \in Nat : x = s.blocks + m /\ y = s.bfree + n
      BY DEF Statvfs
    <2>2. /\ [s EXCEPT !.blocks = x, !.bfree = y] \in Statvfs
          /\ [s EXCEPT !.blocks = x] \in Statvfs
      BY DEF Statvfs
    <2>3. [s EXCEPT !.blocks = s.blocks + m, !.bfree = s.bfree + n] \in Statvfs
      BY <2>1, <2>2, Zenon
    <2>4. [s EXCEPT !.blocks = s.blocks + m] \in Statvfs
      BY <2>1, <2>2, Zenon
    <2> QED BY <2>3, <2>4
  <1> QED BY <1>3, <1>4 DEF CountBranch

LEMMA CountedIs ==
  ASSUME Backed
  PROVE  \A k \in 1 .. NBranches :
            counted[k] = IF k = 1 THEN Dev(1) ELSE CountBranch(counted[k - 1], k)
  <1> DEFINE step == [sk \in Statvfs \X Nat |->
                         IF sk[2] \in 1 .. NBranches THEN CountBranch(sk[1], sk[2]) ELSE sk[1]]
  <1>1. NBranches \in Nat /\ 1 \in 1 .. NBranches /\ Dev(1) \in Statvfs
    BY NBranchesAssumption, DevFacts
  <1>2. step \in [Statvfs \X Nat -> Statvfs]
    BY CountBranchType
  <1>3. PICK f \in [1 .. NBranches -> Statvfs] : Follows(f, NBranches, Dev(1), step)
    <2> HIDE DEF step
    <2> QED BY <1>1, <1>2, RecursionExists
  <1>4. \A k \in 1 .. NBranches : f[k] = IF k = 1 THEN Dev(1) ELSE CountBranch(f[k - 1], k)
    <2> SUFFICES ASSUME NEW k \in 1 .. NBranches, k # 1
                 PROVE  f[k] = CountBranch(f[k - 1], k)
      BY <1>3 DEF Follows
    <2>1. k - 1 \in 1 .. NBranches /\ k \in Nat
      BY <1>1
    <2>2. <<f[k - 1], k>> \in Statvfs \X Nat
      BY <1>3, <2>1
    <2> QED BY <1>3, <2>2 DEF Follows
  <1>5. f = [k \in 1 .. NBranches |-> IF k = 1 THEN Dev(1) ELSE CountBranch(f[k - 1], k)]
    BY <1>3, <1>4
  <1>6. counted = [k \in 1 .. NBranches |->
                      IF k = 1 THEN Dev(1) ELSE CountBranch(counted[k - 1], k)]
    BY <1>5 DEF counted, Backed
  <1> QED BY <1>6

LEMMA HeldIs ==
  ASSUME Backed
  PROVE  \A k \in 1 .. NBranches :
            held[k] = (IF k = 1 THEN 0 ELSE held[k - 1])
                          + (IF k \in FirstOf THEN Dev(k).blocks * Dev(k).bsize ELSE 0)
  <1> DEFINE Size(k) == IF k \in FirstOf THEN Dev(k).blocks * Dev(k).bsize ELSE 0
             step == [hk \in Nat \X Nat |->
                         hk[1] + IF hk[2] \in 1 .. NBranches THEN Size(hk[2]) ELSE 0]
  <1>1. NBranches \in Nat /\ 1 \in 1 .. NBranches
    BY NBranchesAssumption
  <1>2. \A k \in 1 .. NBranches : Size(k) \in Nat
    <2> SUFFICES ASSUME NEW k \in 1 .. NBranches PROVE Dev(k).blocks * Dev(k).bsize \in Nat
      OBVIOUS
    <2>1. Dev(k).blocks \in Nat /\ Dev(k).bsize \in Nat
      BY DevFacts DEF Statvfs
    <2> QED BY <2>1, TimesNat
  <1> HIDE DEF Size
  <1>3. step \in [Nat \X Nat -> Nat]
    BY <1>2
  <1>4. PICK f \in [1 .. NBranches -> Nat] : Follows(f, NBranches, Size(1), step)
    <2>1. Size(1) \in Nat /\ NBranches \in Nat
      BY <1>1, <1>2
    <2> HIDE DEF step
    <2> QED BY <1>3, <2>1, RecursionExists
  <1>5. \A k \in 1 .. NBranches : f[k] = (IF k = 1 THEN 0 ELSE f[k - 1]) + Size(k)
    <2> SUFFICES ASSUME NEW k \in 1 .. NBranches
                 PROVE  f[k] = (IF k = 1 THEN 0 ELSE f[k - 1]) + Size(k)
      OBVIOUS
    <2>1. CASE k = 1
      <3>1. Size(1) \in Nat /\ f[1] = Size(1)
        BY <1>1, <1>2, <1>4 DEF Follows
      <3> QED BY <2>1, <3>1
    <2>2. CASE k # 1
      <3>1. k - 1 \in 1 .. NBranches /\ k \in Nat
        BY <2>2, <1>1
      <3>2. <<f[k - 1], k>> \in Nat \X Nat
        BY <1>4, <3>1
      <3> QED BY <1>4, <2>2, <3>2 DEF Follows
    <2> QED BY <2>1, <2>2
  <1>6. f = [k \in 1 .. NBranches |-> (IF k = 1 THEN 0 ELSE f[k - 1]) + Size(k)]
    BY <1>4, <1>5
  <1>7. held = [k \in 1 .. NBranches |-> (IF k = 1 THEN 0 ELSE held[k - 1]) + Size(k)]
    BY <1>6 DEF held, Backed, Size
  <1> QED BY <1>7 DEF Size

\* What is counted of the first k branches.
Bounded(k) ==
    LET s == counted[k]
        b == Dev(1).bsize
    IN  /\ s \in Statvfs /\ held[k] \in Nat
        /\ s.bfree <= s.blocks
        /\ s.blocks * b <= held[k]
        /\ ~opts.statfs_omit_ro => s.blocks * b > held[k] - k * b
        /\ \A j \in FirstOf : j <= k /\ opts.branches[j].rw =>
              (s.bfree + 1) * b > Dev(j).bfree * Dev(j).bsize

LEMMA FirstBounded == ASSUME Backed PROVE Bounded(1)
  <1>1. 1 \in 1 .. NBranches /\ Dev(1) \in Statvfs /\ Dev(1).bfree <= Dev(1).blocks
    BY NBranchesAssumption, DevFacts
  <1>2. counted[1] = Dev(1)
    BY <1>1, CountedIs
  <1>3. PICK x \in Nat, y \in Nat, b \in Nat \ {0} :
           x = Dev(1).blocks /\ y = Dev(1).bfree /\ b = Dev(1).bsize
    BY <1>1 DEF Statvfs
  <1>4. 1 \in FirstOf /\ x * b \in Nat /\ y * b \in Nat
    BY <1>1, TimesNat DEF FirstOf, Backed
  <1>5. held[1] = x * b
    BY <1>1, <1>3, <1>4, HeldIs
  <1>6. (y + 1) * b = y * b + b /\ 1 * b = b
    BY Distribute
  <1>7. \A j \in FirstOf : j <= 1 => j = 1
    BY DEF FirstOf
  <1>8. (y + 1) * b > y * b
    BY <1>4, <1>6
  <1>9. x * b > x * b - 1 * b
    BY <1>4, <1>6
  <1> QED BY <1>1, <1>2, <1>3, <1>4, <1>5, <1>7, <1>8, <1>9 DEF Bounded

\* How much one branch adds.
LEMMA BranchAdds ==
  ASSUME Backed, NEW k \in 2 .. NBranches, NEW s \in Statvfs, NEW b \in Nat \ {0},
         b = Dev(1).bsize,
         NEW size \in Nat, size = Dev(k).blocks * Dev(k).bsize,
         NEW t, t = CountBranch(s, k), s.bfree <= s.blocks
  PROVE  /\ t \in Statvfs /\ t.bfree <= t.blocks
         /\ t.blocks * b \in Nat /\ s.blocks * b \in Nat
         /\ t.blocks * b <= s.blocks * b + (IF k \in FirstOf THEN size ELSE 0)
         /\ ~opts.statfs_omit_ro =>
               t.blocks * b > s.blocks * b + (IF k \in FirstOf THEN size ELSE 0) - b
         /\ (t.bfree + 1) * b >= (s.bfree + 1) * b
         /\ k \in FirstOf /\ opts.branches[k].rw =>
               (t.bfree + 1) * b > Dev(k).bfree * Dev(k).bsize
  <1>1. k \in 1 .. NBranches /\ Dev(k) \in Statvfs /\ Dev(k).bfree <= Dev(k).blocks
    BY DevFacts
  <1>2. t \in Statvfs
    BY <1>1, CountBranchType
  <1>3. Repeated(k) <=> k \notin FirstOf
    BY <1>1 DEF Repeated, FirstOf, Backed
  <1>4. PICK x \in Nat, y \in Nat, c \in Nat \ {0} :
           x = Dev(k).blocks /\ y = Dev(k).bfree /\ c = Dev(k).bsize /\ y <= x
    BY <1>1 DEF Statvfs
  <1>5. PICK u \in Nat, v \in Nat : u = s.blocks /\ v = s.bfree /\ v <= u
    BY DEF Statvfs
  <1>6. x * c \in Nat /\ y * c \in Nat /\ y * c <= x * c /\ size = x * c
    BY <1>4, TimesNat, TimesMono
  <1>7. PICK m \in Nat, n \in Nat :
           /\ m = (x * c) \div b /\ n = (y * c) \div b
           /\ m = Normalized(Dev(k).blocks, k) /\ n = Normalized(Dev(k).bfree, k)
    <2>1. (x * c) \div b \in Nat /\ (y * c) \div b \in Nat
      BY <1>6, DivFacts
    <2> QED BY <2>1, <1>4 DEF Normalized
  <1>8. n <= m
    BY <1>6, <1>7, DivMono
  <1>9. /\ (u + m) * b \in Nat /\ u * b \in Nat
        /\ (u + m) * b <= u * b + size
        /\ (u + m) * b > u * b + size - b
    <2>1. u + m \in Nat
      OBVIOUS
    <2> QED BY <2>1, <1>6, <1>7, AddBlocks, TimesNat
  <1>10. (v + n + 1) * b > y * c /\ (v + n + 1) * b >= (v + 1) * b
    BY <1>6, <1>7, AddBlocks
  <1>11. u * b <= u * b + size /\ u * b > u * b + 0 - b
    BY <1>9
  <1>12. (v + 1) * b \in Nat /\ (v + 1) * b >= (v + 1) * b
    BY TimesNat
  <1>13. CASE Repeated(k)
    <2>1. t = s /\ k \notin FirstOf
      BY <1>3, <1>13 DEF CountBranch
    <2> QED BY <2>1, <1>2, <1>5, <1>9, <1>11, <1>12
  <1>14. CASE ~Repeated(k) /\ opts.branches[k].rw
    <2>1. t = [s EXCEPT !.blocks = @ + m, !.bfree = @ + n]
      BY <1>7, <1>14 DEF CountBranch
    <2>2. t.blocks = u + m /\ t.bfree = v + n
      BY <2>1, <1>5 DEF Statvfs
    <2>3. v + n <= u + m
      BY <1>5, <1>8
    <2> QED BY <2>2, <2>3, <1>2, <1>3, <1>4, <1>5, <1>9, <1>10, <1>14
  <1>15. CASE ~Repeated(k) /\ ~opts.branches[k].rw /\ opts.statfs_omit_ro
    <2>1. t = s
      BY <1>15 DEF CountBranch
    <2> QED BY <2>1, <1>2, <1>3, <1>5, <1>9, <1>11, <1>12, <1>15
  <1>16. CASE ~Repeated(k) /\ ~opts.branches[k].rw /\ ~opts.statfs_omit_ro
    <2>1. t = [s EXCEPT !.blocks = @ + m]
      BY <1>7, <1>16 DEF CountBranch
    <2>2. t.blocks = u + m /\ t.bfree = v
      BY <2>1, <1>5 DEF Statvfs
    <2>3. v <= u + m
      BY <1>5
    <2> QED BY <2>2, <2>3, <1>2, <1>3, <1>5, <1>9, <1>12, <1>16
  <1> QED BY <1>13, <1>14, <1>15, <1>16

LEMMA NextBounded ==
  ASSUME Backed, NEW k \in 2 .. NBranches, Bounded(k - 1)
  PROVE  Bounded(k)
  <1>1. PICK s \in Statvfs, b \in Nat \ {0}, h \in Nat :
           s = counted[k - 1] /\ b = Dev(1).bsize /\ h = held[k - 1]
    BY DevFacts, NBranchesAssumption DEF Bounded, Statvfs
  <1>2. /\ s.bfree <= s.blocks
        /\ s.blocks * b <= h
        /\ ~opts.statfs_omit_ro => s.blocks * b > h - (k - 1) * b
        /\ \A j \in FirstOf : j <= k - 1 /\ opts.branches[j].rw =>
              (s.bfree + 1) * b > Dev(j).bfree * Dev(j).bsize
    BY <1>1 DEF Bounded
  <1>3. k \in 1 .. NBranches /\ k # 1 /\ k \in Nat /\ k - 1 \in Nat
    BY NBranchesAssumption
  <1>4. PICK t : t = counted[k] /\ t = CountBranch(s, k)
    BY <1>1, <1>3, CountedIs
  <1>5. PICK size \in Nat : size = Dev(k).blocks * Dev(k).bsize
    <2>1. Dev(k).blocks \in Nat /\ Dev(k).bsize \in Nat
      BY <1>3, DevFacts DEF Statvfs
    <2> QED BY <2>1, TimesNat
  <1>6. PICK add \in Nat : add = IF k \in FirstOf THEN size ELSE 0
    BY <1>5
  <1>7. held[k] = h + add
    BY <1>1, <1>3, <1>5, <1>6, HeldIs
  <1>8. /\ t \in Statvfs /\ t.bfree <= t.blocks
        /\ t.blocks * b \in Nat /\ s.blocks * b \in Nat
        /\ t.blocks * b <= s.blocks * b + add
        /\ ~opts.statfs_omit_ro => t.blocks * b > s.blocks * b + add - b
        /\ (t.bfree + 1) * b >= (s.bfree + 1) * b
        /\ k \in FirstOf /\ opts.branches[k].rw =>
               (t.bfree + 1) * b > Dev(k).bfree * Dev(k).bsize
    BY <1>1, <1>2, <1>4, <1>5, <1>6, BranchAdds
  <1>9. k * b = (k - 1) * b + b /\ (k - 1) * b \in Nat
    <2>1. k = (k - 1) + 1
      BY <1>3
    <2>2. ((k - 1) + 1) * b = (k - 1) * b + b
      BY <1>3, Distribute
    <2> QED BY <2>1, <2>2, <1>3, TimesNat
  <1>10. t.blocks * b <= h + add /\ h + add \in Nat
    BY <1>2, <1>8
  <1>11. ~opts.statfs_omit_ro => t.blocks * b > h + add - k * b
    BY <1>2, <1>8, <1>9
  <1>12. ASSUME NEW j \in FirstOf, j <= k, opts.branches[j].rw
         PROVE  (t.bfree + 1) * b > Dev(j).bfree * Dev(j).bsize
    <2>1. j \in 1 .. NBranches
      BY DEF FirstOf, Backed
    <2>2. CASE j = k
      BY <2>2, <1>8, <1>12
    <2>3. CASE j # k
      <3>1. j <= k - 1
        BY <2>1, <2>3, <1>3, <1>12
      <3>2. (s.bfree + 1) * b > Dev(j).bfree * Dev(j).bsize
        BY <3>1, <1>2, <1>12
      <3>3. /\ (s.bfree + 1) * b \in Nat /\ (t.bfree + 1) * b \in Nat
            /\ Dev(j).bfree * Dev(j).bsize \in Nat
        <4>1. s.bfree + 1 \in Nat /\ t.bfree + 1 \in Nat /\ Dev(j).bfree \in Nat /\ Dev(j).bsize \in Nat
          BY <2>1, <1>1, <1>8, DevFacts DEF Statvfs
        <4> QED BY <4>1, TimesNat
      <3> QED BY <3>2, <3>3, <1>8
    <2> QED BY <2>2, <2>3
  <1> QED BY <1>1, <1>4, <1>7, <1>8, <1>10, <1>11, <1>12 DEF Bounded

LEMMA AllBounded == ASSUME Backed, NEW k \in 1 .. NBranches PROVE Bounded(k)
  <1> DEFINE T == {n \in 1 .. NBranches : ~Bounded(n)}
  <1> SUFFICES ASSUME T # {} PROVE FALSE
    OBVIOUS
  <1>1. T \subseteq Nat
    OBVIOUS
  <1>2. PICK m \in T : \A n \in T : ~(n < m)
    BY <1>1, LeastOf
  <1>3. m # 1
    BY <1>2, FirstBounded
  <1>4. m \in 2 .. NBranches /\ m - 1 \in 1 .. NBranches /\ m - 1 < m
    BY <1>2, <1>3, NBranchesAssumption
  <1>5. Bounded(m - 1)
    BY <1>2, <1>4
  <1> QED BY <1>2, <1>4, <1>5, NextBounded

LEMMA MainBacked == ASSUME Asked, Main, Mounted' PROVE Backed'
  <1>1. /\ opts' = ulakefs_post_opts(opts)
        /\ opts \in OptionRecord /\ opts.branches \in Seq(BranchOption)
        /\ Len(opts.branches) = NBranches
    BY DEF Mounted, Main, Asked, OptionRecord
  <1>2. DOMAIN opts.branches = 1 .. NBranches /\ NBranches \in Nat
    BY <1>1, NBranchesAssumption
  <1>3. opts'.branches = [k \in 1 .. NBranches |-> Opened(opts, opts.branches[k])]
    BY <1>1, <1>2 DEF ulakefs_post_opts, OptionRecord
  <1>4. Len(opts'.branches) = NBranches
    BY <1>2, <1>3
  <1>5. \A k \in 1 .. NBranches : opts.branches[k] \in BranchOption
    BY <1>1, <1>2
  <1>6. \A br \in BranchOption : Opened(opts, br).name = br.name /\ br.name \in DOMAIN Device
    BY DEF BranchOption, Opened
  <1> QED BY <1>3, <1>4, <1>5, <1>6 DEF Backed

BackedInv == MountInv /\ (Mounted => Backed)

LEMMA BackedInvariant == Spec => []BackedInv
  <1>1. Init => BackedInv
    BY InitMountInv DEF BackedInv, Init, Mounted
  <1>2. BackedInv /\ [Next]_vars => BackedInv'
    <2> SUFFICES ASSUME BackedInv, [Next]_vars PROVE BackedInv'
      OBVIOUS
    <2>1. MountInv'
      BY NextMountInv DEF BackedInv
    <2>2. CASE Option
      BY <2>1, <2>2 DEF Option, BackedInv, Mounted
    <2>3. CASE Main
      <3>1. Asked
        BY <2>3 DEF Main, BackedInv, MountInv
      <3> QED BY <2>1, <2>3, <3>1, MainBacked DEF BackedInv
    <2>4. CASE UNCHANGED <<opts, main>>
      BY <2>1, <2>4 DEF BackedInv, Mounted, Backed
    <2> QED BY <2>2, <2>3, <2>4 DEF Next, vars
  <1> QED BY <1>1, <1>2, PTL DEF Spec

(* However many branches there are on whatever file systems, statfs counts *)
(* each file system once, and errs by less than a block for each branch:   *)
(* the loop of ulakefs_statfs.                                             *)
THEOREM StatfsAlwaysBounded == Spec => []StatfsBounded
  <1>1. BackedInv => StatfsBounded
    <2> SUFFICES ASSUME BackedInv, Mounted PROVE StatfsBounded
      BY DEF StatfsBounded
    <2>1. Backed /\ Len(opts.branches) = NBranches /\ NBranches \in 1 .. NBranches
      BY NBranchesAssumption DEF BackedInv, Backed
    <2>2. Bounded(NBranches)
      BY <2>1, AllBounded
    <2>3. \A j \in FirstOf : j <= NBranches
      BY <2>1 DEF FirstOf
    <2> QED BY <2>1, <2>2, <2>3 DEF StatfsBounded, Bounded, statfs
  <1> QED BY <1>1, BackedInvariant, PTL
=============================================================================
