-------------------------- MODULE UlakeUnionProofs --------------------------
(***************************************************************************)
(* The handlers implement the one-tree view (TreeView) in a mount of one   *)
(* writable branch above at most one that is read-only.  In such a mount   *)
(* all copies, new nodes and whiteouts are made on branch 0, and a lookup  *)
(* is answered by two trees and the whiteouts of branch 0 (TwoBranches).   *)
(* Each handler prepares its paths, which is not seen (CowZero,            *)
(* CutlastZero, CommonWhole), and changes branch 0 at one path, which is   *)
(* seen as its effect (PointSeen, MoveSeen).                               *)
(***************************************************************************)
EXTENDS UlakeFuseProofs

-----------------------------------------------------------------------------
(* The mounts.                                                             *)

\* a writable branch above at most one that is read-only, with copy-on-write
OneOverOne(o) == o.cow /\ o.rw[0] /\ \A b \in Branch : b # 0 => b = 1 /\ ~o.rw[b]

\* nothing fails on the branches
NoFault(env) == env.fail = {} /\ env.hide

(* What answers in such a mount. *)
LEMMA TwoBranches ==
    ASSUME OneOverOne(uopt), NEW d, NEW p
    PROVE  /\ find_rorw_branch(d, p) = IF Exists(d, 0, p) THEN 0
                                       ELSE IF 1 \in Branch /\ Exists(d, 1, p) /\ ~path_hidden(d, p, 0)
                                       THEN 1 ELSE -1
           /\ getattr(d, p) = IF Exists(d, 0, p) THEN d.tree[0][p]
                              ELSE IF 1 \in Branch /\ Exists(d, 1, p) /\ ~path_hidden(d, p, 0)
                              THEN d.tree[1][p] ELSE Absent
  <1>1. \A i \in Branch : i = 0 \/ i = 1
    BY DEF OneOverOne
  <1>2. 0 .. 1 - 1 = {0}
    OBVIOUS
  <1>3. Answers(d, p, 1) <=> Exists(d, 1, p) /\ ~Exists(d, 0, p) /\ ~path_hidden(d, p, 0)
    BY <1>2 DEF Answers
  <1>4. CASE Exists(d, 0, p)
    BY <1>4, Uppermost DEF getattr
  <1>5. CASE ~Exists(d, 0, p) /\ 1 \in Branch /\ Exists(d, 1, p) /\ ~path_hidden(d, p, 0)
    <2>1. find_rorw_branch(d, p) \in Branch /\ Answers(d, p, find_rorw_branch(d, p))
      BY <1>3, <1>5, FindType
    <2>2. find_rorw_branch(d, p) = 1
      BY <1>3, <1>5, <2>1, AnswersUnique
    <2> QED BY <1>5, <2>2 DEF getattr
  <1>6. CASE ~Exists(d, 0, p) /\ ~(1 \in Branch /\ Exists(d, 1, p) /\ ~path_hidden(d, p, 0))
    <2>1. \A i \in Branch : ~Answers(d, p, i)
      BY <1>1, <1>3, <1>6 DEF Answers
    <2>2. find_rorw_branch(d, p) = -1
      BY <2>1, FindType
    <2> QED BY <1>6, <2>2 DEF getattr
  <1> QED BY <1>4, <1>5, <1>6

(* Everything is made on branch 0. *)
LEMMA LowestZero ==
    ASSUME OneOverOne(uopt)
    PROVE  /\ find_lowest_rw_branch(NBranches) = 0
           /\ 1 \in Branch => find_lowest_rw_branch(1) = 0
  <1>1. find_lowest_rw_branch(NBranches) = 0
    BY LowestIsFirst DEF OneOverOne
  <1>2. {i \in Branch : i < 1 /\ uopt.rw[i]} = {0}
    BY Uppermost, BranchFacts DEF OneOverOne
  <1>3. find_lowest_rw_branch(1) = CHOOSE i \in {0} : \A j \in {0} : i <= j
    BY <1>2 DEF find_lowest_rw_branch
  <1>4. \E i \in {0} : \A j \in {0} : i <= j
    OBVIOUS
  <1> QED BY <1>1, <1>3, <1>4

(* The directories above p are made on branch 0, and p can be. *)
LEMMA ParentsCopied ==
    ASSUME OneOverOne(uopt), NEW d, Sound(d), NEW p \in Path, Walk(d, p), NEW env, NoFault(env),
           1 \in Branch, Exists(d, 1, p), ~Exists(d, 0, p)
    PROVE  LET d1 == path_create(d, u_dirname(p), 1, 0, env).disk
           IN  /\ Sound(d1) /\ d1.tree[1] = d.tree[1] /\ Mirrors(d, d1, p, 1, 0)
               /\ IsDir(d1, 0, u_dirname(p)) /\ Exists(d1, 0, u_dirname(p))
               /\ ~Exists(d1, 0, p) /\ Exists(d1, 1, p)
               /\ path_create(d1, p, 1, 0, env).ok
  <1> DEFINE u == u_dirname(p)
             top == path_create(d, u, 1, 0, env)
             d1 == top.disk
  <1>1. 0 \in Branch /\ ~uopt.rw[1] /\ uopt.cow
    BY Uppermost DEF OneOverOne
  <1>2. /\ u \in Path \cup {Root} /\ PrefixesOf[p] = PrefixesOf[u] \cup {p}
        /\ p \notin PrefixesOf[u] /\ p # Root
        /\ \A r \in PrefixesOf[p] : r \in Path /\ r # Root
    BY PathFacts, PrefixesOfChild
  <1>3. \A r \in PrefixesOf[p] \ {p} : Exists(d, 0, r) => IsDir(d, 0, r)
    <2>1. ASSUME NEW r \in PrefixesOf[p] \ {p}, Exists(d, 0, r) PROVE IsDir(d, 0, r)
      <3>1. getattr(d, r) = d.tree[0][r] /\ getattr(d, r).kind = "dir"
        BY <2>1, TwoBranches DEF Walk
      <3> QED BY <3>1 DEF IsDir, HasDir
    <2> QED BY <2>1
  <1>4. IsDir(d, 1, u) /\ Exists(d, 1, u)
    <2>1. IsDir(d, 1, u)
      BY DEF Sound, WellFormed, IsTree, Exists, IsDir
    <2> QED BY <2>1 DEF Exists, HasNode, IsDir, HasDir
  <1>5. top.ok
    BY <1>1, <1>3, <1>4, ParentMoves DEF NoFault
  <1>6. /\ Sound(d1) /\ d1.tree[1] = d.tree[1] /\ d1.tree[0][p] = d.tree[0][p]
        /\ \A r \in PrefixesOf[u] : Exists(d, 0, r) => d1.tree[0][r] = d.tree[0][r]
        /\ \A r \in PrefixesOf[u] : ~Exists(d, 0, r) => IsDir(d1, 0, r)
    <2>1. 1 # 0
      OBVIOUS
    <2> QED BY <1>1, <1>2, <1>5, <2>1, PathCreate
  <1>7. Mirrors(d, d1, p, 1, 0)
    BY <1>1, <1>2, <1>4, PathCreateMirrors
  <1> HIDE DEF top, d1
  <1>8. \A r \in PrefixesOf[u] : IsDir(d1, 0, r)
    BY <1>2, <1>3, <1>6 DEF IsDir, HasDir
  <1>9. IsDir(d1, 0, u)
    <2>1. CASE u = Root
      BY <2>1 DEF IsDir, HasDir
    <2>2. CASE u # Root
      <3>1. u \in PrefixesOf[u]
        BY <1>2, <2>2, PrefixesOfChild
      <3> QED BY <1>8, <3>1
    <2> QED BY <2>1, <2>2
  <1>10. ~Exists(d1, 0, p) /\ Exists(d1, 1, p) /\ Exists(d1, 0, u)
    BY <1>2, <1>6, <1>9 DEF Exists, HasNode, IsDir, HasDir
  <1>11. Missing(d1, p, 0) \subseteq {p}
    BY <1>2, <1>8 DEF Missing, Exists, HasNode, IsDir, HasDir
  <1>12. ~Blocked(d1, p, 1, 0, env)
    BY <1>9, <1>10 DEF Blocked, NoFault
  <1>13. path_create(d1, p, 1, 0, env).ok
    BY <1>1, <1>11, <1>12 DEF path_create
  <1> QED BY <1>6, <1>7, <1>9, <1>10, <1>13 DEF d1, top

\* e is d with copies on branch 0 on the way to p, which are not seen
CopiedOn(d, e, p) ==
    /\ Sound(e)
    /\ e = d \/ (1 \in Branch /\ Mirrors(d, e, p, 1, 0))
    /\ \A q \in Path : getattr(e, q) = getattr(d, q)

(* Copying a path that is found up succeeds, unless it is a socket. *)
LEMMA CowZero ==
    ASSUME OneOverOne(uopt), NEW d, Sound(d), NEW p \in Path, Walk(d, p), NEW env, NoFault(env)
    PROVE  LET c == find_rw_branch_cow(d, p, env)
           IN  /\ CopiedOn(d, c.disk, p)
               /\ \/ c.branch = 0 /\ c.err = "OK" /\ Exists(c.disk, 0, p)
                  \/ /\ c.branch = -1 /\ c.err = "ENOENT"
                     /\ getattr(d, p).kind \in {"none", "sock"}
  <1> DEFINE c == find_rw_branch_cow(d, p, env)
             i == find_rorw_branch(d, p)
             cp == cow_cp(d, p, 1, 0, FALSE, env)
  <1>1. NothingTorn(env)
    BY DEF NoFault, NothingTorn
  <1>2. CopiedOn(d, c.disk, p)
    <2> DEFINE rw == find_lowest_rw_branch(i)
    <2>1. \/ c.disk = d
          \/ /\ i \in Branch /\ ~uopt.rw[i] /\ Answers(d, p, i)
             /\ rw \in Branch /\ uopt.rw[rw] /\ Mirrors(d, c.disk, p, i, rw)
      BY <1>1, CopyUpMirrors
    <2> HIDE DEF c, i, rw
    <2>2. CASE c.disk = d
      BY <2>2 DEF CopiedOn
    <2>3. CASE c.disk # d
      <3>1. /\ i = 1 /\ rw = 0 /\ 1 \in Branch /\ 0 \in Branch
            /\ Answers(d, p, 1) /\ Mirrors(d, c.disk, p, 1, 0)
        BY <2>1, <2>3, Uppermost DEF OneOverOne
      <3>2. 0 = 1 - 1 /\ 1 # 0
        OBVIOUS
      <3>3. \A q \in Path : getattr(c.disk, q) = getattr(d, q)
        BY <3>1, <3>2, MirrorSeen
      <3> QED BY <3>1, <3>3 DEF CopiedOn, Mirrors
    <2> QED BY <2>2, <2>3 DEF c
  <1>3. CASE i = -1
    <2>1. c = [disk |-> d, branch |-> -1, err |-> "ENOENT"]
      BY <1>3 DEF find_rw_branch_cow, find_rw_branch_cow_common
    <2>2. getattr(d, p) = Absent
      BY <1>3 DEF getattr
    <2> QED BY <1>2, <2>1, <2>2 DEF Absent
  <1>4. CASE i = 0
    <2>1. c = [disk |-> d, branch |-> 0, err |-> "OK"]
      BY <1>4 DEF find_rw_branch_cow, find_rw_branch_cow_common, OneOverOne
    <2>2. Exists(d, 0, p)
      BY <1>4, FindType DEF Answers
    <2> QED BY <1>2, <2>1, <2>2
  <1>5. CASE i = 1
    <2>1. 1 \in Branch /\ 0 \in Branch /\ Exists(d, 1, p) /\ ~Exists(d, 0, p) /\ ~uopt.rw[1] /\ uopt.cow
      BY <1>5, TwoBranches, Uppermost DEF OneOverOne
    <2>2. c = Copied(cp, p, 0)
      <3>1. find_lowest_rw_branch(i) = 0
        BY <1>5, <2>1, LowestZero
      <3>2. i # -1 /\ ~uopt.rw[i]
        BY <1>5, <2>1
      <3>3. c = Copied(cow_cp(d, p, i, 0, FALSE, env), p, 0)
        BY <2>1, <3>1, <3>2 DEF find_rw_branch_cow, find_rw_branch_cow_common
      <3> QED BY <1>5, <3>3
    <2>3. c = IF cp.err # "OK" THEN [disk |-> cp.disk, branch |-> -1, err |-> cp.err]
              ELSE [disk |-> remove_hidden(cp.disk, p, 0), branch |-> 0, err |-> "OK"]
      BY <2>2 DEF Copied
    <2>4. getattr(d, p) = d.tree[1][p]
      BY <2>1, <1>5, TwoBranches DEF getattr
    <2>5. cp.err \in {"OK", "ENOENT"} /\ (cp.err = "ENOENT" => d.tree[1][p].kind = "sock")
      <3> DEFINE u == u_dirname(p)
                 d1 == path_create(d, u, 1, 0, env).disk
                 pc == path_create(d1, p, 1, 0, env)
      <3>1. /\ d1.tree[1] = d.tree[1] /\ IsDir(d1, 0, u) /\ Exists(d1, 0, u)
            /\ ~Exists(d1, 0, p) /\ pc.ok
        BY <2>1, ParentsCopied
      <3> HIDE DEF d1
      <3>2. CASE d.tree[1][p].kind # "dir"
        <4>1. cp = CopyNode(d1, p, 1, 0, env)
          BY <3>2 DEF cow_cp, d1
        <4>2. ~IsDir(d1, 0, p)
          BY <3>1, PathFacts DEF Exists, HasNode, IsDir, HasDir
        <4>3. p \notin env.fail
          BY DEF NoFault
        <4> DEFINE kind == d1.tree[1][p].kind
                   err == IF kind = "sock" \/ ~Exists(d1, 0, u) THEN "ENOENT"
                          ELSE IF ~IsDir(d1, 0, u) THEN "ENOTDIR"
                          ELSE IF kind = "reg" /\ IsDir(d1, 0, p) THEN "EISDIR"
                          ELSE IF kind = "spec" /\ Exists(d1, 0, p) THEN "EEXIST"
                          ELSE IF p \in env.fail THEN "ENOSPC"
                          ELSE "OK"
        <4>4. cp.err = err
          <5>1. CopyNode(d1, p, 1, 0, env).err = err
            BY Zenon DEF CopyNode
          <5> HIDE DEF cp
          <5> QED BY <4>1, <5>1
        <4>5. err = IF kind = "sock" THEN "ENOENT" ELSE "OK"
          BY <3>1, <4>2, <4>3
        <4> QED BY <3>1, <4>4, <4>5
      <3>3. CASE d.tree[1][p].kind = "dir"
        <4>1. cp.err = IF pc.ok THEN "OK" ELSE "ENOSPC"
          BY <3>3 DEF cow_cp, d1
        <4> QED BY <3>1, <4>1
      <3> QED BY <3>2, <3>3
    <2>6. cp.err = "OK" => Exists(cp.disk, 0, p) /\ Sound(cp.disk)
      BY <2>1, CowCp
    <2>7. cp.err = "OK" => Exists(remove_hidden(cp.disk, p, 0), 0, p)
      BY <2>6, RemoveHidden DEF Exists
    <2> HIDE DEF cp
    <2>8. CASE cp.err = "OK"
      BY <1>2, <2>3, <2>7, <2>8
    <2>9. CASE cp.err # "OK"
      BY <1>2, <2>3, <2>4, <2>5, <2>9
    <2> QED BY <2>8, <2>9
  <1>6. i \in {-1, 0, 1}
    BY TwoBranches
  <1> QED BY <1>3, <1>4, <1>5, <1>6

(* find_rw_branch_cutlast answers with branch 0, and there is the directory *)
(* that p is to be in, and p if it was found.                              *)
LEMMA CutlastZero ==
    ASSUME OneOverOne(uopt), NEW d, Sound(d), NEW p \in Path, Walk(d, p), NEW env, NoFault(env)
    PROVE  LET c == find_rw_branch_cutlast(d, p, env)
           IN  /\ CopiedOn(d, c.disk, p)
               /\ c.branch = 0
               /\ IsDir(c.disk, 0, u_dirname(p))
               /\ getattr(d, p).kind \notin {"none", "sock"} => Exists(c.disk, 0, p)
  <1> DEFINE c == find_rw_branch_cutlast(d, p, env)
             a == find_rw_branch_cow(d, p, env)
             e == a.disk
             b == ParentBranch(e, p, -1, env)
             u == u_dirname(p)
             i == find_rorw_branch(e, u)
             pc == path_create(e, u, 1, 0, env)
  <1>1. c = IF a.branch >= 0 \/ a.err # "ENOENT" THEN a ELSE b
    BY DEF find_rw_branch_cutlast, __find_rw_branch_cutlast, OrParentBranch
  <1>2. /\ CopiedOn(d, e, p)
        /\ \/ a.branch = 0 /\ a.err = "OK" /\ Exists(e, 0, p)
           \/ /\ a.branch = -1 /\ a.err = "ENOENT"
              /\ getattr(d, p).kind \in {"none", "sock"}
    BY CowZero
  <1>3. CASE a.branch = 0 /\ Exists(e, 0, p)
    <2>1. c = a
      BY <1>1, <1>3
    <2>2. IsDir(e, 0, u)
      BY <1>2, <1>3, Uppermost DEF CopiedOn, Sound, WellFormed, IsTree, Exists, IsDir
    <2> HIDE DEF a, c
    <2> QED BY <1>2, <1>3, <2>1, <2>2 DEF c
  <1>4. CASE a.branch = -1 /\ a.err = "ENOENT" /\ getattr(d, p).kind \in {"none", "sock"}
    <2>1. c = b
      BY <1>1, <1>4
    <2>2. /\ u \in Path \cup {Root} /\ p # Root
          /\ PrefixesOf[u] = PrefixesOf[p] \ {p} /\ PrefixesOf[u] \subseteq PrefixesOf[p]
          /\ \A r \in PrefixesOf[u] : r \in Path
          /\ u # Root => u \in PrefixesOf[u]
      BY PathFacts, PrefixesOfChild
    <2>3. Sound(e) /\ \A q \in Path : getattr(e, q) = getattr(d, q)
      BY <1>2 DEF CopiedOn
    <2> HIDE DEF e, b, c
    <2>4. \A r \in PrefixesOf[u] : getattr(e, r).kind = "dir"
      BY <2>2, <2>3 DEF Walk
    <2>5. \A r \in PrefixesOf[p] \ {p} : Exists(e, 0, r) => IsDir(e, 0, r)
      <3>1. ASSUME NEW r \in PrefixesOf[p] \ {p}, Exists(e, 0, r) PROVE IsDir(e, 0, r)
        <4>1. getattr(e, r) = e.tree[0][r] /\ getattr(e, r).kind = "dir"
          BY <2>2, <2>4, <3>1, TwoBranches
        <4> QED BY <4>1 DEF IsDir, HasDir
      <3> QED BY <3>1
    <2>6. Exists(e, 0, u) => IsDir(e, 0, u)
      <3>1. CASE u = Root
        BY <3>1 DEF IsDir, HasDir
      <3> QED BY <2>2, <2>5, <3>1
    <2>7. \/ Exists(e, 0, u) /\ i = 0
          \/ ~Exists(e, 0, u) /\ 1 \in Branch /\ IsDir(e, 1, u) /\ i = 1 /\ Answers(e, u, 1)
      <3>1. CASE Exists(e, 0, u)
        BY <3>1, TwoBranches
      <3>2. CASE ~Exists(e, 0, u)
        <4>1. u # Root
          BY <3>2 DEF Exists, HasNode
        <4>2. getattr(e, u).kind = "dir"
          BY <2>2, <2>4, <4>1
        <4>3. 1 \in Branch /\ i = 1 /\ getattr(e, u) = e.tree[1][u]
          BY <3>2, <4>2, TwoBranches DEF Absent
        <4>4. Answers(e, u, 1)
          BY <4>3, FindType
        <4> QED BY <3>2, <4>2, <4>3, <4>4 DEF IsDir, HasDir
      <3> QED BY <3>1, <3>2
    <2>8. CASE Exists(e, 0, u) /\ i = 0
      <3>1. b = [disk |-> e, branch |-> 0, err |-> "OK"]
        BY <2>8 DEF ParentBranch, OneOverOne, b
      <3> QED BY <1>2, <1>4, <2>1, <2>6, <2>8, <3>1 DEF e, c
    <2>9. CASE ~Exists(e, 0, u) /\ 1 \in Branch /\ IsDir(e, 1, u) /\ i = 1 /\ Answers(e, u, 1)
      <3>1. 0 \in Branch /\ ~uopt.rw[1] /\ uopt.cow /\ find_lowest_rw_branch(NBranches) = 0
        BY <2>9, Uppermost, LowestZero DEF OneOverOne
      <3>2. Exists(e, 1, u)
        BY <2>9 DEF Answers
      <3>3. pc.ok
        BY <2>3, <2>5, <2>9, <3>2, ParentMoves DEF NoFault
      <3>4. b = [disk |-> pc.disk, branch |-> IF pc.ok THEN 0 ELSE 1, err |-> "OK"]
        BY <2>9, <3>1 DEF ParentBranch, b
      <3>5. Mirrors(e, pc.disk, p, 1, 0) /\ Mirrors(e, pc.disk, u, 1, 0)
        BY <2>2, <2>3, <2>9, <3>1, PathCreateMirrors
      <3>6. u # Root
        BY <2>9 DEF Exists, HasNode
      <3>7. IsDir(pc.disk, 0, u)
        BY <2>2, <2>3, <2>9, <3>1, <3>3, <3>6, PathCreate
      <3> HIDE DEF pc
      <3>8. Walk(e, u)
        BY <2>4 DEF Walk
      <3>9. 0 = 1 - 1 /\ 1 # 0
        OBVIOUS
      <3>10. \A q \in Path : getattr(pc.disk, q) = getattr(e, q)
        <4>1. Answers(e, u, 1)
          BY <2>9
        <4>2. Sound(e) /\ u \in Path \cup {Root} /\ 0 \in Branch /\ 1 \in Branch
          BY <2>2, <2>3, <2>9, <3>1
        <4>3. Mirrors(e, pc.disk, u, 1, 0)
          BY <3>5
        <4> HIDE DEF a, b, c, e, i, u
        <4> QED BY <3>8, <3>9, <4>1, <4>2, <4>3, MirrorSeen
      <3>11. Mirrors(d, pc.disk, p, 1, 0)
        <4>1. CASE e = d
          BY <3>5, <4>1
        <4>2. CASE e # d
          <5>1. Mirrors(d, e, p, 1, 0)
            BY <1>2, <4>2 DEF CopiedOn, e
          <5> QED BY <2>9, <3>1, <3>5, <3>9, <5>1, MirrorsTransitive
        <4> QED BY <4>1, <4>2
      <3>12. CopiedOn(d, pc.disk, p)
        BY <2>3, <2>9, <3>10, <3>11 DEF CopiedOn, Mirrors
      <3> QED BY <1>4, <2>1, <3>3, <3>4, <3>7, <3>12 DEF c
    <2> QED BY <2>7, <2>8, <2>9
  <1> QED BY <1>2, <1>3, <1>4

-----------------------------------------------------------------------------
(* What a user sees of a change.                                           *)

(* What is seen below a path is seen only if that is a directory. *)
LEMMA SeenBelow ==
    ASSUME NEW d, NEW p \in Path, NEW q \in Path, IsPrefix(p, q), p # q, getattr(d, p).kind # "dir"
    PROVE  Lookup(d, q) = Absent
  BY DEF Lookup, Walk, PrefixesOf

(* The next name on the way to a path. *)
LEMMA NextName ==
    ASSUME NEW p \in Path, NEW q \in Path, IsPrefix(p, q), p # q
    PROVE  \E c \in Children(p) : IsPrefix(c, q)
  <1> DEFINE T == {r \in Path : IsPrefix(p, r) /\ r # p /\ IsPrefix(r, q)}
  <1>1. q \in T
    BY IsPrefixSelf
  <1>2. PICK m \in T : \A r \in T : ~(Len(r) < Len(m))
    BY <1>1, LeastPath
  <1>3. /\ m \in Path /\ IsPrefix(p, m) /\ m # p /\ IsPrefix(m, q)
        /\ \A r \in Path : IsPrefix(p, r) /\ r # p /\ IsPrefix(r, q) => ~(Len(r) < Len(m))
    BY <1>2
  <1> HIDE DEF T
  <1> DEFINE u == u_dirname(m)
  <1>4. IsPrefix(p, u) /\ u \in Path
    BY <1>3, IsPrefixChild, PathFacts, IsPrefixRoot
  <1>5. IsPrefix(u, m) /\ Len(u) < Len(m)
    <2>1. \A n \in Nat : n - 1 < n
      OBVIOUS
    <2> QED BY <1>3, <1>4, <2>1, IsPrefixChild, IsPrefixSelf, PathFacts
  <1>6. IsPrefix(u, q)
    BY <1>3, <1>4, <1>5, PrefixTransitive
  <1>7. u = p
    BY <1>3, <1>4, <1>5, <1>6
  <1> QED BY <1>3, <1>7 DEF Children

(* Nothing is seen below a directory in which no name is found. *)
LEMMA SeenBelowEmpty ==
    ASSUME NEW d, NEW p \in Path, \A c \in Children(p) : getattr(d, c).kind = "none",
           \A c \in Path : getattr(d, c).kind = "none" => getattr(d, c) = Absent,
           NEW q \in Path, IsPrefix(p, q), p # q
    PROVE  Lookup(d, q) = Absent
  <1>1. PICK c \in Children(p) : IsPrefix(c, q)
    BY NextName
  <1>2. c \in Path /\ getattr(d, c).kind = "none"
    BY <1>1 DEF Children
  <1>3. CASE c = q
    BY <1>2, <1>3 DEF Lookup
  <1>4. CASE c # q
    BY <1>1, <1>2, <1>4, SeenBelow
  <1> QED BY <1>3, <1>4

(* A change of what is found at p, and below it of nothing that is seen. *)
LEMMA ChangeSeen ==
    ASSUME NEW d, NEW f, NEW p \in Path, Walk(d, p),
           \A q \in Path : ~IsPrefix(p, q) => getattr(f, q) = getattr(d, q),
           \A q \in Path : IsPrefix(p, q) /\ p # q => Lookup(f, q) = Lookup(d, q)
    PROVE  View(f) = [View(d) EXCEPT ![p] = getattr(f, p)]
  <1>1. ASSUME NEW q \in Path, ~IsPrefix(p, q) \/ p = q
        PROVE  Walk(f, q) <=> Walk(d, q)
    <2>1. ASSUME NEW r \in PrefixesOf[q] \ {q} PROVE r \in Path /\ ~IsPrefix(p, r)
      <3>1. r \in Path /\ IsPrefix(r, q) /\ r # q
        BY DEF PrefixesOf
      <3> QED BY <1>1, <3>1, PrefixTransitive, PrefixAntisymmetric
    <2> QED BY <2>1 DEF Walk
  <1>2. \A q \in Path : q # p => Lookup(f, q) = Lookup(d, q)
    BY <1>1 DEF Lookup
  <1>3. Lookup(f, p) = getattr(f, p)
    BY <1>1 DEF Lookup
  <1> DEFINE s == [View(d) EXCEPT ![p] = getattr(f, p)]
  <1>4. \A q \in Path : s[q] = IF q = p THEN getattr(f, p) ELSE Lookup(d, q)
    BY DEF View
  <1>5. s = [q \in Path |-> s[q]]
    BY DEF View
  <1>6. View(f) = [q \in Path |-> Lookup(f, q)]
    BY DEF View
  <1> HIDE DEF s
  <1>7. \A q \in Path : s[q] = Lookup(f, q)
    BY <1>2, <1>3, <1>4
  <1> QED BY <1>5, <1>6, <1>7 DEF s

-----------------------------------------------------------------------------
(* The one-tree view and the branches speak of the same paths and trees.   *)

LEMMA SameHelpers ==
    /\ \A t, p : Tree1!HasNode(t, p) <=> HasNode(t, p)
    /\ \A t, p : Tree1!HasDir(t, p) <=> HasDir(t, p)
    /\ \A p : Tree1!u_dirname(p) = u_dirname(p)
    /\ \A p : Tree1!Children(p) = Children(p)
    /\ Tree1!Absent = Absent
    /\ Tree1!Tree = Tree
    /\ \A t : Tree1!IsTree(t) <=> IsTree(t)
    /\ \A t, from, to : Tree1!Graft(t, from, to) = Graft(t, from, to)
  <1>1. \A t, from, to : Tree1!Graft(t, from, to) = Graft(t, from, to)
    BY DEF Tree1!Graft, Graft, Tree1!Source, Source, Tree1!IsPrefix, IsPrefix, Tree1!Absent, Absent
  <1> QED BY <1>1 DEF Tree1!HasNode, HasNode, Tree1!HasDir, HasDir, Tree1!u_dirname, u_dirname,
         Tree1!Children, Children, Tree1!Absent, Absent, Tree1!Root, Root, Tree1!Tree, Tree,
         Tree1!Entry, Entry, Tree1!Node, Node, Tree1!Kind, Kind, Tree1!IsTree, IsTree,
         Tree1!Front, Front

(* A user sees a tree. *)
LEMMA ViewTree ==
    ASSUME NEW d, Sound(d)
    PROVE  View(d) \in Tree /\ IsTree(View(d))
  <1>1. \A q \in Path : Lookup(d, q) \in Entry
    BY GetattrFinds DEF Lookup, Sound, Entry
  <1>2. ASSUME NEW q \in Path, HasNode(View(d), q)
        PROVE  HasDir(View(d), u_dirname(q))
    <2>1. q # Root /\ u_dirname(q) \in Path \cup {Root}
      BY PathFacts
    <2>2. Lookup(d, q).kind # "none"
      BY <1>2, <2>1 DEF View, HasNode
    <2>3. Walk(d, q)
      BY <2>2 DEF Lookup, Absent
    <2>4. CASE u_dirname(q) # Root
      <3>1. /\ PrefixesOf[u_dirname(q)] = PrefixesOf[q] \ {q}
            /\ u_dirname(q) \in PrefixesOf[u_dirname(q)]
            /\ u_dirname(q) \notin PrefixesOf[u_dirname(u_dirname(q))]
        BY <2>1, <2>4, PrefixesOfChild
      <3>2. getattr(d, u_dirname(q)).kind = "dir" /\ Walk(d, u_dirname(q))
        BY <2>3, <3>1 DEF Walk
      <3> QED BY <2>1, <2>4, <3>2 DEF HasDir, View, Lookup
    <2>5. CASE u_dirname(q) = Root
      BY <2>5 DEF HasDir
    <2> QED BY <2>4, <2>5
  <1> QED BY <1>1, <1>2 DEF View, Tree, IsTree

-----------------------------------------------------------------------------
(* Changes at one path.                                                    *)

\* f differs from e at most in what branch 0 has at p
Differs(e, f, p) ==
    /\ \A b \in Branch, q \in Path : b # 0 \/ q # p => f.tree[b][q] = e.tree[b][q]
    /\ \A q \in Path : q # p => f.wh[0][q] = e.wh[0][q]

(* What is found depends on the two trees, and the whiteouts on the way. *)
LEMMA Unaffected ==
    ASSUME OneOverOne(uopt), NEW e, NEW f, NEW q \in Path,
           \A b \in Branch : f.tree[b][q] = e.tree[b][q],
           \A r \in PrefixesOf[q] : f.wh[0][r] = e.wh[0][r]
    PROVE  getattr(f, q) = getattr(e, q)
  <1>1. 0 \in Branch
    BY Uppermost
  <1>2. \A b \in Branch : Exists(f, b, q) <=> Exists(e, b, q)
    BY DEF Exists, HasNode
  <1>3. path_hidden(f, q, 0) <=> path_hidden(e, q, 0)
    BY DEF path_hidden
  <1> QED BY <1>1, <1>2, <1>3, TwoBranches

LEMMA PointSeen ==
    ASSUME OneOverOne(uopt), NEW d, NEW p \in Path, Walk(d, p), NEW e, CopiedOn(d, e, p),
           NEW f, Differs(e, f, p),
           \A q \in Path : IsPrefix(p, q) /\ p # q => Lookup(f, q) = Lookup(d, q)
    PROVE  View(f) = [View(d) EXCEPT ![p] = getattr(f, p)]
  <1>1. ASSUME NEW q \in Path, ~IsPrefix(p, q)
        PROVE  getattr(f, q) = getattr(d, q)
    <2>1. q # p /\ \A r \in PrefixesOf[q] : r \in Path /\ r # p
      BY <1>1, IsPrefixSelf DEF PrefixesOf
    <2>2. getattr(f, q) = getattr(e, q)
      BY <2>1, Unaffected DEF Differs
    <2> QED BY <2>2 DEF CopiedOn
  <1> QED BY <1>1, ChangeSeen

(* The attributes or contents of what is found change. *)
LEMMA AttrSeen ==
    ASSUME OneOverOne(uopt), NEW d, NEW p \in Path, Walk(d, p), NEW e, CopiedOn(d, e, p),
           Exists(e, 0, p), NEW v
    PROVE  View([e EXCEPT !.tree[0][p].val = v]) = [View(d) EXCEPT ![p].val = v]
  <1>1. PICK f : f = [e EXCEPT !.tree[0][p].val = v]
    OBVIOUS
  <1>2. 0 \in Branch /\ e \in Disk /\ e.tree \in [Branch -> Tree] /\ e.tree[0] \in Tree
    BY Uppermost DEF CopiedOn, Sound, Disk
  <1>3. f.wh = e.wh /\ f.tree = [e.tree EXCEPT ![0][p].val = v]
    BY <1>1, <1>2 DEF Disk
  <1>4. /\ \A b \in Branch : b # 0 => f.tree[b] = e.tree[b]
        /\ f.tree[0] = [e.tree[0] EXCEPT ![p].val = v]
    BY <1>2, <1>3
  <1>5. /\ \A q \in Path : q # p => f.tree[0][q] = e.tree[0][q]
        /\ f.tree[0][p] = [e.tree[0][p] EXCEPT !.val = v]
    BY <1>2, <1>4 DEF Tree
  <1>6. e.tree[0][p] \in Entry
    BY <1>2 DEF Tree
  <1>7. f.tree[0][p].kind = e.tree[0][p].kind
    BY <1>5, <1>6 DEF Entry, Node, Absent
  <1>8. Differs(e, f, p)
    BY <1>3, <1>4, <1>5 DEF Differs
  <1>9. Exists(f, 0, p)
    BY <1>7 DEF Exists, HasNode
  <1>10. /\ getattr(f, p) = f.tree[0][p] /\ getattr(e, p) = e.tree[0][p]
         /\ getattr(d, p) = e.tree[0][p]
    BY <1>9, TwoBranches DEF CopiedOn
  <1>11. ASSUME NEW q \in Path, q # p PROVE getattr(f, q) = getattr(d, q)
    <2>1. getattr(f, q) = getattr(e, q)
      BY <1>3, <1>8, <1>11, Unaffected DEF Differs
    <2> QED BY <2>1 DEF CopiedOn
  <1>12. \A q \in Path : getattr(f, q).kind = getattr(d, q).kind
    BY <1>7, <1>10, <1>11
  <1>13. \A q \in Path : Walk(f, q) <=> Walk(d, q)
    BY <1>12 DEF Walk, PrefixesOf
  <1>14. \A q \in Path : q # p => Lookup(f, q) = Lookup(d, q)
    BY <1>11, <1>13 DEF Lookup
  <1>15. View(f) = [View(d) EXCEPT ![p] = getattr(f, p)]
    BY <1>8, <1>14, PointSeen
  <1>16. View(d)[p] = e.tree[0][p]
    BY <1>10 DEF View, Lookup
  <1>17. [View(d) EXCEPT ![p].val = v] = [View(d) EXCEPT ![p] = [View(d)[p] EXCEPT !.val = v]]
    OBVIOUS
  <1> QED BY <1>1, <1>5, <1>10, <1>15, <1>16, <1>17

-----------------------------------------------------------------------------
(* Every handler is a call of the one-tree view.                           *)

SetAttrOp == {"chmod", "chown", "utimens", "truncate"}

(* A handler that only prepared a path changes nothing a user sees. *)
LEMMA CopiedSeen ==
    ASSUME NEW d, NEW e, NEW p, CopiedOn(d, e, p)
    PROVE  View(e) = View(d)
  BY DEF CopiedOn, View, Lookup, Walk, PrefixesOf

(* A socket cannot be copied up. *)
LEMMA RefuseSocket ==
    ASSUME NEW op \in Op, NEW p \in Path, NEW e, View(e) = View(fs), Return(op, p, e, "ENOENT"),
           Lookup(fs, p).kind = "sock" \/ (op = "rename" /\ \E q \in Path : Lookup(fs, q).kind = "sock")
    PROVE  Tree1!Next
  <1>1. UNCHANGED uopt /\ fs' = e /\ ret' = [op |-> op, path |-> p, res |-> "ENOENT"]
    BY DEF Return
  <1>2. View(fs)' = View(fs)
    BY <1>1, ViewNext
  <1>3. \A q \in Path : View(fs)[q] = Lookup(fs, q)
    BY DEF View
  <1>4. Tree1!Refuse(op, p)
    BY <1>1, <1>2, <1>3 DEF Tree1!Refuse, Tree1!Answer, Tree1!Socket
  <1> QED BY <1>1, <1>4 DEF Tree1!Next, Tree1!Call, Op

LEMMA SetAttrTree ==
    ASSUME TypeOK, OneOverOne(uopt), NEW op \in SetAttrOp, NEW p \in Path,
           Lookup(fs, p).kind # "none", NEW v \in Val, NEW env, NoFault(env),
           SetAttr(op, p, v, env)
    PROVE  Tree1!Next
  <1> DEFINE c == find_rw_branch_cow(fs, p, env)
  <1>1. Walk(fs, p) /\ Lookup(fs, p) = getattr(fs, p) /\ Sound(fs) /\ op \in Op
    BY SoundFs DEF Lookup, Absent, SetAttrOp, Op
  <1>2. /\ CopiedOn(fs, c.disk, p)
        /\ \/ c.branch = 0 /\ Exists(c.disk, 0, p)
           \/ c.branch = -1 /\ c.err = "ENOENT" /\ getattr(fs, p).kind \in {"none", "sock"}
    BY <1>1, CowZero
  <1>3. IF c.branch = -1 THEN Return(op, p, c.disk, c.err)
        ELSE Return(op, p, [c.disk EXCEPT !.tree[c.branch][p].val = v], "OK")
    BY DEF SetAttr
  <1> HIDE DEF c
  <1>4. CASE c.branch = -1
    <2>1. Lookup(fs, p).kind = "sock" /\ Return(op, p, c.disk, "ENOENT")
      BY <1>1, <1>2, <1>3, <1>4
    <2> QED BY <1>1, <1>2, <2>1, CopiedSeen, RefuseSocket
  <1>5. CASE c.branch # -1
    <2>1. c.branch = 0 /\ Exists(c.disk, 0, p)
      BY <1>2, <1>5
    <2>2. Return(op, p, [c.disk EXCEPT !.tree[0][p].val = v], "OK")
      BY <1>3, <2>1
    <2>3. View([c.disk EXCEPT !.tree[0][p].val = v]) = [View(fs) EXCEPT ![p].val = v]
      BY <1>1, <1>2, <2>1, AttrSeen
    <2>4. /\ View(fs)' = [View(fs) EXCEPT ![p].val = v]
          /\ ret' = [op |-> op, path |-> p, res |-> "OK"]
      BY <2>2, <2>3, ViewNext DEF Return
    <2>5. HasNode(View(fs), p)
      BY DEF HasNode, View
    <2>6. Tree1!SetAttr(op, p, v)
      BY <2>4, <2>5, SameHelpers DEF Tree1!SetAttr, Tree1!Answer
    <2> QED BY <2>4, <2>6 DEF Tree1!Next, Tree1!Call, SetAttrOp
  <1> QED BY <1>4, <1>5

(* Putting a node where none was found. *)
LEMMA PutSeen ==
    ASSUME OneOverOne(uopt), NEW d, NEW p \in Path, Walk(d, p), getattr(d, p) = Absent,
           NEW e, CopiedOn(d, e, p), NEW f, Differs(e, f, p), Exists(f, 0, p),
           f.tree[0][p].kind = "dir" => f.wh[0] = e.wh[0]
    PROVE  View(f) = [View(d) EXCEPT ![p] = f.tree[0][p]]
  <1>1. getattr(f, p) = f.tree[0][p]
    BY TwoBranches
  <1>2. getattr(e, p) = Absent /\ Sound(e)
    BY DEF CopiedOn
  <1>3. p # Root
    BY PathFacts
  <1>4. ~Exists(e, 0, p)
    <2>1. Exists(e, 0, p) => getattr(e, p) = e.tree[0][p]
      BY TwoBranches
    <2> QED BY <1>2, <1>3, <2>1 DEF Exists, HasNode, Absent
  <1>5. ASSUME 1 \in Branch, Exists(e, 1, p) PROVE path_hidden(e, p, 0)
    <2>1. ~path_hidden(e, p, 0) => getattr(e, p) = e.tree[1][p]
      BY <1>4, <1>5, TwoBranches
    <2> QED BY <1>2, <1>3, <1>5, <2>1 DEF Exists, HasNode, Absent
  <1>6. ASSUME NEW q \in Path, IsPrefix(p, q), p # q
        PROVE  Lookup(f, q) = Lookup(d, q)
    <2>1. Lookup(d, q) = Absent
      BY <1>6, SeenBelow DEF Absent
    <2>2. CASE f.tree[0][p].kind # "dir"
      BY <1>1, <1>6, <2>1, <2>2, SeenBelow
    <2>3. CASE f.tree[0][p].kind = "dir"
      <3>1. \A b \in Branch : IsTree(e.tree[b])
        BY <1>2 DEF Sound, WellFormed
      <3>2. \A b \in Branch : Exists(e, b, q) => Exists(e, b, p)
        BY <1>6, <3>1, Ancestors DEF Exists
      <3>3. 0 \in Branch
        BY Uppermost
      <3>4. ~Exists(e, 0, q) /\ (1 \in Branch /\ Exists(e, 1, q) => path_hidden(e, p, 0))
        BY <1>4, <1>5, <3>2, <3>3
      <3>5. path_hidden(e, p, 0) => path_hidden(f, q, 0)
        <4>1. PrefixesOf[p] \subseteq PrefixesOf[q]
          BY <1>6, PrefixTransitive DEF PrefixesOf
        <4> QED BY <2>3, <4>1 DEF path_hidden
      <3>6. \A b \in Branch : Exists(f, b, q) <=> Exists(e, b, q)
        BY <1>6 DEF Differs, Exists, HasNode
      <3>7. getattr(f, q) = Absent
        BY <3>3, <3>4, <3>5, <3>6, TwoBranches
      <3> QED BY <2>1, <3>7 DEF Lookup
    <2> QED BY <2>2, <2>3
  <1> QED BY <1>1, <1>6, PointSeen

(* A node put on branch 0, with or without its whiteout removed. *)
LEMMA PutDiffers ==
    ASSUME OneOverOne(uopt), NEW e, Sound(e), NEW p \in Path, NEW node
    PROVE  LET g == Put(e, 0, p, node)
           IN  /\ Differs(e, g, p) /\ g.tree[0][p] = node /\ g.wh = e.wh
               /\ Differs(e, remove_hidden(g, p, 0), p)
               /\ remove_hidden(g, p, 0).tree = g.tree
  <1> DEFINE g == Put(e, 0, p, node)
             h == remove_hidden(g, p, 0)
  <1>1. 0 \in Branch /\ e \in Disk
    BY Uppermost DEF Sound
  <1>2. /\ e.tree \in [Branch -> Tree] /\ e.tree[0] \in Tree
        /\ e.wh \in [Branch -> [Path -> {"none", "file", "dir"}]]
        /\ e = [tree |-> e.tree, wh |-> e.wh]
    BY <1>1 DEF Disk
  <1>3. g.wh = e.wh /\ g.tree = [e.tree EXCEPT ![0][p] = node]
    BY <1>2 DEF Put
  <1>4. /\ \A b \in Branch : b # 0 => g.tree[b] = e.tree[b]
        /\ g.tree[0] = [e.tree[0] EXCEPT ![p] = node]
    BY <1>1, <1>2, <1>3
  <1>5. g.tree[0][p] = node /\ \A q \in Path : q # p => g.tree[0][q] = e.tree[0][q]
    BY <1>2, <1>4 DEF Tree
  <1>6. \E t, w : g = [tree |-> t, wh |-> w]
    <2>1. PICK t, w : e = [tree |-> t, wh |-> w]
      BY <1>2
    <2>2. g = [tree |-> [t EXCEPT ![0] = [t[0] EXCEPT ![p] = node]], wh |-> w]
      BY <2>1 DEF Put
    <2> QED BY <2>2
  <1> HIDE DEF g
  <1>7. Differs(e, g, p)
    BY <1>3, <1>4, <1>5 DEF Differs
  <1>8. h.tree = g.tree /\ h.wh = [b \in Branch |->
            IF b <= 0 THEN [g.wh[b] EXCEPT ![p] = "none"] ELSE g.wh[b]]
    BY <1>6 DEF remove_hidden, OneOverOne
  <1>9. h.wh[0] = [e.wh[0] EXCEPT ![p] = "none"]
    BY <1>1, <1>3, <1>8
  <1>10. \A q \in Path : q # p => h.wh[0][q] = e.wh[0][q]
    BY <1>1, <1>2, <1>9
  <1>11. Differs(e, h, p)
    BY <1>7, <1>8, <1>10 DEF Differs
  <1> QED BY <1>3, <1>5, <1>7, <1>8, <1>11 DEF g

(* Where nothing was found a node can be made on branch 0. *)
LEMMA CutlastNegative ==
    ASSUME TypeOK, OneOverOne(uopt), NEW p \in Path, Negative(p), NEW env, NoFault(env)
    PROVE  LET c == find_rw_branch_cutlast(fs, p, env)
           IN  /\ CopiedOn(fs, c.disk, p)
               /\ c.branch = 0
               /\ ~Exists(c.disk, 0, p)
               /\ NewErr(c.disk, 0, p) = "OK" /\ OpenErr(c.disk, 0, p) = "OK"
               /\ Walk(fs, p) /\ getattr(fs, p) = Absent
               /\ Sound(fs)
  <1> DEFINE c == find_rw_branch_cutlast(fs, p, env)
             e == c.disk
  <1>1. Sound(fs) /\ Walk(fs, p) /\ getattr(fs, p) = Absent /\ p # Root
    BY SoundFs, PathFacts DEF Negative, Lookup
  <1>2. CopiedOn(fs, e, p) /\ c.branch = 0 /\ IsDir(e, 0, u_dirname(p))
    BY <1>1, CutlastZero
  <1> HIDE DEF c
  <1>3. getattr(e, p) = Absent
    BY <1>1, <1>2 DEF CopiedOn
  <1>4. ~Exists(e, 0, p)
    <2>1. Exists(e, 0, p) => getattr(e, p) = e.tree[0][p]
      BY TwoBranches
    <2> QED BY <1>1, <1>3, <2>1 DEF Exists, HasNode, Absent
  <1>5. NewErr(e, 0, p) = "OK"
    BY <1>2, <1>4 DEF NewErr, Exists, HasNode, IsDir, HasDir
  <1>6. OpenErr(e, 0, p) = "OK"
    BY <1>5 DEF OpenErr
  <1> QED BY <1>1, <1>2, <1>4, <1>5, <1>6 DEF c

(* What is walked is in a directory. *)
LEMMA WalkedDir ==
    ASSUME NEW d, NEW p \in Path, Walk(d, p)
    PROVE  HasDir(View(d), u_dirname(p))
  <1> DEFINE u == u_dirname(p)
  <1>1. CASE u = Root
    BY <1>1 DEF HasDir
  <1>2. CASE u # Root
    <2>1. /\ u \in Path /\ PrefixesOf[u] = PrefixesOf[p] \ {p} /\ u \in PrefixesOf[u]
      BY <1>2, PathFacts, PrefixesOfChild
    <2>2. getattr(d, u).kind = "dir" /\ Walk(d, u)
      BY <2>1 DEF Walk
    <2> QED BY <2>1, <2>2 DEF HasDir, View, Lookup
  <1> QED BY <1>1, <1>2

(* A node made at p is seen there, and nothing else is. *)
LEMMA MakeTree ==
    ASSUME OneOverOne(uopt), NEW op, NEW p \in Path, Walk(fs, p), getattr(fs, p) = Absent,
           NEW kind \in Kind, NEW v, NEW e, CopiedOn(fs, e, p), NEW f, Differs(e, f, p),
           f.tree[0][p] = [kind |-> kind, val |-> v], kind = "dir" => f.wh[0] = e.wh[0],
           Return(op, p, f, "OK")
    PROVE  Tree1!Make(op, p, kind, v) /\ ret'.path = p
  <1>1. Exists(f, 0, p)
    BY DEF Kind, Exists, HasNode
  <1>2. View(f) = [View(fs) EXCEPT ![p] = [kind |-> kind, val |-> v]]
    BY <1>1, PutSeen
  <1>3. /\ View(fs)' = [View(fs) EXCEPT ![p] = [kind |-> kind, val |-> v]]
        /\ ret' = [op |-> op, path |-> p, res |-> "OK"]
    BY <1>2, ViewNext DEF Return
  <1>4. ~HasNode(View(fs), p) /\ HasDir(View(fs), u_dirname(p))
    BY WalkedDir, PathFacts DEF HasNode, View, Lookup, Absent
  <1> QED BY <1>3, <1>4, SameHelpers DEF Tree1!Make, Tree1!Answer

LEMMA CreateTree ==
    ASSUME TypeOK, OneOverOne(uopt), NEW p \in Path, NEW v \in Val, NEW env, NoFault(env),
           create(p, v, env)
    PROVE  Tree1!Next
  <1> DEFINE c == find_rw_branch_cutlast(fs, p, env)
             node == [kind |-> "reg", val |-> v]
             g == Put(c.disk, 0, p, node)
             f == remove_hidden(g, p, 0)
  <1>1. Negative(p)
    BY DEF create
  <1>2. /\ CopiedOn(fs, c.disk, p) /\ c.branch = 0 /\ ~Exists(c.disk, 0, p)
        /\ OpenErr(c.disk, 0, p) = "OK" /\ Walk(fs, p) /\ getattr(fs, p) = Absent
    BY <1>1, CutlastNegative
  <1>3. Return("create", p, f, "OK")
    BY <1>2 DEF create, Made
  <1>4. Differs(c.disk, f, p) /\ f.tree[0][p] = node
    BY <1>2, PutDiffers DEF CopiedOn
  <1> HIDE DEF c, g, f
  <1>5. Tree1!Make("create", p, "reg", v) /\ ret'.path = p
    BY <1>2, <1>3, <1>4, MakeTree DEF Kind
  <1> QED BY <1>5 DEF Tree1!Next, Tree1!Call

LEMMA MkdirTree ==
    ASSUME TypeOK, OneOverOne(uopt), NEW p \in Path, NEW v \in Val, NEW env, NoFault(env),
           mkdir(p, v, env)
    PROVE  Tree1!Next
  <1> DEFINE c == find_rw_branch_cutlast(fs, p, env)
             node == [kind |-> "dir", val |-> v]
             g == Put(c.disk, 0, p, node)
  <1>1. Negative(p)
    BY DEF mkdir
  <1>2. /\ CopiedOn(fs, c.disk, p) /\ c.branch = 0
        /\ NewErr(c.disk, 0, p) = "OK" /\ Walk(fs, p) /\ getattr(fs, p) = Absent
    BY <1>1, CutlastNegative
  <1>3. Return("mkdir", p, g, "OK")
    BY <1>2 DEF mkdir, Made
  <1>4. Differs(c.disk, g, p) /\ g.tree[0][p] = node /\ g.wh[0] = c.disk.wh[0]
    BY <1>2, PutDiffers DEF CopiedOn
  <1> HIDE DEF c, g
  <1>5. Tree1!Make("mkdir", p, "dir", v) /\ ret'.path = p
    BY <1>2, <1>3, <1>4, MakeTree DEF Kind
  <1> QED BY <1>5 DEF Tree1!Next, Tree1!Call

LEMMA MknodTree ==
    ASSUME TypeOK, OneOverOne(uopt), NEW p \in Path, NEW kind \in {"reg", "spec", "sock"},
           NEW v \in Val, NEW env, NoFault(env), mknod(p, kind, v, env)
    PROVE  Tree1!Next
  <1> DEFINE c == find_rw_branch_cutlast(fs, p, env)
             node == [kind |-> kind, val |-> v]
             g == Put(c.disk, 0, p, node)
             f == remove_hidden(g, p, 0)
  <1>1. Negative(p)
    BY DEF mknod
  <1>2. /\ CopiedOn(fs, c.disk, p) /\ c.branch = 0
        /\ NewErr(c.disk, 0, p) = "OK" /\ OpenErr(c.disk, 0, p) = "OK"
        /\ Walk(fs, p) /\ getattr(fs, p) = Absent
    BY <1>1, CutlastNegative
  <1>3. Return("mknod", p, f, "OK")
    BY <1>2 DEF mknod, Made
  <1>4. Differs(c.disk, f, p) /\ f.tree[0][p] = node
    BY <1>2, PutDiffers DEF CopiedOn
  <1> HIDE DEF c, g, f
  <1>5. Tree1!Make("mknod", p, kind, v) /\ ret'.path = p
    BY <1>2, <1>3, <1>4, MakeTree DEF Kind
  <1> QED BY <1>5 DEF Tree1!Next, Tree1!Call

LEMMA SymlinkTree ==
    ASSUME TypeOK, OneOverOne(uopt), NEW p \in Path, NEW v \in Val, NEW env, NoFault(env),
           symlink(p, v, env)
    PROVE  Tree1!Next
  <1> DEFINE c == find_rw_branch_cutlast(fs, p, env)
             node == [kind |-> "spec", val |-> v]
             g == Put(c.disk, 0, p, node)
             f == remove_hidden(g, p, 0)
  <1>1. Negative(p)
    BY DEF symlink
  <1>2. /\ CopiedOn(fs, c.disk, p) /\ c.branch = 0
        /\ NewErr(c.disk, 0, p) = "OK" /\ Walk(fs, p) /\ getattr(fs, p) = Absent
    BY <1>1, CutlastNegative
  <1>3. Return("symlink", p, f, "OK")
    BY <1>2 DEF symlink, Made
  <1>4. Differs(c.disk, f, p) /\ f.tree[0][p] = node
    BY <1>2, PutDiffers DEF CopiedOn
  <1> HIDE DEF c, g, f
  <1>5. Tree1!Make("symlink", p, "spec", v) /\ ret'.path = p
    BY <1>2, <1>3, <1>4, MakeTree DEF Kind
  <1> QED BY <1>5 DEF Tree1!Next, Tree1!Call

(* Opening a file for writing is not seen. *)
LEMMA OpenTree ==
    ASSUME TypeOK, OneOverOne(uopt), NEW p \in Path, NEW env, NoFault(env), open(p, env)
    PROVE  Tree1!Next
  <1> DEFINE c == find_rw_branch_cutlast(fs, p, env)
             e == c.disk
             f == remove_hidden(e, p, 0)
  <1>1. Lookup(fs, p).kind = "reg" /\ p # Root /\ p \in Path
    BY PathFacts DEF open
  <1>2. Walk(fs, p) /\ Lookup(fs, p) = getattr(fs, p) /\ Sound(fs)
    BY <1>1, SoundFs DEF Lookup, Absent
  <1>3. /\ CopiedOn(fs, e, p) /\ c.branch = 0 /\ IsDir(e, 0, u_dirname(p))
        /\ Exists(e, 0, p)
    BY <1>1, <1>2, CutlastZero
  <1>4. \E b \in {c} : Made("open", p, b,
            IF Exists(b.disk, b.branch, p) THEN OpenErr(b.disk, b.branch, p) ELSE "ENOENT",
            remove_hidden(b.disk, p, b.branch))
    BY DEF open
  <1> HIDE DEF c
  <1>5. e.tree[0][p] = getattr(fs, p)
    BY <1>3, TwoBranches DEF CopiedOn
  <1>6. OpenErr(e, 0, p) = "OK"
    BY <1>1, <1>2, <1>3, <1>5 DEF OpenErr, NewErr, Exists, HasNode, IsDir, HasDir
  <1>7. Return("open", p, f, "OK")
    BY <1>3, <1>4, <1>6 DEF Made
  <1>8. f.tree = e.tree /\ Sound(e)
    BY <1>3, RemoveHidden DEF CopiedOn
  <1>9. Differs(e, f, p)
    <2>1. PICK t, w : e = [tree |-> t, wh |-> w] /\ w \in [Branch -> [Path -> {"none", "file", "dir"}]]
      BY <1>8 DEF Sound, Disk
    <2>2. 0 \in Branch /\ f.wh = [b \in Branch |-> IF b <= 0 THEN [w[b] EXCEPT ![p] = "none"] ELSE w[b]]
      BY <2>1, Uppermost DEF remove_hidden, OneOverOne
    <2>3. f.wh[0] = [w[0] EXCEPT ![p] = "none"] /\ e.wh = w
      BY <2>1, <2>2
    <2>4. \A q \in Path : q # p => f.wh[0][q] = e.wh[0][q]
      BY <2>1, <2>2, <2>3
    <2> QED BY <1>8, <2>4 DEF Differs
  <1>10. getattr(f, p) = Lookup(fs, p)
    BY <1>2, <1>3, <1>5, <1>8, TwoBranches DEF Exists
  <1>11. ASSUME NEW q \in Path, IsPrefix(p, q), p # q PROVE Lookup(f, q) = Lookup(fs, q)
    BY <1>1, <1>2, <1>10, <1>11, SeenBelow
  <1>12. View(f) = [View(fs) EXCEPT ![p] = getattr(f, p)]
    BY <1>2, <1>3, <1>9, <1>11, PointSeen
  <1>13. View(fs) = [q \in Path |-> View(fs)[q]] /\ View(fs)[p] = Lookup(fs, p)
    BY DEF View
  <1>14. View(f) = View(fs)
    BY <1>10, <1>12, <1>13
  <1>15. View(fs)' = View(fs) /\ ret' = [op |-> "open", path |-> p, res |-> "OK"]
    BY <1>7, <1>14, ViewNext DEF Return
  <1>16. HasNode(View(fs), p) /\ ~HasDir(View(fs), p)
    BY <1>1, <1>13 DEF HasNode, HasDir
  <1>17. Tree1!Open(p)
    BY <1>15, <1>16, SameHelpers DEF Tree1!Open, Tree1!Answer
  <1> QED BY <1>15, <1>17 DEF Tree1!Next, Tree1!Call

(* What is not on branch 0 is not found once its whiteout is made. *)
LEMMA WhiteoutHides ==
    ASSUME OneOverOne(uopt), NEW g, Sound(g), NEW p \in Path, ~Exists(g, 0, p),
           NEW mode \in {"file", "dir"}, NEW env, NoFault(env)
    PROVE  LET f == maybe_whiteout(g, p, 0, mode, env).disk
           IN  /\ f.tree = g.tree
               /\ Differs(g, f, p)
               /\ getattr(f, p) = Absent
               /\ 1 \in Branch /\ Exists(g, 1, p) => path_hidden(f, p, 0)
               /\ find_rorw_branch(g, p) # -1 =>
                     maybe_whiteout(g, p, 0, mode, env) = [disk |-> f, err |-> "OK"]
  <1> DEFINE m == maybe_whiteout(g, p, 0, mode, env)
             f == m.disk
  <1>1. 0 \in Branch /\ p \in PrefixesOf[p] /\ f.tree = g.tree
    BY Uppermost, PrefixesOfChild, MaybeWhiteout
  <1>2. PICK t, w : g = [tree |-> t, wh |-> w] /\ w \in [Branch -> [Path -> {"none", "file", "dir"}]]
    BY DEF Sound, Disk
  <1>3. find_rorw_branch(g, p) = IF 1 \in Branch /\ Exists(g, 1, p) /\ ~path_hidden(g, p, 0)
                                 THEN 1 ELSE -1
    BY TwoBranches
  <1>4. CASE find_rorw_branch(g, p) = -1
    <2>1. m = [disk |-> g, err |-> "OK"]
      BY <1>4 DEF maybe_whiteout
    <2>2. getattr(g, p) = Absent
      BY <1>4 DEF getattr
    <2>3. 1 # -1
      OBVIOUS
    <2>4. 1 \in Branch /\ Exists(g, 1, p) => path_hidden(g, p, 0)
      BY <1>3, <1>4, <2>3
    <2> QED BY <1>1, <1>4, <2>1, <2>2, <2>4 DEF Differs
  <1>5. CASE find_rorw_branch(g, p) # -1
    <2>1. m = do_create_whiteout(g, p, 0, mode, env)
      BY <1>5 DEF maybe_whiteout
    <2>2. ~path_hidden(g, p, 0) /\ uopt.cow
      BY <1>3, <1>5 DEF OneOverOne
    <2>3. g.wh[0][p] = "none"
      BY <1>1, <2>2 DEF path_hidden
    <2>4. m = [disk |-> [g EXCEPT !.wh[0][p] = mode], err |-> "OK"]
      BY <2>1, <2>2, <2>3 DEF do_create_whiteout, NoFault
    <2>5. f = [tree |-> t, wh |-> [w EXCEPT ![0] = [w[0] EXCEPT ![p] = mode]]]
      BY <1>2, <2>4
    <2>6. f.wh[0] = [w[0] EXCEPT ![p] = mode]
      BY <1>1, <1>2, <2>5
    <2>7. f.wh[0][p] = mode /\ \A q \in Path : q # p => f.wh[0][q] = g.wh[0][q]
      BY <1>1, <1>2, <2>6
    <2>8. Differs(g, f, p)
      BY <1>1, <2>7 DEF Differs
    <2>9. path_hidden(f, p, 0)
      BY <1>1, <2>2, <2>7 DEF path_hidden
    <2>10. ~Exists(f, 0, p)
      BY <1>1 DEF Exists
    <2>11. getattr(f, p) = Absent
      BY <2>9, <2>10, TwoBranches
    <2>12. m = [disk |-> f, err |-> "OK"]
      BY <2>4
    <2> HIDE DEF m
    <2> QED BY <1>1, <2>8, <2>9, <2>11, <2>12 DEF m
  <1> QED BY <1>4, <1>5

(* What is removed from branch 0, and hidden on branch 1, is gone. *)
LEMMA DeleteTree ==
    ASSUME OneOverOne(uopt), Sound(fs), NEW op \in {"unlink", "rmdir"}, NEW p \in Path,
           Lookup(fs, p).kind # "none", (Lookup(fs, p).kind = "dir") = (op = "rmdir"),
           \A q \in Path : IsPrefix(p, q) /\ p # q => Lookup(fs, q) = Absent,
           NEW g \in {fs, Put(fs, 0, p, Absent)}, Sound(g), ~Exists(g, 0, p),
           NEW mode \in {"file", "dir"}, NEW env, NoFault(env),
           Return(op, p, maybe_whiteout(g, p, 0, mode, env).disk, "OK")
    PROVE  Tree1!Next
  <1> DEFINE f == maybe_whiteout(g, p, 0, mode, env).disk
  <1>1. Walk(fs, p) /\ p # Root
    BY PathFacts DEF Lookup, Absent
  <1>2. Differs(g, f, p) /\ getattr(f, p) = Absent
    BY WhiteoutHides
  <1>3. Differs(fs, g, p)
    BY PutDiffers DEF Differs
  <1> HIDE DEF f
  <1>4. Differs(fs, f, p)
    BY <1>2, <1>3, Uppermost DEF Differs
  <1>5. CopiedOn(fs, fs, p)
    BY DEF CopiedOn
  <1>6. \A q \in Path : IsPrefix(p, q) /\ p # q => Lookup(f, q) = Lookup(fs, q)
    BY <1>2, SeenBelow DEF Absent
  <1>7. View(f) = [View(fs) EXCEPT ![p] = Absent]
    BY <1>1, <1>2, <1>4, <1>5, <1>6, PointSeen
  <1>8. /\ View(fs)' = [View(fs) EXCEPT ![p] = Absent]
        /\ ret' = [op |-> op, path |-> p, res |-> "OK"]
    BY <1>7, ViewNext DEF Return, f
  <1>9. HasNode(View(fs), p) /\ HasDir(View(fs), p) = (op = "rmdir")
    BY <1>1 DEF HasNode, HasDir, View
  <1>10. ASSUME NEW q \in Children(p) PROVE ~HasNode(View(fs), q)
    <2>1. q \in Path /\ u_dirname(q) = p /\ q # Root
      BY PathFacts DEF Children
    <2>2. IsPrefix(p, q) /\ p # q
      <3>1. p # q
        BY <2>1, PrefixesOfChild, IsPrefixSelf DEF PrefixesOf
      <3> QED BY <2>1, <3>1, IsPrefixChild, IsPrefixSelf
    <2> QED BY <2>1, <2>2 DEF HasNode, View, Absent
  <1>11. Tree1!HasDir(View(fs), p) = (op = "rmdir")
    BY <1>9 DEF Tree1!HasDir, HasDir, Tree1!Root, Root
  <1>12. Tree1!Delete(op, p)
    BY <1>8, <1>9, <1>10, <1>11, SameHelpers DEF Tree1!Delete, Tree1!Answer, Tree1!Empty
  <1> QED BY <1>8, <1>12 DEF Tree1!Next, Tree1!Call

(* Where something is found. *)
LEMMA FoundAt ==
    ASSUME TypeOK, OneOverOne(uopt), NEW p \in Path, Lookup(fs, p).kind # "none"
    PROVE  LET i == find_rorw_branch(fs, p)
           IN  /\ \/ i = 0 /\ Exists(fs, 0, p) /\ Lookup(fs, p) = fs.tree[0][p]
                  \/ i = 1 /\ ~Exists(fs, 0, p) /\ 1 \in Branch /\ ~uopt.rw[1]
               /\ Walk(fs, p) /\ Lookup(fs, p) = getattr(fs, p)
               /\ Sound(fs)
  <1> DEFINE i == find_rorw_branch(fs, p)
  <1>1. /\ i \in Branch /\ Answers(fs, p, i) /\ Lookup(fs, p) = fs.tree[i][p]
        /\ Walk(fs, p) /\ Lookup(fs, p) = getattr(fs, p) /\ Sound(fs)
    BY Found, SoundFs DEF Lookup
  <1>2. i = 0 \/ (i = 1 /\ ~uopt.rw[1])
    BY <1>1 DEF OneOverOne
  <1>3. i = 0 <=> Exists(fs, 0, p)
    BY <1>1, TwoBranches, Uppermost DEF Answers
  <1> QED BY <1>1, <1>2, <1>3

LEMMA UnlinkTree ==
    ASSUME TypeOK, OneOverOne(uopt), NEW p \in Path, NEW env, NoFault(env), unlink(p, env)
    PROVE  Tree1!Next
  <1> DEFINE i == find_rorw_branch(fs, p)
             g == Put(fs, 0, p, Absent)
  <1>1. Lookup(fs, p).kind \notin {"none", "dir"}
    BY DEF unlink
  <1>2. /\ \/ i = 0 /\ Exists(fs, 0, p) /\ Lookup(fs, p) = fs.tree[0][p]
           \/ i = 1 /\ ~Exists(fs, 0, p) /\ 1 \in Branch /\ ~uopt.rw[1]
        /\ Walk(fs, p) /\ Lookup(fs, p) = getattr(fs, p)
        /\ Sound(fs)
    BY <1>1, FoundAt
  <1>3. \A q \in Path : IsPrefix(p, q) /\ p # q => Lookup(fs, q) = Absent
    BY <1>1, <1>2, SeenBelow
  <1>4. CASE i = 0
    <2>1. Return("unlink", p, maybe_whiteout(g, p, 0, "file", env).disk, "OK")
      BY <1>4 DEF unlink, OneOverOne
    <2>2. 0 \in Branch /\ IsTree(fs.tree[0])
      BY <1>2, Uppermost DEF Sound, WellFormed
    <2>3. \A c \in Children(p) : ~Exists(fs, 0, c)
      BY <1>1, <1>2, <1>4, <2>2, NothingBelow DEF Exists
    <2>4. Sound(g)
      BY <1>2, <2>2, <2>3, RemoveNode
    <2>5. ~Exists(g, 0, p)
      BY <1>2, PutDiffers, PathFacts DEF Exists, HasNode, Absent
    <2> QED BY <1>1, <1>2, <1>3, <2>1, <2>4, <2>5, DeleteTree
  <1>5. CASE i = 1
    <2>1. i # 0 /\ find_lowest_rw_branch(i) = 0 /\ ~uopt.rw[i] /\ uopt.cow /\ 0 # -1 /\ i # -1
      BY <1>2, <1>5, LowestZero DEF OneOverOne
    <2>2. LET hide == do_create_whiteout(fs, p, 0, "file", env)
          IN  Return("unlink", p, hide.disk, hide.err)
      BY <2>1 DEF unlink
    <2>3. maybe_whiteout(fs, p, 0, "file", env) = do_create_whiteout(fs, p, 0, "file", env)
      BY <2>1 DEF maybe_whiteout
    <2>4. ~Exists(fs, 0, p)
      BY <1>2, <2>1
    <2>5. maybe_whiteout(fs, p, 0, "file", env).err = "OK"
      BY <1>2, <2>1, <2>4, WhiteoutHides
    <2>6. Return("unlink", p, maybe_whiteout(fs, p, 0, "file", env).disk, "OK")
      BY <2>2, <2>3, <2>5
    <2> QED BY <1>1, <1>2, <1>3, <2>4, <2>6, DeleteTree
  <1> QED BY <1>2, <1>4, <1>5

LEMMA RmdirTree ==
    ASSUME TypeOK, OneOverOne(uopt), NEW p \in Path, NEW env, NoFault(env), rmdir(p, env)
    PROVE  Tree1!Next
  <1> DEFINE i == find_rorw_branch(fs, p)
             g == Put(fs, 0, p, Absent)
  <1>1. Lookup(fs, p).kind = "dir"
    BY DEF rmdir
  <1>2. /\ \/ i = 0 /\ Exists(fs, 0, p) /\ Lookup(fs, p) = fs.tree[0][p]
           \/ i = 1 /\ ~Exists(fs, 0, p) /\ 1 \in Branch /\ ~uopt.rw[1]
        /\ Walk(fs, p) /\ Lookup(fs, p) = getattr(fs, p)
        /\ Sound(fs)
    BY <1>1, FoundAt
  <1>3. CASE dir_not_empty(fs, p)
    <2>1. PICK c \in Children(p) : find_rorw_branch(fs, c) # -1
      BY <1>2, <1>3, NotEmptyFinds DEF Sound
    <2>2. c \in Path /\ c # Root /\ Lookup(fs, c).kind # "none"
      BY <1>1, <1>2, <2>1, LookupChild, PathFacts DEF Children, Sound
    <2>3. Return("rmdir", p, fs, "ENOTEMPTY")
      BY <1>3 DEF rmdir
    <2>4. View(fs)' = View(fs) /\ ret' = [op |-> "rmdir", path |-> p, res |-> "ENOTEMPTY"]
      BY <2>3, ViewNext DEF Return
    <2>5. HasNode(View(fs), c)
      BY <2>2 DEF HasNode, View
    <2>6. ~Tree1!Empty(p)
      BY <2>1, <2>5, SameHelpers DEF Tree1!Empty
    <2>7. Tree1!Refuse("rmdir", p)
      BY <2>4, <2>6 DEF Tree1!Refuse, Tree1!Answer
    <2> QED BY <2>4, <2>7 DEF Tree1!Next, Tree1!Call
  <1>4. CASE ~dir_not_empty(fs, p)
    <2>1. \A c \in Children(p) : c \in Path /\ find_rorw_branch(fs, c) = -1 /\ getattr(fs, c).kind = "none"
      BY <1>2, <1>4, NotEmptyFinds DEF Sound, Children, getattr, Absent
    <2>2. \A c \in Path : getattr(fs, c).kind = "none" => getattr(fs, c) = Absent
      BY <1>2, GetattrFinds DEF Sound, Entry, Node, Kind
    <2>3. \A q \in Path : IsPrefix(p, q) /\ p # q => Lookup(fs, q) = Absent
      BY <2>1, <2>2, SeenBelowEmpty
    <2>4. CASE i = 0
      <3>1. \A c \in Children(p) : ~Exists(fs, 0, c)
        BY <2>1, Uppermost
      <3>2. Return("rmdir", p, maybe_whiteout(g, p, 0, "dir", env).disk, "OK")
        <4>1. RmdirErr(fs, 0, p) = "OK"
          BY <3>1 DEF RmdirErr
        <4> QED BY <1>4, <2>4, <4>1 DEF rmdir, OneOverOne
      <3>3. Sound(g)
        BY <1>2, <3>1, Uppermost, RemoveNode
      <3>4. ~Exists(g, 0, p)
        BY <1>2, PutDiffers, PathFacts DEF Exists, HasNode, Absent
      <3> QED BY <1>1, <1>2, <2>3, <3>2, <3>3, <3>4, DeleteTree
    <2>5. CASE i = 1
      <3>1. i # 0 /\ find_lowest_rw_branch(i) = 0 /\ ~uopt.rw[i] /\ uopt.cow /\ 0 # -1 /\ i # -1
        BY <1>2, <2>5, LowestZero DEF OneOverOne
      <3>2. LET hide == do_create_whiteout(fs, p, 0, "dir", env)
            IN  Return("rmdir", p, hide.disk, IF hide.err = "EEXIST" THEN "EFAULT" ELSE hide.err)
        BY <1>4, <3>1 DEF rmdir
      <3>3. maybe_whiteout(fs, p, 0, "dir", env) = do_create_whiteout(fs, p, 0, "dir", env)
        BY <3>1 DEF maybe_whiteout
      <3>4. ~Exists(fs, 0, p)
        BY <1>2, <3>1
      <3>5. maybe_whiteout(fs, p, 0, "dir", env).err = "OK"
        BY <1>2, <3>1, <3>4, WhiteoutHides
      <3>6. Return("rmdir", p, maybe_whiteout(fs, p, 0, "dir", env).disk, "OK")
        BY <3>2, <3>3, <3>5
      <3> QED BY <1>1, <1>2, <2>3, <3>4, <3>6, DeleteTree
    <2> QED BY <1>2, <2>4, <2>5
  <1> QED BY <1>3, <1>4

-----------------------------------------------------------------------------
(* rename.                                                                 *)

\* e is d with copies on branch 0 of what branch 1 has, which are not seen
Unseen(d, e) ==
    /\ Sound(e)
    /\ \A b \in Branch : b # 0 => e.tree[b] = d.tree[b]
    /\ \A q \in Path : \/ e.tree[0][q] = d.tree[0][q]
                       \/ 1 \in Branch /\ ~Exists(d, 0, q) /\ e.tree[0][q] = d.tree[1][q]
    /\ \A q \in Path : e.wh[0][q] = d.wh[0][q]
    /\ \A q \in Path : getattr(e, q) = getattr(d, q)

LEMMA CopiedUnseen ==
    ASSUME NEW d, Sound(d), NEW e, NEW p, CopiedOn(d, e, p)
    PROVE  Unseen(d, e)
  BY DEF CopiedOn, Mirrors, Unseen

LEMMA UnseenTransitive ==
    ASSUME NEW d, NEW e, NEW f, Unseen(d, e), Unseen(e, f)
    PROVE  Unseen(d, f)
  <1>1. ASSUME NEW q \in Path
        PROVE  \/ f.tree[0][q] = d.tree[0][q]
               \/ 1 \in Branch /\ ~Exists(d, 0, q) /\ f.tree[0][q] = d.tree[1][q]
    <2>1. 1 \in Branch => e.tree[1] = d.tree[1]
      <3>1. 1 # 0
        OBVIOUS
      <3> QED BY <3>1 DEF Unseen
    <2>2. e.tree[0][q] = d.tree[0][q] => (Exists(e, 0, q) <=> Exists(d, 0, q))
      BY DEF Exists, HasNode
    <2> QED BY <2>1, <2>2 DEF Unseen
  <1> QED BY <1>1 DEF Unseen

LEMMA UnseenView ==
    ASSUME NEW d, NEW e, Unseen(d, e)
    PROVE  View(e) = View(d)
  BY DEF Unseen, View, Lookup, Walk, PrefixesOf

(* Copies of what is not hidden are not seen. *)
LEMMA SpreadUnseen ==
    ASSUME OneOverOne(uopt), NEW d, Sound(d), NEW e, Sound(e),
           \A b \in Branch : b # 0 => e.tree[b] = d.tree[b],
           \A q \in Path : e.wh[0][q] = d.wh[0][q],
           \A q \in Path : \/ e.tree[0][q] = d.tree[0][q]
                           \/ /\ 1 \in Branch /\ ~Exists(d, 0, q) /\ e.tree[0][q] = d.tree[1][q]
                              /\ ~path_hidden(d, q, 0)
    PROVE  Unseen(d, e)
  <1>1. ASSUME NEW q \in Path PROVE getattr(e, q) = getattr(d, q)
    <2>1. PrefixesOf[q] \subseteq Path
      BY DEF PrefixesOf
    <2>2. CASE e.tree[0][q] = d.tree[0][q]
      <3>1. \A b \in Branch : e.tree[b][q] = d.tree[b][q]
        BY <2>2
      <3>2. \A r \in PrefixesOf[q] : e.wh[0][r] = d.wh[0][r]
        BY <2>1
      <3> QED BY <3>1, <3>2, Unaffected
    <2>3. CASE /\ 1 \in Branch /\ ~Exists(d, 0, q) /\ e.tree[0][q] = d.tree[1][q]
               /\ ~path_hidden(d, q, 0)
      <3>1. 1 # 0 /\ e.tree[1] = d.tree[1]
        BY <2>3
      <3>2. Exists(e, 0, q) <=> Exists(d, 1, q)
        BY <2>3 DEF Exists, HasNode
      <3>3. Exists(e, 1, q) <=> Exists(d, 1, q)
        BY <3>1 DEF Exists
      <3> QED BY <2>3, <3>2, <3>3, TwoBranches
    <2> QED BY <2>2, <2>3
  <1> QED BY <1>1 DEF Unseen

\* p is a directory of branch 1 alone, of which nothing is hidden
Whole(d, p) ==
    /\ Walk(d, p) /\ getattr(d, p).kind = "dir"
    /\ 1 \in Branch /\ ~Exists(d, 0, p)
    /\ \A q \in Subtree(p) : d.wh[0][q] = "none"

(* What is seen below such a directory is what branch 1 has. *)
LEMMA WholeSeen ==
    ASSUME OneOverOne(uopt), NEW d, Sound(d), NEW p \in Path, Whole(d, p)
    PROVE  /\ Exists(d, 1, p) /\ IsDir(d, 1, p)
           /\ \A q \in PrefixesOf[p] : ~path_hidden(d, q, 0)
           /\ \A q \in Subtree(p) : /\ ~Exists(d, 0, q) /\ ~path_hidden(d, q, 0)
                                    /\ View(d)[q] = d.tree[1][q]
  <1>1. 0 \in Branch /\ 1 \in Branch /\ p # Root /\ IsTree(d.tree[0]) /\ IsTree(d.tree[1])
    BY Uppermost, PathFacts DEF Whole, Sound, WellFormed
  <1>2. Exists(d, 1, p) /\ ~path_hidden(d, p, 0) /\ d.tree[1][p].kind = "dir"
    BY TwoBranches DEF Whole, Absent
  <1>3. ASSUME NEW q \in PrefixesOf[p] PROVE ~path_hidden(d, q, 0)
    <2>1. PrefixesOf[q] \subseteq PrefixesOf[p]
      BY PrefixTransitive DEF PrefixesOf
    <2> QED BY <1>2, <2>1 DEF path_hidden
  <1>4. ASSUME NEW q \in Path, IsPrefix(p, q) PROVE ~Exists(d, 0, q)
    BY <1>1, <1>4, Ancestors DEF Whole, Exists
  <1>5. ASSUME NEW q \in Path, IsPrefix(p, q) PROVE ~path_hidden(d, q, 0)
    <2>1. ASSUME NEW r \in PrefixesOf[q] PROVE ~(uopt.cow /\ d.wh[0][r] # "none")
      <3>1. r \in Path /\ IsPrefix(r, q)
        BY DEF PrefixesOf
      <3>2. CASE IsPrefix(p, r)
        BY <3>1, <3>2 DEF Whole, Subtree
      <3>3. CASE IsPrefix(r, p)
        <4>1. r \in PrefixesOf[p]
          BY <3>1, <3>3 DEF PrefixesOf
        <4> QED BY <1>2, <4>1 DEF path_hidden
      <3> QED BY <1>5, <3>1, <3>2, <3>3, PrefixesComparable
    <2> QED BY <2>1 DEF path_hidden
  <1>6. ASSUME NEW q \in Path, IsPrefix(p, q), Exists(d, 1, q)
        PROVE  getattr(d, q) = d.tree[1][q]
    BY <1>1, <1>4, <1>5, <1>6, TwoBranches
  <1>7. ASSUME NEW q \in Path, IsPrefix(p, q) PROVE Lookup(d, q) = d.tree[1][q]
    <2>1. CASE Exists(d, 1, q)
      <3>1. ASSUME NEW r \in PrefixesOf[q] \ {q} PROVE getattr(d, r).kind = "dir"
        <4>1. r \in Path /\ IsPrefix(r, q) /\ r # q /\ r # Root
          BY PathFacts DEF PrefixesOf
        <4>2. CASE IsPrefix(p, r)
          <5>1. IsDir(d, 1, r)
            BY <1>1, <2>1, <4>1, AncestorDirs DEF Exists, IsDir
          <5>2. Exists(d, 1, r) /\ d.tree[1][r].kind = "dir"
            BY <4>1, <5>1 DEF Exists, HasNode, IsDir, HasDir
          <5> QED BY <1>6, <4>1, <4>2, <5>2
        <4>3. CASE IsPrefix(r, p) /\ r # p
          <5>1. r \in PrefixesOf[p] \ {p}
            BY <4>1, <4>3 DEF PrefixesOf
          <5> QED BY <5>1 DEF Whole, Walk
        <4> QED BY <1>7, <4>1, <4>2, <4>3, PrefixesComparable, IsPrefixSelf
      <3> QED BY <1>6, <1>7, <2>1, <3>1 DEF Lookup, Walk
    <2>2. CASE ~Exists(d, 1, q)
      <3>1. getattr(d, q) = Absent
        BY <1>4, <1>7, <2>2, TwoBranches
      <3>2. d.tree[1][q] = Absent
        <4>1. d.tree[1][q] \in Entry
          BY <1>1 DEF Sound, Disk, Tree
        <4> QED BY <2>2, <4>1 DEF Exists, HasNode, Entry, Node, Kind
      <3> QED BY <3>1, <3>2 DEF Lookup
    <2> QED BY <2>1, <2>2
  <1> QED BY <1>2, <1>3, <1>4, <1>5, <1>7 DEF Subtree, View, IsDir, HasDir

(* Such a directory is copied up as a whole, unless there is a socket in it. *)
LEMMA CommonWhole ==
    ASSUME OneOverOne(uopt), NEW d, Sound(d), NEW p \in Path, Whole(d, p), NEW env, NoFault(env)
    PROVE  LET c == find_rw_branch_cow_common(d, p, TRUE, env)
           IN  /\ Unseen(d, c.disk)
               /\ \/ /\ c.branch = 0
                     /\ \A q \in Subtree(p) : c.disk.tree[0][q] = View(d)[q]
                  \/ /\ c.branch = -1 /\ c.err = "ENOENT"
                     /\ \E q \in Path : View(d)[q].kind = "sock"
  <1> DEFINE c == find_rw_branch_cow_common(d, p, TRUE, env)
             d1 == path_create(d, u_dirname(p), 1, 0, env).disk
             top == path_create(d1, p, 1, 0, env)
             cp == copy_directory(d1, p, 1, 0, env)
             members == {q \in Subtree(p) : q # p /\ Exists(d1, 1, q)}
             failing == {q \in members : q \in env.fail \/ d1.tree[1][q].kind = "sock"}
             copied == {q \in members \ failing : \A f \in failing : ~Before(env.order, f, q)}
  <1>1. /\ 0 \in Branch /\ 1 \in Branch /\ 1 # 0 /\ ~uopt.rw[1] /\ uopt.cow
        /\ Walk(d, p) /\ ~Exists(d, 0, p) /\ p \in Subtree(p) /\ p \in PrefixesOf[p]
    BY Uppermost, PrefixesOfChild, IsPrefixSelf DEF Whole, OneOverOne, Subtree
  <1>2. /\ Exists(d, 1, p) /\ IsDir(d, 1, p)
        /\ \A q \in PrefixesOf[p] : ~path_hidden(d, q, 0)
        /\ \A q \in Subtree(p) : /\ ~Exists(d, 0, q) /\ ~path_hidden(d, q, 0)
                                 /\ View(d)[q] = d.tree[1][q]
    BY WholeSeen
  <1>3. /\ Sound(d1) /\ d1.tree[1] = d.tree[1] /\ Mirrors(d, d1, p, 1, 0)
        /\ ~Exists(d1, 0, p) /\ Exists(d1, 1, p) /\ top.ok
    BY <1>1, <1>2, ParentsCopied
  <1>4. c = Copied(cow_cp(d, p, 1, 0, TRUE, env), p, 0) /\ cow_cp(d, p, 1, 0, TRUE, env) = cp
    <2>1. find_rorw_branch(d, p) = 1
      BY <1>1, <1>2, TwoBranches
    <2>2. 1 # -1 /\ 0 # -1 /\ find_lowest_rw_branch(1) = 0
      BY <1>1, LowestZero
    <2>3. c = Copied(cow_cp(d, p, 1, 0, TRUE, env), p, 0)
      BY <1>1, <2>1, <2>2 DEF find_rw_branch_cow_common
    <2>4. d.tree[1][p].kind = "dir"
      BY <1>2, PathFacts DEF IsDir, HasDir
    <2> QED BY <2>3, <2>4 DEF cow_cp
  <1> HIDE DEF d1
  <1>5. Mirrors(d, top.disk, p, 1, 0)
    <2>1. IsDir(d1, 1, p)
      BY <1>2, <1>3 DEF IsDir
    <2>2. Mirrors(d1, top.disk, p, 1, 0)
      BY <1>1, <1>3, <2>1, PathCreateMirrors
    <2> HIDE DEF top
    <2> QED BY <1>1, <1>3, <2>2, MirrorsTransitive
  <1>6. /\ Sound(cp.disk) /\ cp.disk.wh = d1.wh
        /\ \A b \in Branch : b # 0 => cp.disk.tree[b] = d1.tree[b]
        /\ cp.err = "OK" => Exists(cp.disk, 0, p)
    BY <1>1, <1>3, CopyDirectoryFacts
  <1>7. /\ \A q \in Path : cp.disk.tree[0][q] = IF q \in copied THEN d1.tree[1][q]
                                               ELSE top.disk.tree[0][q]
        /\ cp.err = IF failing = {} THEN "OK" ELSE "ENOENT"
    <2> DEFINE half == [kind |-> "reg", val |-> NoVal]
               torn == {f \in failing : /\ env.torn /\ d1.tree[1][f].kind = "reg"
                                       /\ \A g \in failing \ {f} : ~Before(env.order, g, f)}
               s == top.disk.tree[0]
               t == [q \in Path |-> IF q \in copied THEN d1.tree[1][q]
                                    ELSE IF q \in torn THEN half ELSE s[q]]
               e == [top.disk EXCEPT !.tree[0] = t]
    <2>1. cp.disk = e /\ cp.err = IF failing = {} THEN "OK"
                                  ELSE IF failing \cap env.fail = {} THEN "ENOENT" ELSE "ENOSPC"
      BY <1>3 DEF copy_directory
    <2>2. torn = {} /\ failing \cap env.fail = {}
      BY DEF NoFault
    <2>3. top.disk \in Disk
      BY <1>5 DEF Mirrors, Sound
    <2> HIDE DEF top, cp, copied, failing, torn, t
    <2>4. e.tree[0] = t
      BY <1>1, <2>3 DEF Disk
    <2>5. \A q \in Path : t[q] = IF q \in copied THEN d1.tree[1][q] ELSE top.disk.tree[0][q]
      BY <2>2 DEF t
    <2> QED BY <2>1, <2>2, <2>4, <2>5
  <1>8. copied \subseteq members /\ members \subseteq Subtree(p) /\ (failing = {} => copied = members)
    OBVIOUS
  <1>9. \A q \in Subtree(p) : q \notin members => q = p \/ ~Exists(d, 1, q)
    BY <1>3 DEF Exists
  <1>10. \A q \in members : q \in failing => d.tree[1][q].kind = "sock"
    BY <1>3 DEF NoFault
  <1>11. failing \subseteq members
    OBVIOUS
  <1> HIDE DEF c, top, cp, members, failing, copied
  <1>12. Unseen(d, cp.disk)
    <2>1. \A b \in Branch : b # 0 => cp.disk.tree[b] = d.tree[b]
      BY <1>3, <1>6 DEF Mirrors
    <2>2. cp.disk.wh = d.wh
      BY <1>3, <1>6 DEF Mirrors
    <2>3. ASSUME NEW q \in Path
          PROVE  \/ cp.disk.tree[0][q] = d.tree[0][q]
                 \/ /\ ~Exists(d, 0, q) /\ cp.disk.tree[0][q] = d.tree[1][q]
                    /\ ~path_hidden(d, q, 0)
      <3>1. CASE q \in copied
        BY <1>2, <1>3, <1>7, <1>8, <3>1
      <3>2. CASE q \notin copied
        BY <1>2, <1>5, <1>7, <3>2 DEF Mirrors
      <3> QED BY <3>1, <3>2
    <2> QED BY <1>1, <1>6, <2>1, <2>2, <2>3, SpreadUnseen
  <1>13. CASE failing = {}
    <2>1. cp.err = "OK" /\ Exists(cp.disk, 0, p)
      BY <1>6, <1>7, <1>13
    <2> DEFINE e == remove_hidden(cp.disk, p, 0)
    <2>2. c = [disk |-> e, branch |-> 0, err |-> "OK"]
      BY <1>4, <2>1 DEF Copied
    <2>3. Sound(e) /\ e.tree = cp.disk.tree
      BY <1>6, RemoveHidden
    <2>4. \A q \in Path : e.wh[0][q] = d.wh[0][q]
      <3>1. \A q \in Path : cp.disk.wh[0][q] = d.wh[0][q]
        BY <1>12 DEF Unseen
      <3>2. \A q \in Path : e.wh[0][q] \in {cp.disk.wh[0][q], "none"}
        BY <1>1, <1>6, RemoveHidden
      <3>3. \A q \in Path : q # p => e.wh[0][q] = cp.disk.wh[0][q]
        <4>1. PICK t, w : cp.disk = [tree |-> t, wh |-> w] /\ w \in [Branch -> [Path -> {"none", "file", "dir"}]]
          BY <1>6 DEF Sound, Disk
        <4>2. e.wh = [b \in Branch |-> IF b <= 0 THEN [w[b] EXCEPT ![p] = "none"] ELSE w[b]]
          BY <1>1, <4>1 DEF remove_hidden
        <4>3. e.wh[0] = [w[0] EXCEPT ![p] = "none"] /\ cp.disk.wh = w
          BY <1>1, <4>1, <4>2
        <4> QED BY <1>1, <4>1, <4>3
      <3>4. d.wh[0][p] = "none"
        BY <1>1 DEF Whole
      <3> QED BY <3>1, <3>2, <3>3, <3>4
    <2> HIDE DEF e
    <2>5. Unseen(cp.disk, e)
      <3>1. \A q \in Path : e.wh[0][q] = cp.disk.wh[0][q]
        BY <1>12, <2>4 DEF Unseen
      <3> QED BY <1>6, <2>3, <3>1, SpreadUnseen
    <2>6. Unseen(d, e)
      BY <1>12, <2>5, UnseenTransitive
    <2>7. ASSUME NEW q \in Subtree(p) PROVE e.tree[0][q] = d.tree[1][q]
      <3>1. q \in Path
        BY DEF Subtree
      <3>2. CASE q \in members
        BY <1>3, <1>7, <1>8, <1>13, <2>3, <3>1, <3>2
      <3>3. CASE q = p
        <4>1. e.tree[0][p] = d.tree[0][p] \/ e.tree[0][p] = d.tree[1][p]
          BY <2>6 DEF Unseen
        <4> QED BY <1>1, <2>1, <2>3, <3>3, <4>1, PathFacts DEF Exists, HasNode
      <3>4. CASE ~Exists(d, 1, q)
        <4>1. e.tree[0][q] = d.tree[0][q] \/ e.tree[0][q] = d.tree[1][q]
          BY <2>6, <3>1 DEF Unseen
        <4>2. d.tree[0][q] \in Entry /\ d.tree[1][q] \in Entry
          BY <1>1, <3>1 DEF Sound, Disk, Tree
        <4>3. d.tree[0][q] = Absent /\ d.tree[1][q] = Absent
          BY <1>2, <3>4, <4>2 DEF Exists, HasNode, Entry, Node, Kind
        <4> QED BY <4>1, <4>3
      <3> QED BY <1>9, <3>2, <3>3, <3>4
    <2>8. c.disk = e /\ c.branch = 0
      BY <2>2
    <2>9. Unseen(d, c.disk) /\ \A q \in Subtree(p) : c.disk.tree[0][q] = View(d)[q]
      BY <1>2, <2>6, <2>7, <2>8
    <2> QED BY <2>8, <2>9 DEF c
  <1>14. CASE failing # {}
    <2>1. cp.err = "ENOENT"
      BY <1>7, <1>14
    <2>2. c = [disk |-> cp.disk, branch |-> -1, err |-> "ENOENT"]
      BY <1>4, <2>1 DEF Copied
    <2>3. PICK q \in failing : TRUE
      BY <1>14
    <2>4. q \in Subtree(p) /\ d.tree[1][q].kind = "sock"
      BY <1>8, <1>10, <1>11, <2>3
    <2>5. q \in Path /\ View(d)[q].kind = "sock"
      BY <1>2, <2>4 DEF Subtree
    <2>6. Unseen(d, c.disk) /\ c.branch = -1 /\ c.err = "ENOENT"
      BY <1>12, <2>2
    <2> QED BY <2>5, <2>6 DEF c
  <1> QED BY <1>13, <1>14

(* What is on branch 0 is seen. *)
LEMMA OnTop ==
    ASSUME NEW d, Sound(d), NEW q \in Path, Exists(d, 0, q)
    PROVE  Lookup(d, q) = d.tree[0][q]
  <1>1. 0 \in Branch /\ IsTree(d.tree[0]) /\ \A r \in Path : Exists(d, 0, r) => getattr(d, r) = d.tree[0][r]
    BY Uppermost DEF Sound, WellFormed, getattr
  <1>2. ASSUME NEW r \in PrefixesOf[q] \ {q} PROVE getattr(d, r).kind = "dir"
    <2>1. r \in Path /\ IsPrefix(r, q) /\ r # q /\ r # Root
      BY PathFacts DEF PrefixesOf
    <2>2. HasDir(d.tree[0], r)
      BY <1>1, <2>1, AncestorDirs DEF Exists
    <2> QED BY <1>1, <2>1, <2>2 DEF HasDir, Exists, HasNode
  <1> QED BY <1>1, <1>2 DEF Lookup, Walk

(* rename(2) on branch 0, and the two whiteouts, are seen as a rename. *)
LEMMA MoveSeen ==
    ASSUME OneOverOne(uopt), NEW d, Sound(d), NEW from \in Path, NEW to \in Path,
           ~IsPrefix(from, to), ~IsPrefix(to, from), Lookup(d, from).kind # "none",
           NEW e, Unseen(d, e), \A q \in Subtree(from) : e.tree[0][q] = View(d)[q],
           Lookup(d, from).kind = "dir" /\ 1 \in Branch => ~Exists(d, 1, to),
           RenameErr(e, 0, from, to) = "OK",
           NEW mode \in {"file", "dir"}, NEW env, NoFault(env)
    PROVE  LET g == [e EXCEPT !.tree[0] = Graft(e.tree[0], from, to)]
           IN  View(remove_hidden(maybe_whiteout(g, from, 0, mode, env).disk, to, 0))
                   = Graft(View(d), from, to)
  <1> DEFINE g == [e EXCEPT !.tree[0] = Graft(e.tree[0], from, to)]
             h == maybe_whiteout(g, from, 0, mode, env).disk
             f == remove_hidden(h, to, 0)
             t == Graft(e.tree[0], from, to)
             s == Graft(View(d), from, to)
             src(q) == Source(from, to, q)
  <1>1. /\ 0 \in Branch /\ uopt.rw[0] /\ uopt.cow /\ from # Root /\ to # Root /\ from # to
        /\ IsPrefix(from, from) /\ IsPrefix(to, to)
    BY Uppermost, PathFacts, IsPrefixSelf DEF OneOverOne
  <1>2. Sound(e) /\ Sound(g) /\ g.wh = e.wh
    BY <1>1, GraftBranch DEF Unseen
  <1>3. g.tree[0] = t /\ \A b \in Branch : b # 0 => g.tree[b] = e.tree[b]
    <2>1. e.tree \in [Branch -> Tree] /\ e \in Disk
      BY <1>2 DEF Sound, Disk
    <2> HIDE DEF t
    <2>2. g.tree = [e.tree EXCEPT ![0] = t]
      BY <2>1 DEF Disk, t
    <2> HIDE DEF g
    <2> QED BY <1>1, <2>1, <2>2
  <1>4. /\ \A q \in Path : IsPrefix(to, q) =>
              t[q] = IF src(q) \in Path THEN e.tree[0][src(q)] ELSE Absent
        /\ \A q \in Path : ~IsPrefix(to, q) => t[q] = IF IsPrefix(from, q) THEN Absent ELSE e.tree[0][q]
    BY DEF Graft
  <1>5. /\ \A q \in Path : IsPrefix(to, q) =>
              s[q] = IF src(q) \in Path THEN View(d)[src(q)] ELSE Absent
        /\ \A q \in Path : ~IsPrefix(to, q) => s[q] = IF IsPrefix(from, q) THEN Absent ELSE View(d)[q]
        /\ s = [q \in Path |-> s[q]]
    BY DEF Graft
  <1> HIDE DEF g, t, s
  <1>6. ASSUME NEW q \in Path, IsPrefix(to, q), src(q) \in Path
        PROVE  src(q) \in Subtree(from)
    <2>1. /\ from \in Seq(Name) /\ to \in Seq(Name) /\ q \in Seq(Name) /\ src(q) \in Seq(Name)
          /\ Len(from) \in Nat /\ Len(to) \in Nat /\ Len(q) \in Nat
      BY <1>6, PathSeq
    <2>2. Len(to) <= Len(q)
      BY <1>6, <2>1, PrefixPointwise
    <2>3. /\ Len(src(q)) = Len(from) + (Len(q) - Len(to))
          /\ \A i \in 1 .. Len(from) + (Len(q) - Len(to)) :
                src(q)[i] = IF i <= Len(from) THEN from[i] ELSE q[Len(to) + (i - Len(from))]
      BY <1>6, SourceFacts
    <2>4. Len(from) <= Len(src(q)) /\ \A i \in 1 .. Len(from) : from[i] = src(q)[i]
      <3> HIDE DEF src
      <3> QED BY <2>1, <2>2, <2>3
    <2>5. IsPrefix(from, src(q))
      BY <2>1, <2>4, PrefixPointwise
    <2> QED BY <1>6, <2>5 DEF Subtree
  <1> HIDE DEF src
  <1>7. \A q \in Path : IsPrefix(to, q) => t[q] = s[q]
    BY <1>4, <1>5, <1>6
  <1>8. /\ h.tree = g.tree /\ Differs(g, h, from) /\ Sound(h)
        /\ 1 \in Branch /\ Exists(g, 1, from) => path_hidden(h, from, 0)
    <2>1. ~Exists(g, 0, from)
      BY <1>1, <1>3, <1>4 DEF Exists, HasNode, Absent
    <2> QED BY <1>1, <1>2, <2>1, WhiteoutHides, MaybeWhiteout
  <1> HIDE DEF h
  <1>9. /\ Sound(f) /\ f.tree = g.tree
        /\ \A q \in Path : q # to => f.wh[0][q] = h.wh[0][q]
    <2>1. Sound(f) /\ f.tree = h.tree
      BY <1>8, RemoveHidden
    <2>2. PICK x, w : h = [tree |-> x, wh |-> w] /\ w \in [Branch -> [Path -> {"none", "file", "dir"}]]
      BY <1>8 DEF Sound, Disk
    <2>3. f.wh = [b \in Branch |-> IF b <= 0 THEN [w[b] EXCEPT ![to] = "none"] ELSE w[b]]
      BY <1>1, <2>2 DEF remove_hidden
    <2>4. f.wh[0] = [w[0] EXCEPT ![to] = "none"] /\ h.wh = w
      BY <1>1, <2>2, <2>3
    <2> QED BY <1>1, <1>8, <2>1, <2>2, <2>4
  <1> HIDE DEF f
  <1>10. /\ f.tree[0] = t /\ \A b \in Branch : b # 0 => f.tree[b] = d.tree[b]
         /\ t \in Tree /\ IsTree(t)
    BY <1>1, <1>2, <1>3, <1>9 DEF Unseen, Sound, Disk, WellFormed
  <1>11. ASSUME NEW q \in Path, IsPrefix(to, q) PROVE Lookup(f, q) = s[q]
    <2>1. CASE Exists(f, 0, q)
      BY <1>7, <1>9, <1>10, <1>11, <2>1, OnTop
    <2>2. CASE ~Exists(f, 0, q)
      <3>1. t[q] = Absent
        <4>1. t[q] \in Entry /\ t[q].kind = "none"
          BY <1>10, <2>2 DEF Exists, HasNode, Tree
        <4> QED BY <4>1 DEF Entry, Node, Kind
      <3>2. CASE Lookup(d, from).kind = "dir"
        <4>1. 1 \in Branch => ~Exists(f, 1, q)
          <5>1. ASSUME 1 \in Branch, Exists(f, 1, q) PROVE FALSE
            <6>1. 1 # 0
              OBVIOUS
            <6>2. f.tree[1] = d.tree[1] /\ IsTree(d.tree[1])
              BY <1>10, <5>1, <6>1 DEF Sound, WellFormed
            <6>3. Exists(d, 1, to)
              BY <1>11, <5>1, <6>2, Ancestors DEF Exists
            <6> QED BY <3>2, <5>1, <6>3
          <5> QED BY <5>1
        <4>2. getattr(f, q) = Absent
          BY <2>2, <4>1, TwoBranches
        <4> QED BY <1>7, <1>11, <3>1, <4>2 DEF Lookup
      <3>3. CASE Lookup(d, from).kind # "dir"
        <4>1. src(to) = from
          BY SourceOfTarget DEF src
        <4>2. t[to] = Lookup(d, from)
          <5>1. View(d)[from] = Lookup(d, from) /\ from \in Subtree(from)
            BY <1>1 DEF View, Subtree
          <5> QED BY <1>1, <1>4, <4>1, <5>1
        <4>3. Exists(f, 0, to)
          BY <1>10, <4>2 DEF Exists, HasNode
        <4>4. getattr(f, to) = t[to] /\ q # to
          BY <1>10, <2>2, <4>3, TwoBranches
        <4>5. Lookup(f, q) = Absent
          BY <1>11, <3>3, <4>2, <4>4, SeenBelow
        <4> QED BY <1>7, <1>11, <3>1, <4>5
      <3> QED BY <3>2, <3>3
    <2> QED BY <2>1, <2>2
  <1>12. ASSUME NEW q \in Path, ~IsPrefix(to, q), IsPrefix(from, q)
         PROVE  Lookup(f, q) = s[q]
    <2>1. s[q] = Absent /\ t[q] = Absent /\ q # Root
      BY <1>4, <1>5, <1>12, PathFacts
    <2>2. ~Exists(f, 0, q)
      BY <1>10, <2>1 DEF Exists, HasNode, Absent
    <2>3. ASSUME 1 \in Branch, Exists(f, 1, q) PROVE path_hidden(f, q, 0)
      <3>1. f.tree[1] = g.tree[1] /\ IsTree(g.tree[1])
        BY <1>2, <1>9, <2>3 DEF Sound, WellFormed
      <3>2. Exists(g, 1, from)
        BY <1>12, <2>3, <3>1, Ancestors DEF Exists
      <3>3. PICK r \in PrefixesOf[from] : h.wh[0][r] # "none"
        BY <1>8, <2>3, <3>2 DEF path_hidden
      <3>4. r \in Path /\ r # to /\ r \in PrefixesOf[q]
        <4>1. r \in Path /\ IsPrefix(r, from)
          BY <3>3 DEF PrefixesOf
        <4> QED BY <1>12, <4>1, PrefixTransitive DEF PrefixesOf
      <3> QED BY <1>1, <1>9, <3>3, <3>4 DEF path_hidden
    <2>4. getattr(f, q) = Absent
      BY <2>2, <2>3, TwoBranches
    <2> QED BY <2>1, <2>4 DEF Lookup
  <1>13. ASSUME NEW q \in Path, ~IsPrefix(to, q), ~IsPrefix(from, q)
         PROVE  getattr(f, q) = getattr(d, q)
    <2>1. \A b \in Branch : f.tree[b][q] = e.tree[b][q]
      BY <1>3, <1>4, <1>9, <1>13
    <2>2. ASSUME NEW r \in PrefixesOf[q] PROVE f.wh[0][r] = e.wh[0][r]
      <3>1. r \in Path /\ r # to /\ r # from
        BY <1>13 DEF PrefixesOf
      <3> QED BY <1>2, <1>8, <1>9, <3>1 DEF Differs
    <2>3. getattr(f, q) = getattr(e, q)
      BY <2>1, <2>2, Unaffected
    <2> QED BY <2>3 DEF Unseen
  <1>14. ASSUME NEW q \in Path, ~IsPrefix(to, q), ~IsPrefix(from, q)
         PROVE  Lookup(f, q) = s[q]
    <2>1. ASSUME NEW r \in PrefixesOf[q] PROVE getattr(f, r) = getattr(d, r)
      <3>1. r \in Path /\ ~IsPrefix(to, r) /\ ~IsPrefix(from, r)
        <4>1. r \in Path /\ IsPrefix(r, q)
          BY DEF PrefixesOf
        <4> QED BY <1>14, <4>1, PrefixTransitive
      <3> QED BY <1>13, <3>1
    <2>2. Lookup(f, q) = Lookup(d, q)
      BY <1>13, <1>14, <2>1 DEF Lookup, Walk
    <2> QED BY <1>5, <1>14, <2>2 DEF View
  <1>15. \A q \in Path : Lookup(f, q) = s[q]
    BY <1>11, <1>12, <1>14
  <1>16. View(f) = [q \in Path |-> Lookup(f, q)]
    BY DEF View
  <1>17. View(f) = s
    BY <1>5, <1>15, <1>16
  <1> QED BY <1>17 DEF f, h, g, s

(* What is copied up alone. *)
LEMMA CommonFile ==
    ASSUME NEW d, NEW p, NEW env, getattr(d, p).kind # "dir"
    PROVE  find_rw_branch_cow_common(d, p, TRUE, env) = find_rw_branch_cow(d, p, env)
  <1> DEFINE i == find_rorw_branch(d, p)
             rw == find_lowest_rw_branch(i)
  <1>1. i # -1 => cow_cp(d, p, i, rw, TRUE, env) = cow_cp(d, p, i, rw, FALSE, env)
    BY DEF cow_cp, getattr
  <1> QED BY <1>1 DEF find_rw_branch_cow, find_rw_branch_cow_common

(* Before rename(2) both ends are on branch 0: all that is at and below    *)
(* from, and the directory of to.                                          *)
LEMMA ReadyToMove ==
    ASSUME TypeOK, OneOverOne(uopt), NEW from \in Path, NEW to \in Path,
           RenameAllowed(from, to), SafeDirRename(from, to), NEW env, NoFault(env)
    PROVE  LET c == find_rw_branch_cutlast(fs, to, env)
               w == find_rw_branch_cow_common(c.disk, from, TRUE, env)
           IN  /\ c.branch = 0 /\ Unseen(fs, w.disk)
               /\ \/ /\ w.branch = 0 /\ RenameErr(w.disk, 0, from, to) = "OK"
                     /\ \A q \in Subtree(from) : w.disk.tree[0][q] = View(fs)[q]
                  \/ /\ w.branch = -1 /\ w.err = "ENOENT"
                     /\ \E q \in Path : View(fs)[q].kind = "sock"
  <1> DEFINE c == find_rw_branch_cutlast(fs, to, env)
             d == c.disk
             w == find_rw_branch_cow_common(d, from, TRUE, env)
             e == w.disk
  <1>1. /\ Lookup(fs, from).kind # "none" /\ Walk(fs, to) /\ 0 \in Branch
        /\ ~IsPrefix(from, to) /\ ~IsPrefix(to, from) /\ from # Root /\ to # Root
        /\ Lookup(fs, to).kind # "none" =>
              (Lookup(fs, from).kind = "dir") = (Lookup(fs, to).kind = "dir")
    BY PathFacts, Uppermost DEF RenameAllowed
  <1>2. Sound(fs) /\ Walk(fs, from) /\ Lookup(fs, from) = getattr(fs, from)
    BY <1>1, SoundFs DEF Lookup, Absent
  <1>3. CopiedOn(fs, d, to) /\ c.branch = 0 /\ IsDir(d, 0, u_dirname(to))
    BY <1>1, <1>2, CutlastZero
  <1>4. Unseen(fs, d) /\ Sound(d) /\ View(d) = View(fs)
    BY <1>2, <1>3, CopiedUnseen, UnseenView DEF CopiedOn
  <1>5. Walk(d, from) /\ getattr(d, from) = getattr(fs, from)
    BY <1>2, <1>4 DEF Unseen, Walk, PrefixesOf
  <1>6. \A q \in Path : View(fs)[q] = Lookup(fs, q)
    BY DEF View
  <1>7. \A q \in Subtree(from) : d.tree[0][q] = fs.tree[0][q]
    <2>1. ASSUME NEW q \in Subtree(from), q \in PrefixesOf[to] PROVE FALSE
      BY <1>1, <2>1, PrefixTransitive DEF PrefixesOf, Subtree
    <2> QED BY <1>3, <2>1 DEF CopiedOn, Mirrors, Subtree
  <1> HIDE DEF c
  (* the copying of from *)
  <1>8. /\ Unseen(d, e)
        /\ \/ /\ w.branch = 0
              /\ \A q \in Subtree(from) : e.tree[0][q] = View(fs)[q]
           \/ /\ w.branch = -1 /\ w.err = "ENOENT"
              /\ \E q \in Path : View(fs)[q].kind = "sock"
    <2>1. CASE Lookup(fs, from).kind # "dir"
      <3>1. w = find_rw_branch_cow(d, from, env)
        BY <1>2, <1>5, <2>1, CommonFile
      <3>2. /\ CopiedOn(d, e, from)
            /\ \/ w.branch = 0 /\ Exists(e, 0, from)
               \/ w.branch = -1 /\ w.err = "ENOENT" /\ getattr(d, from).kind \in {"none", "sock"}
        <4> DEFINE a == find_rw_branch_cow(d, from, env)
        <4>1. /\ CopiedOn(d, a.disk, from)
              /\ \/ a.branch = 0 /\ a.err = "OK" /\ Exists(a.disk, 0, from)
                 \/ a.branch = -1 /\ a.err = "ENOENT" /\ getattr(d, from).kind \in {"none", "sock"}
          BY <1>4, <1>5, CowZero
        <4> HIDE DEF w, a
        <4>2. w = a
          BY <3>1 DEF a
        <4> QED BY <4>1, <4>2
      <3> HIDE DEF w
      <3>3. Unseen(d, e) /\ Sound(e)
        BY <1>4, <3>2, CopiedUnseen DEF CopiedOn
      <3>4. CASE w.branch = 0 /\ Exists(e, 0, from)
        <4>1. e.tree[0][from] = getattr(d, from)
          BY <3>3, <3>4, TwoBranches DEF Unseen
        <4>2. IsTree(e.tree[0]) /\ e.tree[0] \in Tree
          BY <1>1, <3>3 DEF Sound, WellFormed, Disk
        <4>3. ASSUME NEW q \in Path, IsPrefix(from, q), q # from
              PROVE  e.tree[0][q] = View(fs)[q]
          <5>1. View(fs)[q] = Absent
            BY <1>2, <1>6, <2>1, <4>3, SeenBelow
          <5>2. ~HasNode(e.tree[0], q)
            BY <1>1, <1>2, <1>5, <2>1, <4>1, <4>2, <4>3, AncestorDirs DEF HasDir
          <5>3. e.tree[0][q] \in Entry /\ e.tree[0][q].kind = "none"
            BY <4>2, <5>2 DEF HasNode, Tree
          <5> QED BY <5>1, <5>3 DEF Entry, Node, Kind
        <4>4. e.tree[0][from] = View(fs)[from]
          BY <1>2, <1>5, <1>6, <4>1
        <4> QED BY <3>3, <3>4, <4>3, <4>4 DEF Subtree
      <3>5. CASE w.branch = -1 /\ w.err = "ENOENT" /\ getattr(d, from).kind \in {"none", "sock"}
        BY <1>1, <1>2, <1>5, <1>6, <3>3, <3>5
      <3> QED BY <3>2, <3>4, <3>5
    <2>2. CASE Lookup(fs, from).kind = "dir" /\ Exists(fs, 0, from)
      <3>1. from \in Subtree(from)
        BY IsPrefixSelf DEF Subtree
      <3>2. Exists(d, 0, from)
        BY <1>7, <2>2, <3>1 DEF Exists, HasNode
      <3>3. w = [disk |-> d, branch |-> 0, err |-> "OK"]
        <4>1. find_rorw_branch(d, from) = 0 /\ uopt.rw[0] /\ 0 # -1
          BY <3>2, TwoBranches DEF OneOverOne
        <4> QED BY <4>1 DEF find_rw_branch_cow_common
      <3>4. ASSUME NEW q \in Subtree(from) PROVE d.tree[0][q] = View(fs)[q]
        <4>1. q \in Path /\ IsPrefix(from, q)
          BY DEF Subtree
        <4>2. CASE Exists(fs, 0, q)
          BY <1>2, <1>6, <1>7, <4>1, <4>2, OnTop
        <4>3. CASE ~Exists(fs, 0, q)
          <5>1. 1 \in Branch => ~Exists(fs, 1, q)
            <6>1. 1 # 0
              OBVIOUS
            <6>2. 1 \in Branch => ~Exists(fs, 1, from)
              BY <1>1, <2>2, <6>1 DEF SafeDirRename
            <6>3. 1 \in Branch => IsTree(fs.tree[1])
              BY <1>2 DEF Sound, WellFormed
            <6> QED BY <4>1, <6>2, <6>3, Ancestors DEF Exists
          <5>2. getattr(fs, q) = Absent
            BY <4>3, <5>1, TwoBranches
          <5>3. fs.tree[0][q] \in Entry /\ fs.tree[0][q].kind = "none"
            BY <1>1, <1>2, <4>1, <4>3 DEF Exists, HasNode, Sound, Disk, Tree
          <5>4. fs.tree[0][q] = Absent
            BY <5>3 DEF Entry, Node, Kind
          <5> QED BY <1>6, <1>7, <4>1, <5>2, <5>4 DEF Lookup
        <4> QED BY <4>2, <4>3
      <3>5. Unseen(d, d)
        BY <1>4 DEF Unseen
      <3> HIDE DEF w
      <3>6. w.branch = 0 /\ e = d
        BY <3>3
      <3> QED BY <3>4, <3>5, <3>6
    <2>3. CASE Lookup(fs, from).kind = "dir" /\ ~Exists(fs, 0, from)
      <3>1. from \in Subtree(from)
        BY IsPrefixSelf DEF Subtree
      <3>2. ~Exists(d, 0, from)
        BY <1>7, <2>3, <3>1 DEF Exists, HasNode
      <3>3. 1 \in Branch
        BY <1>2, <2>3, TwoBranches DEF Absent
      <3>4. \A q \in Subtree(from) : d.wh[0][q] = "none"
        <4>1. \A q \in Subtree(from) : q \in Path /\ fs.wh[0][q] = "none"
          BY <1>1, <2>3 DEF SafeDirRename, Subtree
        <4> QED BY <1>4, <4>1 DEF Unseen
      <3>5. Whole(d, from)
        BY <1>2, <1>5, <2>3, <3>2, <3>3, <3>4 DEF Whole
      <3>6. /\ Unseen(d, e)
            /\ \/ /\ w.branch = 0
                  /\ \A q \in Subtree(from) : e.tree[0][q] = View(d)[q]
               \/ /\ w.branch = -1 /\ w.err = "ENOENT"
                  /\ \E q \in Path : View(d)[q].kind = "sock"
        BY <1>4, <3>5, CommonWhole
      <3> HIDE DEF w
      <3> QED BY <1>4, <3>6
    <2> QED BY <2>1, <2>2, <2>3
  <1> HIDE DEF w
  <1>9. Unseen(fs, e)
    BY <1>4, <1>8, UnseenTransitive
  <1>10. RenameErr(e, 0, from, to) = "OK" \/ w.branch # 0
    <2> SUFFICES ASSUME w.branch = 0 PROVE RenameErr(e, 0, from, to) = "OK"
      OBVIOUS
    <2>1. \A q \in Subtree(from) : e.tree[0][q] = View(fs)[q]
      BY <1>8, 0 # -1
    <2>2. IsDir(e, 0, u_dirname(to)) /\ Exists(e, 0, u_dirname(to))
      <3>1. CASE u_dirname(to) = Root
        BY <3>1 DEF IsDir, HasDir, Exists, HasNode
      <3>2. CASE u_dirname(to) # Root
        <4>1. u_dirname(to) \in Path /\ d.tree[0][u_dirname(to)].kind = "dir"
          BY <1>3, <3>2, PathFacts DEF IsDir, HasDir
        <4>2. e.tree[0][u_dirname(to)] = d.tree[0][u_dirname(to)]
          BY <1>8, <4>1 DEF Unseen, Exists, HasNode
        <4> QED BY <4>1, <4>2 DEF IsDir, HasDir, Exists, HasNode
      <3> QED BY <3>1, <3>2
    <2>3. CASE ~Exists(e, 0, to)
      BY <2>2, <2>3 DEF RenameErr
    <2>4. CASE Exists(e, 0, to)
      <3>1. e.tree[0][to] = Lookup(fs, to)
        BY <1>1, <1>9, <2>4, TwoBranches DEF Unseen, Lookup
      <3>2. Lookup(fs, to).kind # "none"
        BY <1>1, <2>4, <3>1 DEF Exists, HasNode
      <3>3. e.tree[0][from] = Lookup(fs, from)
        BY <1>6, <2>1, IsPrefixSelf DEF Subtree
      <3>4. CASE Lookup(fs, from).kind = "dir"
        <4>1. \A b \in Branch : ~Exists(fs, b, to)
          BY <3>4 DEF SafeDirRename
        <4>2. getattr(fs, to) = Absent
          BY <1>1, <4>1, TwoBranches
        <4> QED BY <1>1, <3>2, <4>2 DEF Lookup, Absent
      <3>5. CASE Lookup(fs, from).kind # "dir"
        <4>1. Lookup(fs, to).kind # "dir"
          BY <1>1, <3>2, <3>5
        <4>2. ~IsDir(e, 0, from) /\ ~IsDir(e, 0, to)
          BY <1>1, <3>1, <3>3, <3>5, <4>1 DEF IsDir, HasDir
        <4> QED BY <2>2, <4>2 DEF RenameErr
      <3> QED BY <3>4, <3>5
    <2> QED BY <2>3, <2>4
  <1>11. \/ /\ w.branch = 0 /\ RenameErr(e, 0, from, to) = "OK"
            /\ \A q \in Subtree(from) : e.tree[0][q] = View(fs)[q]
         \/ /\ w.branch = -1 /\ w.err = "ENOENT"
            /\ \E q \in Path : View(fs)[q].kind = "sock"
    BY <1>8, <1>10
  <1> QED BY <1>3, <1>9, <1>11 DEF w, c

LEMMA RenameTree ==
    ASSUME TypeOK, OneOverOne(uopt), ~AnyDirRename, NEW from \in Path, NEW to \in Path,
           NEW env, NoFault(env), rename(from, to, env)
    PROVE  Tree1!Next
  <1> DEFINE c == find_rw_branch_cutlast(fs, to, env)
             w == find_rw_branch_cow_common(c.disk, from, TRUE, env)
             e == w.disk
             mode == IF IsDir(e, 0, from) THEN "dir" ELSE "file"
             g == [e EXCEPT !.tree[0] = Graft(e.tree[0], from, to)]
             f == remove_hidden(maybe_whiteout(g, from, 0, mode, env).disk, to, 0)
             t == Lookup(fs, to)
  <1>1. RenameAllowed(from, to) /\ SafeDirRename(from, to)
    BY DEF rename
  <1>2. /\ c.branch = 0 /\ Unseen(fs, e)
        /\ \/ /\ w.branch = 0 /\ RenameErr(e, 0, from, to) = "OK"
              /\ \A q \in Subtree(from) : e.tree[0][q] = View(fs)[q]
           \/ /\ w.branch = -1 /\ w.err = "ENOENT"
              /\ \E q \in Path : View(fs)[q].kind = "sock"
    BY <1>1, ReadyToMove
  <1>3. IF w.branch = -1 THEN Return("rename", from, e, w.err)
        ELSE IF w.branch # c.branch THEN Return("rename", from, e, "EXDEV")
        ELSE Move(from, to, w, env)
    <2>1. c.branch # -1
      BY <1>2
    <2> QED BY <2>1 DEF rename
  <1> HIDE DEF w, c
  <1>4. CASE w.branch = -1
    <2>1. Return("rename", from, e, "ENOENT") /\ \E q \in Path : Lookup(fs, q).kind = "sock"
      BY <1>2, <1>3, <1>4 DEF View
    <2>2. View(e) = View(fs) /\ "rename" \in Op
      BY <1>2, UnseenView DEF Op
    <2> QED BY <2>1, <2>2, RefuseSocket
  <1>5. CASE w.branch # -1
    <2>1. /\ w.branch = 0 /\ RenameErr(e, 0, from, to) = "OK"
          /\ \A q \in Subtree(from) : e.tree[0][q] = View(fs)[q]
      BY <1>2, <1>5
    <2>2. Return("rename", from, f, "OK")
      <3>1. Move(from, to, w, env)
        BY <1>2, <1>3, <1>5, <2>1
      <3> QED BY <2>1, <3>1 DEF Move
    <2>3. /\ Lookup(fs, from).kind # "none" /\ Walk(fs, to)
          /\ ~IsPrefix(from, to) /\ ~IsPrefix(to, from) /\ from # Root /\ to # Root
          /\ t.kind # "none" => (Lookup(fs, from).kind = "dir") = (t.kind = "dir")
      BY <1>1, PathFacts DEF RenameAllowed
    <2>4. Lookup(fs, from).kind = "dir" => \A b \in Branch : ~Exists(fs, b, to)
      BY <1>1 DEF SafeDirRename
    <2>5. Sound(fs) /\ mode \in {"file", "dir"}
      BY SoundFs
    <2> HIDE DEF mode
    <2>6. View(f) = Graft(View(fs), from, to)
      BY <1>2, <2>1, <2>3, <2>4, <2>5, MoveSeen
    <2> HIDE DEF f
    <2>7. /\ View(fs)' = Graft(View(fs), from, to)
          /\ ret' = [op |-> "rename", path |-> from, res |-> "OK"]
      BY <2>2, <2>6, ViewNext DEF Return
    <2>8. HasNode(View(fs), from) /\ HasDir(View(fs), u_dirname(to))
      BY <2>3, WalkedDir DEF HasNode, View
    <2>9. ASSUME HasNode(View(fs), to)
          PROVE  /\ Tree1!HasDir(View(fs), from) = Tree1!HasDir(View(fs), to)
                 /\ Tree1!Empty(to)
      <3>1. t.kind # "none" /\ Lookup(fs, to) = getattr(fs, to)
        BY <2>3, <2>9 DEF HasNode, View, Lookup
      <3>2. Lookup(fs, from).kind # "dir"
        <4>1. ASSUME \A b \in Branch : ~Exists(fs, b, to) PROVE FALSE
          <5>1. getattr(fs, to) = Absent
            BY <4>1, Uppermost, TwoBranches
          <5> QED BY <3>1, <5>1 DEF Absent
        <4> QED BY <2>4, <4>1
      <3>3. t.kind # "dir"
        BY <2>3, <3>1, <3>2
      <3>4. Tree1!HasDir(View(fs), from) = FALSE /\ Tree1!HasDir(View(fs), to) = FALSE
        BY <2>3, <3>2, <3>3 DEF Tree1!HasDir, Tree1!Root, Root, View
      <3>5. ASSUME NEW q \in Children(to) PROVE ~HasNode(View(fs), q)
        <4>1. q \in Path /\ u_dirname(q) = to /\ q # Root
          BY PathFacts DEF Children
        <4>2. IsPrefix(to, q) /\ to # q
          <5>1. to # q
            BY <4>1, PrefixesOfChild, IsPrefixSelf DEF PrefixesOf
          <5> QED BY <4>1, <5>1, IsPrefixChild, IsPrefixSelf
        <4>3. Lookup(fs, q) = Absent
          BY <3>1, <3>3, <4>1, <4>2, SeenBelow
        <4> QED BY <4>1, <4>3 DEF HasNode, View, Absent
      <3> QED BY <3>4, <3>5, SameHelpers DEF Tree1!Empty
    <2>10. Tree1!Rename(from, to)
      BY <2>7, <2>8, <2>9, SameHelpers DEF Tree1!Rename, Tree1!Answer
    <2> QED BY <2>7, <2>10 DEF Tree1!Next, Tree1!Call
  <1> QED BY <1>4, <1>5

(***************************************************************************)
(* The handlers implement the one-tree view: in a mount of one writable    *)
(* branch above at most one read-only branch, with copy-on-write and any   *)
(* contents and whiteouts to begin with, every call has its POSIX effect   *)
(* on what the user sees or is refused and has none, whatever was copied   *)
(* up or hidden before, and no error but those of TreeView is returned     *)
(* (fuse_operations.c, readrmdir.c, general.c).  Directories are renamed   *)
(* where SafeDirRename holds, and nothing fails on the branches.           *)
(***************************************************************************)
THEOREM UnionIsOneTree ==
    ASSUME \A m \in Mounts : OneOverOne(m.uopt), \A env \in Envs : NoFault(env), ~AnyDirRename
    PROVE  Spec => ImplementsTreeView
  <1>1. Init => OneOverOne(uopt)
    BY DEF Init
  <1>2. OneOverOne(uopt) /\ [Next]_vars => OneOverOne(uopt)'
    BY OptionsStay DEF OneOverOne
  <1>3. Init /\ TypeOK => Tree1!Init
    <2>1. TypeOK => View(fs) \in Tree /\ IsTree(View(fs))
      BY SoundFs, ViewTree
    <2>2. Init => ret.res = "OK"
      BY DEF Init
    <2> QED BY <2>1, <2>2, SameHelpers DEF Tree1!Init
  <1>4. TypeOK /\ OneOverOne(uopt) /\ [Next]_vars => [Tree1!Next]_(Tree1!tvars)
    <2>1. ASSUME TypeOK, OneOverOne(uopt), NEW p \in Path, NEW env \in Envs, Handler(p, env)
          PROVE  Tree1!Next
      <3>1. NoFault(env)
        OBVIOUS
      <3>2. CASE \E v \in Val : chmod(p, v, env) \/ chown(p, v, env) \/ utimens(p, v, env)
                                \/ truncate(p, v, env)
        <4>1. PICK v \in Val, op \in SetAttrOp : Lookup(fs, p).kind # "none" /\ SetAttr(op, p, v, env)
          BY <3>2 DEF chmod, chown, utimens, truncate, SetAttrOp
        <4> QED BY <2>1, <3>1, <4>1, SetAttrTree
      <3>3. CASE \E v \in Val : \/ create(p, v, env) \/ mkdir(p, v, env) \/ symlink(p, v, env)
                                \/ \E kind \in {"reg", "spec", "sock"} : mknod(p, kind, v, env)
        BY <2>1, <3>1, <3>3, CreateTree, MkdirTree, SymlinkTree, MknodTree
      <3>4. CASE open(p, env) \/ unlink(p, env) \/ rmdir(p, env)
        BY <2>1, <3>1, <3>4, OpenTree, UnlinkTree, RmdirTree
      <3> QED BY <2>1, <3>2, <3>3, <3>4 DEF Handler
    <2>2. ASSUME TypeOK, OneOverOne(uopt), NEW p \in Path, NEW to \in Path, NEW env \in Envs,
                 rename(p, to, env)
          PROVE  Tree1!Next
      <3>1. NoFault(env)
        OBVIOUS
      <3> QED BY <2>2, <3>1, RenameTree
    <2>3. ASSUME UNCHANGED vars PROVE UNCHANGED Tree1!tvars
      <3>1. UNCHANGED uopt /\ fs' = fs /\ ret' = ret
        BY <2>3 DEF vars
      <3>2. View(fs)' = View(fs)
        BY <3>1, ViewNext
      <3> QED BY <3>1, <3>2 DEF Tree1!tvars
    <2> QED BY <2>1, <2>2, <2>3 DEF Next
  <1> QED BY <1>1, <1>2, <1>3, <1>4, Types, PTL DEF Spec, ImplementsTreeView, Tree1!Spec
=============================================================================
