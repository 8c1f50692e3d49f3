-------------------------- MODULE UlakeFuseProofs --------------------------
(***************************************************************************)
(* Every handler of UlakeFuse, whatever fails, leaves trees on all         *)
(* branches; what a listing shows is what the lookups find; what is        *)
(* mounted read-only is not written; and a copy is not seen.               *)
(***************************************************************************)
EXTENDS UlakeUnion, UlakeCowProofs

\* a handler answers in this way if it leaves the disk d
Answer(d, res) == Sound(d) /\ res \in Errno \cup {"OK"}

(* Every handler ends in Return. *)
LEMMA ReturnType ==
    ASSUME TypeOK, NEW op \in Op, NEW p \in Path, NEW d, NEW res, Answer(d, res),
           Return(op, p, d, res)
    PROVE  TypeOK'
  BY DEF TypeOK, Return, Answer, Sound

(* The disk of a state is sound. *)
LEMMA SoundFs ==
    ASSUME TypeOK
    PROVE  Sound(fs) /\ uopt \in Options
  BY DEF TypeOK, Sound

(* ReplaceNode, for Put. *)
LEMMA PutEntry ==
    ASSUME NEW d, Sound(d), NEW b \in Branch, NEW p \in Path, NEW node \in Entry,
           node.kind # "none" => IsDir(d, b, u_dirname(p)),
           node.kind = "dir" \/ \A q \in Children(p) : ~Exists(d, b, q)
    PROVE  LET e == Put(d, b, p, node)
           IN  Sound(e) /\ e.wh = d.wh /\ (uopt.rw[b] => SameReadOnly(d, e))
  BY ReplaceNode DEF Put

(* Putting a node into a directory where there was none, or none but a file. *)
LEMMA PutNode ==
    ASSUME NEW d, Sound(d), NEW b \in Branch, NEW p \in Path, NEW node \in Node,
           IsDir(d, b, u_dirname(p)), d.tree[b][p].kind # "dir"
    PROVE  LET e == Put(d, b, p, node)
           IN  Sound(e) /\ e.wh = d.wh /\ (uopt.rw[b] => SameReadOnly(d, e))
  <1>1. \A c \in Children(p) : ~Exists(d, b, c)
    BY NothingBelow DEF Sound, WellFormed, Exists
  <1>2. node \in Entry /\ node.kind # "none"
    BY DEF Entry, Node, Kind
  <1> QED BY <1>1, <1>2, PutEntry

(* Removing a node that has nothing below it. *)
LEMMA RemoveNode ==
    ASSUME NEW d, Sound(d), NEW b \in Branch, NEW p \in Path,
           \A c \in Children(p) : ~Exists(d, b, c)
    PROVE  LET e == Put(d, b, p, Absent)
           IN  Sound(e) /\ e.wh = d.wh /\ (uopt.rw[b] => SameReadOnly(d, e))
  <1>1. Absent \in Entry /\ Absent.kind = "none"
    BY DEF Entry, Absent
  <1> QED BY <1>1, PutEntry

(* A system call that makes an entry succeeds only in a directory. *)
LEMMA NewErrOK ==
    ASSUME NEW d, NEW b, NEW p \in Path
    PROVE  /\ NewErr(d, b, p) \in Errno \cup {"OK"}
           /\ NewErr(d, b, p) = "OK" => IsDir(d, b, u_dirname(p)) /\ d.tree[b][p].kind # "dir"
           /\ OpenErr(d, b, p) \in Errno \cup {"OK"}
           /\ OpenErr(d, b, p) = "OK" => IsDir(d, b, u_dirname(p)) /\ d.tree[b][p].kind # "dir"
  <1>1. NewErr(d, b, p) \in Errno \cup {"OK"}
    BY DEF NewErr, Errno
  <1>2. NewErr(d, b, p) \in {"OK", "EEXIST"} => IsDir(d, b, u_dirname(p))
    BY DEF NewErr
  <1>3. NewErr(d, b, p) = "OK" => d.tree[b][p].kind # "dir"
    BY PathFacts DEF NewErr, Exists, HasNode
  <1>4. OpenErr(d, b, p) \in Errno \cup {"OK"}
    BY <1>1 DEF OpenErr, Errno
  <1>5. OpenErr(d, b, p) = "OK" => /\ NewErr(d, b, p) \in {"OK", "EEXIST"}
                                   /\ NewErr(d, b, p) = "OK" \/ d.tree[b][p].kind # "dir"
    BY DEF OpenErr
  <1> QED BY <1>1, <1>2, <1>3, <1>4, <1>5

(* A handler that gives up after preparing the disk. *)
LEMMA ReturnPrepared ==
    ASSUME TypeOK, NEW op \in Op, NEW p \in Path, NEW d, Prepared(fs, d),
           NEW res \in Errno \cup {"OK"}, Return(op, p, d, res)
    PROVE  TypeOK' /\ ReadOnlyKept(fs, fs')
  <1>1. TypeOK'
    BY ReturnType DEF Answer, Prepared
  <1>2. fs' = d
    BY DEF Return
  <1> QED BY <1>1, <1>2 DEF Prepared, SameReadOnly, ReadOnlyKept

(* A handler that changes a tree of the prepared disk and its whiteouts. *)
LEMMA ReturnChanged ==
    ASSUME TypeOK, NEW op \in Op, NEW p \in Path, NEW d, Prepared(fs, d),
           NEW e, Sound(e), e.wh = d.wh, NEW f, NEW q \in Path, NEW b,
           f \in {e, remove_hidden(e, q, b)}, Return(op, p, f, "OK")
    PROVE  TypeOK' /\ (SameReadOnly(d, e) => ReadOnlyKept(fs, fs'))
  <1>1. /\ Sound(f) /\ f.tree = e.tree
        /\ \A k \in Branch, r \in Path : f.wh[k][r] \in {e.wh[k][r], "none"}
    BY RemoveHidden
  <1>2. TypeOK' /\ fs' = f
    BY <1>1, ReturnType DEF Answer, Return
  <1>3. \A k \in Branch, r \in Path : d.wh[k][r] \in {fs.wh[k][r], "none"}
    BY DEF Prepared
  <1>4. \A k \in Branch, r \in Path : f.wh[k][r] \in {fs.wh[k][r], "none"}
    BY <1>1, <1>3
  <1> QED BY <1>1, <1>2, <1>4 DEF Prepared, SameReadOnly, ReadOnlyKept

\* p, which no lookup finds, was made on the read-only branch that was found for it
MadeReadOnly(op, p, env) ==
    /\ ret' = [op |-> op, path |-> p, res |-> "OK"]
    /\ ~Writable(p, env)
    /\ ReadOnlyKeptBut(fs, fs', p)

(* A handler that puts a node on the prepared disk, wherever that is.      *)
LEMMA ReturnMade ==
    ASSUME NEW op, NEW p \in Path, NEW d, Prepared(fs, d), NEW b, NEW node,
           NEW e, e = Put(d, b, p, node), NEW f, f \in {e, remove_hidden(e, p, b)},
           Return(op, p, f, "OK")
    PROVE  /\ ReadOnlyKeptBut(fs, fs', p)
           /\ ret' = [op |-> op, path |-> p, res |-> "OK"]
  <1>1. d \in Disk /\ e.wh = d.wh /\ d.wh \in [Branch -> [Path -> {"none", "file", "dir"}]]
    BY DEF Prepared, Sound, Disk, Put
  <1>2. \A k \in Branch, q \in Path : q # p => e.tree[k][q] = d.tree[k][q]
    BY <1>1 DEF Put, Disk, Tree
  <1>3. /\ f.tree = e.tree
        /\ \A k \in Branch, q \in Path : f.wh[k][q] \in {e.wh[k][q], "none"}
    <2> DEFINE t == [d.tree EXCEPT ![b][p] = node]
    <2>1. e = [tree |-> t, wh |-> d.wh]
      BY <1>1 DEF Put, Disk
    <2> HIDE DEF t
    <2>2. CASE uopt.cow /\ f # e
      <3> DEFINE w == [k \in Branch |->
                         IF k <= b THEN [e.wh[k] EXCEPT ![p] = "none"] ELSE e.wh[k]]
      <3>1. f = [e EXCEPT !.wh = w]
        BY <2>2 DEF remove_hidden
      <3>2. \A k \in Branch, q \in Path : w[k][q] \in {e.wh[k][q], "none"}
        BY <1>1
      <3> HIDE DEF w
      <3> QED BY <2>1, <3>1, <3>2
    <2>3. CASE f = e
      BY <2>3
    <2> QED BY <2>2, <2>3 DEF remove_hidden
  <1>4. \A k \in Branch : ~uopt.rw[k] => d.tree[k] = fs.tree[k]
    BY DEF Prepared, SameReadOnly
  <1>5. \A k \in Branch, q \in Path : d.wh[k][q] \in {fs.wh[k][q], "none"}
    BY DEF Prepared
  <1>6. fs' = f /\ ret' = [op |-> op, path |-> p, res |-> "OK"]
    BY DEF Return
  <1>7. \A k \in Branch, q \in Path : f.wh[k][q] \in {fs.wh[k][q], "none"}
    BY <1>1, <1>3, <1>5
  <1> QED BY <1>2, <1>3, <1>4, <1>6, <1>7 DEF ReadOnlyKeptBut

-----------------------------------------------------------------------------
(* One lemma per handler.                                                  *)

(* chmod, chown, utimens and truncate. *)
LEMMA SetAttrType ==
    ASSUME TypeOK, NEW op \in Op, NEW p \in Path, NEW v \in Val, NEW env, SetAttr(op, p, v, env)
    PROVE  TypeOK' /\ ReadOnlyKept(fs, fs')
  <1> DEFINE c == find_rw_branch_cow(fs, p, env)
             b == c.branch
             node == [c.disk.tree[b][p] EXCEPT !.val = v]
             e == [c.disk EXCEPT !.tree[b][p].val = v]
             f == Put(c.disk, b, p, node)
  <1>1. /\ Prepared(fs, c.disk)
        /\ b \in Branch \cup {-1}
        /\ b # -1 => uopt.rw[b] /\ Exists(c.disk, b, p)
        /\ c.err \in Errno \cup {"OK"}
    BY SoundFs, RwBranchCow
  <1>2. CASE b = -1
    <2>1. Return(op, p, c.disk, c.err)
      BY <1>2 DEF SetAttr
    <2> HIDE DEF c
    <2> QED BY <1>1, <2>1, ReturnPrepared
  <1>3. CASE b # -1
    <2>1. Return(op, p, e, "OK")
      BY <1>3 DEF SetAttr
    <2>2. e = f
      BY DEF Put
    <2> HIDE DEF c, e
    <2>3. b \in Branch /\ uopt.rw[b] /\ Sound(c.disk) /\ Exists(c.disk, b, p)
      BY <1>1, <1>3 DEF Prepared
    <2>4. c.disk.tree[b] \in Tree /\ IsTree(c.disk.tree[b])
      BY <2>3 DEF Sound, Disk, WellFormed
    <2>5. c.disk.tree[b][p].kind # "none" /\ IsDir(c.disk, b, u_dirname(p))
      BY <2>3, <2>4, PathFacts DEF Exists, HasNode, IsTree, IsDir
    <2>6. c.disk.tree[b][p] \in Node
      BY <2>4, <2>5 DEF Tree, Entry, Absent
    <2>7. node \in Entry /\ node.kind = c.disk.tree[b][p].kind
      BY <2>6 DEF Node, Entry
    <2>8. node.kind = "dir" \/ \A q \in Children(p) : ~Exists(c.disk, b, q)
      BY <2>4, <2>7, NothingBelow DEF Exists
    <2> HIDE DEF node
    <2>9. Sound(f) /\ SameReadOnly(c.disk, f) /\ f.wh = c.disk.wh
      BY <2>3, <2>5, <2>7, <2>8, PutEntry
    <2> HIDE DEF f, b
    <2> QED BY <1>1, <2>1, <2>2, <2>9, ReturnChanged
  <1> QED BY <1>2, <1>3

(* create makes a regular file or opens the one that is there. *)
LEMMA CreateType ==
    ASSUME TypeOK, NEW p \in Path, NEW v \in Val, NEW env, create(p, v, env)
    PROVE  TypeOK' /\ (ReadOnlyKept(fs, fs') \/ MadeReadOnly("create", p, env))
  <1> DEFINE c == find_rw_branch_cutlast(fs, p, env)
             b == c.branch
             err == OpenErr(c.disk, b, p)
             d == Put(c.disk, b, p, [kind |-> "reg", val |-> v])
  <1>1. /\ Prepared(fs, c.disk)
        /\ b \in Branch \cup {-1}
        /\ c.err \in Errno \cup {"OK"}
    BY SoundFs, Cutlast
  <1>2. IF b = -1 THEN Return("create", p, c.disk, c.err)
        ELSE IF err # "OK" THEN Return("create", p, c.disk, err)
        ELSE Return("create", p, remove_hidden(d, p, b), "OK")
    BY DEF create, Made
  <1>3. "create" \in Op
    BY DEF Op
  <1>4. Writable(p, env) <=> (b # -1 => uopt.rw[b])
    BY DEF Writable
  <1>5. /\ err \in Errno \cup {"OK"}
        /\ b # -1 /\ err = "OK" =>
              Sound(d) /\ d.wh = c.disk.wh /\ (uopt.rw[b] => SameReadOnly(c.disk, d))
    <2>1. Sound(c.disk) /\ (b # -1 => b \in Branch)
      BY <1>1 DEF Prepared
    <2>2. [kind |-> "reg", val |-> v] \in Node
      BY DEF Node, Kind
    <2>3. /\ err \in Errno \cup {"OK"}
          /\ err = "OK" => IsDir(c.disk, b, u_dirname(p)) /\ c.disk.tree[b][p].kind # "dir"
      BY NewErrOK
    <2> HIDE DEF c, err
    <2> QED BY <2>1, <2>2, <2>3, PutNode
  <1> HIDE DEF c, d, err
  <1>6. CASE b = -1 \/ err # "OK"
    BY <1>1, <1>2, <1>3, <1>5, <1>6, ReturnPrepared
  <1>7. CASE b # -1 /\ err = "OK"
    <2>1. TypeOK' /\ (uopt.rw[b] => ReadOnlyKept(fs, fs'))
      BY <1>1, <1>2, <1>3, <1>5, <1>7, ReturnChanged
    <2>2. /\ ReadOnlyKeptBut(fs, fs', p)
          /\ ret' = [op |-> "create", path |-> p, res |-> "OK"]
      BY <1>1, <1>2, <1>7, ReturnMade DEF d
    <2> QED BY <1>4, <1>7, <2>1, <2>2 DEF MadeReadOnly
  <1> QED BY <1>6, <1>7

(* mkdir makes a directory. *)
LEMMA MkdirType ==
    ASSUME TypeOK, NEW p \in Path, NEW v \in Val, NEW env, mkdir(p, v, env)
    PROVE  TypeOK' /\ (ReadOnlyKept(fs, fs') \/ MadeReadOnly("mkdir", p, env))
  <1> DEFINE c == find_rw_branch_cutlast(fs, p, env)
             b == c.branch
             err == NewErr(c.disk, b, p)
             d == Put(c.disk, b, p, [kind |-> "dir", val |-> v])
  <1>1. /\ Prepared(fs, c.disk)
        /\ b \in Branch \cup {-1}
        /\ c.err \in Errno \cup {"OK"}
    BY SoundFs, Cutlast
  <1>2. IF b = -1 THEN Return("mkdir", p, c.disk, c.err)
        ELSE IF err # "OK" THEN Return("mkdir", p, c.disk, err)
        ELSE Return("mkdir", p, d, "OK")
    BY DEF mkdir, Made
  <1>3. "mkdir" \in Op
    BY DEF Op
  <1>4. Writable(p, env) <=> (b # -1 => uopt.rw[b])
    BY DEF Writable
  <1>5. /\ err \in Errno \cup {"OK"}
        /\ b # -1 /\ err = "OK" =>
              Sound(d) /\ d.wh = c.disk.wh /\ (uopt.rw[b] => SameReadOnly(c.disk, d))
    <2>1. Sound(c.disk) /\ (b # -1 => b \in Branch)
      BY <1>1 DEF Prepared
    <2>2. [kind |-> "dir", val |-> v] \in Node
      BY DEF Node, Kind
    <2>3. /\ err \in Errno \cup {"OK"}
          /\ err = "OK" => IsDir(c.disk, b, u_dirname(p)) /\ c.disk.tree[b][p].kind # "dir"
      BY NewErrOK
    <2> HIDE DEF c, err
    <2> QED BY <2>1, <2>2, <2>3, PutNode
  <1> HIDE DEF c, d, err
  <1>6. CASE b = -1 \/ err # "OK"
    BY <1>1, <1>2, <1>3, <1>5, <1>6, ReturnPrepared
  <1>7. CASE b # -1 /\ err = "OK"
    <2>1. TypeOK' /\ (uopt.rw[b] => ReadOnlyKept(fs, fs'))
      BY <1>1, <1>2, <1>3, <1>5, <1>7, ReturnChanged
    <2>2. /\ ReadOnlyKeptBut(fs, fs', p)
          /\ ret' = [op |-> "mkdir", path |-> p, res |-> "OK"]
      BY <1>1, <1>2, <1>7, ReturnMade DEF d
    <2> QED BY <1>4, <1>7, <2>1, <2>2 DEF MadeReadOnly
  <1> QED BY <1>6, <1>7

(* mknod makes a node that is no directory. *)
LEMMA MknodType ==
    ASSUME TypeOK, NEW p \in Path, NEW kind \in {"reg", "spec", "sock"}, NEW v \in Val,
           NEW env, mknod(p, kind, v, env)
    PROVE  TypeOK' /\ (ReadOnlyKept(fs, fs') \/ MadeReadOnly("mknod", p, env))
  <1> DEFINE c == find_rw_branch_cutlast(fs, p, env)
             b == c.branch
             err == IF kind = "reg" THEN OpenErr(c.disk, b, p) ELSE NewErr(c.disk, b, p)
             d == Put(c.disk, b, p, [kind |-> kind, val |-> v])
  <1>1. /\ Prepared(fs, c.disk)
        /\ b \in Branch \cup {-1}
        /\ c.err \in Errno \cup {"OK"}
    BY SoundFs, Cutlast
  <1>2. IF b = -1 THEN Return("mknod", p, c.disk, c.err)
        ELSE IF err # "OK" THEN Return("mknod", p, c.disk, err)
        ELSE Return("mknod", p, remove_hidden(d, p, b), "OK")
    BY DEF mknod, Made
  <1>3. "mknod" \in Op
    BY DEF Op
  <1>4. Writable(p, env) <=> (b # -1 => uopt.rw[b])
    BY DEF Writable
  <1>5. /\ err \in Errno \cup {"OK"}
        /\ b # -1 /\ err = "OK" =>
              Sound(d) /\ d.wh = c.disk.wh /\ (uopt.rw[b] => SameReadOnly(c.disk, d))
    <2>1. Sound(c.disk) /\ (b # -1 => b \in Branch)
      BY <1>1 DEF Prepared
    <2>2. [kind |-> kind, val |-> v] \in Node
      BY DEF Node, Kind
    <2>3. /\ err \in Errno \cup {"OK"}
          /\ err = "OK" => IsDir(c.disk, b, u_dirname(p)) /\ c.disk.tree[b][p].kind # "dir"
      BY NewErrOK
    <2> HIDE DEF c, err
    <2> QED BY <2>1, <2>2, <2>3, PutNode
  <1> HIDE DEF c, d, err
  <1>6. CASE b = -1 \/ err # "OK"
    BY <1>1, <1>2, <1>3, <1>5, <1>6, ReturnPrepared
  <1>7. CASE b # -1 /\ err = "OK"
    <2>1. TypeOK' /\ (uopt.rw[b] => ReadOnlyKept(fs, fs'))
      BY <1>1, <1>2, <1>3, <1>5, <1>7, ReturnChanged
    <2>2. /\ ReadOnlyKeptBut(fs, fs', p)
          /\ ret' = [op |-> "mknod", path |-> p, res |-> "OK"]
      BY <1>1, <1>2, <1>7, ReturnMade DEF d
    <2> QED BY <1>4, <1>7, <2>1, <2>2 DEF MadeReadOnly
  <1> QED BY <1>6, <1>7

(* symlink makes a link. *)
LEMMA SymlinkType ==
    ASSUME TypeOK, NEW p \in Path, NEW v \in Val, NEW env, symlink(p, v, env)
    PROVE  TypeOK' /\ (ReadOnlyKept(fs, fs') \/ MadeReadOnly("symlink", p, env))
  <1> DEFINE c == find_rw_branch_cutlast(fs, p, env)
             b == c.branch
             err == NewErr(c.disk, b, p)
             d == Put(c.disk, b, p, [kind |-> "spec", val |-> v])
  <1>1. /\ Prepared(fs, c.disk)
        /\ b \in Branch \cup {-1}
        /\ c.err \in Errno \cup {"OK"}
    BY SoundFs, Cutlast
  <1>2. IF b = -1 THEN Return("symlink", p, c.disk, c.err)
        ELSE IF err # "OK" THEN Return("symlink", p, c.disk, err)
        ELSE Return("symlink", p, remove_hidden(d, p, b), "OK")
    BY DEF symlink, Made
  <1>3. "symlink" \in Op
    BY DEF Op
  <1>4. Writable(p, env) <=> (b # -1 => uopt.rw[b])
    BY DEF Writable
  <1>5. /\ err \in Errno \cup {"OK"}
        /\ b # -1 /\ err = "OK" =>
              Sound(d) /\ d.wh = c.disk.wh /\ (uopt.rw[b] => SameReadOnly(c.disk, d))
    <2>1. Sound(c.disk) /\ (b # -1 => b \in Branch)
      BY <1>1 DEF Prepared
    <2>2. [kind |-> "spec", val |-> v] \in Node
      BY DEF Node, Kind
    <2>3. /\ err \in Errno \cup {"OK"}
          /\ err = "OK" => IsDir(c.disk, b, u_dirname(p)) /\ c.disk.tree[b][p].kind # "dir"
      BY NewErrOK
    <2> HIDE DEF c, err
    <2> QED BY <2>1, <2>2, <2>3, PutNode
  <1> HIDE DEF c, d, err
  <1>6. CASE b = -1 \/ err # "OK"
    BY <1>1, <1>2, <1>3, <1>5, <1>6, ReturnPrepared
  <1>7. CASE b # -1 /\ err = "OK"
    <2>1. TypeOK' /\ (uopt.rw[b] => ReadOnlyKept(fs, fs'))
      BY <1>1, <1>2, <1>3, <1>5, <1>7, ReturnChanged
    <2>2. /\ ReadOnlyKeptBut(fs, fs', p)
          /\ ret' = [op |-> "symlink", path |-> p, res |-> "OK"]
      BY <1>1, <1>2, <1>7, ReturnMade DEF d
    <2> QED BY <1>4, <1>7, <2>1, <2>2 DEF MadeReadOnly
  <1> QED BY <1>6, <1>7

(* open for writing copies up. *)
LEMMA OpenType ==
    ASSUME TypeOK, NEW p \in Path, NEW env, open(p, env)
    PROVE  TypeOK' /\ ReadOnlyKept(fs, fs')
  <1> DEFINE c == find_rw_branch_cutlast(fs, p, env)
             b == c.branch
             err == IF Exists(c.disk, b, p) THEN OpenErr(c.disk, b, p) ELSE "ENOENT"
             d == c.disk
  <1>1. /\ Prepared(fs, c.disk)
        /\ b \in Branch \cup {-1}
        /\ c.err \in Errno \cup {"OK"}
    BY SoundFs, Cutlast
  <1>2. IF b = -1 THEN Return("open", p, c.disk, c.err)
        ELSE IF err # "OK" THEN Return("open", p, c.disk, err)
        ELSE Return("open", p, remove_hidden(d, p, b), "OK")
    BY DEF open, Made
  <1>3. "open" \in Op
    BY DEF Op
  <1>5. /\ err \in Errno \cup {"OK"}
        /\ b # -1 /\ err = "OK" =>
              Sound(d) /\ d.wh = c.disk.wh /\ SameReadOnly(c.disk, d)
    <2>1. err \in Errno \cup {"OK"}
      BY NewErrOK DEF Errno
    <2> HIDE DEF c, err
    <2> QED BY <1>1, <2>1 DEF Prepared, SameReadOnly
  <1> HIDE DEF c, d, err
  <1>6. CASE b = -1 \/ err # "OK"
    BY <1>1, <1>2, <1>3, <1>5, <1>6, ReturnPrepared
  <1>7. CASE b # -1 /\ err = "OK"
    BY <1>1, <1>2, <1>3, <1>5, <1>7, ReturnChanged
  <1> QED BY <1>6, <1>7

(* What the kernel has found is on the branch that answers for it. *)
LEMMA Found ==
    ASSUME NEW p \in Path, Lookup(fs, p).kind # "none"
    PROVE  LET i == find_rorw_branch(fs, p)
           IN  i \in Branch /\ Answers(fs, p, i) /\ Lookup(fs, p) = fs.tree[i][p] /\ Walk(fs, p)
  <1>1. Walk(fs, p) /\ Lookup(fs, p) = getattr(fs, p) /\ find_rorw_branch(fs, p) # -1
    BY DEF Lookup, getattr, Absent
  <1> QED BY <1>1, FindType DEF getattr

(* unlink and rmdir remove p from a branch, or make a whiteout, or do nothing. *)
LEMMA ReturnRemoved ==
    ASSUME TypeOK, NEW op \in Op, NEW p \in Path, NEW i \in Branch, uopt.rw[i],
           \A c \in Children(p) : ~Exists(fs, i, c), NEW mode \in {"file", "dir"}, NEW env,
           Return(op, p, maybe_whiteout(Put(fs, i, p, Absent), p, i, mode, env).disk, "OK")
    PROVE  TypeOK' /\ ReadOnlyKept(fs, fs')
  <1> DEFINE d == Put(fs, i, p, Absent)
             e == maybe_whiteout(d, p, i, mode, env).disk
  <1>1. Sound(d) /\ d.wh = fs.wh /\ SameReadOnly(fs, d)
    BY SoundFs, RemoveNode
  <1> HIDE DEF d
  <1>2. Sound(e) /\ e.tree = d.tree /\ \A c \in Branch : c # i => e.wh[c] = d.wh[c]
    BY <1>1, MaybeWhiteout
  <1> HIDE DEF e
  <1>3. Return(op, p, e, "OK")
    BY DEF d, e
  <1>4. TypeOK' /\ fs' = e
    BY <1>2, <1>3, ReturnType DEF Answer, Return
  <1> QED BY <1>1, <1>2, <1>4 DEF SameReadOnly, ReadOnlyKept

(* unlink and rmdir of what is on a read-only branch make a whiteout. *)
LEMMA ReturnHidden ==
    ASSUME TypeOK, NEW op \in Op, NEW p \in Path, NEW i \in Branch, uopt.rw[i],
           NEW mode \in {"file", "dir"}, NEW env, NEW res,
           res \in {do_create_whiteout(fs, p, i, mode, env).err, "EFAULT"},
           Return(op, p, do_create_whiteout(fs, p, i, mode, env).disk, res)
    PROVE  TypeOK' /\ ReadOnlyKept(fs, fs')
  <1> DEFINE e == do_create_whiteout(fs, p, i, mode, env)
  <1>1. /\ Sound(e.disk) /\ e.disk.tree = fs.tree
        /\ \A c \in Branch : c # i => e.disk.wh[c] = fs.wh[c]
        /\ e.err \in {"OK", "ENOENT", "ENOSPC", "EISDIR", "EEXIST"}
    BY SoundFs, CreateWhiteout
  <1> HIDE DEF e
  <1>2. Return(op, p, e.disk, res) /\ res \in {e.err, "EFAULT"}
    BY DEF e
  <1>3. res \in Errno \cup {"OK"}
    BY <1>1, <1>2 DEF Errno
  <1>4. TypeOK' /\ fs' = e.disk
    BY <1>1, <1>2, <1>3, ReturnType DEF Answer, Return
  <1> QED BY <1>1, <1>4 DEF ReadOnlyKept

(* A handler that does nothing. *)
LEMMA ReturnNothing ==
    ASSUME TypeOK, NEW op \in Op, NEW p \in Path, NEW res \in Errno \cup {"OK"},
           Return(op, p, fs, res)
    PROVE  TypeOK' /\ ReadOnlyKept(fs, fs')
  <1>1. Prepared(fs, fs)
    BY SoundFs DEF Prepared, SameReadOnly
  <1> QED BY <1>1, ReturnPrepared

(* unlink *)
LEMMA UnlinkType ==
    ASSUME TypeOK, NEW p \in Path, NEW env, unlink(p, env)
    PROVE  TypeOK' /\ ReadOnlyKept(fs, fs')
  <1> DEFINE i == find_rorw_branch(fs, p)
             up == find_lowest_rw_branch(i)
             hide == do_create_whiteout(fs, p, up, "file", env)
  <1>1. /\ Lookup(fs, p).kind \notin {"none", "dir"}
        /\ IF uopt.rw[i]
           THEN Return("unlink", p,
                       maybe_whiteout(Put(fs, i, p, Absent), p, i, "file", env).disk, "OK")
           ELSE IF ~uopt.cow THEN Return("unlink", p, fs, "EROFS")
           ELSE IF up = -1 THEN Return("unlink", p, fs, "EACCES")
           ELSE Return("unlink", p, hide.disk, hide.err)
    BY DEF unlink
  <1>2. i \in Branch /\ fs.tree[i][p].kind # "dir"
    BY <1>1, Found
  <1>3. \A c \in Children(p) : ~Exists(fs, i, c)
    BY <1>2, SoundFs, NothingBelow DEF Sound, WellFormed, Exists
  <1>4. up # -1 => up \in Branch /\ uopt.rw[up]
    BY <1>2, LowestRw
  <1>5. "unlink" \in Op /\ "EROFS" \in Errno /\ "EACCES" \in Errno
    BY DEF Op, Errno
  <1> HIDE DEF i, up
  <1>6. CASE uopt.rw[i]
    BY <1>1, <1>2, <1>3, <1>5, <1>6, ReturnRemoved
  <1>7. CASE ~uopt.rw[i] /\ (~uopt.cow \/ up = -1)
    BY <1>1, <1>5, <1>7, ReturnNothing
  <1>8. CASE ~uopt.rw[i] /\ ~(~uopt.cow \/ up = -1)
    BY <1>1, <1>4, <1>5, <1>8, ReturnHidden
  <1> QED BY <1>6, <1>7, <1>8

(* rmdir *)
LEMMA RmdirType ==
    ASSUME TypeOK, NEW p \in Path, NEW env, rmdir(p, env)
    PROVE  TypeOK' /\ ReadOnlyKept(fs, fs')
  <1> DEFINE i == find_rorw_branch(fs, p)
             up == find_lowest_rw_branch(i)
             hide == do_create_whiteout(fs, p, up, "dir", env)
             res == IF hide.err = "EEXIST" THEN "EFAULT" ELSE hide.err
             removed == maybe_whiteout(Put(fs, i, p, Absent), p, i, "dir", env).disk
  <1>1. /\ Lookup(fs, p).kind = "dir"
        /\ IF dir_not_empty(fs, p) THEN Return("rmdir", p, fs, "ENOTEMPTY")
           ELSE IF uopt.rw[i]
           THEN IF RmdirErr(fs, i, p) # "OK" THEN Return("rmdir", p, fs, RmdirErr(fs, i, p))
                ELSE Return("rmdir", p, removed, "OK")
           ELSE IF ~uopt.cow THEN Return("rmdir", p, fs, "EROFS")
           ELSE IF up = -1 THEN Return("rmdir", p, fs, "+EACCES")
           ELSE Return("rmdir", p, hide.disk, res)
    BY DEF rmdir
  <1>2. i \in Branch
    BY <1>1, Found
  <1>3. up # -1 => up \in Branch /\ uopt.rw[up]
    BY <1>2, LowestRw
  <1>4. "rmdir" \in Op /\ {"ENOTEMPTY", "EROFS", "+EACCES"} \subseteq Errno
    BY DEF Op, Errno
  <1>5. RmdirErr(fs, i, p) \in {"OK", "ENOTEMPTY"}
    BY DEF RmdirErr
  <1>6. RmdirErr(fs, i, p) = "OK" => \A c \in Children(p) : ~Exists(fs, i, c)
    BY DEF RmdirErr
  <1>7. res \in {hide.err, "EFAULT"}
    OBVIOUS
  <1> HIDE DEF i, up, res
  <1>8. CASE dir_not_empty(fs, p)
    BY <1>1, <1>4, <1>8, ReturnNothing
  <1>9. CASE ~dir_not_empty(fs, p) /\ uopt.rw[i] /\ RmdirErr(fs, i, p) # "OK"
    BY <1>1, <1>4, <1>5, <1>9, ReturnNothing
  <1>10. CASE ~dir_not_empty(fs, p) /\ uopt.rw[i] /\ RmdirErr(fs, i, p) = "OK"
    BY <1>1, <1>2, <1>4, <1>6, <1>10, ReturnRemoved
  <1>11. CASE ~dir_not_empty(fs, p) /\ ~uopt.rw[i] /\ (~uopt.cow \/ up = -1)
    BY <1>1, <1>4, <1>11, ReturnNothing
  <1>12. CASE ~dir_not_empty(fs, p) /\ ~uopt.rw[i] /\ ~(~uopt.cow \/ up = -1)
    BY <1>1, <1>3, <1>4, <1>7, <1>12, ReturnHidden
  <1> QED BY <1>8, <1>9, <1>10, <1>11, <1>12

(* rename(2) on one branch keeps the trees. *)
LEMMA GraftBranch ==
    ASSUME NEW d, Sound(d), NEW b \in Branch, uopt.rw[b], NEW from \in Path, NEW to \in Path,
           ~IsPrefix(from, to), ~IsPrefix(to, from), RenameErr(d, b, from, to) = "OK"
    PROVE  LET e == [d EXCEPT !.tree[b] = Graft(d.tree[b], from, to)]
           IN  Sound(e) /\ e.wh = d.wh /\ SameReadOnly(d, e)
  <1>1. d.tree[b] \in Tree /\ IsTree(d.tree[b])
    BY DEF Sound, Disk, WellFormed
  <1>2. HasDir(d.tree[b], u_dirname(to))
    BY DEF RenameErr, IsDir
  <1>3. Graft(d.tree[b], from, to) \in Tree /\ IsTree(Graft(d.tree[b], from, to))
    BY <1>1, <1>2, GraftTree
  <1> QED BY <1>3, ReplaceTree

(* rename *)
LEMMA RenameType ==
    ASSUME TypeOK, NEW from \in Path, NEW to \in Path, NEW env, rename(from, to, env)
    PROVE  TypeOK' /\ ReadOnlyKept(fs, fs')
  <1> DEFINE c == find_rw_branch_cutlast(fs, to, env)
             w == find_rw_branch_cow_common(c.disk, from, TRUE, env)
             b == w.branch
             mode == IF IsDir(w.disk, b, from) THEN "dir" ELSE "file"
             err == RenameErr(w.disk, b, from, to)
             d1 == [w.disk EXCEPT !.tree[b] = Graft(w.disk.tree[b], from, to)]
             d2 == maybe_whiteout(d1, from, b, mode, env).disk
             d3 == remove_hidden(d2, to, b)
  <1>1. IF c.branch = -1 THEN Return("rename", from, c.disk, c.err)
        ELSE IF b = -1 THEN Return("rename", from, w.disk, w.err)
        ELSE IF b # c.branch THEN Return("rename", from, w.disk, "EXDEV")
        ELSE IF err # "OK" THEN Return("rename", from, w.disk, err)
        ELSE Return("rename", from, d3, "OK")
    BY DEF rename, Move
  <1>2. ~IsPrefix(from, to) /\ ~IsPrefix(to, from)
    BY DEF rename, RenameAllowed
  <1>3. Prepared(fs, c.disk) /\ Sound(c.disk) /\ c.err \in Errno \cup {"OK"}
    BY SoundFs, Cutlast DEF Prepared
  <1>4. /\ Prepared(c.disk, w.disk)
        /\ b \in Branch \cup {-1}
        /\ b # -1 => uopt.rw[b]
        /\ w.err \in Errno \cup {"OK"}
    BY <1>3, CowCommon
  <1>5. "rename" \in Op /\ "EXDEV" \in Errno
    BY DEF Op, Errno
  <1>6. err \in Errno \cup {"OK"}
    BY DEF RenameErr, RmdirErr, Errno
  <1>7. mode \in {"file", "dir"}
    OBVIOUS
  <1> HIDE DEF c, mode, err
  <1>8. CASE c.branch = -1
    BY <1>1, <1>3, <1>5, <1>8, ReturnPrepared
  <1>9. CASE c.branch # -1
    <2> HIDE DEF w
    <2>2. Prepared(fs, w.disk) /\ Sound(w.disk)
      BY <1>3, <1>4, PreparedTransitive DEF Prepared
    <2>3. CASE b = -1 \/ b # c.branch \/ err # "OK"
      BY <1>1, <1>5, <1>6, <1>9, <1>4, <2>2, <2>3, ReturnPrepared
    <2>4. CASE b # -1 /\ b = c.branch /\ err = "OK"
      <3>1. Return("rename", from, d3, "OK") /\ b \in Branch /\ uopt.rw[b]
        BY <1>1, <1>9, <1>4, <2>4
      <3>2. RenameErr(w.disk, b, from, to) = "OK"
        BY <2>4 DEF err
      <3>3. Sound(d1) /\ d1.wh = w.disk.wh /\ SameReadOnly(w.disk, d1)
        BY <1>2, <2>2, <3>1, <3>2, GraftBranch
      <3> HIDE DEF d1
      <3>4. /\ Sound(d2) /\ d2.tree = d1.tree
            /\ \A k \in Branch : k # b => d2.wh[k] = d1.wh[k]
        BY <1>7, <3>1, <3>3, MaybeWhiteout
      <3> HIDE DEF d2
      <3>5. /\ Sound(d3) /\ d3.tree = d2.tree
            /\ \A k \in Branch, q \in Path : d3.wh[k][q] \in {d2.wh[k][q], "none"}
        BY <3>4, RemoveHidden
      <3> HIDE DEF d3, b
      <3>6. TypeOK' /\ fs' = d3
        BY <1>5, <3>1, <3>5, ReturnType DEF Answer, Return
      <3>7. \A k \in Branch : ~uopt.rw[k] => d3.tree[k] = fs.tree[k]
        BY <2>2, <3>3, <3>4, <3>5 DEF Prepared, SameReadOnly
      <3>8. \A k \in Branch, q \in Path : ~uopt.rw[k] => d3.wh[k][q] \in {fs.wh[k][q], "none"}
        <4> SUFFICES ASSUME NEW k \in Branch, NEW q \in Path, ~uopt.rw[k]
                     PROVE  d3.wh[k][q] \in {fs.wh[k][q], "none"}
          OBVIOUS
        <4>1. d2.wh[k] = w.disk.wh[k]
          BY <3>1, <3>3, <3>4
        <4>2. w.disk.wh[k][q] \in {fs.wh[k][q], "none"}
          BY <2>2 DEF Prepared
        <4> QED BY <3>5, <4>1, <4>2
      <3> QED BY <3>6, <3>7, <3>8 DEF ReadOnlyKept
    <2> QED BY <2>3, <2>4
  <1> QED BY <1>8, <1>9

-----------------------------------------------------------------------------
(* The specification.                                                      *)

(* A step of any handler keeps the types, and a handler writes to a        *)
(* read-only branch only the new name that cutlast has sent there.         *)
LEMMA NextType ==
    ASSUME TypeOK, Next
    PROVE  TypeOK' /\ (ReadOnlyKept(fs, fs') \/ \E p \in Path : NewNameLeaks(p))
  <1>1. PICK p \in Path, env \in Envs : Handler(p, env) \/ \E to \in Path : rename(p, to, env)
    BY DEF Next
  <1>2. ASSUME NEW op \in {"create", "mkdir", "mknod", "symlink"}, Negative(p),
               MadeReadOnly(op, p, env)
        PROVE  NewNameLeaks(p)
    BY <1>2 DEF MadeReadOnly, NewNameLeaks
  <1>4. ASSUME NEW v \in Val, chmod(p, v, env) \/ chown(p, v, env)
                              \/ utimens(p, v, env) \/ truncate(p, v, env)
        PROVE  TypeOK' /\ ReadOnlyKept(fs, fs')
    <2>1. PICK op \in Op : SetAttr(op, p, v, env)
      BY <1>4 DEF chmod, chown, utimens, truncate, Op
    <2> QED BY <2>1, SetAttrType
  <1>5. ASSUME NEW v \in Val, create(p, v, env)
        PROVE  TypeOK' /\ (ReadOnlyKept(fs, fs') \/ NewNameLeaks(p))
    BY <1>2, <1>5, CreateType DEF create
  <1>6. ASSUME NEW v \in Val, mkdir(p, v, env)
        PROVE  TypeOK' /\ (ReadOnlyKept(fs, fs') \/ NewNameLeaks(p))
    BY <1>2, <1>6, MkdirType DEF mkdir
  <1>7. ASSUME NEW v \in Val, symlink(p, v, env)
        PROVE  TypeOK' /\ (ReadOnlyKept(fs, fs') \/ NewNameLeaks(p))
    BY <1>2, <1>7, SymlinkType DEF symlink
  <1>8. ASSUME NEW v \in Val, NEW kind \in {"reg", "spec", "sock"}, mknod(p, kind, v, env)
        PROVE  TypeOK' /\ (ReadOnlyKept(fs, fs') \/ NewNameLeaks(p))
    BY <1>2, <1>8, MknodType DEF mknod
  <1>9. ASSUME open(p, env)
        PROVE  TypeOK' /\ ReadOnlyKept(fs, fs')
    BY <1>9, OpenType
  <1>10. ASSUME unlink(p, env) \/ rmdir(p, env)
         PROVE  TypeOK' /\ ReadOnlyKept(fs, fs')
    BY <1>10, UnlinkType, RmdirType
  <1>11. ASSUME NEW to \in Path, rename(p, to, env)
         PROVE  TypeOK' /\ ReadOnlyKept(fs, fs')
    BY <1>11, RenameType
  <1> QED BY <1>1, <1>4, <1>5, <1>6, <1>7, <1>8, <1>9, <1>10, <1>11 DEF Handler

(***************************************************************************)
(* Whatever handlers run and whatever fails on a branch, every branch      *)
(* stays a tree: no path_create, copy-up, rename or rmdir leaves a file    *)
(* without its directory (fuse_operations.c, general.c, readrmdir.c).      *)
(***************************************************************************)
THEOREM Types == Spec => []TypeOK
  <1>1. Init => TypeOK
    BY MountsAssumption DEF Init, TypeOK
  <1>2. TypeOK /\ [Next]_vars => TypeOK'
    <2> SUFFICES ASSUME TypeOK, [Next]_vars PROVE TypeOK'
      OBVIOUS
    <2>1. CASE Next
      BY <2>1, NextType
    <2>2. CASE UNCHANGED vars
      BY <2>2 DEF vars, TypeOK
    <2> QED BY <2>1, <2>2
  <1> QED BY <1>1, <1>2, PTL DEF Spec

(***************************************************************************)
(* A directory listing never disagrees with the lookup of its names, in    *)
(* any state that calls and failures lead to (readrmdir.c:101-177 against  *)
(* general.c:215-259).                                                     *)
(***************************************************************************)
THEOREM Listings == Spec => []ReaddirMatchesLookup
  <1>1. TypeOK => ReaddirMatchesLookup
    <2> SUFFICES ASSUME TypeOK, NEW p \in Path \cup {Root},
                        p = Root \/ Lookup(fs, p).kind = "dir"
                 PROVE  ulakefs_readdir(fs, p) = {c \in Children(p) : Lookup(fs, c).kind # "none"}
      BY DEF ReaddirMatchesLookup
    <2>1. fs \in Disk /\ WellFormed(fs)
      BY DEF TypeOK
    <2>2. ulakefs_readdir(fs, p) \subseteq Children(p)
      BY DEF ulakefs_readdir, Listed
    <2>3. \A c \in Children(p) : c \in ulakefs_readdir(fs, p) <=> Lookup(fs, c).kind # "none"
      BY <2>1, ReaddirFinds, LookupChild
    <2> QED BY <2>2, <2>3
  <1> QED BY <1>1, Types, PTL

(***************************************************************************)
(* On every mount, and whatever fails, nothing is ever written to a        *)
(* read-only branch but the names that find_rw_branch_cutlast has given a  *)
(* read-only branch to, each by the call that makes it (general.c:326).    *)
(***************************************************************************)
THEOREM OnlyCutlastLeaks == Spec => OnlyNewNamesLeak
  <1>1. TypeOK /\ [Next]_vars => [ReadOnlyKept(fs, fs') \/ \E p \in Path : NewNameLeaks(p)]_vars
    BY NextType
  <1> QED BY <1>1, Types, PTL DEF Spec, OnlyNewNamesLeak

(* As long as cutlast answers with writable branches only, no handler      *)
(* writes to a read-only one.                                              *)
LEMMA ReadOnlyOnlyByCutlast == Spec => [][CutlastWritable => ReadOnlyKept(fs, fs')]_vars
  <1>1. ASSUME NEW p \in Path, NewNameLeaks(p)
        PROVE  ~CutlastWritable
    <2>1. Reachable(p)
      BY <1>1, PathFacts DEF NewNameLeaks, Negative, Reachable
    <2> QED BY <1>1, <2>1 DEF NewNameLeaks, CutlastWritable
  <1>2. TypeOK /\ [Next]_vars => [CutlastWritable => ReadOnlyKept(fs, fs')]_vars
    BY <1>1, NextType
  <1> QED BY <1>2, Types, PTL DEF Spec

-----------------------------------------------------------------------------
(* Where a path may be written.                                            *)

\* The uppermost branch is writable if any is, as in -o cow up=RW:low=RO.
WritableFirst(o) == o.cow => \A b \in Branch : o.rw[b] => o.rw[0]

\* Of the branches above a read-only one at most the next is writable.
WritableNext(o) == o.cow => \A i \in Branch : o.rw[i] \/ \A j \in 0 .. i - 2 : ~o.rw[j]

(* There is an uppermost branch, and it answers for all that it has. *)
LEMMA Uppermost ==
    /\ 0 \in Branch
    /\ \A d, p : Exists(d, 0, p) => find_rorw_branch(d, p) = 0
  <1>1. 0 \in Branch
    BY NBranchesAssumption DEF Branch
  <1>2. ASSUME NEW d, NEW p, Exists(d, 0, p)
        PROVE  find_rorw_branch(d, p) = 0
    <2>1. Answers(d, p, 0)
      BY <1>2 DEF Answers
    <2>2. find_rorw_branch(d, p) \in Branch /\ Answers(d, p, find_rorw_branch(d, p))
      BY <1>1, <2>1, FindType
    <2> QED BY <1>1, <2>1, <2>2, AnswersUnique
  <1> QED BY <1>1, <1>2

(* If the uppermost branch is writable it is where things are made. *)
LEMMA LowestIsFirst ==
    ASSUME uopt.rw[0]
    PROVE  find_lowest_rw_branch(NBranches) = 0
  <1> DEFINE above == {i \in Branch : i < NBranches /\ uopt.rw[i]}
  <1>1. 0 \in above /\ \A j \in above : 0 <= j /\ (j <= 0 => j = 0)
    BY NBranchesAssumption, Uppermost DEF Branch
  <1>2. find_lowest_rw_branch(NBranches) = CHOOSE i \in above : \A j \in above : i <= j
    BY <1>1 DEF find_lowest_rw_branch
  <1> HIDE DEF above
  <1> DEFINE l == CHOOSE i \in above : \A j \in above : i <= j
  <1>3. l \in above /\ \A j \in above : l <= j
    BY <1>1
  <1> QED BY <1>1, <1>2, <1>3

(* On the way to a path that a user walks, the uppermost branch has        *)
(* directories, after a copy of that path too.                             *)
LEMMA WalkDirs ==
    ASSUME NEW d, Sound(d), NEW p \in Path, Walk(d, p), NEW env, NothingTorn(env),
           NEW r \in PrefixesOf[p] \ {p}
    PROVE  LET e == find_rw_branch_cow(d, p, env).disk
           IN  Exists(e, 0, r) => IsDir(e, 0, r)
  <1> DEFINE e == find_rw_branch_cow(d, p, env).disk
             i == find_rorw_branch(d, p)
             rw == find_lowest_rw_branch(i)
  <1>1. r \in Path /\ r # Root /\ IsPrefix(r, p)
    BY PathFacts DEF PrefixesOf
  <1>2. Exists(d, 0, r) => IsDir(d, 0, r)
    <2> SUFFICES ASSUME Exists(d, 0, r) PROVE IsDir(d, 0, r)
      OBVIOUS
    <2>1. find_rorw_branch(d, r) = 0
      BY Uppermost
    <2>2. getattr(d, r) = d.tree[0][r]
      BY <2>1 DEF getattr
    <2> QED BY <2>2 DEF Walk, IsDir, HasDir
  <1>3. \/ e = d
        \/ /\ i \in Branch /\ Answers(d, p, i)
           /\ rw \in Branch /\ Mirrors(d, e, p, i, rw)
    BY CopyUpMirrors
  <1> HIDE DEF e, i, rw
  <1>4. CASE e.tree[0][r] = d.tree[0][r]
    BY <1>2, <1>4 DEF Exists, HasNode, IsDir, HasDir, e
  <1>5. CASE e.tree[0][r] # d.tree[0][r]
    <2>1. i \in Branch /\ Answers(d, p, i) /\ Mirrors(d, e, p, i, rw)
      BY <1>3, <1>5
    <2>2. e.tree[0][r] = d.tree[i][r]
      BY <1>1, <1>5, <2>1, Uppermost DEF Mirrors
    <2>3. HasDir(d.tree[i], r)
      BY <1>1, <2>1, AncestorDirs DEF Answers, Exists, Sound, WellFormed
    <2> QED BY <1>1, <2>2, <2>3 DEF IsDir, HasDir, e
  <1> QED BY <1>4, <1>5

(* The parent's branch is given up for the uppermost one whenever that is  *)
(* writable: no mkdir of path_create can fail.                             *)
LEMMA ParentMoves ==
    ASSUME NEW d, Sound(d), NEW p \in Path, NEW env, env.fail = {},
           NEW i \in Branch, Exists(d, i, u_dirname(p)),
           \A r \in PrefixesOf[p] \ {p} : Exists(d, 0, r) => IsDir(d, 0, r)
    PROVE  path_create(d, u_dirname(p), i, 0, env).ok
  <1> DEFINE dname == u_dirname(p)
             blocked == {q \in Missing(d, dname, 0) : Blocked(d, q, i, 0, env)}
  <1>1. SUFFICES ASSUME NEW q \in Missing(d, dname, 0) PROVE ~Blocked(d, q, i, 0, env)
    BY DEF path_create
  <1>2. dname \in Path \cup {Root} /\ PrefixesOf[dname] = PrefixesOf[p] \ {p}
    BY PathFacts, PrefixesOfChild
  <1>3. q \in PrefixesOf[dname]
    BY DEF Missing
  <1>4. q \in Path /\ IsPrefix(q, dname) /\ dname \in Path
    BY <1>2, <1>3, PrefixesOfRoot DEF PrefixesOf
  <1>5. Exists(d, i, q)
    BY <1>4, Ancestors DEF Exists, Sound, WellFormed
  <1> DEFINE r == u_dirname(q)
  <1>6. Exists(d, 0, r) => IsDir(d, 0, r)
    <2>1. CASE r = Root
      BY <2>1 DEF IsDir, HasDir
    <2>2. CASE r # Root
      <3>1. r \in Path /\ IsPrefix(r, q)
        BY <1>4, <2>2, PathFacts, IsPrefixChild, IsPrefixSelf
      <3>2. r \in PrefixesOf[dname]
        BY <1>4, <3>1, PrefixTransitive DEF PrefixesOf
      <3> QED BY <1>2, <3>2
    <2> QED BY <2>1, <2>2
  <1> QED BY <1>5, <1>6 DEF Blocked

(* find_rw_branch_cutlast answers with a writable branch. *)
LEMMA CutlastAnswer ==
    ASSUME TypeOK, WritableFirst(uopt), NEW p \in Path, NEW env, env.fail = {}, Reachable(p)
    PROVE  Writable(p, env)
  <1> DEFINE c == find_rw_branch_cutlast(fs, p, env)
             a == find_rw_branch_cow(fs, p, env)
             d == a.disk
             dname == u_dirname(p)
             i == find_rorw_branch(d, dname)
             rw == find_lowest_rw_branch(NBranches)
             pc == path_create(d, dname, i, rw, env)
             b == ParentBranch(d, p, -1, env)
  <1>1. c = IF a.branch >= 0 \/ a.err # "ENOENT" THEN a ELSE b
    BY DEF find_rw_branch_cutlast, __find_rw_branch_cutlast, OrParentBranch
  <1>2. /\ Prepared(fs, d)
        /\ a.branch \in Branch \cup {-1}
        /\ a.branch # -1 => uopt.rw[a.branch]
    BY SoundFs, RwBranchCow
  <1>3. b = IF i = -1 THEN [disk |-> d, branch |-> -1, err |-> "ENOENT"]
            ELSE IF uopt.rw[i] THEN [disk |-> d, branch |-> i, err |-> "OK"]
            ELSE IF ~uopt.cow \/ rw = -1 THEN [disk |-> d, branch |-> -1, err |-> "EACCES"]
            ELSE [disk |-> pc.disk, branch |-> IF pc.ok THEN rw ELSE i, err |-> "OK"]
    BY DEF ParentBranch
  <1>4. i # -1 => i \in Branch /\ Answers(d, dname, i)
    BY FindType
  <1>5. rw # -1 => rw \in Branch /\ uopt.rw[rw]
    BY LowestRw
  <1>6. \A r \in PrefixesOf[p] \ {p} : Exists(d, 0, r) => IsDir(d, 0, r)
    BY SoundFs, WalkDirs DEF NothingTorn, Reachable
  <1> HIDE DEF a, b, c, dname, i, rw
  <1>7. ASSUME i # -1, uopt.cow, rw # -1 PROVE pc.ok
    <2>1. rw = 0
      BY <1>5, <1>7, LowestIsFirst DEF WritableFirst, rw
    <2> QED BY <1>2, <1>4, <1>6, <1>7, <2>1, ParentMoves DEF Prepared, Answers, dname
  <1> HIDE DEF pc
  <1>8. b.branch # -1 => uopt.rw[b.branch]
    BY <1>3, <1>5, <1>7
  <1> QED BY <1>1, <1>2, <1>8 DEF Writable, c

(* The options never change. *)
LEMMA OptionsStay ==
    ASSUME [Next]_vars
    PROVE  UNCHANGED uopt
  <1>1. \A op, p, d, res : Return(op, p, d, res) => UNCHANGED uopt
    BY DEF Return
  <1>2. CASE UNCHANGED vars
    BY <1>2 DEF vars
  <1>3. CASE Next
    <2>1. PICK p \in Path, env \in Envs : Handler(p, env) \/ \E to \in Path : rename(p, to, env)
      BY <1>3 DEF Next
    <2> QED
      BY <1>1, <2>1 DEF Handler, chmod, chown, utimens, truncate, SetAttr, create, mkdir, mknod,
                        symlink, open, unlink, rmdir, rename, Made, Move
  <1> QED BY <1>2, <1>3

-----------------------------------------------------------------------------

(***************************************************************************)
(* In a mount whose uppermost branch is writable, or that has no writable  *)
(* branch or no copy-on-write, and as long as mkdir and copying do not     *)
(* fail, every path that a handler can be called with gets a writable      *)
(* branch or an error (general.c:270-332).                                 *)
(***************************************************************************)
THEOREM CutlastAlwaysWritable ==
    ASSUME \A m \in Mounts : WritableFirst(m.uopt), \A env \in Envs : env.fail = {}
    PROVE  Spec => []CutlastWritable
  <1>1. Init => WritableFirst(uopt)
    BY DEF Init
  <1>2. WritableFirst(uopt) /\ [Next]_vars => WritableFirst(uopt)'
    BY OptionsStay DEF WritableFirst
  <1>3. TypeOK /\ WritableFirst(uopt) => CutlastWritable
    BY CutlastAnswer DEF CutlastWritable
  <1> QED BY <1>1, <1>2, <1>3, Types, PTL DEF Spec

(***************************************************************************)
(* In such a mount no call ever creates, changes or removes a file on a    *)
(* branch that was mounted read-only (general.c:276-412, readrmdir.c).     *)
(***************************************************************************)
THEOREM ReadOnlyNeverWritten ==
    ASSUME \A m \in Mounts : WritableFirst(m.uopt), \A env \in Envs : env.fail = {}
    PROVE  Spec => ReadOnlyUntouched
  <1>1. Spec => []CutlastWritable
    BY CutlastAlwaysWritable
  <1>2. CutlastWritable /\ [CutlastWritable => ReadOnlyKept(fs, fs')]_vars => [ReadOnlyKept(fs, fs')]_vars
    OBVIOUS
  <1> QED BY <1>1, <1>2, ReadOnlyOnlyByCutlast, PTL DEF ReadOnlyUntouched

-----------------------------------------------------------------------------
(* What a user sees of a copy.                                             *)

\* s is t but for the attributes of directories
Resembles(s, t) == \A q \in Path : s[q] = t[q] \/ (s[q].kind = "dir" /\ t[q].kind = "dir")

\* getattr finds the same on both disks, but for the attributes of directories
Alike(d, e) ==
    \A q \in Path : \/ getattr(e, q) = getattr(d, q)
                    \/ getattr(d, q).kind = "dir" /\ getattr(e, q).kind = "dir"

(* Two disks on which getattr finds the same look the same. *)
LEMMA SameView ==
    ASSUME NEW d, NEW e, Alike(d, e)
    PROVE  /\ Resembles(View(e), View(d))
           /\ (\A q \in Path : getattr(e, q) = getattr(d, q)) => View(e) = View(d)
  <1>1. ASSUME NEW q \in Path PROVE Walk(e, q) <=> Walk(d, q)
    <2>1. PrefixesOf[q] \ {q} \subseteq Path
      BY PrefixesOfChild
    <2>2. \A r \in Path : getattr(e, r).kind = "dir" <=> getattr(d, r).kind = "dir"
      BY DEF Alike
    <2> QED BY <2>1, <2>2 DEF Walk
  <1>2. \A q \in Path : View(e)[q] = Lookup(e, q) /\ View(d)[q] = Lookup(d, q)
    BY DEF View
  <1>3. Resembles(View(e), View(d))
    BY <1>1, <1>2 DEF Alike, Resembles, Lookup
  <1>4. ASSUME \A q \in Path : getattr(e, q) = getattr(d, q)
        PROVE  View(e) = View(d)
    BY <1>1, <1>4 DEF View, Lookup
  <1> QED BY <1>3, <1>4

(* A copy of c and of the way to it is not seen if it is on the branch     *)
(* right above the one that answers or on one below it; on a branch        *)
(* further up it shows in the attributes of directories only.              *)
LEMMA MirrorSeen ==
    ASSUME NEW d, Sound(d), NEW e, NEW c \in Path \cup {Root}, NEW ro \in Branch, NEW rw \in Branch,
           Mirrors(d, e, c, ro, rw), Answers(d, c, ro), ro # rw, Walk(d, c)
    PROVE  /\ Alike(d, e)
           /\ rw = ro - 1 \/ ro < rw => \A q \in Path : getattr(e, q) = getattr(d, q)
  <1>1. /\ ro \in Nat /\ rw \in Nat
        /\ \A b \in Branch : b \in Nat
    BY BranchFacts
  <1>2. \A b \in Branch : b # rw => e.tree[b] = d.tree[b]
    BY DEF Mirrors
  <1>3. ASSUME NEW q \in Path
        PROVE  \/ getattr(e, q) = getattr(d, q)
               \/ /\ rw < ro /\ rw # ro - 1
                  /\ getattr(d, q).kind = "dir" /\ getattr(e, q).kind = "dir"
    <2>1. \A b : path_hidden(e, q, b) <=> path_hidden(d, q, b)
      BY DEF path_hidden, Mirrors
    <2>2. CASE e.tree[rw][q] = d.tree[rw][q]
      <3>1. \A b \in Branch : e.tree[b][q] = d.tree[b][q]
        BY <1>2, <2>2
      <3>2. \A b \in Branch : Answers(e, q, b) <=> Answers(d, q, b)
        BY <2>1, <3>1, BranchFacts DEF Answers, Exists, HasNode
      <3>3. find_rorw_branch(e, q) = find_rorw_branch(d, q)
        BY <3>2, FindType, AnswersUnique
      <3> QED BY <3>1, <3>3, FindType DEF getattr
    <2>3. CASE e.tree[rw][q] # d.tree[rw][q]
      <3>1. q \in PrefixesOf[c] /\ ~Exists(d, rw, q) /\ e.tree[rw][q] = d.tree[ro][q]
        BY <2>3 DEF Mirrors
      <3>2. c \in Path /\ IsPrefix(q, c)
        BY <3>1, PrefixesOfRoot DEF PrefixesOf
      <3>3. Exists(d, ro, q)
        BY <3>2, Ancestors DEF Answers, Exists, Sound, WellFormed
      <3>4. \A b : path_hidden(d, q, b) => path_hidden(d, c, b)
        <4>1. PrefixesOf[q] \subseteq PrefixesOf[c]
          BY <3>2, PrefixTransitive DEF PrefixesOf
        <4> QED BY <4>1 DEF path_hidden
      <3>5. \A j \in 0 .. ro - 1 : ~path_hidden(d, q, j)
        BY <3>4 DEF Answers
      <3> DEFINE k == find_rorw_branch(d, q)
      <3>6. k \in Branch /\ Answers(d, q, k) /\ k # -1
        BY <3>3, <3>5, FindIffShown, FindType
      <3>7. getattr(d, q) = d.tree[k][q]
        BY <3>6 DEF getattr
      <3> HIDE DEF k
      <3>8. k \in Nat /\ ~(ro < k) /\ k # rw
        <4>1. k \in Nat /\ (ro < k => ro \in 0 .. k - 1)
          BY <1>1, <3>6
        <4> QED BY <3>1, <3>3, <3>6, <4>1 DEF Answers
      <3>9. CASE k < rw
        <4>1. \A j \in 0 .. k - 1 : j \in Branch /\ j # rw
          BY <1>1, <3>6, <3>8, <3>9, BranchFacts
        <4>2. e.tree[k] = d.tree[k] /\ \A j \in 0 .. k - 1 : e.tree[j] = d.tree[j]
          BY <1>2, <3>6, <3>8, <4>1
        <4>3. Answers(e, q, k)
          BY <2>1, <3>6, <4>2 DEF Answers, Exists, HasNode
        <4>4. find_rorw_branch(e, q) = k
          BY <3>6, <4>3, FindType, AnswersUnique
        <4> QED BY <3>6, <3>7, <4>2, <4>4 DEF getattr
      <3>10. CASE ~(k < rw)
        <4>1. rw < ro /\ rw < k /\ (rw = ro - 1 => k = ro)
          BY <1>1, <3>8, <3>10
        <4>2. \A j \in 0 .. rw - 1 : j \in 0 .. k - 1 /\ j \in Branch /\ j # rw
          BY <1>1, <3>8, <4>1, BranchFacts
        <4>3. Exists(e, rw, q)
          BY <3>1, <3>3 DEF Exists, HasNode
        <4>4. Answers(e, q, rw)
          BY <1>2, <2>1, <3>6, <4>2, <4>3 DEF Answers, Exists, HasNode
        <4>5. find_rorw_branch(e, q) = rw /\ rw # -1
          BY <4>4, FindType, AnswersUnique, BranchFacts
        <4>6. getattr(e, q) = d.tree[ro][q]
          BY <3>1, <4>5 DEF getattr
        <4>7. CASE k = ro
          BY <3>7, <4>6, <4>7
        <4>8. CASE k # ro
          <5>1. q # c
            BY <3>6, <4>8, AnswersUnique
          <5>2. getattr(d, q).kind = "dir"
            BY <3>1, <5>1 DEF Walk
          <5>3. HasDir(d.tree[ro], q) /\ q # Root
            BY <3>2, <5>1, AncestorDirs, PathFacts DEF Answers, Exists, Sound, WellFormed
          <5> QED BY <4>1, <4>6, <4>8, <5>2, <5>3 DEF HasDir
        <4> QED BY <4>7, <4>8
      <3> QED BY <3>9, <3>10
    <2> QED BY <2>2, <2>3
  <1>4. rw = ro - 1 \/ ro < rw => ~(rw < ro /\ rw # ro - 1)
    BY <1>1
  <1> QED BY <1>3, <1>4 DEF Alike

(* Where a copy goes. *)
LEMMA NextWritable ==
    ASSUME WritableNext(uopt), uopt.cow, NEW i \in Branch, ~uopt.rw[i],
           NEW rw \in Branch, uopt.rw[rw]
    PROVE  rw = i - 1 \/ i < rw
  <1>1. i \in Nat /\ rw \in Nat /\ rw # i /\ rw \notin 0 .. i - 2
    BY BranchFacts DEF WritableNext
  <1> QED BY <1>1

(* find_rw_branch_cutlast shows nothing new and hides nothing. *)
LEMMA CutlastUnseen ==
    ASSUME TypeOK, NEW p \in Path, NEW env, NothingTorn(env), Reachable(p)
    PROVE  LET e == find_rw_branch_cutlast(fs, p, env).disk
           IN  /\ Resembles(View(e), View(fs))
               /\ WritableNext(uopt) => View(e) = View(fs)
  <1> DEFINE c == find_rw_branch_cutlast(fs, p, env)
             a == find_rw_branch_cow(fs, p, env)
             d == a.disk
             dname == u_dirname(p)
             i == find_rorw_branch(d, dname)
             rw == find_lowest_rw_branch(NBranches)
             pc == path_create(d, dname, i, rw, env)
             b == ParentBranch(d, p, -1, env)
             m == find_rorw_branch(fs, p)
             mrw == find_lowest_rw_branch(m)
  <1>1. c = a \/ c = b
    BY DEF find_rw_branch_cutlast, __find_rw_branch_cutlast, OrParentBranch
  <1>2. Sound(d) /\ Sound(fs)
    BY SoundFs, RwBranchCow DEF Prepared
  <1>3. \/ d = fs
        \/ /\ m \in Branch /\ ~uopt.rw[m] /\ Answers(fs, p, m) /\ uopt.cow
           /\ mrw \in Branch /\ mrw < m /\ uopt.rw[mrw]
           /\ Mirrors(fs, d, p, m, mrw)
    BY <1>2, CopyUpMirrors
  <1>4. \/ b.disk = d
        \/ /\ i # -1 /\ ~uopt.rw[i] /\ uopt.cow /\ rw # -1
           /\ b.disk = pc.disk
    BY DEF ParentBranch
  <1>5. i # -1 => i \in Branch /\ Answers(d, dname, i)
    BY FindType
  <1>6. rw # -1 => rw \in Branch /\ uopt.rw[rw]
    BY LowestRw
  <1>7. /\ dname \in Path \cup {Root} /\ PrefixesOf[dname] = PrefixesOf[p] \ {p}
        /\ PrefixesOf[dname] \subseteq Path
    BY PathFacts, PrefixesOfChild
  <1>8. Walk(fs, p)
    BY DEF Reachable
  <1> HIDE DEF a, b, c, i, rw, m, mrw
  <1>9. /\ Alike(fs, d)
        /\ WritableNext(uopt) => \A q \in Path : getattr(d, q) = getattr(fs, q)
    <2>1. CASE d = fs
      BY <2>1 DEF Alike
    <2>2. CASE d # fs
      <3>1. /\ m \in Branch /\ ~uopt.rw[m] /\ Answers(fs, p, m) /\ uopt.cow /\ m # mrw
            /\ mrw \in Branch /\ uopt.rw[mrw] /\ Mirrors(fs, d, p, m, mrw)
        BY <1>3, <2>2
      <3> QED BY <1>2, <1>8, <3>1, NextWritable, MirrorSeen
    <2> QED BY <2>1, <2>2
  <1>10. /\ Alike(d, b.disk)
         /\ WritableNext(uopt) => \A q \in Path : getattr(b.disk, q) = getattr(d, q)
    <2>1. CASE b.disk = d
      BY <2>1 DEF Alike
    <2>2. CASE b.disk # d
      <3>1. /\ i \in Branch /\ Answers(d, dname, i) /\ ~uopt.rw[i] /\ uopt.cow /\ i # rw
            /\ rw \in Branch /\ uopt.rw[rw] /\ b.disk = pc.disk
        BY <1>4, <1>5, <1>6, <2>2
      <3>2. \A r \in PrefixesOf[dname] : getattr(d, r).kind = "dir"
        BY <1>7, <1>8, <1>9 DEF Walk, Alike
      <3>3. Walk(d, dname)
        BY <3>2 DEF Walk
      <3>4. IsDir(d, i, dname)
        <4>1. CASE dname = Root
          BY <4>1 DEF IsDir, HasDir
        <4>2. CASE dname # Root
          <5>1. dname \in PrefixesOf[dname]
            BY <1>7, <4>2, PrefixesOfChild
          <5>2. getattr(d, dname) = d.tree[i][dname]
            BY <3>1, BranchFacts DEF getattr, i
          <5> QED BY <3>2, <5>1, <5>2 DEF IsDir, HasDir
        <4> QED BY <4>1, <4>2
      <3>5. Mirrors(d, b.disk, dname, i, rw)
        BY <1>2, <1>7, <3>1, <3>4, PathCreateMirrors
      <3> QED BY <1>2, <1>7, <3>1, <3>3, <3>5, NextWritable, MirrorSeen
    <2> QED BY <2>1, <2>2
  <1>11. /\ Alike(fs, c.disk)
         /\ WritableNext(uopt) => \A q \in Path : getattr(c.disk, q) = getattr(fs, q)
    <2>1. Alike(fs, b.disk)
      BY <1>9, <1>10 DEF Alike
    <2> QED BY <1>1, <1>9, <1>10, <2>1
  <1> QED BY <1>11, SameView DEF c

(***************************************************************************)
(* With more than one branch above the file, copying it up may show other  *)
(* attributes of the directories it is in (path_create takes them from the *)
(* branch of the file), but never another file, or one more or less.       *)
(***************************************************************************)
CowKeepsFiles ==
    \A p \in Path, env \in Envs : Reachable(p) =>
        Resembles(View(find_rw_branch_cutlast(fs, p, env).disk), View(fs))

(***************************************************************************)
(* In a mount of any shape, preparing a path for writing never shows or    *)
(* hides a file, and changes at most the attributes that directories show  *)
(* (general.c:276-436), as long as a failed copy of data leaves no file    *)
(* behind.                                                                 *)
(***************************************************************************)
THEOREM CopyKeepsFiles ==
    ASSUME \A env \in Envs : NothingTorn(env)
    PROVE  Spec => []CowKeepsFiles
  <1>1. TypeOK => CowKeepsFiles
    BY CutlastUnseen DEF CowKeepsFiles
  <1> QED BY <1>1, Types, PTL

(***************************************************************************)
(* Copying up is invisible, also when it fails half way: in a mount where  *)
(* only the branch right above a read-only one may be writable, and as     *)
(* long as a failed copy of data leaves no file behind, preparing any path *)
(* for writing leaves every path as the user saw it (general.c:276-436).   *)
(***************************************************************************)
THEOREM CopyNeverSeen ==
    ASSUME \A m \in Mounts : WritableNext(m.uopt), \A env \in Envs : NothingTorn(env)
    PROVE  Spec => []CowInvisible
  <1>1. Init => WritableNext(uopt)
    BY DEF Init
  <1>2. WritableNext(uopt) /\ [Next]_vars => WritableNext(uopt)'
    BY OptionsStay DEF WritableNext
  <1>3. TypeOK /\ WritableNext(uopt) => CowInvisible
    BY CutlastUnseen DEF CowInvisible, ShowsButTorn
  <1> QED BY <1>1, <1>2, <1>3, Types, PTL DEF Spec

-----------------------------------------------------------------------------
(* What a call leaves that fails.                                          *)

\* e is d with copies on rw of what ro has and no branch above hides
Spreads(d, e, ro, rw) ==
    /\ e.wh = d.wh
    /\ \A b \in Branch : b # rw => e.tree[b] = d.tree[b]
    /\ \A q \in Path : \/ e.tree[rw][q] = d.tree[rw][q]
                       \/ /\ ~Exists(d, rw, q) /\ Exists(d, ro, q)
                          /\ e.tree[rw][q] = d.tree[ro][q]
                          /\ \A j \in 0 .. ro - 1 : ~path_hidden(d, q, j)

(* Such copies are not seen if they are on the branch right above ro. *)
LEMMA SpreadSeen ==
    ASSUME NEW d, NEW e, NEW ro \in Branch, NEW rw \in Branch, rw = ro - 1,
           Spreads(d, e, ro, rw)
    PROVE  \A q \in Path : getattr(e, q) = getattr(d, q)
  <1>1. ro \in Nat /\ rw \in Nat
    BY BranchFacts
  <1>2. e.wh = d.wh /\ \A b \in Branch : b # rw => e.tree[b] = d.tree[b]
    BY DEF Spreads
  <1>3. ASSUME NEW q \in Path PROVE getattr(e, q) = getattr(d, q)
    <2>1. \A b : path_hidden(e, q, b) <=> path_hidden(d, q, b)
      BY <1>2 DEF path_hidden
    <2>2. CASE e.tree[rw][q] = d.tree[rw][q]
      <3>1. \A b \in Branch : e.tree[b][q] = d.tree[b][q]
        BY <1>2, <2>2
      <3>2. \A b \in Branch : Answers(e, q, b) <=> Answers(d, q, b)
        BY <2>1, <3>1, BranchFacts DEF Answers, Exists, HasNode
      <3>3. find_rorw_branch(e, q) = find_rorw_branch(d, q)
        BY <3>2, FindType, AnswersUnique
      <3> QED BY <3>1, <3>3, FindType DEF getattr
    <2>3. CASE e.tree[rw][q] # d.tree[rw][q]
      <3>1. /\ ~Exists(d, rw, q) /\ Exists(d, ro, q) /\ e.tree[rw][q] = d.tree[ro][q]
            /\ \A j \in 0 .. ro - 1 : ~path_hidden(d, q, j)
        BY <2>3 DEF Spreads
      <3> DEFINE k == find_rorw_branch(d, q)
      <3>2. k \in Branch /\ Answers(d, q, k) /\ k # -1
        BY <3>1, FindIffShown, FindType
      <3>3. getattr(d, q) = d.tree[k][q]
        BY <3>2 DEF getattr
      <3> HIDE DEF k
      <3>4. k \in Nat /\ ~(ro < k) /\ k # rw
        <4>1. k \in Nat /\ (ro < k => ro \in 0 .. k - 1)
          BY <1>1, <3>2, BranchFacts
        <4> QED BY <3>1, <3>2, <4>1 DEF Answers
      <3>5. CASE k # ro
        <4>1. \A j \in 0 .. k - 1 : j \in Branch /\ j # rw
          BY <1>1, <3>2, <3>4, <3>5, BranchFacts
        <4>2. Answers(e, q, k) /\ e.tree[k] = d.tree[k]
          BY <1>2, <2>1, <3>2, <3>4, <4>1 DEF Answers, Exists, HasNode
        <4>3. find_rorw_branch(e, q) = k
          BY <3>2, <4>2, FindType, AnswersUnique
        <4> QED BY <3>2, <3>3, <4>2, <4>3 DEF getattr
      <3>6. CASE k = ro
        <4>1. \A j \in 0 .. rw - 1 : j \in 0 .. k - 1 /\ j \in Branch /\ j # rw
          BY <1>1, <3>6, BranchFacts
        <4>2. Exists(e, rw, q)
          BY <3>1 DEF Exists, HasNode
        <4>3. Answers(e, q, rw)
          BY <1>2, <2>1, <3>2, <4>1, <4>2 DEF Answers, Exists, HasNode
        <4>4. find_rorw_branch(e, q) = rw /\ rw # -1
          BY <4>3, FindType, AnswersUnique, BranchFacts
        <4> QED BY <3>1, <3>3, <3>6, <4>4 DEF getattr
      <3> QED BY <3>5, <3>6
    <2> QED BY <2>2, <2>3
  <1> QED BY <1>3

(* What copy_directory has on rw when it ends, also at a member that it    *)
(* could not copy: what path_create made, and members of ro's directory.   *)
LEMMA CopyDirectorySpread ==
    ASSUME NEW d, Sound(d), NEW p \in Path, NEW ro \in Branch, NEW rw \in Branch, NEW env,
           NothingTorn(env), uopt.cow, ~Exists(d, rw, p), IsDir(d, ro, p)
    PROVE  LET e == copy_directory(d, p, ro, rw, env).disk
           IN  /\ Sound(e) /\ e.wh = d.wh
               /\ \A b \in Branch : b # rw => e.tree[b] = d.tree[b]
               /\ \A q \in Path : \/ e.tree[rw][q] = d.tree[rw][q]
                                  \/ /\ q \in Subtree(p) \cup PrefixesOf[p]
                                     /\ Exists(d, ro, q) /\ ~Exists(d, rw, q)
                                     /\ e.tree[rw][q] = d.tree[ro][q]
  <1> DEFINE c == copy_directory(d, p, ro, rw, env)
             top == path_create(d, p, ro, rw, env)
             members == {q \in Subtree(p) : q # p /\ Exists(d, ro, q)}
             failing == {q \in members : q \in env.fail \/ d.tree[ro][q].kind = "sock"}
             copied == {q \in members \ failing : \A f \in failing : ~Before(env.order, f, q)}
             torn == {f \in failing : /\ env.torn /\ d.tree[ro][f].kind = "reg"
                                     /\ \A g \in failing \ {f} : ~Before(env.order, g, f)}
             half == [kind |-> "reg", val |-> NoVal]
             s == top.disk.tree[rw]
             t == [q \in Path |-> IF q \in copied THEN d.tree[ro][q]
                                  ELSE IF q \in torn THEN half ELSE s[q]]
             e == [top.disk EXCEPT !.tree[rw] = t]
  <1>1. Sound(c.disk) /\ c.disk.wh = d.wh /\ \A b \in Branch : b # rw => c.disk.tree[b] = d.tree[b]
    BY CopyDirectoryFacts
  <1>2. Mirrors(d, top.disk, p, ro, rw)
    BY PathCreateMirrors
  <1>3. c.disk = top.disk \/ c.disk = e
    BY DEF copy_directory
  <1>4. torn = {}
    BY DEF NothingTorn
  <1>5. \A q \in copied : q \in Subtree(p) /\ Exists(d, ro, q) /\ ~Exists(d, rw, q)
    <2>1. \A q \in Subtree(p) : ~Exists(d, rw, q)
      BY Ancestors DEF Subtree, Exists, Sound, WellFormed
    <2> QED BY <2>1
  <1>6. p # Root
    BY PathFacts
  <1> HIDE DEF c, top, copied, torn, t
  <1>7. e.tree[rw] = t
    BY <1>2 DEF Mirrors, Sound, Disk
  <1>8. \A q \in Path : t[q] = s[q] \/ (q \in copied /\ t[q] = d.tree[ro][q])
    BY <1>4 DEF t
  <1>9. ASSUME NEW q \in Path
        PROVE  \/ s[q] = d.tree[rw][q]
               \/ /\ q \in PrefixesOf[p] /\ Exists(d, ro, q) /\ ~Exists(d, rw, q)
                  /\ s[q] = d.tree[ro][q]
    <2>1. q \in PrefixesOf[p] => Exists(d, ro, q)
      BY <1>6, Ancestors DEF PrefixesOf, IsDir, HasDir, HasNode, Exists, Sound, WellFormed
    <2> QED BY <1>2, <2>1 DEF Mirrors
  <1>10. ASSUME NEW q \in Path
         PROVE  \/ c.disk.tree[rw][q] = d.tree[rw][q]
                \/ /\ q \in Subtree(p) \cup PrefixesOf[p]
                   /\ Exists(d, ro, q) /\ ~Exists(d, rw, q)
                   /\ c.disk.tree[rw][q] = d.tree[ro][q]
    <2>1. CASE c.disk.tree[rw][q] = s[q]
      BY <1>9, <2>1
    <2>2. CASE q \in copied /\ c.disk.tree[rw][q] = d.tree[ro][q]
      BY <1>5, <2>2
    <2> QED BY <1>3, <1>7, <1>8, <2>1, <2>2
  <1> QED BY <1>1, <1>10 DEF c

(* A file or directory that is prepared to be moved, and what is below it, *)
(* is seen where it was, also when only a part of it could be copied, if   *)
(* nothing was deleted from it.                                            *)
LEMMA CommonUnseen ==
    ASSUME WritableNext(uopt), NEW d, Sound(d), NEW p \in Path, Walk(d, p), NEW env,
           NothingTorn(env),
           getattr(d, p).kind = "dir" =>
               \A b \in Branch, q \in Subtree(p) : d.wh[b][q] = "none"
    PROVE  LET e == find_rw_branch_cow_common(d, p, TRUE, env).disk
           IN  \A q \in Path : getattr(e, q) = getattr(d, q)
  <1> DEFINE e == find_rw_branch_cow_common(d, p, TRUE, env).disk
             i == find_rorw_branch(d, p)
             rw == find_lowest_rw_branch(i)
             cp == cow_cp(d, p, i, rw, TRUE, env)
             d1 == path_create(d, u_dirname(p), i, rw, env).disk
  <1>1. CASE i = -1 \/ uopt.rw[i] \/ ~uopt.cow \/ rw = -1
    BY <1>1 DEF find_rw_branch_cow_common
  <1>2. CASE i # -1 /\ ~uopt.rw[i] /\ uopt.cow /\ rw # -1
    <2>1. e = cp.disk \/ e = remove_hidden(cp.disk, p, rw)
      BY <1>2 DEF find_rw_branch_cow_common, Copied
    <2>2. i \in Branch /\ Answers(d, p, i)
      BY <1>2, FindType
    <2>3. getattr(d, p) = d.tree[i][p]
      BY <1>2 DEF getattr
    <2>4. rw \in Branch /\ rw < i /\ uopt.rw[rw]
      BY <1>2, <2>2, LowestRw
    <2>5. /\ d.tree[i][p].kind # "dir" => cp = cow_cp(d, p, i, rw, FALSE, env)
          /\ d.tree[i][p].kind = "dir" => cp = copy_directory(d1, p, i, rw, env)
      BY DEF cow_cp
    <2> HIDE DEF i, rw, e, cp
    <2>6. /\ i # rw /\ i \in Nat /\ rw \in Nat /\ rw = i - 1 /\ rw \in 0 .. i - 1
          /\ \A b \in Branch : b <= rw => b \in 0 .. i - 1
      <3>1. i \in Nat /\ \A b \in Branch : b \in Nat
        BY <2>2, BranchFacts
      <3>2. rw = i - 1 \/ i < rw
        BY <1>2, <2>2, <2>4, NextWritable
      <3> QED BY <2>4, <3>1, <3>2
    <2>7. Exists(d, i, p) /\ \A j \in 0 .. i - 1 : ~Exists(d, j, p) /\ ~path_hidden(d, p, j)
      BY <2>2 DEF Answers
    <2>8. Sound(cp.disk) /\ cp.disk.wh = d.wh /\ \A q \in Path : getattr(cp.disk, q) = getattr(d, q)
      <3>1. CASE d.tree[i][p].kind # "dir"
        <4>1. Mirrors(d, cp.disk, p, i, rw)
          BY <2>2, <2>4, <2>5, <2>6, <2>7, <3>1, CowCpMirrors
        <4> QED BY <2>2, <2>4, <2>6, <4>1, MirrorSeen DEF Mirrors
      <3>2. CASE d.tree[i][p].kind = "dir"
        <4>1. /\ u_dirname(p) \in Path \cup {Root} /\ p # Root
              /\ PrefixesOf[u_dirname(p)] \subseteq PrefixesOf[p]
              /\ p \notin PrefixesOf[u_dirname(p)]
          BY PathFacts, PrefixesOfChild
        <4>2. IsDir(d, i, u_dirname(p))
          BY <2>2, <2>7 DEF Sound, WellFormed, IsTree, IsDir, Exists
        <4>3. Mirrors(d, d1, p, i, rw)
          BY <2>2, <2>4, <4>1, <4>2, PathCreateMirrors
        <4>4. d1.tree[rw][p] = d.tree[rw][p] /\ d1.tree[i] = d.tree[i]
          BY <2>2, <2>4, <2>6, <4>1, PathCreate
        <4>5. ~Exists(d1, rw, p) /\ IsDir(d1, i, p)
          BY <2>6, <2>7, <3>2, <4>1, <4>4 DEF Exists, IsDir, HasNode, HasDir
        <4> HIDE DEF d1
        <4>6. Sound(d1) /\ d1.wh = d.wh
          BY <4>3 DEF Mirrors
        <4>7. /\ Sound(cp.disk) /\ cp.disk.wh = d1.wh
              /\ \A b \in Branch : b # rw => cp.disk.tree[b] = d1.tree[b]
              /\ \A q \in Path : \/ cp.disk.tree[rw][q] = d1.tree[rw][q]
                                 \/ /\ q \in Subtree(p) \cup PrefixesOf[p]
                                    /\ Exists(d1, i, q) /\ ~Exists(d1, rw, q)
                                    /\ cp.disk.tree[rw][q] = d1.tree[i][q]
          BY <1>2, <2>2, <2>4, <2>5, <3>2, <4>5, <4>6, CopyDirectorySpread
        <4>8. ASSUME NEW q \in Path, cp.disk.tree[rw][q] # d.tree[rw][q]
              PROVE  /\ q \in Subtree(p) \cup PrefixesOf[p]
                     /\ Exists(d, i, q) /\ ~Exists(d, rw, q)
                     /\ cp.disk.tree[rw][q] = d.tree[i][q]
          <5>1. CASE cp.disk.tree[rw][q] = d1.tree[rw][q]
            <6>1. q \in PrefixesOf[p] /\ ~Exists(d, rw, q) /\ d1.tree[rw][q] = d.tree[i][q]
              BY <4>3, <4>8, <5>1 DEF Mirrors
            <6>2. Exists(d, i, q)
              BY <2>2, <2>7, <4>1, <6>1, Ancestors DEF PrefixesOf, Exists, Sound, WellFormed
            <6> QED BY <5>1, <6>1, <6>2
          <5>2. CASE cp.disk.tree[rw][q] # d1.tree[rw][q]
            <6>1. /\ q \in Subtree(p) \cup PrefixesOf[p]
                  /\ Exists(d1, i, q) /\ ~Exists(d1, rw, q)
                  /\ cp.disk.tree[rw][q] = d1.tree[i][q]
              BY <4>7, <5>2
            <6>2. ~Exists(d, rw, q)
              BY <4>3, <6>1 DEF Mirrors, Exists, HasNode
            <6> QED BY <4>4, <6>1, <6>2 DEF Exists
          <5> QED BY <5>1, <5>2
        <4>9. ASSUME NEW q \in Subtree(p) \cup PrefixesOf[p], NEW j \in 0 .. i - 1
              PROVE  ~path_hidden(d, q, j)
          <5>1. j \in Branch
            BY <2>2, BranchFacts
          <5>2. ASSUME NEW r \in PrefixesOf[q] PROVE d.wh[j][r] = "none"
            <6>1. CASE r \in PrefixesOf[p]
              BY <1>2, <2>7, <6>1 DEF path_hidden
            <6>2. CASE r \in Subtree(p)
              BY <2>3, <3>2, <5>1, <6>2
            <6>3. r \in PrefixesOf[p] \cup Subtree(p)
              <7>1. q \in Path /\ r \in Path /\ IsPrefix(r, q)
                BY <5>2, <4>1 DEF PrefixesOf, Subtree
              <7>2. CASE q \in PrefixesOf[p]
                BY <4>1, <7>1, <7>2, PrefixTransitive DEF PrefixesOf
              <7>3. CASE q \in Subtree(p)
                BY <7>1, <7>3, PrefixesComparable DEF Subtree, PrefixesOf
              <7> QED BY <7>2, <7>3
            <6> QED BY <6>1, <6>2, <6>3
          <5> QED BY <5>2 DEF path_hidden
        <4>10. \A b \in Branch : b # rw => cp.disk.tree[b] = d.tree[b]
          BY <4>3, <4>7 DEF Mirrors
        <4>11. cp.disk.wh = d.wh
          BY <4>6, <4>7
        <4>12. Spreads(d, cp.disk, i, rw)
          BY <4>8, <4>9, <4>10, <4>11 DEF Spreads
        <4>13. \A q \in Path : getattr(cp.disk, q) = getattr(d, q)
          BY <2>2, <2>4, <2>6, <4>12, SpreadSeen
        <4> QED BY <4>7, <4>11, <4>13
      <3> QED BY <3>1, <3>2
    <2>9. remove_hidden(cp.disk, p, rw) = cp.disk
      BY <1>2, <2>6, <2>7, <2>8, NothingHidden DEF Sound
    <2> QED BY <2>1, <2>8, <2>9 DEF e
  <1> QED BY <1>1, <1>2

(* The same for a file or directory that is to be changed. *)
LEMMA CowUnseen ==
    ASSUME WritableNext(uopt), NEW d, Sound(d), NEW p \in Path, Walk(d, p), NEW env,
           NothingTorn(env)
    PROVE  View(find_rw_branch_cow(d, p, env).disk) = View(d)
  <1> DEFINE e == find_rw_branch_cow(d, p, env).disk
             i == find_rorw_branch(d, p)
             rw == find_lowest_rw_branch(i)
  <1>1. \/ e = d
        \/ /\ i \in Branch /\ ~uopt.rw[i] /\ Answers(d, p, i) /\ uopt.cow
           /\ rw \in Branch /\ rw < i /\ uopt.rw[rw]
           /\ Mirrors(d, e, p, i, rw)
    BY CopyUpMirrors
  <1> HIDE DEF e, i, rw
  <1>2. CASE e # d
    <2>1. /\ i \in Branch /\ ~uopt.rw[i] /\ Answers(d, p, i) /\ uopt.cow /\ i # rw
          /\ rw \in Branch /\ uopt.rw[rw] /\ Mirrors(d, e, p, i, rw)
      BY <1>1, <1>2
    <2>2. Alike(d, e) /\ \A q \in Path : getattr(e, q) = getattr(d, q)
      BY <2>1, NextWritable, MirrorSeen
    <2> QED BY <2>2, SameView DEF e
  <1> QED BY <1>2 DEF e

(* What a handler of one path leaves if it fails. *)
LEMMA HandlerFails ==
    ASSUME TypeOK, NEW p \in Path, NEW env \in Envs, Handler(p, env), ret'.res # "OK"
    PROVE  \/ fs' = fs
           \/ Walk(fs, p) /\ fs' = find_rw_branch_cow(fs, p, env).disk
           \/ Walk(fs, p) /\ fs' = find_rw_branch_cutlast(fs, p, env).disk
  <1>1. ASSUME NEW op, NEW d, NEW res, Return(op, p, d, res) PROVE fs' = d /\ res # "OK"
    BY <1>1 DEF Return
  <1>2. ASSUME NEW op, NEW c, NEW err, NEW d, Made(op, p, c, err, d) PROVE fs' = c.disk
    BY <1>1, <1>2 DEF Made
  <1>3. ASSUME Lookup(fs, p).kind # "none" PROVE Walk(fs, p)
    BY <1>3 DEF Lookup, Absent
  <1>4. ASSUME NEW v, chmod(p, v, env) \/ chown(p, v, env) \/ utimens(p, v, env)
                      \/ truncate(p, v, env)
        PROVE  Walk(fs, p) /\ fs' = find_rw_branch_cow(fs, p, env).disk
    <2>1. Lookup(fs, p).kind # "none" /\ \E op \in Op : SetAttr(op, p, v, env)
      BY <1>4 DEF chmod, chown, utimens, truncate, Op
    <2> QED BY <1>1, <1>3, <2>1 DEF SetAttr
  <1>5. ASSUME NEW v, create(p, v, env) \/ mkdir(p, v, env) \/ symlink(p, v, env)
                      \/ \E kind \in {"reg", "spec", "sock"} : mknod(p, kind, v, env)
        PROVE  Walk(fs, p) /\ fs' = find_rw_branch_cutlast(fs, p, env).disk
    <2>1. CASE create(p, v, env)
      BY <1>2, <2>1 DEF create, Negative
    <2>2. CASE mkdir(p, v, env)
      BY <1>2, <2>2 DEF mkdir, Negative
    <2>3. CASE symlink(p, v, env)
      BY <1>2, <2>3 DEF symlink, Negative
    <2>4. ASSUME NEW kind \in {"reg", "spec", "sock"}, mknod(p, kind, v, env)
          PROVE  Walk(fs, p) /\ fs' = find_rw_branch_cutlast(fs, p, env).disk
      BY <1>2, <2>4 DEF mknod, Negative
    <2> QED BY <1>5, <2>1, <2>2, <2>3, <2>4
  <1>6. CASE open(p, env)
    BY <1>2, <1>3, <1>6 DEF open
  <1>7. ASSUME NEW up, NEW mode
        PROVE  LET hide == do_create_whiteout(fs, p, up, mode, env)
               IN  hide.err # "OK" => hide.disk = fs
    BY DEF do_create_whiteout
  <1>8. CASE unlink(p, env)
    <2> DEFINE up == find_lowest_rw_branch(find_rorw_branch(fs, p))
               hide == do_create_whiteout(fs, p, up, "file", env)
    <2>1. fs' = fs \/ (fs' = hide.disk /\ hide.err # "OK")
      BY <1>1, <1>8 DEF unlink
    <2> QED BY <1>7, <2>1
  <1>9. CASE rmdir(p, env)
    <2> DEFINE up == find_lowest_rw_branch(find_rorw_branch(fs, p))
               hide == do_create_whiteout(fs, p, up, "dir", env)
    <2>1. fs' = fs \/ (fs' = hide.disk /\ hide.err # "OK")
      BY <1>1, <1>9 DEF rmdir
    <2> QED BY <1>7, <2>1
  <1> QED BY <1>4, <1>5, <1>6, <1>8, <1>9 DEF Handler

(* What rename leaves if it fails. *)
LEMMA RenameFails ==
    ASSUME TypeOK, WritableNext(uopt), ~AnyDirRename, NEW p \in Path, NEW to \in Path,
           NEW env \in Envs, NothingTorn(env), rename(p, to, env), ret'.res # "OK"
    PROVE  View(fs') = View(fs)
  <1> DEFINE c == find_rw_branch_cutlast(fs, to, env)
             w == find_rw_branch_cow_common(c.disk, p, TRUE, env)
  <1>1. ASSUME NEW op, NEW d, NEW res, Return(op, p, d, res) PROVE fs' = d /\ res # "OK"
    BY <1>1 DEF Return
  <1>2. Move(p, to, w, env) => fs' = w.disk
    BY <1>1 DEF Move
  <1>3. RenameAllowed(p, to) /\ SafeDirRename(p, to)
    BY DEF rename
  <1>4. fs' = c.disk \/ fs' = w.disk
    <2> HIDE DEF w
    <2> QED BY <1>1, <1>2 DEF rename, w
  <1>5. View(c.disk) = View(fs)
    <2>1. Reachable(to)
      BY <1>3, PathFacts DEF RenameAllowed, Reachable
    <2> QED BY <2>1, CutlastUnseen
  <1>6. Sound(c.disk) /\ \A b \in Branch, q \in Path : c.disk.wh[b][q] \in {fs.wh[b][q], "none"}
    BY SoundFs, Cutlast DEF Prepared
  <1> HIDE DEF c
  <1>7. Lookup(c.disk, p) = Lookup(fs, p)
    <2>1. View(c.disk)[p] = Lookup(c.disk, p) /\ View(fs)[p] = Lookup(fs, p)
      BY DEF View
    <2> QED BY <1>5, <2>1
  <1>8. Walk(c.disk, p) /\ getattr(c.disk, p) = Lookup(fs, p)
    BY <1>3, <1>7 DEF RenameAllowed, Lookup, Absent
  <1>9. getattr(c.disk, p).kind = "dir" =>
            \A b \in Branch, q \in Subtree(p) : c.disk.wh[b][q] = "none"
    BY <1>3, <1>6, <1>8 DEF SafeDirRename, Subtree
  <1>10. \A q \in Path : getattr(w.disk, q) = getattr(c.disk, q)
    BY <1>6, <1>8, <1>9, CommonUnseen
  <1> HIDE DEF w
  <1>11. View(w.disk) = View(c.disk)
    BY <1>10, SameView DEF Alike
  <1> QED BY <1>4, <1>5, <1>11

(* What a user sees next. *)
LEMMA ViewNext ==
    ASSUME UNCHANGED uopt, NEW f, fs' = f
    PROVE  View(fs)' = View(f)
  <1>1. \A d : View(d)' = View(d)
    BY DEF View, Lookup, Walk, getattr, find_rorw_branch, Answers, path_hidden
  <1> QED BY <1>1

(***************************************************************************)
(* A call that fails leaves everything as the user saw it, also when       *)
(* mkdir, copying or whiteouts fail half way: no handler returns an error  *)
(* after a step that shows.  In a mount as for CopyNeverSeen, with renames *)
(* of directories as in SafeDirRename (fuse_operations.c, readrmdir.c).    *)
(***************************************************************************)
THEOREM FailedCallUnseen ==
    ASSUME \A m \in Mounts : WritableNext(m.uopt), \A env \in Envs : NothingTorn(env),
           ~AnyDirRename
    PROVE  Spec => FailureUnseen
  <1>1. Init => WritableNext(uopt)
    BY DEF Init
  <1>2. WritableNext(uopt) /\ [Next]_vars => WritableNext(uopt)'
    BY OptionsStay DEF WritableNext
  <1>3. TypeOK /\ WritableNext(uopt) /\ [Next]_vars =>
            [ret'.res # "OK" =>
                ShowsButTorn(View(fs)', View(fs),
                             IF ret'.res = "ENOSPC" THEN UNION {Torn(env) : env \in Envs} ELSE {})]_vars
    <2> SUFFICES ASSUME TypeOK, WritableNext(uopt), Next, ret'.res # "OK"
                 PROVE  View(fs)' = View(fs)
      BY DEF vars, ShowsButTorn
    <2>1. PICK d : fs' = d
      OBVIOUS
    <2>2. View(fs)' = View(d)
      <3>1. UNCHANGED uopt
        BY OptionsStay
      <3> QED BY <2>1, <3>1, ViewNext
    <2>3. View(d) = View(fs)
      <3>1. PICK p \in Path, env \in Envs : Handler(p, env) \/ \E to \in Path : rename(p, to, env)
        BY DEF Next
      <3>2. CASE Handler(p, env)
        <4>1. Walk(fs, p) => Reachable(p)
          BY PathFacts DEF Reachable
        <4> QED BY <2>1, <3>2, <4>1, SoundFs, HandlerFails, CowUnseen, CutlastUnseen
      <3>3. CASE \E to \in Path : rename(p, to, env)
        BY <2>1, <3>3, RenameFails
      <3> QED BY <3>1, <3>2, <3>3
    <2> QED BY <2>2, <2>3
  <1> QED BY <1>1, <1>2, <1>3, Types, PTL DEF Spec, FailureUnseen
=============================================================================
