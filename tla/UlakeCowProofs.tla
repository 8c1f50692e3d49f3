--------------------------- MODULE UlakeCowProofs ---------------------------
(***************************************************************************)
(* The functions of UlakeCow keep the branches trees and write no file on  *)
(* a read-only branch, for every disk and whatever fails.                  *)
(***************************************************************************)
EXTENDS UlakeCow, UlakeDiskProofs

Sound(d) == d \in Disk /\ WellFormed(d)

\* e differs from d only in files on writable branches, and in whiteouts
SameReadOnly(d, e) == \A b \in Branch : ~uopt.rw[b] => e.tree[b] = d.tree[b]

-----------------------------------------------------------------------------
(* Changing one tree.                                                      *)

(* Replacing the tree of one branch by a tree. *)
LEMMA ReplaceTree ==
    ASSUME NEW d, Sound(d), NEW b \in Branch, NEW t \in Tree, IsTree(t)
    PROVE  /\ Sound([d EXCEPT !.tree[b] = t])
           /\ [d EXCEPT !.tree[b] = t].wh = d.wh
           /\ [d EXCEPT !.tree[b] = t].tree[b] = t
           /\ \A c \in Branch : c # b => [d EXCEPT !.tree[b] = t].tree[c] = d.tree[c]
           /\ uopt.rw[b] => SameReadOnly(d, [d EXCEPT !.tree[b] = t])
  <1> DEFINE e == [d EXCEPT !.tree[b] = t]
  <1>1. e = [tree |-> [d.tree EXCEPT ![b] = t], wh |-> d.wh]
    BY DEF Sound, Disk
  <1>2. e \in Disk
    BY <1>1 DEF Sound, Disk
  <1>3. \A c \in Branch : e.tree[c] = IF c = b THEN t ELSE d.tree[c]
    BY <1>1 DEF Sound, Disk
  <1> HIDE DEF e
  <1>4. WellFormed(e)
    BY <1>3 DEF Sound, WellFormed
  <1>5. e.wh = d.wh
    BY <1>1
  <1> QED BY <1>2, <1>3, <1>4, <1>5 DEF Sound, SameReadOnly, e

(* One entry of a tree may be replaced if a new one gets a directory, and *)
(* nothing is left below one that is no directory any more.               *)
LEMMA ReplaceEntry ==
    ASSUME NEW t \in Tree, IsTree(t), NEW p \in Path, NEW node \in Entry,
           node.kind # "none" => HasDir(t, u_dirname(p)),
           node.kind = "dir" \/ \A c \in Children(p) : ~HasNode(t, c)
    PROVE  [t EXCEPT ![p] = node] \in Tree /\ IsTree([t EXCEPT ![p] = node])
  <1> DEFINE s == [t EXCEPT ![p] = node]
  <1>1. s \in Tree
    BY DEF Tree
  <1>2. p # Root /\ u_dirname(p) # p
    BY PathFacts, PrefixesOfChild, IsPrefixSelf DEF PrefixesOf
  <1>3. \A q \in Path : s[q] = IF q = p THEN node ELSE t[q]
    BY DEF Tree
  <1> HIDE DEF s
  <1>4. ASSUME NEW q \in Path, HasNode(s, q) PROVE HasDir(s, u_dirname(q))
    <2>1. u_dirname(q) \in Path \cup {Root}
      BY PathFacts
    <2>2. CASE q = p
      BY <2>1, <2>2, <1>2, <1>3, <1>4 DEF HasNode, HasDir
    <2>3. CASE q # p
      <3>1. HasNode(t, q) /\ HasDir(t, u_dirname(q))
        BY <2>3, <1>3, <1>4 DEF HasNode, IsTree
      <3>2. CASE u_dirname(q) = p
        BY <3>1, <3>2, <1>2, <1>3 DEF HasDir, Children
      <3>3. CASE u_dirname(q) # p
        BY <3>1, <3>3, <2>1, <1>3 DEF HasDir
      <3> QED BY <3>2, <3>3
    <2> QED BY <2>2, <2>3
  <1> QED BY <1>1, <1>4 DEF IsTree, s

(* Entries that are no directories have nothing below them. *)
LEMMA NothingBelow ==
    ASSUME NEW t, IsTree(t), NEW p \in Path, t[p].kind # "dir"
    PROVE  \A c \in Children(p) : ~HasNode(t, c)
  BY PathFacts DEF IsTree, Children, HasDir

(* The same for an entry of a disk. *)
LEMMA ReplaceNode ==
    ASSUME NEW d, Sound(d), NEW b \in Branch, NEW p \in Path, NEW node \in Entry,
           node.kind # "none" => IsDir(d, b, u_dirname(p)),
           node.kind = "dir" \/ \A c \in Children(p) : ~Exists(d, b, c)
    PROVE  /\ Sound([d EXCEPT !.tree[b][p] = node])
           /\ [d EXCEPT !.tree[b][p] = node].wh = d.wh
           /\ [d EXCEPT !.tree[b][p] = node].tree[b][p] = node
           /\ \A c \in Branch : c # b => [d EXCEPT !.tree[b][p] = node].tree[c] = d.tree[c]
           /\ uopt.rw[b] => SameReadOnly(d, [d EXCEPT !.tree[b][p] = node])
  <1> DEFINE t == [d.tree[b] EXCEPT ![p] = node]
  <1>1. d.tree[b] \in Tree /\ IsTree(d.tree[b])
    BY DEF Sound, Disk, WellFormed
  <1>2. t \in Tree /\ IsTree(t)
    BY <1>1, ReplaceEntry DEF IsDir, Exists
  <1>3. t[p] = node
    BY <1>1 DEF Tree
  <1> DEFINE e == [d EXCEPT !.tree[b][p] = node]
             f == [d EXCEPT !.tree[b] = t]
  <1>4. e = f
    OBVIOUS
  <1>5. /\ Sound(f)
        /\ f.wh = d.wh
        /\ f.tree[b] = t
        /\ \A c \in Branch : c # b => f.tree[c] = d.tree[c]
        /\ uopt.rw[b] => SameReadOnly(d, f)
    <2> HIDE DEF t
    <2> QED BY <1>2, ReplaceTree
  <1>6. /\ Sound(e)
        /\ e.wh = d.wh
        /\ e.tree[b][p] = node
        /\ \A c \in Branch : c # b => e.tree[c] = d.tree[c]
        /\ uopt.rw[b] => SameReadOnly(d, e)
    <2> HIDE DEF e, f, t
    <2> QED BY <1>3, <1>4, <1>5
  <1> QED BY <1>6

-----------------------------------------------------------------------------
(* Whiteouts are no files.                                                 *)

(* remove_hidden leaves every tree alone. *)
LEMMA RemoveHidden ==
    ASSUME NEW d, Sound(d), NEW p \in Path, NEW i
    PROVE  /\ Sound(remove_hidden(d, p, i))
           /\ remove_hidden(d, p, i).tree = d.tree
           /\ \A b \in Branch, q \in Path :
                 remove_hidden(d, p, i).wh[b][q] \in {d.wh[b][q], "none"}
  <1> DEFINE w == [b \in Branch |->
                     IF b <= i THEN [d.wh[b] EXCEPT ![p] = "none"] ELSE d.wh[b]]
             e == [d EXCEPT !.wh = w]
  <1>1. CASE ~uopt.cow
    BY <1>1 DEF remove_hidden
  <1>2. CASE uopt.cow
    <2>1. remove_hidden(d, p, i) = e
      BY <1>2 DEF remove_hidden
    <2>2. w \in [Branch -> [Path -> {"none", "file", "dir"}]]
      BY DEF Sound, Disk
    <2>3. \A b \in Branch, q \in Path : w[b][q] \in {d.wh[b][q], "none"}
      BY DEF Sound, Disk
    <2> HIDE DEF w
    <2>4. e \in Disk /\ e.tree = d.tree /\ e.wh = w
      BY <2>2 DEF Sound, Disk
    <2>5. WellFormed(e)
      BY <2>4 DEF Sound, WellFormed
    <2> QED BY <2>1, <2>3, <2>4, <2>5 DEF Sound
  <1> QED BY <1>1, <1>2

(* Making a whiteout leaves every tree alone. *)
LEMMA CreateWhiteout ==
    ASSUME NEW d, Sound(d), NEW p \in Path, NEW b \in Branch,
           NEW mode \in {"file", "dir"}, NEW env
    PROVE  /\ Sound(do_create_whiteout(d, p, b, mode, env).disk)
           /\ do_create_whiteout(d, p, b, mode, env).disk.tree = d.tree
           /\ \A c \in Branch : c # b =>
                 do_create_whiteout(d, p, b, mode, env).disk.wh[c] = d.wh[c]
           /\ do_create_whiteout(d, p, b, mode, env).err
                 \in {"OK", "ENOENT", "ENOSPC", "EISDIR", "EEXIST"}
  <1> DEFINE e == [d EXCEPT !.wh[b][p] = mode]
             w == [d.wh EXCEPT ![b] = [d.wh[b] EXCEPT ![p] = mode]]
  <1>1. w \in [Branch -> [Path -> {"none", "file", "dir"}]]
    BY DEF Sound, Disk
  <1>2. e = [tree |-> d.tree, wh |-> w]
    BY DEF Sound, Disk
  <1>3. \A c \in Branch : c # b => w[c] = d.wh[c]
    BY DEF Sound, Disk
  <1> HIDE DEF w
  <1>4. e \in Disk /\ e.tree = d.tree /\ e.wh = w
    BY <1>1, <1>2 DEF Sound, Disk
  <1>5. WellFormed(e)
    BY <1>4 DEF Sound, WellFormed
  <1> HIDE DEF e
  <1>6. do_create_whiteout(d, p, b, mode, env).disk \in {d, e}
    BY DEF do_create_whiteout, e
  <1>7. do_create_whiteout(d, p, b, mode, env).err
           \in {"OK", "ENOENT", "ENOSPC", "EISDIR", "EEXIST"}
    BY DEF do_create_whiteout
  <1> QED BY <1>3, <1>4, <1>5, <1>6, <1>7 DEF Sound

(* maybe_whiteout makes a whiteout or does nothing. *)
LEMMA MaybeWhiteout ==
    ASSUME NEW d, Sound(d), NEW p \in Path, NEW b \in Branch,
           NEW mode \in {"file", "dir"}, NEW env
    PROVE  /\ Sound(maybe_whiteout(d, p, b, mode, env).disk)
           /\ maybe_whiteout(d, p, b, mode, env).disk.tree = d.tree
           /\ \A c \in Branch : c # b =>
                 maybe_whiteout(d, p, b, mode, env).disk.wh[c] = d.wh[c]
  BY CreateWhiteout DEF maybe_whiteout

-----------------------------------------------------------------------------
(* Copying up.                                                             *)

(* path_create adds directories on the way to p, on rw alone. *)
LEMMA PathCreate ==
    ASSUME NEW d, Sound(d), NEW p \in Path \cup {Root}, NEW ro \in Branch, NEW rw \in Branch,
           NEW env
    PROVE  LET e == path_create(d, p, ro, rw, env).disk
           IN  /\ Sound(e)
               /\ e.wh = d.wh
               /\ \A c \in Branch : c # rw => e.tree[c] = d.tree[c]
               /\ \A q \in Path : q \notin PrefixesOf[p] \/ Exists(d, rw, q)
                                  => e.tree[rw][q] = d.tree[rw][q]
               /\ uopt.cow /\ path_create(d, p, ro, rw, env).ok =>
                     \A q \in PrefixesOf[p] : ~Exists(d, rw, q) => IsDir(e, rw, q)
  <1> DEFINE blocked == {q \in Missing(d, p, rw) : Blocked(d, q, ro, rw, env)}
             made == {q \in Missing(d, p, rw) : \A r \in blocked : Len(q) < Len(r)}
             t == [q \in Path |-> IF q \in made THEN DirCopy(d.tree[ro][q]) ELSE d.tree[rw][q]]
             e == [d EXCEPT !.tree[rw] = t]
  <1>1. CASE ~uopt.cow
    BY <1>1 DEF path_create
  <1>2. CASE uopt.cow
    <2>1. path_create(d, p, ro, rw, env).disk = e
      BY <1>2 DEF path_create
    <2>2. path_create(d, p, ro, rw, env).ok <=> blocked = {}
      BY <1>2 DEF path_create
    <2>3. d.tree[ro] \in Tree /\ d.tree[rw] \in Tree /\ IsTree(d.tree[rw])
      BY DEF Sound, Disk, WellFormed
    <2>4. \A q \in made : /\ q \in Path /\ IsPrefix(q, p) /\ ~Exists(d, rw, q)
                          /\ ~Blocked(d, q, ro, rw, env)
                          /\ \A r \in blocked : Len(q) < Len(r)
      <3>1. \A q \in Path : ~(Len(q) < Len(q))
        <4>1. \A n \in Nat : ~(n < n)
          OBVIOUS
        <4> QED BY <4>1, PathSeq
      <3> QED BY <3>1 DEF Missing, PrefixesOf
    <2>5. t \in Tree
      BY <2>3 DEF Tree, DirCopy, Entry, Node, Kind, Absent
    <2>6. \A q \in Path : t[q] = IF q \in made THEN DirCopy(d.tree[ro][q]) ELSE d.tree[rw][q]
      OBVIOUS
    <2>7. ASSUME NEW q \in Path, q \in Missing(d, p, rw), q \notin made
          PROVE  \E r \in blocked : ~(Len(q) < Len(r))
      BY <2>7
    <2>8. \A q \in Path : IsPrefix(q, p) /\ ~Exists(d, rw, q) => q \in Missing(d, p, rw)
      BY DEF Missing, PrefixesOf
    <2>9. \A q \in made : q \in Missing(d, p, rw)
      OBVIOUS
    <2>10. \A r \in blocked : r \in Path
      BY DEF Missing, PrefixesOf
    <2>11. \A q \in Missing(d, p, rw) : blocked = {} => q \in made
      OBVIOUS
    <2> HIDE DEF made, blocked, t
    <2>12. \A q \in Path : q \in made => t[q].kind = "dir"
      <3>1. \A n : DirCopy(n).kind = "dir"
        BY DEF DirCopy
      <3> QED BY <3>1, <2>6
    <2>13. IsTree(t)
      <3> SUFFICES ASSUME NEW q \in Path, HasNode(t, q) PROVE HasDir(t, u_dirname(q))
        BY DEF IsTree
      <3> DEFINE u == u_dirname(q)
      <3>1. u \in Path \cup {Root} /\ q # Root
        BY PathFacts
      <3>2. SUFFICES ASSUME u # Root PROVE t[u].kind = "dir"
        BY DEF HasDir
      <3>3. u \in Path
        BY <3>1, <3>2
      <3>4. CASE q \in made
        <4>1. IsPrefix(u, p)
          BY <2>4, <3>3, <3>4, IsPrefixChild, IsPrefixSelf, PrefixTransitive
        <4>2. Exists(d, rw, u) => IsDir(d, rw, u)
          BY <2>4, <3>4 DEF Blocked
        <4>3. CASE Exists(d, rw, u)
          <5>1. t[u] = d.tree[rw][u]
            BY <2>4, <2>6, <3>3, <4>3
          <5> QED BY <4>2, <4>3, <5>1, <3>2 DEF IsDir, HasDir
        <4>4. CASE ~Exists(d, rw, u)
          <5>1. Len(u) = Len(q) - 1 /\ Len(q) \in Nat
            BY PathFacts
          <5>2. \A r \in Path : Len(q) < Len(r) => Len(u) < Len(r)
            <6>1. \A m, n \in Nat : m < n => m - 1 < n
              OBVIOUS
            <6> QED BY <5>1, <6>1, PathSeq
          <5>3. u \in made
            BY <2>4, <2>7, <2>8, <2>10, <3>3, <3>4, <4>1, <4>4, <5>2
          <5> QED BY <2>12, <3>3, <5>3
        <4> QED BY <4>3, <4>4
      <3>5. CASE q \notin made
        <4>1. HasDir(d.tree[rw], u)
          BY <2>3, <2>6, <3>1, <3>5 DEF HasNode, IsTree
        <4>2. Exists(d, rw, u) /\ d.tree[rw][u].kind = "dir"
          BY <3>2, <4>1 DEF HasDir, HasNode, Exists
        <4> QED BY <2>4, <2>6, <3>3, <4>2
      <3> QED BY <3>4, <3>5
    <2>14. /\ Sound(e)
           /\ e.wh = d.wh
           /\ e.tree[rw] = t
           /\ \A c \in Branch : c # rw => e.tree[c] = d.tree[c]
      BY <2>5, <2>13, ReplaceTree
    <2>15. \A q \in Path : q \notin PrefixesOf[p] \/ Exists(d, rw, q) => t[q] = d.tree[rw][q]
      BY <2>4, <2>6 DEF PrefixesOf
    <2>16. blocked = {} => \A q \in PrefixesOf[p] : ~Exists(d, rw, q) => HasDir(t, q)
      <3>1. \A q \in PrefixesOf[p] : q \in Path /\ IsPrefix(q, p)
        BY DEF PrefixesOf
      <3> QED BY <3>1, <2>8, <2>11, <2>12 DEF HasDir
    <2> HIDE DEF e
    <2> QED BY <2>1, <2>2, <2>14, <2>15, <2>16 DEF IsDir
  <1> QED BY <1>1, <1>2

(* Copying one file up, or half of it, keeps the tree; success leaves it there. *)
LEMMA CopyNodeFacts ==
    ASSUME NEW d, Sound(d), NEW p \in Path, NEW ro \in Branch, NEW rw \in Branch, NEW env,
           Exists(d, ro, p), ~Exists(d, rw, p)
    PROVE  LET c == CopyNode(d, p, ro, rw, env)
           IN  /\ Sound(c.disk)
               /\ c.disk.wh = d.wh
               /\ \A b \in Branch : b # rw => c.disk.tree[b] = d.tree[b]
               /\ c.err \in Errno \cup {"OK"}
               /\ c.err = "OK" => Exists(c.disk, rw, p)
  <1> DEFINE c == CopyNode(d, p, ro, rw, env)
             whole == d.tree[ro][p]
             half == [kind |-> "reg", val |-> NoVal]
             e == [d EXCEPT !.tree[rw][p] = whole]
             f == [d EXCEPT !.tree[rw][p] = half]
  <1>1. p # Root
    BY PathFacts
  <1>2. whole \in Entry /\ whole.kind # "none" /\ half \in Entry /\ half.kind # "none"
    BY <1>1 DEF Sound, Disk, Tree, Exists, HasNode, Entry, Node, Kind
  <1>3. d.tree[rw][p].kind # "dir" /\ IsTree(d.tree[rw])
    BY <1>1 DEF Exists, HasNode, Sound, WellFormed
  <1>4. \A k \in Children(p) : ~Exists(d, rw, k)
    BY <1>3, NothingBelow DEF Exists
  <1>5. /\ c.err \in Errno \cup {"OK"}
        /\ c.err \in {"OK", "ENOSPC"} => IsDir(d, rw, u_dirname(p))
        /\ c.err = "OK" => c.disk = e
        /\ c.err # "OK" => c.disk = d \/ (c.disk = f /\ c.err = "ENOSPC")
    <2> HIDE DEF e, f
    <2> QED BY DEF CopyNode, Errno, e, f
  <1> HIDE DEF c, whole, half, e, f
  <1>6. ASSUME IsDir(d, rw, u_dirname(p)), NEW node \in {whole, half}
        PROVE  LET g == [d EXCEPT !.tree[rw][p] = node]
               IN  /\ Sound(g)
                   /\ g.wh = d.wh
                   /\ g.tree[rw][p] = node
                   /\ \A b \in Branch : b # rw => g.tree[b] = d.tree[b]
    BY <1>2, <1>4, <1>6, ReplaceNode
  <1>7. CASE c.err = "OK"
    <2>1. /\ Sound(e) /\ e.wh = d.wh /\ e.tree[rw][p] = whole
          /\ \A b \in Branch : b # rw => e.tree[b] = d.tree[b]
      BY <1>5, <1>6, <1>7 DEF e
    <2> QED BY <1>2, <1>5, <1>7, <2>1 DEF Exists, HasNode, c
  <1>8. CASE c.err # "OK"
    <2>1. c.disk # d => /\ Sound(f) /\ f.wh = d.wh
                        /\ \A b \in Branch : b # rw => f.tree[b] = d.tree[b]
      BY <1>5, <1>6, <1>8 DEF f
    <2> QED BY <1>5, <1>8, <2>1 DEF c
  <1> QED BY <1>7, <1>8

(* What is listed before a directory is listed before its members. *)
LEMMA BeforeMember ==
    ASSUME NEW order, NEW f \in Path, NEW r \in Path, NEW q \in Path, IsPrefix(r, q),
           Before(order, f, r)
    PROVE  Before(order, f, q)
  <1>1. CASE IsStrictPrefix(f, r)
    <2>1. IsPrefix(f, r) /\ f # r
      BY <1>1 DEF IsStrictPrefix
    <2>2. IsPrefix(f, q) /\ f # q
      BY <2>1, PrefixTransitive, PrefixAntisymmetric
    <2> QED BY <2>2 DEF Before, IsStrictPrefix
  <1>2. CASE \E a \in PrefixesOf[f], b \in PrefixesOf[r] :
                 a # b /\ u_dirname(a) = u_dirname(b) /\ order[a] < order[b]
    <2>1. PrefixesOf[r] \subseteq PrefixesOf[q]
      BY PrefixTransitive DEF PrefixesOf
    <2> QED BY <1>2, <2>1 DEF Before
  <1> QED BY <1>1, <1>2 DEF Before

(* Nothing is listed before a directory that it is in. *)
LEMMA NotBeforeDirectory ==
    ASSUME NEW order, NEW r \in Path, NEW q \in Path, IsPrefix(r, q)
    PROVE  ~Before(order, q, r)
  <1>1. ~IsStrictPrefix(q, r)
    BY PrefixAntisymmetric DEF IsStrictPrefix
  <1>2. ASSUME NEW a \in PrefixesOf[q], NEW b \in PrefixesOf[r], u_dirname(a) = u_dirname(b)
        PROVE  a = b
    <2>1. a \in Path /\ b \in Path /\ IsPrefix(a, q) /\ IsPrefix(b, r)
      BY DEF PrefixesOf
    <2>2. IsPrefix(b, q)
      BY <2>1, PrefixTransitive
    <2> QED BY <1>2, <2>1, <2>2, PrefixSameDir
  <1> QED BY <1>1, <1>2 DEF Before

(* Copying a directory up keeps the tree, wherever the copying stops. *)
LEMMA CopyDirectoryFacts ==
    ASSUME NEW d, Sound(d), NEW p \in Path, NEW ro \in Branch, NEW rw \in Branch, NEW env,
           uopt.cow, ~Exists(d, rw, p)
    PROVE  LET c == copy_directory(d, p, ro, rw, env)
           IN  /\ Sound(c.disk)
               /\ c.disk.wh = d.wh
               /\ \A b \in Branch : b # rw => c.disk.tree[b] = d.tree[b]
               /\ c.err \in Errno \cup {"OK"}
               /\ c.err = "OK" => Exists(c.disk, rw, p)
  <1> DEFINE c == copy_directory(d, p, ro, rw, env)
             top == path_create(d, p, ro, rw, env)
             members == {q \in Subtree(p) : q # p /\ Exists(d, ro, q)}
             failing == {q \in members : q \in env.fail \/ d.tree[ro][q].kind = "sock"}
             copied == {q \in members \ failing : \A f \in failing : ~Before(env.order, f, q)}
             torn == {f \in failing : /\ env.torn /\ d.tree[ro][f].kind = "reg"
                                     /\ \A g \in failing \ {f} : ~Before(env.order, g, f)}
             half == [kind |-> "reg", val |-> NoVal]
             s == top.disk.tree[rw]
             t == [q \in Path |-> IF q \in copied THEN d.tree[ro][q]
                                  ELSE IF q \in torn THEN half ELSE s[q]]
             e == [top.disk EXCEPT !.tree[rw] = t]
  <1>1. /\ Sound(top.disk)
        /\ top.disk.wh = d.wh
        /\ \A b \in Branch : b # rw => top.disk.tree[b] = d.tree[b]
        /\ \A q \in Path : q \notin PrefixesOf[p] => s[q] = d.tree[rw][q]
        /\ top.ok => \A q \in PrefixesOf[p] : ~Exists(d, rw, q) => IsDir(top.disk, rw, q)
    BY PathCreate
  <1>2. s \in Tree /\ IsTree(s) /\ d.tree[ro] \in Tree /\ IsTree(d.tree[ro]) /\ IsTree(d.tree[rw])
    BY <1>1 DEF Sound, Disk, WellFormed
  <1>3. p \in PrefixesOf[p] /\ p # Root
    BY PathFacts, IsPrefixSelf DEF PrefixesOf
  <1>4. CASE ~top.ok
    <2>1. c.disk = top.disk /\ c.err = "ENOSPC"
      BY <1>4 DEF copy_directory
    <2> HIDE DEF c
    <2>2. c.err \in Errno /\ c.err # "OK"
      BY <2>1 DEF Errno
    <2> QED BY <1>1, <2>1, <2>2 DEF c
  <1>5. CASE top.ok
    <2>1. c.disk = e /\ c.err = IF failing = {} THEN "OK"
                               ELSE IF failing \cap env.fail = {} THEN "ENOENT" ELSE "ENOSPC"
      BY <1>5 DEF copy_directory
    <2>2. s[p].kind = "dir"
      BY <1>1, <1>3, <1>5 DEF IsDir, HasDir
    <2>3. ASSUME NEW q \in Path, IsPrefix(p, q), q # p PROVE ~HasNode(s, q)
      <3>1. q \notin PrefixesOf[p] /\ q # Root
        BY <2>3, PathFacts, PrefixAntisymmetric DEF PrefixesOf
      <3>2. ~HasNode(d.tree[rw], q)
        BY <1>2, <2>3, Ancestors DEF Exists
      <3> QED BY <1>1, <3>1, <3>2 DEF HasNode
    <2>4. \A q \in copied \cup torn : q \in members
      OBVIOUS
    <2>5. ASSUME NEW q \in members
          PROVE  /\ q \in Path /\ IsPrefix(p, q) /\ q # p /\ d.tree[ro][q].kind # "none"
                 /\ u_dirname(q) \in Path /\ IsPrefix(p, u_dirname(q))
                 /\ d.tree[ro][u_dirname(q)].kind = "dir"
      <3>1. q \in Path /\ IsPrefix(p, q) /\ q # p /\ HasNode(d.tree[ro], q) /\ q # Root
        BY PathFacts DEF Subtree, Exists
      <3>2. u_dirname(q) \in Path /\ IsPrefix(p, u_dirname(q)) /\ u_dirname(q) # Root
        BY <3>1, IsPrefixChild, IsPrefixRoot, PathFacts
      <3> QED BY <1>2, <3>1, <3>2 DEF IsTree, HasNode, HasDir
    <2>6. \A q \in Path : IsPrefix(p, q) /\ q # p /\ d.tree[ro][q].kind # "none" => q \in members
      BY DEF Subtree, Exists, HasNode
    <2>7. \A q \in copied : \A f \in failing : ~Before(env.order, f, q)
      OBVIOUS
    <2>8. \A q \in torn : q \in failing /\ \A f \in failing : f # q => ~Before(env.order, f, q)
      OBVIOUS
    <2>9. \A q \in members : q \notin failing /\ (\A f \in failing : ~Before(env.order, f, q))
                                => q \in copied
      OBVIOUS
    <2>10. \A q \in failing : q \in members
      OBVIOUS
    <2>11. \A q \in Path : t[q] = IF q \in copied THEN d.tree[ro][q]
                                 ELSE IF q \in torn THEN half ELSE s[q]
      OBVIOUS
    <2>12. t \in Tree
      BY <1>2 DEF Tree, Entry, Node, Kind
    <2> HIDE DEF c, top, members, failing, copied, torn, s, t, e
    <2>13. ASSUME NEW q \in copied \cup torn, u_dirname(q) # p PROVE u_dirname(q) \in copied
      <3> DEFINE u == u_dirname(q)
      <3>1. q \in Path /\ u \in Path /\ u \in members
        BY <2>4, <2>5, <2>6, <2>13
      <3>2. IsPrefix(u, q) /\ u # q
        BY <3>1, IsPrefixChild, IsPrefixSelf, PrefixesOfChild DEF PrefixesOf
      <3>3. \A f \in failing : f # q => ~Before(env.order, f, q)
        BY <2>7, <2>8
      <3>4. u \notin failing
        BY <3>2, <3>3 DEF Before, IsStrictPrefix
      <3>5. ASSUME NEW f \in failing PROVE ~Before(env.order, f, u)
        <4>1. f \in Path
          BY <2>5, <2>10
        <4>2. CASE f = q
          BY <3>1, <3>2, <4>2, NotBeforeDirectory
        <4>3. CASE f # q
          BY <3>1, <3>2, <3>3, <4>1, <4>3, BeforeMember
        <4> QED BY <4>2, <4>3
      <3> QED BY <2>9, <3>1, <3>4, <3>5
    <2>14. p \notin copied /\ p \notin torn
      BY <2>4, <2>5
    <2>15. t[p].kind = "dir"
      BY <2>2, <2>11, <2>14
    <2>16. IsTree(t)
      <3> SUFFICES ASSUME NEW q \in Path, HasNode(t, q) PROVE HasDir(t, u_dirname(q))
        BY DEF IsTree
      <3> DEFINE u == u_dirname(q)
      <3>1. u \in Path \cup {Root} /\ q # Root
        BY PathFacts
      <3>2. CASE q \in copied \cup torn
        <4>1. CASE u = p
          BY <2>15, <4>1 DEF HasDir
        <4>2. CASE u # p
          <5>1. u \in copied /\ u \in Path /\ d.tree[ro][u].kind = "dir"
            BY <2>4, <2>5, <2>13, <3>2, <4>2
          <5> QED BY <2>11, <5>1 DEF HasDir
        <4> QED BY <4>1, <4>2
      <3>3. CASE q \notin copied \cup torn
        <4>1. HasDir(s, u)
          BY <1>2, <2>11, <3>1, <3>3 DEF HasNode, IsTree
        <4>2. SUFFICES ASSUME u # Root PROVE t[u].kind = "dir"
          BY DEF HasDir
        <4>3. u \in Path /\ HasNode(s, u) /\ s[u].kind = "dir"
          BY <3>1, <4>1, <4>2 DEF HasDir, HasNode
        <4>4. u \notin copied /\ u \notin torn
          BY <2>3, <2>4, <2>5, <4>3
        <4> QED BY <2>11, <4>3, <4>4
      <3> QED BY <3>2, <3>3
    <2>17. /\ Sound(e)
           /\ e.wh = top.disk.wh
           /\ e.tree[rw] = t
           /\ \A b \in Branch : b # rw => e.tree[b] = top.disk.tree[b]
      BY <1>1, <2>12, <2>16, ReplaceTree DEF e
    <2>18. c.err \in Errno \cup {"OK"}
      BY <2>1 DEF Errno
    <2>19. Exists(e, rw, p)
      BY <2>15, <2>17 DEF Exists, HasNode
    <2> QED BY <1>1, <2>1, <2>17, <2>18, <2>19 DEF c
  <1> QED BY <1>4, <1>5

(* cow_cp keeps the trees, writes to rw alone, and if it returns 0 p is on rw. *)
LEMMA CowCp ==
    ASSUME NEW d, Sound(d), NEW p \in Path, NEW ro \in Branch, NEW rw \in Branch, ro # rw,
           NEW copy_dir, NEW env, uopt.cow, Exists(d, ro, p), ~Exists(d, rw, p)
    PROVE  LET c == cow_cp(d, p, ro, rw, copy_dir, env)
           IN  /\ Sound(c.disk)
               /\ c.disk.wh = d.wh
               /\ \A b \in Branch : b # rw => c.disk.tree[b] = d.tree[b]
               /\ c.err \in Errno \cup {"OK"}
               /\ c.err = "OK" => Exists(c.disk, rw, p)
  <1> DEFINE c == cow_cp(d, p, ro, rw, copy_dir, env)
             d1 == path_create(d, u_dirname(p), ro, rw, env).disk
             pc == path_create(d1, p, ro, rw, env)
  <1>1. u_dirname(p) \in Path \cup {Root} /\ p \notin PrefixesOf[u_dirname(p)] /\ p # Root
    BY PathFacts, PrefixesOfChild
  <1>2. /\ Sound(d1) /\ d1.wh = d.wh
        /\ \A b \in Branch : b # rw => d1.tree[b] = d.tree[b]
        /\ d1.tree[rw][p] = d.tree[rw][p]
    BY <1>1, PathCreate
  <1>3. Exists(d1, ro, p) /\ ~Exists(d1, rw, p)
    BY <1>1, <1>2 DEF Exists, HasNode
  <1>4. CASE d.tree[ro][p].kind # "dir"
    <2>1. c = CopyNode(d1, p, ro, rw, env)
      BY <1>4 DEF cow_cp
    <2> HIDE DEF c, d1
    <2> QED BY <1>2, <1>3, <2>1, CopyNodeFacts DEF c
  <1>5. CASE d.tree[ro][p].kind = "dir" /\ copy_dir
    <2>1. c = copy_directory(d1, p, ro, rw, env)
      BY <1>5 DEF cow_cp
    <2> HIDE DEF c, d1
    <2> QED BY <1>2, <1>3, <2>1, CopyDirectoryFacts DEF c
  <1>6. CASE d.tree[ro][p].kind = "dir" /\ ~copy_dir
    <2>1. c.disk = pc.disk /\ c.err = IF pc.ok THEN "OK" ELSE "ENOSPC"
      BY <1>6 DEF cow_cp
    <2> HIDE DEF c, d1
    <2>2. /\ Sound(pc.disk) /\ pc.disk.wh = d1.wh
          /\ \A b \in Branch : b # rw => pc.disk.tree[b] = d1.tree[b]
          /\ pc.ok => \A q \in PrefixesOf[p] : ~Exists(d1, rw, q) => IsDir(pc.disk, rw, q)
      BY <1>2, PathCreate
    <2>3. p \in PrefixesOf[p]
      BY PrefixesOfChild
    <2>4. pc.ok => Exists(pc.disk, rw, p)
      BY <1>1, <1>3, <2>2, <2>3 DEF Exists, HasNode, IsDir, HasDir
    <2>5. c.err \in Errno \cup {"OK"} /\ (c.err = "OK" => pc.ok)
      BY <2>1 DEF Errno
    <2> HIDE DEF pc
    <2> QED BY <1>2, <2>1, <2>2, <2>4, <2>5 DEF c
  <1> QED BY <1>4, <1>5, <1>6

-----------------------------------------------------------------------------
(* Where may p be written?                                                 *)

(* find_lowest_rw_branch answers with a writable branch above, or with -1. *)
LEMMA LowestRw ==
    ASSUME NEW i \in Branch \cup {NBranches}
    PROVE  LET rw == find_lowest_rw_branch(i)
           IN  rw # -1 => rw \in Branch /\ rw < i /\ uopt.rw[rw]
  <1> DEFINE above == {j \in Branch : j < i /\ uopt.rw[j]}
             rw == find_lowest_rw_branch(i)
  <1>1. CASE above = {}
    BY <1>1 DEF find_lowest_rw_branch
  <1>2. CASE above # {}
    <2>1. rw = CHOOSE j \in above : \A k \in above : j <= k
      BY <1>2 DEF find_lowest_rw_branch
    <2>2. PICK j \in above : \A k \in 0 .. j - 1 : k \notin above
      BY <1>2, LeastBranch
    <2>3. \A k \in above : j <= k
      BY <2>2, NBranchesAssumption DEF Branch
    <2>4. rw \in above
      BY <2>1, <2>3
    <2> QED BY <2>4
  <1> QED BY <1>1, <1>2

\* e is d with more on the writable branches and fewer whiteouts
Prepared(d, e) ==
    /\ Sound(e)
    /\ SameReadOnly(d, e)
    /\ \A b \in Branch, q \in Path : e.wh[b][q] \in {d.wh[b][q], "none"}

(* find_rw_branch_cow_common answers with a writable branch that has p.    *)
LEMMA CowCommon ==
    ASSUME NEW d, Sound(d), NEW p \in Path, NEW copy_dir, NEW env
    PROVE  LET c == find_rw_branch_cow_common(d, p, copy_dir, env)
           IN  /\ Prepared(d, c.disk)
               /\ c.branch \in Branch \cup {-1}
               /\ c.branch # -1 => uopt.rw[c.branch] /\ Exists(c.disk, c.branch, p)
               /\ c.err \in Errno \cup {"OK"}
  <1> DEFINE c == find_rw_branch_cow_common(d, p, copy_dir, env)
             i == find_rorw_branch(d, p)
             rw == find_lowest_rw_branch(i)
             cp == cow_cp(d, p, i, rw, copy_dir, env)
  <1>1. i # -1 => i \in Branch /\ Answers(d, p, i)
    BY FindType
  <1>2. "ENOENT" \in Errno /\ "EACCES" \in Errno
    BY DEF Errno
  <1>3. Prepared(d, d)
    BY DEF Prepared, SameReadOnly
  <1>4. CASE i = -1
    <2>1. c = [disk |-> d, branch |-> -1, err |-> "ENOENT"]
      BY <1>4 DEF find_rw_branch_cow_common
    <2> HIDE DEF c
    <2> QED BY <1>2, <1>3, <2>1 DEF c
  <1>5. CASE i # -1 /\ uopt.rw[i]
    <2>1. c = [disk |-> d, branch |-> i, err |-> "OK"]
      BY <1>5 DEF find_rw_branch_cow_common
    <2>2. Exists(d, i, p) /\ i \in Branch
      BY <1>1, <1>5 DEF Answers
    <2> HIDE DEF c, i
    <2> QED BY <1>3, <1>5, <2>1, <2>2 DEF c
  <1>6. CASE i # -1 /\ ~uopt.rw[i] /\ (~uopt.cow \/ rw = -1)
    <2>1. c = [disk |-> d, branch |-> -1, err |-> "EACCES"]
      BY <1>6 DEF find_rw_branch_cow_common
    <2> HIDE DEF c
    <2> QED BY <1>2, <1>3, <2>1 DEF c
  <1>7. CASE i # -1 /\ ~uopt.rw[i] /\ uopt.cow /\ rw # -1
    <2>1. c = IF cp.err # "OK" THEN [disk |-> cp.disk, branch |-> -1, err |-> cp.err]
              ELSE [disk |-> remove_hidden(cp.disk, p, rw), branch |-> rw, err |-> "OK"]
      BY <1>7 DEF find_rw_branch_cow_common, Copied
    <2>2. i \in Branch /\ rw \in Branch /\ rw < i /\ uopt.rw[rw]
      BY <1>1, <1>7, LowestRw
    <2>3. i # rw /\ rw \in 0 .. i - 1
      BY <2>2, BranchFacts
    <2>4. Exists(d, i, p) /\ ~Exists(d, rw, p)
      BY <1>1, <1>7, <2>3 DEF Answers
    <2> HIDE DEF c, i, rw
    <2>5. /\ Sound(cp.disk)
          /\ cp.disk.wh = d.wh
          /\ \A b \in Branch : b # rw => cp.disk.tree[b] = d.tree[b]
          /\ cp.err \in Errno \cup {"OK"}
          /\ cp.err = "OK" => Exists(cp.disk, rw, p)
      BY <1>7, <2>2, <2>3, <2>4, CowCp
    <2> HIDE DEF cp
    <2>6. Prepared(d, cp.disk)
      BY <2>2, <2>5 DEF Prepared, SameReadOnly
    <2>7. CASE cp.err # "OK"
      BY <2>1, <2>5, <2>6, <2>7 DEF c
    <2>8. CASE cp.err = "OK"
      <3> DEFINE e == remove_hidden(cp.disk, p, rw)
      <3>1. Sound(e) /\ e.tree = cp.disk.tree
            /\ \A b \in Branch, q \in Path : e.wh[b][q] \in {cp.disk.wh[b][q], "none"}
        BY <2>5, RemoveHidden
      <3>2. c = [disk |-> e, branch |-> rw, err |-> "OK"]
        BY <2>1, <2>8
      <3> HIDE DEF e
      <3>3. Prepared(d, e) /\ Exists(e, rw, p)
        BY <2>5, <2>6, <2>8, <3>1 DEF Prepared, SameReadOnly, Exists
      <3> QED BY <2>2, <3>2, <3>3 DEF c
    <2> QED BY <2>7, <2>8
  <1> QED BY <1>4, <1>5, <1>6, <1>7

(* One preparation after another is a preparation. *)
LEMMA PreparedTransitive ==
    ASSUME NEW d, NEW e, NEW f, Prepared(d, e), Prepared(e, f)
    PROVE  Prepared(d, f)
  BY DEF Prepared, SameReadOnly

(* find_rw_branch_cow is find_rw_branch_cow_common. *)
LEMMA RwBranchCow ==
    ASSUME NEW d, Sound(d), NEW p \in Path, NEW env
    PROVE  LET c == find_rw_branch_cow(d, p, env)
           IN  /\ Prepared(d, c.disk)
               /\ c.branch \in Branch \cup {-1}
               /\ c.branch # -1 => uopt.rw[c.branch] /\ Exists(c.disk, c.branch, p)
               /\ c.err \in Errno \cup {"OK"}
  BY CowCommon DEF find_rw_branch_cow

(* The second half of __find_rw_branch_cutlast answers with a branch or -1. *)
LEMMA ParentBranchFacts ==
    ASSUME NEW d, Sound(d), NEW p \in Path, NEW env
    PROVE  LET c == ParentBranch(d, p, -1, env)
           IN  /\ Prepared(d, c.disk)
               /\ c.branch \in Branch \cup {-1}
               /\ c.err \in Errno \cup {"OK"}
  <1> DEFINE c == ParentBranch(d, p, -1, env)
             dname == u_dirname(p)
             i == find_rorw_branch(d, dname)
             rw == find_lowest_rw_branch(NBranches)
             pc == path_create(d, dname, i, rw, env)
  <1>1. c = IF i = -1 THEN [disk |-> d, branch |-> -1, err |-> "ENOENT"]
            ELSE IF uopt.rw[i] THEN [disk |-> d, branch |-> i, err |-> "OK"]
            ELSE IF ~uopt.cow \/ rw = -1 THEN [disk |-> d, branch |-> -1, err |-> "EACCES"]
            ELSE [disk |-> pc.disk, branch |-> IF pc.ok THEN rw ELSE i, err |-> "OK"]
    BY DEF ParentBranch
  <1>2. i # -1 => i \in Branch
    BY FindType
  <1>3. rw # -1 => rw \in Branch /\ uopt.rw[rw]
    BY LowestRw
  <1>4. dname \in Path \cup {Root}
    BY PathFacts
  <1>5. "ENOENT" \in Errno /\ "EACCES" \in Errno
    BY DEF Errno
  <1>6. Prepared(d, d)
    BY DEF Prepared, SameReadOnly
  <1> HIDE DEF c, dname, i, rw
  <1>7. ASSUME i # -1, rw # -1 PROVE Prepared(d, pc.disk)
    <2>1. /\ Sound(pc.disk) /\ pc.disk.wh = d.wh
          /\ \A b \in Branch : b # rw => pc.disk.tree[b] = d.tree[b]
      BY <1>2, <1>3, <1>4, <1>7, PathCreate
    <2> HIDE DEF pc
    <2> QED BY <1>3, <1>7, <2>1 DEF Prepared, SameReadOnly
  <1> HIDE DEF pc
  <1>8. /\ Prepared(d, c.disk)
        /\ c.branch \in Branch \cup {-1}
        /\ c.err \in Errno \cup {"OK"}
    BY <1>1, <1>2, <1>3, <1>5, <1>6, <1>7
  <1> QED BY <1>8 DEF c

(* find_rw_branch_cutlast keeps the trees and answers with a branch or -1. *)
LEMMA Cutlast ==
    ASSUME NEW d, Sound(d), NEW p \in Path, NEW env
    PROVE  LET c == find_rw_branch_cutlast(d, p, env)
           IN  /\ Prepared(d, c.disk)
               /\ c.branch \in Branch \cup {-1}
               /\ c.err \in Errno \cup {"OK"}
  <1> DEFINE c == find_rw_branch_cutlast(d, p, env)
             a == find_rw_branch_cow(d, p, env)
             b == ParentBranch(a.disk, p, -1, env)
  <1>1. c = IF a.branch >= 0 \/ a.err # "ENOENT" THEN a ELSE b
    BY DEF find_rw_branch_cutlast, __find_rw_branch_cutlast, OrParentBranch
  <1>2. /\ Prepared(d, a.disk)
        /\ a.branch \in Branch \cup {-1}
        /\ a.err \in Errno \cup {"OK"}
    BY RwBranchCow
  <1>3. Sound(a.disk)
    BY <1>2 DEF Prepared
  <1> HIDE DEF c, a
  <1>4. /\ Prepared(a.disk, b.disk)
        /\ b.branch \in Branch \cup {-1}
        /\ b.err \in Errno \cup {"OK"}
    BY <1>3, ParentBranchFacts
  <1> HIDE DEF b
  <1>5. Prepared(d, b.disk)
    BY <1>2, <1>4, PreparedTransitive
  <1> QED BY <1>1, <1>2, <1>4, <1>5 DEF c

-----------------------------------------------------------------------------
(* What a copy adds.                                                       *)

\* a copy that fails leaves no part of the file
NothingTorn(env) == env.torn => env.fail = {}

\* e is d with copies on rw of what ro has on the way to c
Mirrors(d, e, c, ro, rw) ==
    /\ Sound(e) /\ e.wh = d.wh
    /\ \A b \in Branch : b # rw => e.tree[b] = d.tree[b]
    /\ \A q \in Path : \/ e.tree[rw][q] = d.tree[rw][q]
                       \/ /\ q \in PrefixesOf[c] /\ ~Exists(d, rw, q)
                          /\ e.tree[rw][q] = d.tree[ro][q]

(* Copies added twice are copies. *)
LEMMA MirrorsTransitive ==
    ASSUME NEW d, NEW e, NEW f, NEW c, NEW ro \in Branch, NEW rw \in Branch, ro # rw,
           Mirrors(d, e, c, ro, rw), Mirrors(e, f, c, ro, rw)
    PROVE  Mirrors(d, f, c, ro, rw)
  <1>1. ASSUME NEW q \in Path
        PROVE  \/ f.tree[rw][q] = d.tree[rw][q]
               \/ /\ q \in PrefixesOf[c] /\ ~Exists(d, rw, q)
                  /\ f.tree[rw][q] = d.tree[ro][q]
    <2>1. e.tree[ro] = d.tree[ro]
      BY DEF Mirrors
    <2>2. CASE e.tree[rw][q] = d.tree[rw][q]
      BY <2>1, <2>2 DEF Mirrors, Exists, HasNode
    <2>3. CASE e.tree[rw][q] # d.tree[rw][q]
      <3>1. q \in PrefixesOf[c] /\ ~Exists(d, rw, q) /\ e.tree[rw][q] = d.tree[ro][q]
        BY <2>3 DEF Mirrors
      <3>2. f.tree[rw][q] = e.tree[rw][q] \/ f.tree[rw][q] = d.tree[ro][q]
        BY <2>1 DEF Mirrors
      <3> QED BY <3>1, <3>2
    <2> QED BY <2>2, <2>3
  <1> QED BY <1>1 DEF Mirrors

(* The directories that path_create makes are copies. *)
LEMMA PathCreateMirrors ==
    ASSUME NEW d, Sound(d), NEW p \in Path \cup {Root}, NEW c, PrefixesOf[p] \subseteq PrefixesOf[c],
           NEW ro \in Branch, NEW rw \in Branch, NEW env, IsDir(d, ro, p)
    PROVE  Mirrors(d, path_create(d, p, ro, rw, env).disk, c, ro, rw)
  <1> DEFINE e == path_create(d, p, ro, rw, env).disk
  <1>1. /\ Sound(e)
        /\ e.wh = d.wh
        /\ \A b \in Branch : b # rw => e.tree[b] = d.tree[b]
        /\ \A q \in Path : q \notin PrefixesOf[p] => e.tree[rw][q] = d.tree[rw][q]
        /\ \A q \in Path : Exists(d, rw, q) => e.tree[rw][q] = d.tree[rw][q]
    BY PathCreate
  <1> DEFINE blocked == {q \in Missing(d, p, rw) : Blocked(d, q, ro, rw, env)}
             made == {q \in Missing(d, p, rw) : \A r \in blocked : Len(q) < Len(r)}
             t == [q \in Path |-> IF q \in made THEN DirCopy(d.tree[ro][q]) ELSE d.tree[rw][q]]
  <1>2. e = d \/ e = [d EXCEPT !.tree[rw] = t]
    BY DEF path_create
  <1>3. [d EXCEPT !.tree[rw] = t].tree[rw] = t
    <2> HIDE DEF t
    <2> QED BY DEF Sound, Disk
  <1>4. ASSUME NEW q \in PrefixesOf[p]
        PROVE  DirCopy(d.tree[ro][q]) = d.tree[ro][q]
    <2>1. p # Root /\ q \in Path /\ IsPrefix(q, p) /\ p \in Path
      BY <1>4, PrefixesOfRoot DEF PrefixesOf
    <2>2. IsTree(d.tree[ro]) /\ HasNode(d.tree[ro], p) /\ d.tree[ro][q] \in Entry
      BY <2>1 DEF Sound, WellFormed, Disk, Tree, IsDir, HasDir, HasNode
    <2>3. HasDir(d.tree[ro], q)
      BY <2>1, <2>2, AncestorDirs DEF IsDir
    <2>4. d.tree[ro][q].kind = "dir"
      BY <2>1, <2>3, PathFacts DEF HasDir
    <2> QED BY <2>2, <2>4 DEF DirCopy, Entry, Node, Absent
  <1>5. \A q \in Path : \/ e.tree[rw][q] = d.tree[rw][q]
                        \/ q \in made /\ e.tree[rw][q] = DirCopy(d.tree[ro][q])
    BY <1>2, <1>3
  <1>6. made \subseteq PrefixesOf[p]
    BY DEF Missing
  <1> HIDE DEF e, made
  <1>7. ASSUME NEW q \in Path
        PROVE  \/ e.tree[rw][q] = d.tree[rw][q]
               \/ /\ q \in PrefixesOf[c] /\ ~Exists(d, rw, q)
                  /\ e.tree[rw][q] = d.tree[ro][q]
    BY <1>1, <1>4, <1>5, <1>6
  <1> QED BY <1>1, <1>7 DEF Mirrors, e

(* A copy of c itself is one. *)
LEMMA CopyNodeMirrors ==
    ASSUME NEW d, Sound(d), NEW c \in Path, NEW ro \in Branch, NEW rw \in Branch, NEW env,
           NothingTorn(env), Exists(d, ro, c), ~Exists(d, rw, c)
    PROVE  Mirrors(d, CopyNode(d, c, ro, rw, env).disk, c, ro, rw)
  <1> DEFINE e == CopyNode(d, c, ro, rw, env).disk
             f == [d EXCEPT !.tree[rw][c] = d.tree[ro][c]]
             t == [d.tree[rw] EXCEPT ![c] = d.tree[ro][c]]
  <1>1. Sound(e) /\ e.wh = d.wh /\ \A b \in Branch : b # rw => e.tree[b] = d.tree[b]
    BY CopyNodeFacts
  <1>2. e = d \/ e = f
    BY DEF CopyNode, NothingTorn
  <1>3. f.tree[rw] = t
    BY DEF Sound, Disk
  <1>4. \A q \in Path : t[q] = IF q = c THEN d.tree[ro][c] ELSE d.tree[rw][q]
    BY DEF Sound, Disk, Tree
  <1>5. c \in PrefixesOf[c]
    BY PrefixesOfChild
  <1> HIDE DEF e, f, t
  <1>6. \A q \in Path : \/ e.tree[rw][q] = d.tree[rw][q]
                        \/ /\ q \in PrefixesOf[c] /\ ~Exists(d, rw, q)
                           /\ e.tree[rw][q] = d.tree[ro][q]
    BY <1>2, <1>3, <1>4, <1>5
  <1> QED BY <1>1, <1>6 DEF Mirrors, e

(* Copying c without what is below it adds copies on the way to c. *)
LEMMA CowCpMirrors ==
    ASSUME NEW d, Sound(d), NEW c \in Path, NEW ro \in Branch, NEW rw \in Branch, ro # rw,
           NEW env, NothingTorn(env), Exists(d, ro, c), ~Exists(d, rw, c)
    PROVE  Mirrors(d, cow_cp(d, c, ro, rw, FALSE, env).disk, c, ro, rw)
  <1> DEFINE d1 == path_create(d, u_dirname(c), ro, rw, env).disk
             e == cow_cp(d, c, ro, rw, FALSE, env).disk
  <1>1. /\ u_dirname(c) \in Path \cup {Root} /\ c # Root
        /\ PrefixesOf[u_dirname(c)] \subseteq PrefixesOf[c] /\ c \notin PrefixesOf[u_dirname(c)]
    BY PathFacts, PrefixesOfChild
  <1>2. IsDir(d, ro, u_dirname(c))
    BY DEF Sound, WellFormed, IsTree, IsDir, Exists
  <1>3. Mirrors(d, d1, c, ro, rw)
    BY <1>1, <1>2, PathCreateMirrors
  <1>4. d1.tree[rw][c] = d.tree[rw][c] /\ d1.tree[ro] = d.tree[ro]
    BY <1>1, PathCreate
  <1>5. Exists(d1, ro, c) /\ ~Exists(d1, rw, c)
    BY <1>1, <1>4 DEF Exists, HasNode
  <1>6. \/ e = CopyNode(d1, c, ro, rw, env).disk
        \/ d.tree[ro][c].kind = "dir" /\ e = path_create(d1, c, ro, rw, env).disk
    BY DEF cow_cp
  <1>7. d.tree[ro][c].kind = "dir" => IsDir(d1, ro, c)
    BY <1>4 DEF IsDir, HasDir
  <1> HIDE DEF d1, e
  <1>8. Sound(d1)
    BY <1>3 DEF Mirrors
  <1>9. Mirrors(d1, e, c, ro, rw)
    BY <1>5, <1>6, <1>7, <1>8, CopyNodeMirrors, PathCreateMirrors
  <1> QED BY <1>3, <1>9, MirrorsTransitive DEF e

(* Where no branch hides p, remove_hidden has nothing to remove. *)
LEMMA NothingHidden ==
    ASSUME NEW d, NEW f \in Disk, f.wh = d.wh, NEW p \in Path, NEW rw, uopt.cow,
           \A b \in Branch : b <= rw => ~path_hidden(d, p, b)
    PROVE  remove_hidden(f, p, rw) = f
  <1> DEFINE w == [b \in Branch |-> IF b <= rw THEN [f.wh[b] EXCEPT ![p] = "none"] ELSE f.wh[b]]
  <1>1. \A b \in Branch : b <= rw => f.wh[b][p] = "none"
    BY PrefixesOfChild DEF path_hidden
  <1>2. remove_hidden(f, p, rw) = [f EXCEPT !.wh = w]
    BY DEF remove_hidden
  <1>3. w = f.wh
    <2>1. f.wh \in [Branch -> [Path -> {"none", "file", "dir"}]]
      BY DEF Disk
    <2>2. \A b \in Branch : b <= rw => [f.wh[b] EXCEPT ![p] = "none"] = f.wh[b]
      BY <1>1, <2>1
    <2>3. \A b \in Branch : w[b] = f.wh[b]
      BY <2>2
    <2> HIDE DEF w
    <2>4. w = [b \in Branch |-> w[b]]
      BY DEF w
    <2>5. f.wh = [b \in Branch |-> f.wh[b]]
      BY <2>1
    <2> QED BY <2>3, <2>4, <2>5
  <1> HIDE DEF w
  <1>4. [f EXCEPT !.wh = w] = f
    BY <1>3 DEF Disk
  <1> QED BY <1>2, <1>4

(* find_rw_branch_cow leaves the disk as it is, or with copies on the way   *)
(* to p, on the uppermost writable branch, of what the branch of p has.     *)
LEMMA CopyUpMirrors ==
    ASSUME NEW d, Sound(d), NEW p \in Path, NEW env, NothingTorn(env)
    PROVE  LET e  == find_rw_branch_cow(d, p, env).disk
               i  == find_rorw_branch(d, p)
               rw == find_lowest_rw_branch(i)
           IN  \/ e = d
               \/ /\ i \in Branch /\ ~uopt.rw[i] /\ Answers(d, p, i) /\ uopt.cow
                  /\ rw \in Branch /\ rw < i /\ uopt.rw[rw]
                  /\ Mirrors(d, e, p, i, rw)
  <1> DEFINE e == find_rw_branch_cow(d, p, env).disk
             i == find_rorw_branch(d, p)
             rw == find_lowest_rw_branch(i)
             cp == cow_cp(d, p, i, rw, FALSE, env)
  <1>1. CASE i = -1 \/ uopt.rw[i] \/ ~uopt.cow \/ rw = -1
    BY <1>1 DEF find_rw_branch_cow, find_rw_branch_cow_common
  <1>2. CASE i # -1 /\ ~uopt.rw[i] /\ uopt.cow /\ rw # -1
    <2>1. e = cp.disk \/ e = remove_hidden(cp.disk, p, rw)
      BY <1>2 DEF find_rw_branch_cow, find_rw_branch_cow_common, Copied
    <2>2. i \in Branch /\ Answers(d, p, i)
      BY <1>2, FindType
    <2>3. rw \in Branch /\ rw < i /\ uopt.rw[rw]
      BY <1>2, <2>2, LowestRw
    <2> HIDE DEF i, rw, e
    <2>4. i # rw /\ i \in Nat /\ rw \in Nat /\ \A b \in Branch : b <= rw => b \in 0 .. i - 1
      BY <2>2, <2>3, BranchFacts
    <2>5. rw \in 0 .. i - 1
      BY <2>3, <2>4
    <2>6. Exists(d, i, p) /\ ~Exists(d, rw, p)
      BY <2>2, <2>5 DEF Answers
    <2>7. Mirrors(d, cp.disk, p, i, rw)
      BY <2>2, <2>3, <2>4, <2>6, CowCpMirrors
    <2>8. remove_hidden(cp.disk, p, rw) = cp.disk
      <3>1. \A b \in Branch : b <= rw => ~path_hidden(d, p, b)
        BY <2>2, <2>4 DEF Answers
      <3> HIDE DEF cp
      <3> QED BY <1>2, <2>7, <3>1, NothingHidden DEF Mirrors, Sound
    <2> QED BY <1>2, <2>1, <2>2, <2>3, <2>7, <2>8 DEF e, i, rw
  <1> QED BY <1>1, <1>2
=============================================================================
