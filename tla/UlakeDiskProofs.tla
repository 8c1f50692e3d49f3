-------------------------- MODULE UlakeDiskProofs --------------------------
(***************************************************************************)
(* Lemmas about paths: what u_dirname, prefixes and subtrees have to do    *)
(* with one another, and that rename(2) turns a tree into a tree.  Then    *)
(* the lookups of UlakeDisk, for every disk: what find_rorw_branch answers *)
(* and that a directory listing agrees with the lookup of each name.       *)
(***************************************************************************)
EXTENDS UlakeDisk, SequenceTheorems, WellFoundedInduction, TLAPS

-----------------------------------------------------------------------------
(* Paths.                                                                  *)

(* Arithmetic on lengths. *)
LEMMA NatSmall == \A n \in Nat \ {0} : n # 1 => n > 1
  OBVIOUS

(* Every length but zero is one more than another. *)
LEMMA NatPred == \A n \in Nat \ {0} : \E m \in Nat : n = m + 1
  <1> TAKE n \in Nat \ {0}
  <1> WITNESS n - 1 \in Nat
  <1> QED OBVIOUS

(* u_dirname drops the last name. *)
LEMMA FrontFacts ==
    ASSUME NEW S, NEW s \in Seq(S), s # <<>>
    PROVE  /\ Front(s) \in Seq(S)
           /\ Len(s) \in Nat \ {0}
           /\ Len(Front(s)) = Len(s) - 1
           /\ \A i \in 1 .. Len(s) - 1 : Front(s)[i] = s[i]
  <1>1. Len(s) \in Nat \ {0} /\ \A i \in 1 .. Len(s) : s[i] \in S
    BY EmptySeq
  <1>2. PICK n \in Nat : Len(s) = n + 1
    BY <1>1, NatPred
  <1>3. /\ n + 1 - 1 = n /\ n - 1 + 1 = n /\ (n < 1 => n = 0)
        /\ \A i \in 1 .. n : i \in 1 .. n + 1 /\ 1 + i - 1 = i
    OBVIOUS
  <1>4. Front(s) = SubSeq(s, 1, n)
    BY <1>2, <1>3 DEF Front
  <1>5. /\ SubSeq(s, 1, n) \in Seq(S)
        /\ Len(SubSeq(s, 1, n)) = IF 1 <= n THEN n - 1 + 1 ELSE 0
        /\ \A i \in 1 .. n - 1 + 1 : SubSeq(s, 1, n)[i] = s[1 + i - 1]
    BY <1>1, <1>2, <1>3, SubSeqProperties
  <1> QED BY <1>1, <1>2, <1>3, <1>4, <1>5

(* A path is a non-empty sequence; its directory is a path or the root. *)
LEMMA PathFacts ==
    ASSUME NEW p \in Path
    PROVE  /\ p \in Seq(Name) /\ p # Root
           /\ Len(p) \in Nat \ {0}
           /\ u_dirname(p) \in Path \cup {Root}
           /\ u_dirname(p) \in Seq(Name)
           /\ Len(u_dirname(p)) = Len(p) - 1
           /\ \A i \in 1 .. Len(p) - 1 : u_dirname(p)[i] = p[i]
  <1>1. p \in Seq(Name) /\ p # Root /\ p # <<>>
    BY PathAssumption DEF Root
  <1>2. /\ u_dirname(p) \in Seq(Name)
        /\ Len(p) \in Nat \ {0}
        /\ Len(u_dirname(p)) = Len(p) - 1
        /\ \A i \in 1 .. Len(p) - 1 : u_dirname(p)[i] = p[i]
    BY <1>1, FrontFacts DEF u_dirname
  <1>3. u_dirname(p) \in Path \cup {Root}
    <2>1. CASE Len(p) = 1
      <3>1. Len(u_dirname(p)) = 0
        BY <1>2, <2>1
      <3> QED BY <3>1, <1>2, EmptySeq DEF Root
    <2>2. CASE Len(p) # 1
      BY <2>2, <1>2, NatSmall, PathAssumption DEF u_dirname
    <2> QED BY <2>1, <2>2
  <1> QED BY <1>1, <1>2, <1>3

(* IsPrefix, name by name. *)
LEMMA PrefixPointwise ==
    ASSUME NEW S, NEW q \in Seq(S), NEW s \in Seq(S)
    PROVE  IsPrefix(q, s) <=> Len(q) <= Len(s) /\ \A i \in 1 .. Len(q) : q[i] = s[i]
  <1> DEFINE n == Len(q)
  <1>1. n \in Nat /\ Len(s) \in Nat /\ (n < 1 => n = 0) /\ n - 1 + 1 = n
    BY EmptySeq, LenProperties
  <1>2. \A i \in 1 .. n : 1 + i - 1 = i
    BY <1>1
  <1>3. CASE n <= Len(s)
    <2>1. \A i \in 1 .. n : q[i] \in S /\ s[i] \in S
      BY <1>3, <1>1
    <2> DEFINE a == SubSeq(q, 1, n)
               b == SubSeq(s, 1, n)
    <2> HIDE DEF n
    <2>2. /\ a \in Seq(S) /\ b \in Seq(S)
          /\ Len(a) = n /\ Len(b) = n
          /\ \A i \in 1 .. n : a[i] = q[i] /\ b[i] = s[i]
      BY <1>1, <1>2, <2>1, SubSeqProperties
    <2>3. IsPrefix(q, s) <=> a = b
      BY <1>3 DEF IsPrefix, n
    <2> HIDE DEF a, b
    <2>4. a = b <=> \A i \in 1 .. n : a[i] = b[i]
      BY <2>2, SeqEqual
    <2> QED BY <2>2, <2>3, <2>4, <1>3 DEF n
  <1>4. CASE ~(n <= Len(s))
    BY <1>4 DEF IsPrefix
  <1> QED BY <1>3, <1>4

(* q is on the way to p exactly if it is p or on the way to p's directory. *)
LEMMA IsPrefixChild ==
    ASSUME NEW p \in Path, NEW q \in Path \cup {Root}
    PROVE  IsPrefix(q, p) <=> IsPrefix(q, u_dirname(p)) \/ q = p
  <1>1. /\ p \in Seq(Name) /\ u_dirname(p) \in Seq(Name)
        /\ Len(p) \in Nat \ {0} /\ Len(u_dirname(p)) = Len(p) - 1
        /\ \A i \in 1 .. Len(p) - 1 : u_dirname(p)[i] = p[i]
    BY PathFacts
  <1>2. q \in Seq(Name) /\ Len(q) \in Nat
    BY PathFacts, EmptySeq, LenProperties DEF Root
  <1>3. PICK n \in Nat : Len(p) = n + 1
    BY <1>1, NatPred
  <1>4. n + 1 - 1 = n
    OBVIOUS
  <1> DEFINE m == Len(q)
             u == u_dirname(p)
  <1>5. m \in Nat
    BY <1>2
  <1>6. IsPrefix(q, p) <=> m <= n + 1 /\ \A i \in 1 .. m : q[i] = p[i]
    BY <1>1, <1>2, <1>3, PrefixPointwise
  <1>7. IsPrefix(q, u) <=> m <= n /\ \A i \in 1 .. m : q[i] = u[i]
    BY <1>1, <1>2, <1>3, <1>4, PrefixPointwise
  <1>8. q = p <=> m = n + 1 /\ \A i \in 1 .. m : q[i] = p[i]
    BY <1>1, <1>2, <1>3, SeqEqual
  <1>9. \A i \in 1 .. n : u[i] = p[i]
    BY <1>1, <1>3, <1>4
  <1> HIDE DEF m, u
  <1>10. m <= n => ((\A i \in 1 .. m : q[i] = u[i]) <=> (\A i \in 1 .. m : q[i] = p[i]))
    BY <1>5, <1>9
  <1>11. m <= n + 1 <=> m <= n \/ m = n + 1
    BY <1>5
  <1>12. ~(m = n + 1 /\ m <= n)
    BY <1>5
  <1> QED BY <1>6, <1>7, <1>8, <1>10, <1>11, <1>12 DEF u

(* The empty sequence is a prefix of every sequence, and of no other a prefix. *)
LEMMA IsPrefixEmpty ==
    ASSUME NEW S, NEW r \in Seq(S), Len(r) = 0, NEW s \in Seq(S)
    PROVE  IsPrefix(r, s) /\ (IsPrefix(s, r) => Len(s) = 0)
  <1>1. Len(s) \in Nat
    BY LenProperties
  <1>2. \A n \in Nat : 0 <= n /\ (n <= 0 => n = 0)
    OBVIOUS
  <1>3. \A i \in 1 .. 0 : FALSE
    OBVIOUS
  <1>4. IsPrefix(r, s)
    BY <1>1, <1>2, <1>3, PrefixPointwise
  <1>5. IsPrefix(s, r) => Len(s) <= Len(r)
    BY DEF IsPrefix
  <1> QED BY <1>1, <1>2, <1>4, <1>5

(* The root is on the way to every path and no path is on its way. *)
LEMMA IsPrefixRoot ==
    /\ \A p \in Path : IsPrefix(Root, p) /\ ~IsPrefix(p, Root)
    /\ IsPrefix(Root, Root)
  <1>1. Root \in Seq(Name) /\ Len(Root) = 0
    BY EmptySeq DEF Root
  <1>2. ASSUME NEW p \in Path PROVE IsPrefix(Root, p) /\ ~IsPrefix(p, Root)
    <2>1. p \in Seq(Name) /\ Len(p) # 0
      BY PathFacts
    <2> QED BY <1>1, <2>1, IsPrefixEmpty
  <1> QED BY <1>1, <1>2, IsPrefixEmpty

(* A path is on the way to itself. *)
LEMMA IsPrefixSelf == \A p \in Path : IsPrefix(p, p)
  BY IsPrefixChild

(* The way to p is the way to its directory, and p. *)
LEMMA PrefixesOfChild ==
    ASSUME NEW p \in Path
    PROVE  /\ PrefixesOf[p] = PrefixesOf[u_dirname(p)] \cup {p}
           /\ p \notin PrefixesOf[u_dirname(p)]
           /\ PrefixesOf[p] \subseteq Path
  <1>1. u_dirname(p) \in Path \cup {Root}
    BY PathFacts
  <1>2. p \notin PrefixesOf[u_dirname(p)]
    <2>1. /\ p \in Seq(Name) /\ u_dirname(p) \in Seq(Name)
          /\ Len(p) \in Nat \ {0} /\ Len(u_dirname(p)) = Len(p) - 1
      BY PathFacts
    <2>2. \A n \in Nat : ~(n <= n - 1)
      OBVIOUS
    <2>3. ~(Len(p) <= Len(u_dirname(p)))
      BY <2>1, <2>2
    <2> QED BY <1>1, <2>3 DEF PrefixesOf, IsPrefix
  <1> QED BY <1>1, <1>2, IsPrefixChild DEF PrefixesOf

(* The way to the root is empty. *)
LEMMA PrefixesOfRoot == PrefixesOf[Root] = {}
  BY IsPrefixRoot DEF PrefixesOf

-----------------------------------------------------------------------------
(* The order of prefixes.                                                  *)

(* Paths and the root are sequences with a length. *)
LEMMA PathSeq == \A p \in Path \cup {Root} : p \in Seq(Name) /\ Len(p) \in Nat
  BY PathFacts, EmptySeq, LenProperties DEF Root

(* Being on the way to a path is transitive. *)
LEMMA PrefixTransitive ==
    ASSUME NEW p \in Path \cup {Root}, NEW q \in Path \cup {Root}, NEW r \in Path \cup {Root},
           IsPrefix(p, q), IsPrefix(q, r)
    PROVE  IsPrefix(p, r)
  <1> DEFINE k == Len(p)
             m == Len(q)
             n == Len(r)
  <1>1. p \in Seq(Name) /\ q \in Seq(Name) /\ r \in Seq(Name)
    BY PathSeq
  <1>2. k \in Nat /\ m \in Nat /\ n \in Nat
    BY PathSeq
  <1>3. k <= m /\ \A i \in 1 .. k : p[i] = q[i]
    BY <1>1, PrefixPointwise
  <1>4. m <= n /\ \A i \in 1 .. m : q[i] = r[i]
    BY <1>1, PrefixPointwise
  <1>5. IsPrefix(p, r) <=> k <= n /\ \A i \in 1 .. k : p[i] = r[i]
    BY <1>1, PrefixPointwise
  <1> HIDE DEF k, m, n
  <1>6. k <= n /\ \A i \in 1 .. k : i \in 1 .. m
    BY <1>2, <1>3, <1>4
  <1> QED BY <1>3, <1>4, <1>5, <1>6

(* Two paths of one length on the way to the same path are the same. *)
LEMMA PrefixSameLength ==
    ASSUME NEW a \in Path, NEW b \in Path, NEW q \in Path,
           IsPrefix(a, q), IsPrefix(b, q), Len(a) = Len(b)
    PROVE  a = b
  <1>1. a \in Seq(Name) /\ b \in Seq(Name) /\ q \in Seq(Name)
    BY PathSeq
  <1>2. (\A i \in 1 .. Len(a) : a[i] = q[i]) /\ (\A i \in 1 .. Len(b) : b[i] = q[i])
    BY <1>1, PrefixPointwise
  <1> QED BY <1>1, <1>2, SeqEqual

(* On the way to a path there is one name in each directory. *)
LEMMA PrefixSameDir ==
    ASSUME NEW a \in Path, NEW b \in Path, NEW q \in Path,
           IsPrefix(a, q), IsPrefix(b, q), u_dirname(a) = u_dirname(b)
    PROVE  a = b
  <1>1. Len(a) \in Nat /\ Len(b) \in Nat /\ Len(a) - 1 = Len(b) - 1
    BY PathFacts
  <1>2. \A m, n \in Nat : m - 1 = n - 1 => m = n
    OBVIOUS
  <1> QED BY <1>1, <1>2, PrefixSameLength

(* Two paths on the way to one another are the same. *)
LEMMA PrefixAntisymmetric ==
    ASSUME NEW a \in Path, NEW b \in Path, IsPrefix(a, b), IsPrefix(b, a)
    PROVE  a = b
  <1>1. Len(a) \in Nat /\ Len(b) \in Nat /\ Len(a) <= Len(b) /\ Len(b) <= Len(a)
    BY PathSeq DEF IsPrefix
  <1>2. \A m, n \in Nat : m <= n /\ n <= m => m = n
    OBVIOUS
  <1> QED BY <1>1, <1>2, IsPrefixSelf, PrefixSameLength

(* A set of paths has one of least length. *)
LEMMA LeastPath ==
    ASSUME NEW T, T \subseteq Path, T # {}
    PROVE  \E m \in T : \A q \in T : ~(Len(q) < Len(m))
  <1> DEFINE L == {Len(q) : q \in T}
  <1>1. L \subseteq Nat /\ L # {}
    BY PathSeq
  <1>2. PICK l \in L : \A k \in L : ~(<<k, l>> \in OpToRel(<, Nat))
    BY <1>1, NatLessThanWellFounded, WFMin
  <1>3. \A k \in L : ~(k < l)
    BY <1>1, <1>2 DEF OpToRel
  <1> QED BY <1>2, <1>3

(* Two paths on the way to a third are on the way to one another. *)
LEMMA PrefixesComparable ==
    ASSUME NEW a \in Path, NEW b \in Path, NEW q \in Path, IsPrefix(a, q), IsPrefix(b, q)
    PROVE  IsPrefix(a, b) \/ IsPrefix(b, a)
  <1> DEFINE k == Len(a)
             l == Len(b)
  <1>1. k \in Nat /\ l \in Nat /\ a \in Seq(Name) /\ b \in Seq(Name) /\ q \in Seq(Name)
    BY PathSeq
  <1>2. /\ \A i \in 1 .. k : a[i] = q[i]
        /\ \A i \in 1 .. l : b[i] = q[i]
    BY <1>1, PrefixPointwise
  <1>3. CASE k <= l
    <2>1. \A i \in 1 .. k : i \in 1 .. l
      BY <1>1, <1>3
    <2>2. \A i \in 1 .. k : a[i] = b[i]
      BY <1>2, <2>1
    <2> QED BY <1>1, <1>3, <2>2, PrefixPointwise
  <1>4. CASE l <= k
    <2>1. \A i \in 1 .. l : i \in 1 .. k
      BY <1>1, <1>4
    <2>2. \A i \in 1 .. l : b[i] = a[i]
      BY <1>2, <2>1
    <2> QED BY <1>1, <1>4, <2>2, PrefixPointwise
  <1> QED BY <1>1, <1>3, <1>4

-----------------------------------------------------------------------------
(* Trees.                                                                  *)

(* Whatever is on the way to an entry of a tree is in the tree. *)
LEMMA Ancestors ==
    ASSUME NEW t, IsTree(t), NEW p \in Path, NEW q \in Path, IsPrefix(p, q), HasNode(t, q)
    PROVE  HasNode(t, p)
  <1> DEFINE T == {r \in Path : IsPrefix(p, r) /\ HasNode(t, r)}
  <1>1. PICK m \in T : \A r \in T : ~(Len(r) < Len(m))
    BY LeastPath
  <1>2. /\ u_dirname(m) \in Path \cup {Root}
        /\ Len(m) \in Nat /\ Len(u_dirname(m)) = Len(m) - 1
    BY PathFacts
  <1>3. Len(u_dirname(m)) < Len(m)
    <2>1. \A n \in Nat : n - 1 < n
      OBVIOUS
    <2> QED BY <1>2, <2>1
  <1>4. SUFFICES ASSUME m # p PROVE FALSE
    OBVIOUS
  <1>5. IsPrefix(p, u_dirname(m))
    BY <1>4, IsPrefixChild
  <1>6. u_dirname(m) \in Path
    BY <1>2, <1>5, IsPrefixRoot
  <1>7. HasNode(t, u_dirname(m))
    <2>1. HasDir(t, u_dirname(m)) /\ "dir" # "none"
      BY DEF IsTree
    <2> QED BY <2>1 DEF HasDir, HasNode
  <1> QED BY <1>1, <1>3, <1>5, <1>6, <1>7

(* Whatever is strictly on the way to an entry of a tree is a directory. *)
LEMMA AncestorDirs ==
    ASSUME NEW t, IsTree(t), NEW p \in Path, NEW q \in Path, IsPrefix(p, q), p # q, HasNode(t, q)
    PROVE  HasDir(t, p)
  <1> DEFINE T == {r \in Path : IsPrefix(p, r) /\ r # p /\ HasNode(t, r)}
  <1>1. PICK m \in T : \A r \in T : ~(Len(r) < Len(m))
    BY LeastPath
  <1>2. /\ u_dirname(m) \in Path \cup {Root}
        /\ Len(m) \in Nat /\ Len(u_dirname(m)) = Len(m) - 1
    BY PathFacts
  <1>3. Len(u_dirname(m)) < Len(m)
    <2>1. \A n \in Nat : n - 1 < n
      OBVIOUS
    <2> QED BY <1>2, <2>1
  <1>4. IsPrefix(p, u_dirname(m))
    BY IsPrefixChild
  <1>5. u_dirname(m) \in Path
    BY <1>2, <1>4, IsPrefixRoot
  <1>6. HasDir(t, u_dirname(m))
    BY DEF IsTree
  <1>7. HasNode(t, u_dirname(m))
    <2>1. "dir" # "none"
      OBVIOUS
    <2> QED BY <1>6, <2>1 DEF HasDir, HasNode
  <1>8. u_dirname(m) = p
    BY <1>1, <1>3, <1>4, <1>5, <1>7
  <1> QED BY <1>6, <1>8

-----------------------------------------------------------------------------
(* rename(2).                                                              *)

(* The source of q is from, followed by what q has below to. *)
LEMMA SourceFacts ==
    ASSUME NEW from \in Path, NEW to \in Path, NEW q \in Path, IsPrefix(to, q)
    PROVE  /\ Source(from, to, q) \in Seq(Name)
           /\ Len(Source(from, to, q)) = Len(from) + (Len(q) - Len(to))
           /\ \A i \in 1 .. Len(from) + (Len(q) - Len(to)) :
                 Source(from, to, q)[i] = IF i <= Len(from) THEN from[i]
                                          ELSE q[Len(to) + (i - Len(from))]
  <1> DEFINE l == Len(from)
             k == Len(to)
             n == Len(q)
             s == SubSeq(q, k + 1, n)
  <1>1. from \in Seq(Name) /\ to \in Seq(Name) /\ q \in Seq(Name)
    BY PathSeq
  <1>2. l \in Nat /\ k \in Nat /\ n \in Nat
    BY PathSeq
  <1>3. k <= n
    BY DEF IsPrefix
  <1>4. \A i \in 1 .. n : q[i] \in Name
    BY <1>1, ElementOfSeq
  <1>5. s \in Seq(Name) /\ Len(s) = n - k /\ \A i \in 1 .. n - k : s[i] = q[k + i]
    <2> HIDE DEF l, k, n
    <2>1. k + 1 \in Int /\ n \in Int /\ \A i \in k + 1 .. n : i \in 1 .. n
      BY <1>2
    <2>2. /\ n - (k + 1) + 1 = n - k /\ (~(k + 1 <= n) => n - k = 0)
          /\ \A i \in 1 .. n - k : k + 1 + i - 1 = k + i
      BY <1>2, <1>3
    <2>3. \A i \in k + 1 .. n : q[i] \in Name
      BY <2>1, <1>4
    <2> QED BY <2>1, <2>2, <2>3, SubSeqProperties
  <1>6. Source(from, to, q) = from \o s
    BY DEF Source
  <1> HIDE DEF s
  <1>7. /\ from \o s \in Seq(Name) /\ Len(from \o s) = l + (n - k)
        /\ \A i \in 1 .. l + (n - k) :
              (from \o s)[i] = IF i <= l THEN from[i] ELSE s[i - l]
    <2> HIDE DEF k, n
    <2>1. /\ from \o s \in Seq(Name) /\ Len(from \o s) = Len(from) + Len(s)
          /\ \A i \in 1 .. Len(from) + Len(s) :
                (from \o s)[i] = IF i <= Len(from) THEN from[i] ELSE s[i - Len(from)]
      BY <1>1, <1>5, ConcatProperties
    <2>2. Len(s) = n - k
      BY <1>5
    <2> QED BY <2>1, <2>2
  <1> HIDE DEF l, k, n
  <1>8. \A i \in 1 .. l + (n - k) : ~(i <= l) => i - l \in 1 .. n - k
    BY <1>2, <1>3
  <1>9. \A i \in 1 .. l + (n - k) :
            (from \o s)[i] = IF i <= l THEN from[i] ELSE q[k + (i - l)]
    BY <1>5, <1>7, <1>8
  <1> QED BY <1>6, <1>7, <1>9 DEF l, k, n

(* The source of to is from. *)
LEMMA SourceOfTarget ==
    ASSUME NEW from \in Path, NEW to \in Path
    PROVE  Source(from, to, to) = from
  <1> DEFINE l == Len(from)
             k == Len(to)
             s == Source(from, to, to)
  <1>1. from \in Seq(Name) /\ l \in Nat /\ k \in Nat
    BY PathSeq
  <1>2. /\ s \in Seq(Name) /\ Len(s) = l + (k - k)
        /\ \A i \in 1 .. l + (k - k) : s[i] = IF i <= l THEN from[i] ELSE to[k + (i - l)]
    BY IsPrefixSelf, SourceFacts
  <1> HIDE DEF s, k
  <1>3. l + (k - k) = l
    <2> HIDE DEF l
    <2> QED BY <1>1
  <1>4. \A i \in 1 .. l : s[i] = from[i]
    <2> HIDE DEF l
    <2>1. \A i \in 1 .. l : i <= l
      BY <1>1
    <2> QED BY <1>2, <1>3, <2>1
  <1>5. Len(s) = Len(from) /\ \A i \in 1 .. Len(s) : s[i] = from[i]
    BY <1>2, <1>3, <1>4
  <1>6. s = from
    BY <1>1, <1>2, <1>5, SeqEqual
  <1> QED BY <1>6 DEF s

(* The directory of a source is the source of the directory. *)
LEMMA SourceOfChild ==
    ASSUME NEW from \in Path, NEW to \in Path, NEW q \in Path, IsPrefix(to, q), q # to,
           Source(from, to, q) \in Path
    PROVE  /\ u_dirname(q) \in Path /\ IsPrefix(to, u_dirname(q))
           /\ Source(from, to, u_dirname(q)) = u_dirname(Source(from, to, q))
           /\ Source(from, to, u_dirname(q)) # Root
  <1> DEFINE l == Len(from)
             k == Len(to)
             n == Len(q)
             m == Len(u_dirname(q))
             u == u_dirname(q)
             s == Source(from, to, q)
             v == Source(from, to, u)
             w == u_dirname(s)
  <1>1. IsPrefix(to, u)
    BY IsPrefixChild
  <1>2. u \in Path
    BY <1>1, PathFacts, IsPrefixRoot
  <1>3. l \in Nat \ {0} /\ k \in Nat /\ n \in Nat \ {0} /\ k <= m
    BY <1>1, PathFacts DEF IsPrefix
  <1>4. m = n - 1 /\ \A i \in 1 .. n - 1 : u[i] = q[i]
    BY PathFacts
  <1>5. Len(s) = l + (n - k)
    BY SourceFacts
  <1>6. s \in Seq(Name) /\ \A i \in 1 .. l + (n - k) :
                               s[i] = IF i <= l THEN from[i] ELSE q[k + (i - l)]
    BY SourceFacts
  <1>7. Len(v) = l + (m - k)
    BY <1>1, <1>2, SourceFacts
  <1>8. v \in Seq(Name) /\ \A i \in 1 .. l + (m - k) :
                               v[i] = IF i <= l THEN from[i] ELSE u[k + (i - l)]
    BY <1>1, <1>2, SourceFacts
  <1>9. Len(w) = Len(s) - 1
    BY PathFacts
  <1>10. w \in Seq(Name) /\ \A i \in 1 .. Len(s) - 1 : w[i] = s[i]
    BY PathFacts
  <1> DEFINE j == Len(s)
  <1> HIDE DEF l, k, n, m, u, s, v, w
  <1>11. /\ l + (n - k) - 1 = l + (m - k)
         /\ l + (m - k) # 0
         /\ \A i \in 1 .. l + (m - k) :
               /\ i \in 1 .. l + (n - k)
               /\ ~(i <= l) => k + (i - l) \in 1 .. n - 1
    BY <1>3, <1>4
  <1>12. j - 1 = l + (m - k)
    <2>1. j = l + (n - k)
      BY <1>5
    <2> HIDE DEF j
    <2> QED BY <2>1, <1>3, <1>4
  <1>13. ASSUME NEW i \in 1 .. l + (m - k) PROVE w[i] = v[i]
    <2>1. w[i] = s[i] /\ i \in 1 .. l + (n - k)
      BY <1>10, <1>11, <1>12
    <2>2. s[i] = IF i <= l THEN from[i] ELSE q[k + (i - l)]
      BY <1>6, <2>1
    <2>3. v[i] = IF i <= l THEN from[i] ELSE u[k + (i - l)]
      BY <1>8
    <2>4. ~(i <= l) => u[k + (i - l)] = q[k + (i - l)]
      BY <1>4, <1>11
    <2> QED BY <2>1, <2>2, <2>3, <2>4
  <1>14. Len(w) = Len(v)
    BY <1>7, <1>9, <1>12
  <1>15. \A i \in 1 .. Len(v) : w[i] = v[i]
    BY <1>7, <1>13
  <1>16. v = w
    BY <1>8, <1>10, <1>14, <1>15, SeqEqual
  <1>17. v # Root
    <2>1. Len(Root) = 0
      BY EmptySeq DEF Root
    <2> QED BY <2>1, <1>7, <1>11
  <1> QED BY <1>1, <1>2, <1>16, <1>17 DEF u, s, v, w

(* rename(2) to a place with a directory turns a tree into a tree. *)
LEMMA GraftTree ==
    ASSUME NEW t \in Tree, IsTree(t), NEW from \in Path, NEW to \in Path,
           ~IsPrefix(from, to), ~IsPrefix(to, from), HasDir(t, u_dirname(to))
    PROVE  Graft(t, from, to) \in Tree /\ IsTree(Graft(t, from, to))
  <1> DEFINE g == Graft(t, from, to)
  <1>1. g \in Tree
    BY DEF Graft, Tree, Entry
  <1>2. \A q \in Path : g[q] = IF IsPrefix(to, q)
                               THEN IF Source(from, to, q) \in Path
                                    THEN t[Source(from, to, q)] ELSE Absent
                               ELSE IF IsPrefix(from, q) THEN Absent ELSE t[q]
    BY DEF Graft
  <1> HIDE DEF g
  <1>3. ASSUME NEW q \in Path, HasNode(g, q) PROVE HasDir(g, u_dirname(q))
    <2> DEFINE u == u_dirname(q)
    <2>1. q # Root /\ u \in Path \cup {Root} /\ g[q].kind # "none"
      BY <1>3, PathFacts DEF HasNode
    <2>2. CASE q = to
      <3>1. CASE u = Root
        BY <3>1 DEF HasDir
      <3>2. CASE u # Root
        <4>1. u \in Path /\ ~IsPrefix(to, u) /\ ~IsPrefix(from, u)
          BY <2>1, <2>2, <3>2, IsPrefixChild, PrefixesOfChild DEF PrefixesOf
        <4>2. g[u] = t[u]
          BY <1>2, <4>1
        <4> QED BY <2>2, <3>2, <4>2 DEF HasDir
      <3> QED BY <3>1, <3>2
    <2>3. CASE q # to /\ IsPrefix(to, q)
      <3>1. Source(from, to, q) \in Path /\ g[q] = t[Source(from, to, q)]
        BY <2>1, <2>3, <1>2 DEF Absent
      <3>2. /\ u \in Path /\ IsPrefix(to, u)
            /\ Source(from, to, u) = u_dirname(Source(from, to, q))
            /\ Source(from, to, u) # Root
        BY <2>3, <3>1, SourceOfChild
      <3>3. Source(from, to, u) \in Path
        BY <3>1, <3>2, PathFacts
      <3>4. t[Source(from, to, u)].kind = "dir"
        BY <2>1, <3>1, <3>2 DEF IsTree, HasNode, HasDir
      <3>5. g[u] = t[Source(from, to, u)]
        BY <1>2, <3>2, <3>3
      <3> QED BY <3>4, <3>5 DEF HasDir
    <2>4. CASE ~IsPrefix(to, q)
      <3>1. ~IsPrefix(from, q) /\ g[q] = t[q]
        BY <2>1, <2>4, <1>2 DEF Absent
      <3>2. HasDir(t, u)
        BY <2>1, <3>1 DEF IsTree, HasNode
      <3>3. ~IsPrefix(from, u) /\ ~IsPrefix(to, u)
        BY <2>4, <3>1, IsPrefixChild
      <3>4. u # Root => g[u] = t[u]
        BY <1>2, <2>1, <3>3
      <3> QED BY <3>2, <3>4 DEF HasDir
    <2> QED BY <2>2, <2>3, <2>4
  <1> QED BY <1>1, <1>3 DEF IsTree, g

-----------------------------------------------------------------------------
(* Branches.                                                               *)

(* A non-empty set of branches has an uppermost one. *)
LEMMA LeastBranch ==
    ASSUME NEW T, T \subseteq Branch, T # {}
    PROVE  \E i \in T : \A j \in 0 .. i - 1 : j \notin T
  <1>1. Branch \subseteq Nat
    BY NBranchesAssumption DEF Branch
  <1>2. PICK i \in T : \A j \in T : ~(<<j, i>> \in OpToRel(<, Nat))
    BY <1>1, NatLessThanWellFounded, WFMin
  <1>3. \A j \in T : ~(j < i)
    BY <1>1, <1>2 DEF OpToRel
  <1>4. \A j \in 0 .. i - 1 : j < i
    BY <1>1
  <1> QED BY <1>3, <1>4

(* -1 is no branch, and the branches above a branch are branches. *)
LEMMA BranchFacts ==
    /\ -1 \notin Branch
    /\ \A i \in Branch : i \in Nat /\ \A j \in 0 .. i - 1 : j \in Branch
  BY NBranchesAssumption DEF Branch

(* At most one branch answers. *)
LEMMA AnswersUnique ==
    ASSUME NEW d, NEW p, NEW i \in Branch, NEW j \in Branch, Answers(d, p, i), Answers(d, p, j)
    PROVE  i = j
  <1>1. i \in Nat /\ j \in Nat
    BY BranchFacts
  <1>2. ~(i < j) /\ ~(j < i)
    BY <1>1 DEF Answers
  <1> QED BY <1>1, <1>2

(* find_rorw_branch is -1, or a branch that answers. *)
LEMMA FindType ==
    ASSUME NEW d, NEW p
    PROVE  /\ find_rorw_branch(d, p) \in Branch \cup {-1}
           /\ find_rorw_branch(d, p) # -1 => Answers(d, p, find_rorw_branch(d, p))
           /\ find_rorw_branch(d, p) # -1 <=> \E i \in Branch : Answers(d, p, i)
  BY BranchFacts DEF find_rorw_branch

(* A branch is found exactly if p is on one that no branch above hides. *)
LEMMA FindIffShown ==
    ASSUME NEW d, NEW p
    PROVE  find_rorw_branch(d, p) # -1 <=>
               \E i \in Branch : /\ Exists(d, i, p)
                                 /\ \A j \in 0 .. i - 1 : ~path_hidden(d, p, j)
  <1>1. ASSUME NEW i \in Branch, Exists(d, i, p),
               \A j \in 0 .. i - 1 : ~path_hidden(d, p, j)
        PROVE  \E k \in Branch : Answers(d, p, k)
    <2> DEFINE T == {k \in Branch : Exists(d, k, p) /\ k <= i}
    <2>1. i \in T
      BY <1>1, BranchFacts
    <2>2. PICK k \in T : \A j \in 0 .. k - 1 : j \notin T
      BY <2>1, LeastBranch
    <2>3. k \in Branch /\ k \in Nat /\ i \in Nat /\ k <= i /\ Exists(d, k, p)
      BY <2>2, BranchFacts
    <2>4. ASSUME NEW j \in 0 .. k - 1
          PROVE  ~Exists(d, j, p) /\ ~path_hidden(d, p, j)
      <3>1. j \in Branch /\ j <= i /\ j \in 0 .. i - 1
        BY <2>3, BranchFacts
      <3> QED BY <3>1, <2>2, <1>1
    <2> QED BY <2>3, <2>4 DEF Answers
  <1> QED BY <1>1, FindType DEF Answers

(* A name is hidden by its own whiteout or by one of its directory. *)
LEMMA HiddenChild ==
    ASSUME NEW d, NEW c \in Path, NEW b
    PROVE  path_hidden(d, c, b) <=>
               path_hidden(d, u_dirname(c), b) \/ (uopt.cow /\ d.wh[b][c] # "none")
  BY PrefixesOfChild DEF path_hidden

(***************************************************************************)
(* On every disk whose branches are trees, ulakefs_readdir lists a name    *)
(* exactly if find_rorw_branch finds it: merging whole branches with the   *)
(* whiteouts collected so far shows neither more nor less than looking     *)
(* each name up (readrmdir.c:101-177 against general.c:215-259).           *)
(***************************************************************************)
THEOREM ReaddirFinds ==
    ASSUME NEW d, WellFormed(d), NEW p \in Path \cup {Root}, NEW c \in Children(p)
    PROVE  c \in ulakefs_readdir(d, p) <=> find_rorw_branch(d, c) # -1
  <1>1. c \in Path /\ u_dirname(c) = p
    BY DEF Children
  <1>2. ASSUME NEW i \in Branch
        PROVE  c \in Listed(d, p, i) <=>
                   Exists(d, i, c) /\ \A j \in 0 .. i - 1 : ~path_hidden(d, c, j)
    <2>1. Exists(d, i, c) => IsDir(d, i, p)
      BY <1>1 DEF WellFormed, IsTree, Exists, IsDir
    <2>2. \A j \in 0 .. i - 1 : ~path_hidden(d, c, j) <=>
              ~path_hidden(d, p, j) /\ (uopt.cow => d.wh[j][c] = "none")
      BY <1>1, HiddenChild
    <2> QED BY <2>1, <2>2 DEF Listed
  <1> QED BY <1>2, FindIffShown DEF ulakefs_readdir

(* A directory tests non-empty exactly if one of its names is found. *)
THEOREM NotEmptyFinds ==
    ASSUME NEW d, WellFormed(d), NEW p \in Path \cup {Root}
    PROVE  dir_not_empty(d, p) <=> \E c \in Children(p) : find_rorw_branch(d, c) # -1
  <1>1. \A i \in Branch : Listed(d, p, i) \subseteq Children(p)
    BY DEF Listed
  <1>2. dir_not_empty(d, p) <=> \E c \in Children(p) : c \in ulakefs_readdir(d, p)
    BY <1>1 DEF dir_not_empty, ulakefs_readdir
  <1> QED BY <1>2, ReaddirFinds

(* What getattr finds is what the branch holds. *)
LEMMA GetattrFinds ==
    ASSUME NEW d \in Disk, NEW p \in Path
    PROVE  /\ getattr(d, p) \in Entry
           /\ getattr(d, p).kind # "none" <=> find_rorw_branch(d, p) # -1
  <1>1. p # Root
    BY PathFacts
  <1>2. CASE find_rorw_branch(d, p) = -1
    BY <1>2 DEF getattr, Absent, Entry
  <1>3. CASE find_rorw_branch(d, p) # -1
    <2> DEFINE i == find_rorw_branch(d, p)
    <2>1. i \in Branch /\ Answers(d, p, i)
      BY <1>3, FindType
    <2>2. getattr(d, p) = d.tree[i][p]
      BY <1>3 DEF getattr
    <2>3. d.tree[i][p] \in Entry
      BY <2>1 DEF Disk, Tree
    <2>4. d.tree[i][p].kind # "none"
      BY <2>1, <1>1 DEF Answers, Exists, HasNode
    <2> QED BY <1>3, <2>2, <2>3, <2>4
  <1> QED BY <1>2, <1>3

(* A name in a directory that a user reaches is shown exactly if it is found. *)
LEMMA LookupChild ==
    ASSUME NEW d \in Disk, NEW p \in Path \cup {Root}, NEW c \in Children(p),
           p = Root \/ Lookup(d, p).kind = "dir"
    PROVE  Lookup(d, c).kind # "none" <=> find_rorw_branch(d, c) # -1
  <1>1. c \in Path /\ u_dirname(c) = p
    BY DEF Children
  <1>2. PrefixesOf[c] \ {c} = PrefixesOf[p]
    BY <1>1, PrefixesOfChild
  <1>3. Walk(d, c)
    <2>1. CASE p = Root
      BY <2>1, <1>2, PrefixesOfRoot DEF Walk
    <2>2. CASE p # Root
      <3>1. p \in Path /\ Walk(d, p) /\ getattr(d, p).kind = "dir"
        BY <2>2 DEF Lookup, Absent
      <3> QED BY <3>1, <1>2 DEF Walk
    <2> QED BY <2>1, <2>2
  <1>4. Lookup(d, c) = getattr(d, c)
    BY <1>3 DEF Lookup
  <1> QED BY <1>1, <1>4, GetattrFinds
=============================================================================
