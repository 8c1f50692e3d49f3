----------------------------- MODULE MCSession -----------------------------
(* Instances of Session for TLC. *)
EXTENDS Session

MCPath == {<<"d">>, <<"d", "a">>, <<"d", "b">>, <<"d", "c">>}

MCHash == [n \in Name |-> CASE n = "a" -> 2 [] n = "b" -> 4 [] n = "c" -> 5 [] OTHER -> 0]

\* the loads at which the tables grow are 1 and 2
MCPrimes == <<1, 2, 3>>

\* on u the path of the whiteout of c is one too long, on m it has no room
MCStrlen == [p \in Path |-> FoldLeft(LAMBDA n, x : n + 1 + (IF x = "c" THEN 20 ELSE 1), 0, p)]

Str(n, abs) == [len |-> n, lead |-> abs, trail |-> FALSE]

MCString == [u |-> Str(2, TRUE), m |-> Str(1, FALSE), l |-> Str(2, TRUE),
             mnt |-> Str(4, TRUE), chroot |-> Str(6, TRUE), long |-> Str(40, FALSE)]

\* u and l are on one file system, m on one with larger blocks
MCDevice == [u |-> [dev |-> 1, bsize |-> 2, blocks |-> 9, bfree |-> 4],
             l |-> [dev |-> 1, bsize |-> 2, blocks |-> 9, bfree |-> 4],
             m |-> [dev |-> 2, bsize |-> 5, blocks |-> 7, bfree |-> 3],
             long |-> [dev |-> 1, bsize |-> 2, blocks |-> 9, bfree |-> 4],
             mnt |-> [dev |-> 3, bsize |-> 3, blocks |-> 1, bfree |-> 1]]

Item(n, flag) == [name |-> n, flag |-> flag]

MountPoint == [key |-> "nonopt", list |-> <<Item("mnt", "")>>]

Flags == {[key |-> k, list |-> <<>>] :
             k \in {"cow", "chroot", "statfs_omit_ro", "relaxed_permissions", "help", "other"}}

\* the path of the branch long has room in no buffer
ThreeBranches == {<<Item("u", "RW"), Item("m", "RO"), Item("l", "")>>,
                  <<Item("m", ""), Item("u", "RW"), Item("l", "?")>>}

LongBranch == [key |-> "nonopt", list |-> <<Item("long", "RW"), Item("m", "RO"), Item("l", "")>>]

MCArg == {[key |-> k, list |-> b] : k \in {"nonopt", "dirs"}, b \in ThreeBranches}
         \cup {[key |-> "dirs", list |-> <<>>], LongBranch, MountPoint} \cup Flags

Names == {"a", "b", "c"}

Files(S) == [p \in Path |-> CASE p = <<"d">>           -> [kind |-> "dir", val |-> 1]
                              [] Len(p) > 1 /\ p[2] \in S -> [kind |-> "reg", val |-> 1]
                              [] OTHER                   -> Absent]

Marks(S) == [p \in Path |-> IF Last(p) \in S THEN "file" ELSE "none"]

Bits(s) == [b \in Branch |-> s[b + 1]]

EmptyTree == [p \in Path |-> Absent]

\* files on the branches, whiteouts of others on the first two, and a directory
\* that the first one hides
MCDisks == {[tree |-> Bits(<<IF w = {"d"} THEN EmptyTree ELSE Files(t), Files({"c"}), Files(u)>>),
             wh   |-> Bits(<<Marks(w), Marks(x), Marks({})>>)] :
               t \in {{}, {"a"}}, u \in {{}, {"b"}, {"a", "b"}, Names},
               w \in {{}, {"b"}, {"b", "c"}, {"d"}}, x \in {{}, {"a"}}}

\* the lists given, in their order
GivenLists == SelectSeq(given, LAMBDA a : a.key \in {"nonopt", "dirs"} /\ a.list # <<>>)

\* the arguments that led to a mount do not matter to a listing
MCView == <<main, uopt, fs, ls, IF ls = Idle THEN <<opts, GivenLists>> ELSE <<>>>>
=============================================================================
