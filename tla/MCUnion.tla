------------------------------ MODULE MCUnion ------------------------------
(* Instances of UlakeUnion for TLC. *)
EXTENDS UlakeUnion

MCPath == {<<"a">>, <<"b">>, <<"a", "x">>, <<"b", "x">>}

DeepPath == {<<"a">>, <<"b">>, <<"a", "x">>, <<"a", "x", "y">>}

NoWhiteouts == [b \in Branch |-> [p \in Path |-> "none"]]

EmptyTree == [p \in Path |-> Absent]

Dir(v) == [kind |-> "dir", val |-> v]
Reg(v) == [kind |-> "reg", val |-> v]

\* the branch trees of directories and regular files with contents v
AllTrees(v) == {t \in [Path -> {Absent, Dir(v), Reg(v)}] :
                   IsTree(t) /\ \A p \in Path : Len(p) = 2 => t[p] # Dir(v)}

\* how much of a tree is at and below the top-level name n
Weight(t, n) == CASE t[<<n>>].kind = "none" -> 0
                  [] t[<<n>>].kind = "reg"  -> 1
                  [] t[<<n>>].kind = "dir"  -> IF t[<<n, "x">>].kind = "none" THEN 2 ELSE 3

\* of two trees that differ by exchanging the names a and b, one
TreesOf(v) == {t \in AllTrees(v) : Weight(t, "a") >= Weight(t, "b")}

Mount(rw, cow, tree) ==
    [uopt |-> [rw |-> rw, cow |-> cow], disk |-> [tree |-> tree, wh |-> NoWhiteouts]]

Bits(s) == [b \in Branch |-> s[b + 1]]

NoFault == [fail |-> {}, torn |-> FALSE, hide |-> TRUE, order |-> [p \in Path |-> 0]]

\* a directory that holds a socket, and a fifo
Special == [p \in Path |-> CASE p = <<"a">>      -> Dir(1)
                             [] p = <<"a", "x">> -> [kind |-> "sock", val |-> 1]
                             [] p = <<"b">>      -> [kind |-> "spec", val |-> 1]
                             [] OTHER            -> Absent]

\* an empty writable branch above a read-only one that holds t
RwRo(t) == Mount(Bits(<<TRUE, FALSE>>), TRUE, Bits(<<EmptyTree, t>>))

MountsRwRo == {RwRo(t) : t \in TreesOf(1) \cup {Special}}

\* with faults that treat a and b differently
MountsFaults == {RwRo(t) : t \in AllTrees(1)}

\* an empty writable branch between two read-only ones, with copy-on-write or without;
\* only the uppermost has the name b
MountsRoRwRo == {Mount(Bits(<<FALSE, TRUE, FALSE>>), cow, Bits(<<t, EmptyTree, u>>)) :
                    cow \in BOOLEAN, t \in AllTrees(1),
                    u \in {u \in AllTrees(1) : u[<<"b">>].kind = "none"}}

\* a writable branch over one that has files and is writable too, over an empty one
MountsRwRwRo == {Mount(Bits(<<TRUE, TRUE, FALSE>>), TRUE, Bits(<<EmptyTree, t, EmptyTree>>)) :
                    t \in AllTrees(1)}

\* a directory in a directory over a file of that name on the writable branch
MountsFileInTheWay ==
    {Mount(Bits(<<FALSE, TRUE, FALSE>>), TRUE,
           Bits(<<[p \in Path |-> CASE p = <<"b">> -> Absent [] Len(p) = 3 -> y [] OTHER -> Dir(1)],
                  [EmptyTree EXCEPT ![<<"a">>] = Reg(1)],
                  EmptyTree>>)) : y \in {Absent, Reg(1)}}

MountsOfThree == MountsRoRwRo \cup MountsRwRwRo \cup MountsFileInTheWay

\* files in a directory cannot be copied, or are cut short, or the directory a cannot be
\* made, or no whiteouts
EnvsFaults == {[NoFault EXCEPT !.fail = {p \in Path : Len(p) > 1}],
               [NoFault EXCEPT !.fail = {p \in Path : Len(p) > 1}, !.torn = TRUE],
               [NoFault EXCEPT !.fail = {<<"a">>}],
               [NoFault EXCEPT !.hide = FALSE]}

EnvsNoFault == {NoFault}

\* no action depends on ret: states that differ in it only are one state
DiskView == <<uopt, fs>>
=============================================================================
