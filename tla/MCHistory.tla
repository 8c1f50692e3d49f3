----------------------------- MODULE MCHistory -----------------------------
(* Instances of UlakeHistory for TLC: one mount each, as small as it can be. *)
EXTENDS UlakeHistory

FlatPath == {<<"a">>, <<"b">>, <<"a", "x">>, <<"b", "x">>, <<"a", "y">>, <<"b", "y">>}

Dir1 == [kind |-> "dir", val |-> 1]
Reg1 == [kind |-> "reg", val |-> 1]

\* a branch with the directories and regular files named, and nothing else
Holds(dirs, files) ==
    [p \in Path |-> IF p \in dirs THEN Dir1 ELSE IF p \in files THEN Reg1 ELSE Absent]

Mount(rw, trees) ==
    [uopt |-> [rw  |-> [b \in Branch |-> rw[b + 1]], cow |-> TRUE],
     disk |-> [tree |-> [b \in Branch |-> trees[b + 1]],
               wh   |-> [b \in Branch |-> [p \in Path |-> "none"]]]]

NoFault == [fail |-> {}, torn |-> FALSE, hide |-> TRUE, order |-> [p \in Path |-> 0]]

EnvsNoFault == {NoFault}

\* a read-only directory a with one or two files, nothing on the writable branch
MountsDir == {Mount(<<TRUE, FALSE>>, <<Holds({}, {}), Holds({<<"a">>}, {<<"a", "x">>})>>)}

MountsDirOfTwo ==
    {Mount(<<TRUE, FALSE>>,
           <<Holds({}, {}), Holds({<<"a">>}, {<<"a", "x">>, <<"a", "y">>})>>)}
=============================================================================
