------------------------------- MODULE Paths -------------------------------
(***************************************************************************)
(* Paths below a mount point.  A path is a non-empty sequence of names;    *)
(* the root ("/", or "" as u_dirname returns it) is the empty sequence and *)
(* always exists.  Every branch, and the union a user sees, is a tree over *)
(* the same set Path of paths.                                             *)
(***************************************************************************)
EXTENDS Integers, SequencesExt

CONSTANTS Name,   \* the directory entry names
          Path,   \* the paths that exist in this instance, closed under u_dirname
          Val,    \* versions of a file's contents and attributes
          NoVal   \* the contents of a file whose copying was cut short

Root == <<>>

ASSUME PathAssumption ==
    /\ \A p \in Path : p \in Seq(Name) /\ p # Root
    /\ \A p \in Path : Len(p) > 1 => Front(p) \in Path

ASSUME ValAssumption == NoVal \notin Val

u_dirname(p) == Front(p)

Children(p) == {c \in Path : u_dirname(c) = p}

\* the paths on the way to p, with p itself
PrefixesOf == [p \in Path \cup {Root} |-> {q \in Path : IsPrefix(q, p)}]

\* p and everything below it
Subtree(p) == {q \in Path : IsPrefix(p, q)}

-----------------------------------------------------------------------------

\* A socket is the one kind that copy-on-write refuses; symbolic links, fifos
\* and devices are recreated by one system call and share the kind "spec".
Kind == {"dir", "reg", "spec", "sock"}

Node == [kind : Kind, val : Val \cup {NoVal}]

Absent == [kind |-> "none", val |-> NoVal]

Entry == Node \cup {Absent}

Tree == [Path -> Entry]

HasNode(t, p) == p = Root \/ t[p].kind # "none"

HasDir(t, p) == p = Root \/ t[p].kind = "dir"

\* what every POSIX tree obeys: an entry lives in a directory
IsTree(t) == \A p \in Path : HasNode(t, p) => HasDir(t, u_dirname(p))

\* where the node that rename(from, to) leaves at q comes from
Source(from, to, q) == from \o SubSeq(q, Len(to) + 1, Len(q))

\* rename(2) on one tree: the subtree of from replaces the one of to
Graft(t, from, to) ==
    [q \in Path |->
        IF IsPrefix(to, q)
        THEN IF Source(from, to, q) \in Path THEN t[Source(from, to, q)] ELSE Absent
        ELSE IF IsPrefix(from, q) THEN Absent ELSE t[q]]

\* Bound: a directory is moved only where Path has room for its whole subtree
PathBound(t, from, to) ==
    \A q \in Subtree(from) : t[q].kind # "none" => Source(to, from, q) \in Path
=============================================================================
