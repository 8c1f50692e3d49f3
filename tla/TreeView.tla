------------------------------ MODULE TreeView ------------------------------
(***************************************************************************)
(* What a mount promises: one tree of files.  A call that returns 0 has    *)
(* its POSIX effect on the tree and no other; a call that returns an error *)
(* changes nothing a user can see, and the error is one the mount may give *)
(* (Refusal: it may be unable to write at all), ENOENT because a socket    *)
(* cannot be copied up, or ENOTEMPTY where POSIX asks for it.  No branch,  *)
(* whiteout or copy appears here.                                          *)
(***************************************************************************)
EXTENDS Paths

CONSTANT Refusal    \* errors for want of a writable branch or of space

VARIABLES view,     \* the tree a user sees
          ret       \* the last call and its result

tvars == <<view, ret>>

Init ==
    /\ view \in Tree
    /\ IsTree(view)
    /\ ret.res = "OK"

Answer(op, p, res) == ret' = [op |-> op, path |-> p, res |-> res]

\* chmod, chown, utimens and truncate
SetAttr(op, p, v) ==
    /\ Answer(op, p, "OK")
    /\ HasNode(view, p)
    /\ view' = [view EXCEPT ![p].val = v]

Make(op, p, kind, v) ==
    /\ Answer(op, p, "OK")
    /\ ~HasNode(view, p) /\ HasDir(view, u_dirname(p))
    /\ view' = [view EXCEPT ![p] = [kind |-> kind, val |-> v]]

Open(p) ==
    /\ Answer("open", p, "OK")
    /\ HasNode(view, p) /\ ~HasDir(view, p)
    /\ UNCHANGED view

Empty(p) == \A c \in Children(p) : ~HasNode(view, c)

Delete(op, p) ==
    /\ Answer(op, p, "OK")
    /\ HasNode(view, p)
    /\ HasDir(view, p) = (op = "rmdir")
    /\ Empty(p)
    /\ view' = [view EXCEPT ![p] = Absent]

Rename(from, to) ==
    /\ Answer("rename", from, "OK")
    /\ HasNode(view, from) /\ HasDir(view, u_dirname(to))
    /\ HasNode(view, to) => HasDir(view, from) = HasDir(view, to) /\ Empty(to)
    /\ view' = Graft(view, from, to)

Socket(p) == view[p].kind = "sock"

Refuse(op, p) ==
    /\ \/ \E e \in Refusal : Answer(op, p, e)
       \/ Answer(op, p, "ENOENT") /\ (Socket(p) \/ (op = "rename" /\ \E to \in Path : Socket(to)))
       \/ Answer("rmdir", p, "ENOTEMPTY") /\ ~Empty(p)
    /\ UNCHANGED view

Call(p) ==
    \/ \E v \in Val :
         \/ \E op \in {"chmod", "chown", "utimens", "truncate"} : SetAttr(op, p, v)
         \/ Make("create", p, "reg", v)
         \/ Make("mkdir", p, "dir", v)
         \/ Make("symlink", p, "spec", v)
         \/ \E kind \in {"reg", "spec", "sock"} : Make("mknod", p, kind, v)
    \/ Open(p)
    \/ Delete("unlink", p)
    \/ Delete("rmdir", p)
    \/ \E to \in Path : Rename(p, to)
    \/ \E op \in {"chmod", "chown", "utimens", "truncate", "create", "mkdir", "mknod",
                  "symlink", "open", "unlink", "rmdir", "rename"} : Refuse(op, p)

\* ret names the path of the call
Next == ret'.path \in Path /\ Call(ret'.path)

Spec == Init /\ [][Next]_tvars
=============================================================================
