----------------------------- MODULE OpenFiles -----------------------------
(***************************************************************************)
(* Calls of several users at a time: open, read, write, release, chmod,    *)
(* truncate, link and unlink on a writable branch (0) above a read-only    *)
(* one (1), one system call on the branches per step.  UlakeFuse takes a   *)
(* handler as one step and a file as a value; here a copy-up is the loop   *)
(* of copy_file through its static buffer, files are inodes, and an open   *)
(* file keeps its inode.  The process may be killed at any step.           *)
(*                                                                         *)
(* Which calls run at the same time is decided above ulakefs: libfuse      *)
(* locks the path of an unlink, the kernel locks the inode for chmod,      *)
(* truncate, write, link and unlink and the directory for link and unlink. *)
(* open takes none of these locks.                                         *)
(***************************************************************************)
EXTENDS Naturals, FiniteSets

CONSTANTS User,         \* processes that use the mount, one call and one open file each
          File,         \* names in one directory
          Inode,        \* inodes of both branches
          LowerInode,   \* the inode of each file on the read-only branch
          Chunks,       \* the length of a file in buffers of copy_file
          Faults,       \* system calls of copy_file may fail, the process may be killed
          Op,           \* the calls made
          New, Hole,    \* contents: written by a user, not written
          NoInode, NoFile

ASSUME OpenFilesAssumption ==
    /\ Chunks \in Nat
    /\ LowerInode \in [File -> Inode \cup {NoInode}]
    /\ \A f, g \in File : LowerInode[f] = LowerInode[g] /\ f # g => LowerInode[f] = NoInode
    /\ NoInode \notin Inode
    /\ NoFile \notin File
    /\ Op \subseteq {"open_r", "open_w", "chmod", "truncate", "link", "unlink"}

VARIABLES name,         \* the inode of each name on each branch, or NoInode
          inode,        \* contents and attributes
          hidden,       \* the names with a whiteout on branch 0
          buf,          \* the static buffer of copy_file
          call,         \* where each user's call is
          fd,           \* each user's open file
          node,         \* history: the file a name stands for; links are one file
          want,         \* history: what that file should be
          spoiled       \* history: names whose file a hazard has met

vars == <<name, inode, hidden, buf, call, fd, node, want, spoiled>>
disk == <<name, inode, hidden>>
history == <<node, want, spoiled>>

Branch   == {0, 1}
Position == 1 .. Chunks
Bytes    == (File \X Position) \cup {New, Hole}
Meta     == [data : [Position -> Bytes], attr : {"lower", "made", "set"}]

Original(f) == [data |-> [k \in Position |-> <<f, k>>], attr |-> "lower"]
Blank       == [k \in Position |-> Hole]

Idle == [at |-> "idle", op |-> "", f |-> NoFile, g |-> NoFile, branch |-> 0,
         to |-> NoInode, pos |-> 0]

NoFd == [f |-> NoFile, i |-> NoInode, write |-> FALSE]

Exists(b, f) == name[b][f] # NoInode

\* the branch that answers for f, if any
find_rorw_branch(f) == IF Exists(0, f) THEN {0}
                       ELSE {b \in {1} : f \notin hidden /\ Exists(1, f)}

Busy(u)    == call[u].at # "idle"
Copying(u) == call[u].at \in {"read", "write", "setfile"}

\* the names of the file that f names
Names(f) == {g \in File : node[g] = node[f] /\ node[g] # NoFile}

CopiedNow(f) == \E u \in User : Copying(u) /\ call[u].f \in Names(f)

Goto(u, at) == call' = [call EXCEPT ![u].at = at]
Return(u)   == call' = [call EXCEPT ![u] = Idle]

-----------------------------------------------------------------------------
(* Starting a call.                                                        *)

\* a call op of u on f (and g) must wait for the call of another user
Excluded(u, op, f, g) ==
    \E v \in User \ {u} :
        /\ Busy(v)
        /\ \/ call[v].f = f /\ "unlink" \in {op, call[v].op}
           \/ call[v].f = f /\ {op, call[v].op} \subseteq {"chmod", "truncate", "link"}
           \/ {op, call[v].op} \subseteq {"link", "unlink"}
           \/ call[v].op = "link" /\ call[v].g = f
           \/ op = "link" /\ call[v].f = g

\* libfuse renames an open file instead of removing it
Allowed(u, op, f, g) ==
    /\ op \in {"open_r", "open_w"} => fd[u] = NoFd
    /\ op = "unlink" => \A v \in User : fd[v].f # f
    /\ IF op = "link" THEN f # g /\ find_rorw_branch(g) = {} ELSE f = g
    /\ ~Excluded(u, op, f, g)

\* mutant: chmod uses the branch that the file is found on
Start_NoCowForChmod(u, op, f, g) ==
    /\ ~Busy(u)
    /\ Allowed(u, op, f, g)
    /\ \E b \in find_rorw_branch(f) :
          call' = [call EXCEPT ![u] = [Idle EXCEPT !.op = op, !.f = f, !.g = g, !.branch = b,
                     !.at = CASE op = "unlink"            -> IF b = 0 THEN "unlink" ELSE "hide"
                              [] op \in {"open_r", "chmod"} -> "found"
                              [] OTHER                    -> IF b = 0 THEN "found" ELSE "copy"]]
    /\ UNCHANGED <<disk, buf, fd, history>>

\* The first lookup of a handler.  find_rw_branch_cow_common goes on to copy
\* what it finds on the read-only branch.
Start(u, op, f, g) ==
    /\ ~Busy(u)
    /\ Allowed(u, op, f, g)
    /\ \E b \in find_rorw_branch(f) :
          call' = [call EXCEPT ![u] = [Idle EXCEPT !.op = op, !.f = f, !.g = g, !.branch = b,
                     !.at = CASE op = "unlink" -> IF b = 0 THEN "unlink" ELSE "hide"
                              [] op = "open_r" -> "found"
                              [] OTHER         -> IF b = 0 THEN "found" ELSE "copy"]]
    /\ UNCHANGED <<disk, buf, fd, history>>

-----------------------------------------------------------------------------
(* copy_file, and what find_rw_branch_cow_common does after it.            *)

Free == {i \in Inode : /\ \A b \in Branch, f \in File : name[b][f] # i
                       /\ \A u \in User : fd[u].i # i}

\* O_CREAT makes a new inode only if there is none
Target(f) == IF Exists(0, f) THEN {name[0][f]}
             ELSE {i \in Free : i = CHOOSE j \in Free : TRUE}

\* a copy that overlaps another one, or is made again over changed contents
SpoiledByCopy(u) ==
    LET f      == call[u].f
        others == {v \in User \ {u} : Copying(v)}
        again  == Exists(0, f) /\ node[f] # NoFile /\ want[node[f]] # Original(f)
    IN  {h \in File : \/ \E v \in others : h \in Names(call[v].f)
                      \/ others # {} /\ h \in Names(f)
                      \/ again /\ h \in Names(f)}

\* mutant: the copy replaces the file that another copy has made meanwhile
OpenTarget_Replaces(u) ==
    /\ call[u].at = "copy"
    /\ \E i \in Free :
          /\ name' = [name EXCEPT ![0][call[u].f] = i]
          /\ inode' = [inode EXCEPT ![i] = [data |-> Blank, attr |-> "made"]]
          /\ call' = [call EXCEPT ![u].at = "read", ![u].to = i]
    /\ spoiled' = spoiled \cup SpoiledByCopy(u)
    /\ UNCHANGED <<hidden, buf, fd, node, want>>

\* open(from), open(to, O_TRUNC | O_CREAT)
OpenTarget(u) ==
    /\ call[u].at = "copy"
    /\ \E i \in Target(call[u].f) :
          /\ name' = [name EXCEPT ![0][call[u].f] = i]
          /\ inode' = [inode EXCEPT ![i] = [data |-> Blank,
                          attr |-> IF Exists(0, call[u].f) THEN inode[i].attr ELSE "made"]]
          /\ call' = [call EXCEPT ![u].at = "read", ![u].to = i]
    /\ spoiled' = spoiled \cup SpoiledByCopy(u)
    /\ UNCHANGED <<hidden, buf, fd, node, want>>

\* read(from_fd, buf): a buffer full, or the end of the file
ReadChunk(u) ==
    /\ call[u].at = "read"
    /\ IF call[u].pos < Chunks
       THEN /\ buf' = inode[name[1][call[u].f]].data[call[u].pos + 1]
            /\ Goto(u, "write")
       ELSE /\ Goto(u, "setfile")
            /\ UNCHANGED buf
    /\ UNCHANGED <<disk, fd, history>>

WriteChunk(u) ==
    /\ call[u].at = "write"
    /\ inode' = [inode EXCEPT ![call[u].to].data[call[u].pos + 1] = buf]
    /\ call' = [call EXCEPT ![u].at = "read", ![u].pos = @ + 1]
    /\ UNCHANGED <<name, hidden, buf, fd, history>>

\* mutant: the copy keeps the attributes it was made with
SetFile_Skipped(u) ==
    /\ call[u].at = "setfile"
    /\ Goto(u, "unhide")
    /\ UNCHANGED <<disk, buf, fd, history>>

\* setfile works on the path, with what lstat said of the source
SetFile(u) ==
    /\ call[u].at = "setfile"
    /\ inode' = [inode EXCEPT ![name[0][call[u].f]].attr = inode[name[1][call[u].f]].attr]
    /\ Goto(u, "unhide")
    /\ UNCHANGED <<name, hidden, buf, fd, history>>

\* The target is closed and stays as it is.
CopyFails(u) ==
    /\ Faults
    /\ call[u].at \in {"copy", "write", "setfile"}
    /\ Return(u)
    /\ spoiled' = IF Copying(u) THEN spoiled \cup Names(call[u].f) ELSE spoiled
    /\ UNCHANGED <<disk, buf, fd, node, want>>

\* remove_hidden(path, branch_rw)
Unhide(u) ==
    /\ call[u].at = "unhide"
    /\ hidden' = hidden \ {call[u].f}
    /\ call' = [call EXCEPT ![u].at = "found", ![u].branch = 0]
    /\ UNCHANGED <<name, inode, buf, fd, history>>

copy_file(u) ==
    OpenTarget(u) \/ ReadChunk(u) \/ WriteChunk(u) \/ SetFile(u) \/ CopyFails(u) \/ Unhide(u)

-----------------------------------------------------------------------------
(* The handlers, from where they know the branch.                          *)

Handler(u, op) == call[u].at = "found" /\ call[u].op = op

\* a user changes f: its file should be m from now on
Changed(f, m) ==
    /\ want' = IF node[f] = NoFile THEN want ELSE [want EXCEPT ![node[f]] = m]
    /\ spoiled' = IF CopiedNow(f) THEN spoiled \cup Names(f) ELSE spoiled
    /\ UNCHANGED node

open(u) ==
    LET f == call[u].f
        w == call[u].op = "open_w"
    IN  /\ call[u].at = "found"
        /\ call[u].op \in {"open_r", "open_w"}
        /\ fd' = [fd EXCEPT ![u] = [f |-> f, i |-> name[call[u].branch][f], write |-> w]]
        /\ IF w THEN Goto(u, "opened") ELSE Return(u)
        /\ UNCHANGED <<disk, buf, history>>

\* a file that was opened for writing is not hidden
OpenUnhide(u) ==
    /\ call[u].at = "opened"
    /\ hidden' = hidden \ {call[u].f}
    /\ Return(u)
    /\ UNCHANGED <<name, inode, buf, fd, history>>

chmod(u) ==
    LET f == call[u].f
        i == name[call[u].branch][f]
    IN  /\ Handler(u, "chmod")
        /\ inode' = [inode EXCEPT ![i].attr = "set"]
        /\ Changed(f, [data |-> want[node[f]].data, attr |-> "set"])
        /\ Return(u)
        /\ UNCHANGED <<name, hidden, buf, fd>>

truncate(u) ==
    LET f == call[u].f
        i == name[call[u].branch][f]
    IN  /\ Handler(u, "truncate")
        /\ inode' = [inode EXCEPT ![i].data = Blank]
        /\ Changed(f, [data |-> Blank, attr |-> want[node[f]].attr])
        /\ Return(u)
        /\ UNCHANGED <<name, hidden, buf, fd>>

\* mutant: the whiteout of the new name goes before the link is made
link_UnhideFirst(u) ==
    LET f == call[u].f
        g == call[u].g
    IN  \/ /\ Handler(u, "link") /\ g \in hidden
           /\ hidden' = hidden \ {g}
           /\ UNCHANGED <<name, inode, buf, call, fd, history>>
        \/ /\ Handler(u, "link") /\ g \notin hidden
           /\ name' = [name EXCEPT ![0][g] = name[call[u].branch][f]]
           /\ Goto(u, "linked")
           /\ node' = [node EXCEPT ![g] = node[f]]
           /\ spoiled' = IF f \in spoiled THEN spoiled \cup {g} ELSE spoiled \ {g}
           /\ UNCHANGED <<inode, hidden, buf, fd, want>>

\* The new name is on no branch, so it is made on the branch of the old one,
\* whose directory is there.
link(u) ==
    LET f == call[u].f
        g == call[u].g
    IN  /\ Handler(u, "link")
        /\ name' = [name EXCEPT ![0][g] = name[call[u].branch][f]]
        /\ Goto(u, "linked")
        /\ node' = [node EXCEPT ![g] = node[f]]
        /\ spoiled' = IF f \in spoiled THEN spoiled \cup {g} ELSE spoiled \ {g}
        /\ UNCHANGED <<inode, hidden, buf, fd, want>>

LinkUnhide(u) ==
    /\ call[u].at = "linked"
    /\ hidden' = hidden \ {call[u].g}
    /\ Return(u)
    /\ UNCHANGED <<name, inode, buf, fd, history>>

\* f is gone for its users
Gone(f) ==
    /\ node' = [node EXCEPT ![f] = NoFile]
    /\ spoiled' = spoiled \ {f}
    /\ UNCHANGED want

unlink_ro(u) ==
    /\ call[u].at = "hide"
    /\ hidden' = hidden \cup {call[u].f}
    /\ Gone(call[u].f)
    /\ Return(u)
    /\ UNCHANGED <<name, inode, buf, fd>>

unlink_rw(u) ==
    /\ call[u].at = "unlink"
    /\ name' = [name EXCEPT ![0][call[u].f] = NoInode]
    /\ Gone(call[u].f)
    /\ Goto(u, "whiteout")
    /\ UNCHANGED <<inode, hidden, buf, fd>>

maybe_whiteout(u) ==
    /\ call[u].at = "whiteout"
    /\ hidden' = IF find_rorw_branch(call[u].f) # {} THEN hidden \cup {call[u].f} ELSE hidden
    /\ Return(u)
    /\ UNCHANGED <<name, inode, buf, fd, history>>

ulakefs_oper(u) ==
    \/ open(u) \/ OpenUnhide(u) \/ chmod(u) \/ truncate(u)
    \/ link(u) \/ LinkUnhide(u) \/ unlink_ro(u) \/ unlink_rw(u) \/ maybe_whiteout(u)

-----------------------------------------------------------------------------
(* Open files.                                                             *)

read(u, k) == inode[fd[u].i].data[k]

\* pwrite on the open file, under the lock of its kernel inode
write(u, k) ==
    LET f == fd[u].f
    IN  /\ fd[u].write
        /\ \A v \in User : call[v].f = f => call[v].op \in {"open_r", "open_w"}
        /\ inode' = [inode EXCEPT ![fd[u].i].data[k] = New]
        /\ Changed(f, [data |-> [want[node[f]].data EXCEPT ![k] = New], attr |-> want[node[f]].attr])
        /\ UNCHANGED <<name, hidden, buf, call, fd>>

release(u) ==
    /\ ~Busy(u)
    /\ fd[u] # NoFd
    /\ fd' = [fd EXCEPT ![u] = NoFd]
    /\ UNCHANGED <<disk, buf, call, history>>

\* The process is killed and started again: only the branches are left.  A
\* copy under way stays torn, a removed file whose whiteout is not yet made
\* is back.
Crash ==
    /\ Faults
    /\ \E u \in User : Busy(u) \/ fd[u] # NoFd
    /\ spoiled' = spoiled \cup {f \in File : CopiedNow(f)}
                  \cup {f \in File : /\ \E u \in User : call[u].at = "whiteout" /\ call[u].f = f
                                     /\ find_rorw_branch(f) # {}}
    /\ call' = [u \in User |-> Idle]
    /\ fd' = [u \in User |-> NoFd]
    /\ UNCHANGED <<disk, buf, node, want>>

-----------------------------------------------------------------------------
Init ==
    /\ name = [b \in Branch |-> [f \in File |-> IF b = 0 THEN NoInode ELSE LowerInode[f]]]
    /\ inode = [i \in Inode |-> IF \E f \in File : LowerInode[f] = i
                                THEN Original(CHOOSE f \in File : LowerInode[f] = i)
                                ELSE [data |-> Blank, attr |-> "made"]]
    /\ hidden = {}
    /\ buf = Hole
    /\ call = [u \in User |-> Idle]
    /\ fd = [u \in User |-> NoFd]
    /\ node = [f \in File |-> IF LowerInode[f] = NoInode THEN NoFile ELSE f]
    /\ want = [f \in File |-> Original(f)]
    /\ spoiled = {}

Next ==
    \/ \E u \in User, op \in Op, f, g \in File : Start(u, op, f, g)
    \/ \E u \in User : copy_file(u) \/ ulakefs_oper(u) \/ release(u)
    \/ \E u \in User, k \in Position : write(u, k)
    \/ Crash

Spec == Init /\ [][Next]_vars

-----------------------------------------------------------------------------
(* Properties.                                                             *)

At == {"idle", "found", "copy", "read", "write", "setfile", "unhide",
       "opened", "linked", "unlink", "hide", "whiteout"}

Call == [at : At, op : Op \cup {""}, f : File \cup {NoFile}, g : File \cup {NoFile},
         branch : Branch, to : Inode \cup {NoInode}, pos : 0 .. Chunks]

\* Types of all variables; what a step has of Call is what the code has in
\* its locals there.
TypeOK ==
    /\ name \in [Branch -> [File -> Inode \cup {NoInode}]]
    /\ inode \in [Inode -> Meta]
    /\ hidden \subseteq File
    /\ buf \in Bytes
    /\ call \in [User -> Call]
    /\ fd \in [User -> [f : File, i : Inode, write : BOOLEAN] \cup {NoFd}]
    /\ node \in [File -> File \cup {NoFile}]
    /\ want \in [File -> Meta]
    /\ spoiled \subseteq File

Seen(f) == {inode[name[b][f]] : b \in find_rorw_branch(f)}

\* the users that have f open, not counting those who opened the original
Readers(f) == {u \in User : fd[u].f = f /\ fd[u].i = name[0][f]}

\* What users find under a name, and read from it, is what they made it, save
\* for the hazards that the code has: two copies at a time (they share buf), a
\* second copy over a changed file, a change during a copy, a failed copy, and
\* a crash during a copy or between unlink_rw and maybe_whiteout.  No other
\* order of steps, failure or crash loses or revives anything.
LossNeedsOverlap ==
    \A f \in File \ spoiled :
        \/ CopiedNow(f)
        \/ \E u \in User : call[u].at = "whiteout" /\ call[u].f = f
        \/ /\ Seen(f) = IF node[f] = NoFile THEN {} ELSE {want[node[f]]}
           /\ \A u \in Readers(f), k \in Position : read(u, k) = want[node[f]].data[k]

\* A file that is open for writing is the file that its name shows, on the
\* writable branch: copies, also second ones, and links keep its inode.  A
\* file that is open for reading may otherwise only be the original below.
HandlesNamed ==
    \A u \in User : fd[u] # NoFd =>
        \/ fd[u].i = name[0][fd[u].f]
        \/ ~fd[u].write /\ fd[u].i = name[1][fd[u].f]

\* No step of any call changes a name or an inode of the read-only branch.
LowerUntouched ==
    [][/\ name'[1] = name[1]
       /\ \A f \in File : Exists(1, f) => inode'[name[1][f]] = inode[name[1][f]]]_vars

\* copy_file copies "an ordinary file with all of its stat() data": in a mount
\* where files are only opened, what is not being copied is as it was.
CopyExact == \A f \in File : CopiedNow(f) \/ Seen(f) = {Original(f)}
=============================================================================
