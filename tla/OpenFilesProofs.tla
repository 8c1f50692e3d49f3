--------------------------- MODULE OpenFilesProofs ---------------------------
(***************************************************************************)
(* The read-only branch is never written and open files stay the files of  *)
(* their names, for any number of users, files, inodes and buffers.  The   *)
(* invariant says what each stage of a call may count on; it holds because *)
(* the locks of libfuse and of the kernel keep an unlink, and the target   *)
(* of a link, apart from every other call on the name, and because         *)
(* copy_file opens its target without replacing it.                        *)
(***************************************************************************)
EXTENDS OpenFiles, TLAPS

\* an inode that no name of the read-only branch has
Upper(i) == i \in Inode /\ \A f \in File : LowerInode[f] # i

LowerFixed == name[1] = LowerInode

UpperNames == \A f \in File : Exists(0, f) => Upper(name[0][f])

\* what a call knows of the file at each of its stages
Stage(c) ==
    /\ c.at # "idle" => c.f \in File /\ c.op \in Op
    /\ c.at \in {"unlink", "hide", "whiteout"} => c.op = "unlink"
    /\ c.at \in {"copy", "read", "write", "setfile", "unhide", "found"} => c.op # "unlink"
    /\ c.at \in {"copy", "read", "write", "setfile", "unhide"} => c.op # "open_r" /\ Exists(1, c.f)
    /\ c.at \in {"read", "write", "setfile", "unhide"} => Exists(0, c.f)
    /\ c.at \in {"read", "write", "setfile"} => c.to = name[0][c.f]
    /\ c.at = "write" => c.pos < Chunks
    /\ c.at = "found" => Exists(c.branch, c.f) /\ (c.op # "open_r" => c.branch = 0)
    /\ c.at = "linked" => c.op = "link"
    /\ c.at # "idle" /\ c.op = "link" => c.g \in File /\ c.g # c.f
    /\ c.at \notin {"idle", "linked"} /\ c.op = "link" => ~Exists(0, c.g)

Stages == \A u \in User : Stage(call[u])

\* the calls that may go on at the same time
Exclusion ==
    \A u, v \in User : u # v /\ Busy(u) /\ Busy(v) =>
        /\ call[u].op = "unlink" => call[v].f # call[u].f
        /\ call[u].op \in {"link", "unlink"} => call[v].op \notin {"link", "unlink"}
        /\ call[u].op = "link" => call[v].f # call[u].g

\* what is being removed is not open
UnlinkAlone ==
    \A u, v \in User : Busy(u) /\ call[u].op = "unlink" => fd[v].f # call[u].f

IInv == TypeOK /\ LowerFixed /\ UpperNames /\ Stages /\ Exclusion /\ UnlinkAlone /\ HandlesNamed

-----------------------------------------------------------------------------
(* Initial states.                                                         *)

LEMMA OriginalMeta == \A f \in File : Original(f) \in Meta
  BY DEF Original, Meta, Bytes

LEMMA BlankData == Blank \in [Position -> Bytes]
  BY DEF Blank, Bytes

(***************************************************************************)
(* The invariant holds of a mount on which nothing was opened yet.         *)
(***************************************************************************)
LEMMA InitIInv == Init => IInv
  <1> SUFFICES ASSUME Init PROVE IInv
    OBVIOUS
  <1> USE OpenFilesAssumption
  <1>1. inode \in [Inode -> Meta]
    <2> SUFFICES ASSUME NEW i \in Inode PROVE inode[i] \in Meta
      BY DEF Init
    <2>1. CASE \E f \in File : LowerInode[f] = i
      <3>1. inode[i] = Original(CHOOSE f \in File : LowerInode[f] = i)
        BY <2>1 DEF Init
      <3>2. (CHOOSE f \in File : LowerInode[f] = i) \in File
        BY <2>1
      <3> QED
        BY <3>1, <3>2, OriginalMeta
    <2>2. CASE ~\E f \in File : LowerInode[f] = i
      BY <2>2, BlankData DEF Init, Meta
    <2> QED
      BY <2>1, <2>2
  <1>2. name \in [Branch -> [File -> Inode \cup {NoInode}]]
    BY DEF Init, Branch
  <1>3. TypeOK
    <2>1. call \in [User -> [at : {"idle"}, op : {""}, f : {NoFile}, g : {NoFile},
                            branch : {0}, to : {NoInode}, pos : {0}]]
      BY DEF Init, Idle
    <2>2. 0 \in Branch /\ 0 \in 0 .. Chunks
      BY DEF Branch
    <2>3. node \in [File -> File \cup {NoFile}] /\ want \in [File -> Meta]
      BY OriginalMeta DEF Init
    <2>4. call \in [User -> Call]
      BY <2>1, <2>2 DEF Call, At
    <2> QED
      BY <1>1, <1>2, <2>3, <2>4 DEF Init, TypeOK, Bytes
  <1>4. LowerFixed /\ UpperNames
    BY DEF Init, LowerFixed, UpperNames, Exists, Branch
  <1>5. \A u \in User : call[u] = Idle /\ fd[u] = NoFd /\ ~Busy(u)
    BY DEF Init, Busy, Idle
  <1>6. Stage(Idle)
    BY DEF Stage, Idle
  <1>7. Stages /\ Exclusion /\ UnlinkAlone /\ HandlesNamed
    BY <1>5, <1>6 DEF Stages, Exclusion, UnlinkAlone, HandlesNamed
  <1> QED
    BY <1>3, <1>4, <1>7 DEF IInv

-----------------------------------------------------------------------------
(* What the steps have in common.                                          *)

\* a step of the call of u that does not start it
CallKept(u) ==
    /\ \A v \in User \ {u} : call'[v] = call[v]
    /\ \/ call'[u].at = "idle"
       \/ /\ Busy(u)
          /\ call'[u].op = call[u].op /\ call'[u].f = call[u].f /\ call'[u].g = call[u].g

LEMMA GotoKept ==
  ASSUME TypeOK, NEW u \in User, Busy(u), NEW at, Goto(u, at)
  PROVE  CallKept(u) /\ call'[u] = [call[u] EXCEPT !.at = at]
  BY DEF TypeOK, Goto, CallKept

LEMMA ReturnKept ==
  ASSUME TypeOK, NEW u \in User, Return(u)
  PROVE  CallKept(u) /\ call'[u] = Idle /\ Stage(call[u])'
  <1>1. call'[u] = Idle /\ \A v \in User \ {u} : call'[v] = call[v]
    BY DEF TypeOK, Return
  <1>2. call'[u].at = "idle"
    <2>1. Idle.at = "idle"
      BY DEF Idle
    <2> QED
      BY <1>1, <2>1
  <1>3. Stage(call[u])'
    BY <1>2 DEF Stage
  <1> QED
    BY <1>1, <1>2, <1>3 DEF CallKept

LEMMA ExclusionKept ==
  ASSUME Exclusion, NEW u \in User, CallKept(u)
  PROVE  Exclusion'
  BY DEF Exclusion, CallKept, Busy

LEMMA UnlinkAloneKept ==
  ASSUME UnlinkAlone, NEW u \in User, CallKept(u), \A v \in User : fd'[v] \in {fd[v], NoFd}, NoFile \notin File,
         Stages
  PROVE  UnlinkAlone'
  BY DEF UnlinkAlone, CallKept, Busy, NoFd, Stages, Stage

(***************************************************************************)
(* A step that changes no name and no open file keeps all that its caller  *)
(* does not count on.                                                      *)
(***************************************************************************)
LEMMA Quiet ==
  ASSUME IInv, NEW u \in User, UNCHANGED <<name, fd>>, CallKept(u), TypeOK', Stage(call[u])'
  PROVE  IInv'
  <1> USE DEF IInv
  <1>1. LowerFixed' /\ UpperNames'
    BY DEF LowerFixed, UpperNames, Exists
  <1>2. Stages'
    <2> SUFFICES ASSUME NEW v \in User, v # u PROVE Stage(call[v])'
      BY DEF Stages
    <2>1. call'[v] = call[v] /\ Stage(call[v])
      BY DEF CallKept, Stages
    <2> QED
      BY <2>1 DEF Stage, Exists
  <1>3. Exclusion' /\ UnlinkAlone'
    BY ExclusionKept, UnlinkAloneKept, OpenFilesAssumption
  <1>4. HandlesNamed'
    BY DEF HandlesNamed
  <1> QED
    BY <1>1, <1>2, <1>3, <1>4

-----------------------------------------------------------------------------
(* Types, action by action.                                                *)

LEMMA IdleFields == Idle \in Call /\ Idle.at = "idle"
  <1>1. 0 \in Branch /\ 0 \in 0 .. Chunks
    BY OpenFilesAssumption DEF Branch
  <1> QED
    BY <1>1 DEF Idle, Call, At

LEMMA CallUpdate ==
  ASSUME call \in [User -> Call], NEW u \in User, NEW at \in At
  PROVE  /\ Goto(u, at) => call' \in [User -> Call]
         /\ Return(u) => call' \in [User -> Call]
  <1>1. [call[u] EXCEPT !.at = at] \in Call
    BY DEF Call
  <1>2. Goto(u, at) => call' = [call EXCEPT ![u] = [call[u] EXCEPT !.at = at]]
    BY DEF Goto
  <1> QED
    BY <1>1, <1>2, IdleFields DEF Return

LEMMA NameInode ==
  ASSUME TypeOK, NEW b \in Branch, NEW f \in File, Exists(b, f)
  PROVE  name[b][f] \in Inode
  BY DEF TypeOK, Exists

LEMMA MetaUpdate ==
  ASSUME NEW m \in Meta
  PROVE  /\ \A k \in Position, x \in Bytes : [m EXCEPT !.data[k] = x] \in Meta
         /\ \A a \in {"lower", "made", "set"} : [m EXCEPT !.attr = a] \in Meta
         /\ m.attr \in {"lower", "made", "set"}
         /\ m.data \in [Position -> Bytes]
  <1>1. m.attr \in {"lower", "made", "set"} /\ m.data \in [Position -> Bytes]
    BY DEF Meta
  <1>2. \A a \in {"lower", "made", "set"} : [m EXCEPT !.attr = a] \in Meta
    BY DEF Meta
  <1>3. ASSUME NEW k \in Position, NEW x \in Bytes
        PROVE  [m EXCEPT !.data[k] = x] \in Meta
    <2>1. [m.data EXCEPT ![k] = x] \in [Position -> Bytes]
      BY <1>1
    <2>2. [m EXCEPT !.data[k] = x] = [m EXCEPT !.data = [m.data EXCEPT ![k] = x]]
      OBVIOUS
    <2> QED
      BY <2>1, <2>2 DEF Meta
  <1> QED
    BY <1>1, <1>2, <1>3

LEMMA NamesFiles == \A f : Names(f) \subseteq File
  BY DEF Names

LEMMA StartType ==
  ASSUME IInv, NEW u \in User, NEW op \in Op, NEW f \in File, NEW g \in File, Start(u, op, f, g)
  PROVE  TypeOK'
  <1>1. PICK b \in find_rorw_branch(f) :
          call' = [call EXCEPT ![u] = [Idle EXCEPT !.op = op, !.f = f, !.g = g, !.branch = b,
                     !.at = CASE op = "unlink" -> IF b = 0 THEN "unlink" ELSE "hide"
                              [] op = "open_r" -> "found"
                              [] OTHER         -> IF b = 0 THEN "found" ELSE "copy"]]
    BY DEF Start
  <1>2. b \in Branch
    BY DEF find_rorw_branch, Branch
  <1>3. PICK at \in At :
          call' = [call EXCEPT ![u] = [Idle EXCEPT !.op = op, !.f = f, !.g = g, !.branch = b, !.at = at]]
    BY <1>1 DEF At
  <1>4. [Idle EXCEPT !.op = op, !.f = f, !.g = g, !.branch = b, !.at = at] \in Call
    BY <1>2, IdleFields DEF Call
  <1>5. call' \in [User -> Call]
    BY <1>3, <1>4 DEF IInv, TypeOK
  <1> QED
    BY <1>5 DEF IInv, TypeOK, Start, disk, history

LEMMA CopyType ==
  ASSUME IInv, NEW u \in User, copy_file(u)
  PROVE  TypeOK'
  <1> DEFINE c == call[u]
  <1>1. TypeOK /\ Stage(c) /\ LowerFixed /\ c \in Call
    BY DEF IInv, Stages, TypeOK
  <1>2. CASE OpenTarget(u)
    <2>1. PICK i \in Target(c.f) :
            /\ name' = [name EXCEPT ![0][c.f] = i]
            /\ inode' = [inode EXCEPT ![i] = [data |-> Blank,
                            attr |-> IF Exists(0, c.f) THEN inode[i].attr ELSE "made"]]
            /\ call' = [call EXCEPT ![u].at = "read", ![u].to = i]
      BY <1>2 DEF OpenTarget
    <2>2. c.f \in File
      BY <1>1, <1>2 DEF Stage, OpenTarget
    <2>3. i \in Inode
      BY <1>1, <2>2 DEF Target, Free, Exists, Branch, TypeOK
    <2>4. spoiled' \subseteq File
      <3>1. SpoiledByCopy(u) \subseteq File
        BY DEF SpoiledByCopy
      <3> QED
        BY <1>1, <1>2, <3>1 DEF OpenTarget, TypeOK
    <2>5. inode' \in [Inode -> Meta]
      <3>1. inode[i].attr \in {"lower", "made", "set"}
        BY <1>1, <2>3 DEF TypeOK, Meta
      <3>2. [data |-> Blank, attr |-> IF Exists(0, c.f) THEN inode[i].attr ELSE "made"] \in Meta
        BY <3>1, BlankData DEF Meta
      <3> QED
        BY <1>1, <2>1, <3>2 DEF TypeOK
    <2>6. call' \in [User -> Call]
      <3>1. [c EXCEPT !.at = "read", !.to = i] \in Call
        BY <1>1, <2>3 DEF Call, At
      <3>2. call' = [call EXCEPT ![u] = [c EXCEPT !.at = "read", !.to = i]]
        BY <2>1
      <3> QED
        BY <1>1, <3>1, <3>2 DEF TypeOK
    <2>7. name' \in [Branch -> [File -> Inode \cup {NoInode}]]
      BY <1>1, <2>1, <2>2, <2>3 DEF TypeOK, Branch
    <2> QED
      BY <1>1, <1>2, <2>4, <2>5, <2>6, <2>7 DEF OpenTarget, TypeOK
  <1>3. CASE ReadChunk(u)
    <2>1. name[1][c.f] \in Inode
      BY <1>1, <1>3, NameInode DEF ReadChunk, Stage, Branch
    <2>2. inode[name[1][c.f]].data \in [Position -> Bytes]
      BY <1>1, <2>1, MetaUpdate DEF TypeOK
    <2>3. c.pos < Chunks => c.pos + 1 \in Position
      <3>1. c.pos \in 0 .. Chunks
        BY <1>1 DEF Call
      <3> QED
        BY <3>1, OpenFilesAssumption DEF Position
    <2>4. buf' \in Bytes
      BY <1>1, <1>3, <2>2, <2>3 DEF ReadChunk, TypeOK
    <2>5. call' \in [User -> Call]
      BY <1>1, <1>3, CallUpdate DEF ReadChunk, TypeOK, At
    <2> QED
      BY <1>1, <1>3, <2>4, <2>5 DEF ReadChunk, TypeOK, disk, history
  <1>4. CASE WriteChunk(u)
    <2>1. c.pos \in 0 .. Chunks /\ c.pos < Chunks
      BY <1>1, <1>4 DEF WriteChunk, Stage, Call
    <2>2. c.pos + 1 \in Position /\ c.pos + 1 \in 0 .. Chunks
      BY <2>1, OpenFilesAssumption DEF Position
    <2>3. c.to \in Inode
      BY <1>1, <1>4, NameInode DEF WriteChunk, Stage, Branch
    <2>4. [inode[c.to] EXCEPT !.data[c.pos + 1] = buf] \in Meta
      BY <1>1, <2>2, <2>3, MetaUpdate DEF TypeOK
    <2>5. inode' \in [Inode -> Meta]
      <3>1. inode' = [inode EXCEPT ![c.to] = [inode[c.to] EXCEPT !.data[c.pos + 1] = buf]]
        BY <1>4 DEF WriteChunk
      <3> QED
        BY <1>1, <2>4, <3>1 DEF TypeOK
    <2>6. call' \in [User -> Call]
      <3>1. [c EXCEPT !.at = "read", !.pos = c.pos + 1] \in Call
        BY <1>1, <2>2 DEF Call, At
      <3>2. call' = [call EXCEPT ![u] = [c EXCEPT !.at = "read", !.pos = c.pos + 1]]
        BY <1>4 DEF WriteChunk
      <3> QED
        BY <1>1, <3>1, <3>2 DEF TypeOK
    <2> QED
      BY <1>1, <1>4, <2>5, <2>6 DEF WriteChunk, TypeOK, history
  <1>5. CASE SetFile(u)
    <2>1. name[0][c.f] \in Inode /\ name[1][c.f] \in Inode
      BY <1>1, <1>5, NameInode DEF SetFile, Stage, Branch
    <2>2. [inode[name[0][c.f]] EXCEPT !.attr = inode[name[1][c.f]].attr] \in Meta
      BY <1>1, <2>1, MetaUpdate DEF TypeOK
    <2>3. inode' = [inode EXCEPT ![name[0][c.f]] =
                      [inode[name[0][c.f]] EXCEPT !.attr = inode[name[1][c.f]].attr]]
      BY <1>5 DEF SetFile
    <2>4. inode' \in [Inode -> Meta]
      BY <1>1, <2>2, <2>3 DEF TypeOK
    <2>5. call' \in [User -> Call]
      BY <1>1, <1>5, CallUpdate DEF SetFile, TypeOK, At
    <2> QED
      BY <1>1, <1>5, <2>4, <2>5 DEF SetFile, TypeOK, history
  <1>6. CASE CopyFails(u)
    <2>1. call' \in [User -> Call]
      BY <1>1, <1>6, CallUpdate DEF CopyFails, TypeOK, At
    <2>2. spoiled' \subseteq File
      BY <1>1, <1>6 DEF CopyFails, TypeOK, Names
    <2> QED
      BY <1>1, <1>6, <2>1, <2>2 DEF CopyFails, TypeOK, disk
  <1>7. CASE Unhide(u)
    <2>1. [c EXCEPT !.at = "found", !.branch = 0] \in Call
      BY <1>1 DEF Call, At, Branch
    <2>2. call' = [call EXCEPT ![u] = [c EXCEPT !.at = "found", !.branch = 0]]
      BY <1>7 DEF Unhide
    <2>3. call' \in [User -> Call]
      BY <1>1, <2>1, <2>2 DEF TypeOK
    <2> QED
      BY <1>1, <1>7, <2>3 DEF Unhide, TypeOK, history
  <1> QED
    BY <1>2, <1>3, <1>4, <1>5, <1>6, <1>7 DEF copy_file


LEMMA ChangedType ==
  ASSUME TypeOK, NEW f \in File, NEW m, node[f] # NoFile => m \in Meta, Changed(f, m)
  PROVE  want' \in [File -> Meta] /\ spoiled' \subseteq File /\ node' = node
  <1>1. want' \in [File -> Meta]
    BY DEF TypeOK, Changed
  <1>2. spoiled' \subseteq File
    BY NamesFiles DEF TypeOK, Changed
  <1> QED
    BY <1>1, <1>2 DEF Changed

\* what chmod and truncate know of the inode they change
LEMMA FoundUpper ==
  ASSUME IInv, NEW u \in User, call[u].at = "found", call[u].op # "open_r"
  PROVE  call[u].f \in File /\ Upper(name[call[u].branch][call[u].f]) /\ call[u].branch = 0
  BY DEF IInv, Stages, Stage, UpperNames

LEMMA HandlerType ==
  ASSUME IInv, NEW u \in User, ulakefs_oper(u)
  PROVE  TypeOK'
  <1> DEFINE c == call[u]
             i == name[c.branch][c.f]
             m == want[node[c.f]]
  <1>1. TypeOK /\ Stage(c) /\ c \in Call
    BY DEF IInv, Stages, TypeOK
  <1>2. c.at # "idle" => c.f \in File
    BY <1>1 DEF Stage
  <1>3. c.at = "found" /\ c.op # "open_r" => i \in Inode /\ inode[i] \in Meta
    BY <1>1, FoundUpper DEF TypeOK, Upper
  <1>4. c.at # "idle" /\ node[c.f] # NoFile => m \in Meta
    BY <1>1, <1>2 DEF TypeOK
  <1>5. CASE open(u)
    <2>1. i \in Inode
      BY <1>1, <1>2, <1>5, NameInode DEF open, Stage, Call
    <2>2. [f |-> c.f, i |-> i, write |-> c.op = "open_w"] \in [f : File, i : Inode, write : BOOLEAN]
      BY <1>2, <1>5, <2>1 DEF open
    <2>3. fd' = [fd EXCEPT ![u] = [f |-> c.f, i |-> i, write |-> c.op = "open_w"]]
      BY <1>5 DEF open
    <2>4. fd' \in [User -> [f : File, i : Inode, write : BOOLEAN] \cup {NoFd}]
      BY <1>1, <2>2, <2>3 DEF TypeOK
    <2>5. call' \in [User -> Call]
      BY <1>1, <1>5, CallUpdate DEF open, TypeOK, At
    <2> QED
      BY <1>1, <1>5, <2>4, <2>5 DEF open, TypeOK, disk, history
  <1>6. CASE OpenUnhide(u)
    <2>1. call' \in [User -> Call]
      BY <1>1, <1>6, CallUpdate DEF OpenUnhide, TypeOK, At
    <2> QED
      BY <1>1, <1>6, <2>1 DEF OpenUnhide, TypeOK, history
  <1>7. CASE chmod(u)
    <2>1. [inode[i] EXCEPT !.attr = "set"] \in Meta
      BY <1>3, <1>7, MetaUpdate DEF chmod, Handler
    <2>2. inode' = [inode EXCEPT ![i] = [inode[i] EXCEPT !.attr = "set"]]
      BY <1>7 DEF chmod
    <2>3. inode' \in [Inode -> Meta]
      BY <1>1, <2>1, <2>2 DEF TypeOK
    <2>4. node[c.f] # NoFile => [data |-> m.data, attr |-> "set"] \in Meta
      BY <1>4, <1>7, MetaUpdate DEF chmod, Handler, Meta
    <2>5. want' \in [File -> Meta] /\ spoiled' \subseteq File /\ node' = node
      BY <1>1, <1>2, <1>7, <2>4, ChangedType DEF chmod, Handler
    <2>6. call' \in [User -> Call]
      BY <1>1, <1>7, CallUpdate DEF chmod, TypeOK, At
    <2> QED
      BY <1>1, <1>7, <2>3, <2>5, <2>6 DEF chmod, TypeOK
  <1>8. CASE truncate(u)
    <2>1. [inode[i] EXCEPT !.data = Blank] \in Meta
      BY <1>3, <1>8, BlankData DEF truncate, Handler, Meta
    <2>2. inode' = [inode EXCEPT ![i] = [inode[i] EXCEPT !.data = Blank]]
      BY <1>8 DEF truncate
    <2>3. inode' \in [Inode -> Meta]
      BY <1>1, <2>1, <2>2 DEF TypeOK
    <2>4. node[c.f] # NoFile => [data |-> Blank, attr |-> m.attr] \in Meta
      BY <1>4, <1>8, MetaUpdate, BlankData DEF truncate, Handler, Meta
    <2>5. want' \in [File -> Meta] /\ spoiled' \subseteq File /\ node' = node
      BY <1>1, <1>2, <1>8, <2>4, ChangedType DEF truncate, Handler
    <2>6. call' \in [User -> Call]
      BY <1>1, <1>8, CallUpdate DEF truncate, TypeOK, At
    <2> QED
      BY <1>1, <1>8, <2>3, <2>5, <2>6 DEF truncate, TypeOK
  <1>9. CASE link(u)
    <2>1. c.g \in File /\ c.f \in File /\ i \in Inode
      BY <1>1, <1>3, <1>9 DEF link, Handler, Stage
    <2>2. name' \in [Branch -> [File -> Inode \cup {NoInode}]]
      BY <1>1, <1>9, <2>1 DEF link, TypeOK, Branch
    <2>3. node' \in [File -> File \cup {NoFile}] /\ spoiled' \subseteq File
      BY <1>1, <1>9, <2>1 DEF link, TypeOK
    <2>4. call' \in [User -> Call]
      BY <1>1, <1>9, CallUpdate DEF link, TypeOK, At
    <2> QED
      BY <1>1, <1>9, <2>2, <2>3, <2>4 DEF link, TypeOK
  <1>10. CASE LinkUnhide(u)
    <2>1. call' \in [User -> Call]
      BY <1>1, <1>10, CallUpdate DEF LinkUnhide, TypeOK, At
    <2> QED
      BY <1>1, <1>10, <2>1 DEF LinkUnhide, TypeOK, history
  <1>11. CASE unlink_ro(u)
    <2>1. call' \in [User -> Call]
      BY <1>1, <1>11, CallUpdate DEF unlink_ro, TypeOK, At
    <2>2. node' \in [File -> File \cup {NoFile}] /\ spoiled' \subseteq File /\ hidden' \subseteq File
      BY <1>1, <1>2, <1>11 DEF unlink_ro, Gone, TypeOK
    <2> QED
      BY <1>1, <1>11, <2>1, <2>2 DEF unlink_ro, Gone, TypeOK
  <1>12. CASE unlink_rw(u)
    <2>1. call' \in [User -> Call]
      BY <1>1, <1>12, CallUpdate DEF unlink_rw, TypeOK, At
    <2>2. node' \in [File -> File \cup {NoFile}] /\ spoiled' \subseteq File
      BY <1>1, <1>2, <1>12 DEF unlink_rw, Gone, TypeOK
    <2>3. name' \in [Branch -> [File -> Inode \cup {NoInode}]]
      BY <1>1, <1>2, <1>12 DEF unlink_rw, TypeOK, Branch
    <2> QED
      BY <1>1, <1>12, <2>1, <2>2, <2>3 DEF unlink_rw, Gone, TypeOK
  <1>13. CASE maybe_whiteout(u)
    <2>1. call' \in [User -> Call]
      BY <1>1, <1>13, CallUpdate DEF maybe_whiteout, TypeOK, At
    <2>2. hidden' \subseteq File
      BY <1>1, <1>2, <1>13 DEF maybe_whiteout, TypeOK
    <2> QED
      BY <1>1, <1>13, <2>1, <2>2 DEF maybe_whiteout, TypeOK, history
  <1> QED
    BY <1>5, <1>6, <1>7, <1>8, <1>9, <1>10, <1>11, <1>12, <1>13 DEF ulakefs_oper


\* what write knows of its open file
LEMMA WriterUpper ==
  ASSUME IInv, NEW u \in User, fd[u].write
  PROVE  fd[u].f \in File /\ Upper(fd[u].i) /\ fd[u].i = name[0][fd[u].f]
  <1>1. fd[u] # NoFd
    BY DEF NoFd
  <1>2. fd[u] \in [f : File, i : Inode, write : BOOLEAN]
    BY <1>1 DEF IInv, TypeOK
  <1>3. fd[u].f \in File /\ fd[u].i \in Inode
    BY <1>2
  <1>4. fd[u].i = name[0][fd[u].f]
    BY <1>1 DEF IInv, HandlesNamed
  <1>5. Exists(0, fd[u].f)
    BY <1>3, <1>4, OpenFilesAssumption DEF Exists
  <1> QED
    BY <1>3, <1>4, <1>5 DEF IInv, UpperNames

LEMMA WriteType ==
  ASSUME IInv, NEW u \in User, NEW k \in Position, write(u, k)
  PROVE  TypeOK'
  <1> DEFINE f == fd[u].f
             i == fd[u].i
             m == want[node[f]]
  <1>1. TypeOK /\ f \in File /\ i \in Inode /\ inode[i] \in Meta
    BY WriterUpper DEF IInv, write, Upper, TypeOK
  <1>2. New \in Bytes
    BY DEF Bytes
  <1>3. inode' = [inode EXCEPT ![i] = [inode[i] EXCEPT !.data[k] = New]]
    BY DEF write
  <1>4. inode' \in [Inode -> Meta]
    BY <1>1, <1>2, <1>3, MetaUpdate DEF TypeOK
  <1>5. node[f] # NoFile => [data |-> [m.data EXCEPT ![k] = New], attr |-> m.attr] \in Meta
    <2> SUFFICES ASSUME node[f] # NoFile
                 PROVE  [data |-> [m.data EXCEPT ![k] = New], attr |-> m.attr] \in Meta
      OBVIOUS
    <2>1. m \in Meta
      BY <1>1 DEF TypeOK
    <2>2. [m.data EXCEPT ![k] = New] \in [Position -> Bytes] /\ m.attr \in {"lower", "made", "set"}
      BY <1>2, <2>1, MetaUpdate
    <2> QED
      BY <2>2 DEF Meta
  <1>6. want' \in [File -> Meta] /\ spoiled' \subseteq File /\ node' = node
    BY <1>1, <1>5, ChangedType DEF write
  <1> QED
    BY <1>1, <1>4, <1>6 DEF write, TypeOK

LEMMA ReleaseType ==
  ASSUME TypeOK, NEW u \in User, release(u)
  PROVE  TypeOK'
  <1>1. fd' \in [User -> [f : File, i : Inode, write : BOOLEAN] \cup {NoFd}]
    BY DEF TypeOK, release
  <1> QED
    BY <1>1 DEF TypeOK, release, disk, history

LEMMA CrashType ==
  ASSUME TypeOK, Crash
  PROVE  TypeOK'
  <1>1. call' \in [User -> Call] /\ fd' \in [User -> {NoFd}]
    BY IdleFields DEF Crash
  <1>2. spoiled' \subseteq File
    BY DEF Crash, TypeOK
  <1> QED
    BY <1>1, <1>2 DEF TypeOK, Crash, disk

-----------------------------------------------------------------------------
(* The invariant, action by action.                                        *)

\* a call that starts knows where its file is
LEMMA StartInv ==
  ASSUME IInv, NEW u \in User, NEW op \in Op, NEW f \in File, NEW g \in File, Start(u, op, f, g)
  PROVE  IInv'
  <1> USE DEF IInv
  <1>1. TypeOK'
    BY StartType
  <1>2. PICK b \in find_rorw_branch(f) :
          call' = [call EXCEPT ![u] = [Idle EXCEPT !.op = op, !.f = f, !.g = g, !.branch = b,
                     !.at = CASE op = "unlink" -> IF b = 0 THEN "unlink" ELSE "hide"
                              [] op = "open_r" -> "found"
                              [] OTHER         -> IF b = 0 THEN "found" ELSE "copy"]]
    BY DEF Start
  <1>3. b \in Branch /\ Exists(b, f)
    BY DEF find_rorw_branch, Branch
  <1>4. UNCHANGED <<name, fd>> /\ ~Busy(u) /\ Allowed(u, op, f, g)
    BY DEF Start, disk
  <1>5. /\ \A v \in User \ {u} : call'[v] = call[v]
        /\ call'[u].op = op /\ call'[u].f = f /\ call'[u].g = g /\ call'[u].branch = b
        /\ call'[u].at = CASE op = "unlink" -> IF b = 0 THEN "unlink" ELSE "hide"
                              [] op = "open_r" -> "found"
                              [] OTHER         -> IF b = 0 THEN "found" ELSE "copy"
    BY <1>2 DEF TypeOK, Idle, Call
  <1>6. LowerFixed' /\ UpperNames' /\ HandlesNamed'
    BY <1>4 DEF LowerFixed, UpperNames, HandlesNamed, Exists
  <1>7. op = "link" => ~Exists(0, g) /\ f # g
    BY <1>4 DEF Allowed, find_rorw_branch
  <1>8. Stage(call[u])'
    BY <1>3, <1>4, <1>5, <1>7 DEF Stage, Exists, Branch
  <1>9. Stages'
    <2> SUFFICES ASSUME NEW v \in User, v # u PROVE Stage(call[v])'
      BY <1>8 DEF Stages
    <2>1. call'[v] = call[v] /\ Stage(call[v])
      BY <1>5 DEF Stages
    <2> QED
      BY <1>4, <2>1 DEF Stage, Exists
  <1>10. Exclusion'
    <2>1. \A v \in User \ {u} : Busy(v) =>
            /\ op = "unlink" \/ call[v].op = "unlink" => call[v].f # f
            /\ op \in {"link", "unlink"} => call[v].op \notin {"link", "unlink"}
            /\ call[v].op = "link" => call[v].g # f
            /\ op = "link" => call[v].f # g
      BY <1>4 DEF Allowed, Excluded
    <2> QED
      BY <1>5, <2>1 DEF Exclusion, Busy
  <1>11. UnlinkAlone'
    BY <1>4, <1>5 DEF UnlinkAlone, Allowed, Busy
  <1> QED
    BY <1>1, <1>6, <1>9, <1>10, <1>11


\* copy_file makes the file or truncates the one that is there; no name that
\* was there gets another inode
LEMMA OpenTargetInv ==
  ASSUME IInv, NEW u \in User, OpenTarget(u)
  PROVE  IInv'
  <1> DEFINE c == call[u]
  <1> USE DEF IInv
  <1>1. TypeOK'
    BY CopyType DEF copy_file
  <1>2. PICK i \in Target(c.f) :
          /\ name' = [name EXCEPT ![0][c.f] = i]
          /\ call' = [call EXCEPT ![u].at = "read", ![u].to = i]
    BY DEF OpenTarget
  <1>3. fd' = fd /\ c.at = "copy"
    BY DEF OpenTarget
  <1>4. Stage(c) /\ c \in Call /\ c.f \in File
    BY <1>3 DEF Stages, Stage, TypeOK
  <1>5. Upper(i) /\ (Exists(0, c.f) => i = name[0][c.f])
    <2>1. CASE Exists(0, c.f)
      BY <1>4, <2>1 DEF Target, UpperNames
    <2>2. CASE ~Exists(0, c.f)
      BY <2>2 DEF Target, Free, Upper, LowerFixed, Branch
    <2> QED
      BY <2>1, <2>2
  <1>6. /\ name'[1] = name[1] /\ name'[0][c.f] = i
        /\ \A f \in File \ {c.f} : name'[0][f] = name[0][f]
    BY <1>2, <1>4 DEF TypeOK, Branch
  <1>7. \A f \in File : Exists(0, f) => name'[0][f] = name[0][f]
    BY <1>5, <1>6
  <1>8. i # NoInode
    BY <1>5, OpenFilesAssumption DEF Upper
  <1>9. /\ \A v \in User \ {u} : call'[v] = call[v]
        /\ call'[u].at = "read" /\ call'[u].to = i
        /\ call'[u].op = c.op /\ call'[u].f = c.f /\ call'[u].g = c.g
    BY <1>2, <1>4 DEF TypeOK, Call
  <1>10. CallKept(u)
    BY <1>3, <1>9 DEF CallKept, Busy
  <1>11. LowerFixed' /\ UpperNames'
    BY <1>5, <1>6, <1>7 DEF LowerFixed, UpperNames, Exists, Upper
  <1>12. Stages'
    <2>1. c.op = "link" => c.g # c.f
      BY <1>3, <1>4 DEF Stage
    <2> SUFFICES ASSUME NEW v \in User PROVE Stage(call[v])'
      BY DEF Stages
    <2>2. CASE v = u
      BY <1>3, <1>4, <1>6, <1>8, <1>9, <2>1, <2>2 DEF Stage, Exists
    <2>3. CASE v # u
      <3>1. call'[v] = call[v] /\ Stage(call[v])
        BY <1>9, <2>3 DEF Stages
      <3>2. call[v].at # "idle" /\ call[v].op = "link" => call[v].g # c.f
        BY <1>3, <2>3 DEF Exclusion, Busy
      <3>3. call[v] \in Call
        BY DEF TypeOK
      <3>4. call[v].branch \in {0, 1}
        BY <3>3 DEF Call, Branch
      <3>5. \A b \in {0, 1}, f \in File :
              name[b][f] # NoInode => name'[b][f] = name[b][f]
        BY <1>6, <1>7 DEF Exists
      <3>6. \A g \in File : g # c.f => name'[0][g] = name[0][g]
        BY <1>6
      <3> QED
        BY <3>1, <3>2, <3>4, <3>5, <3>6 DEF Stage, Exists
    <2> QED
      BY <2>2, <2>3
  <1>13. Exclusion' /\ UnlinkAlone'
    BY <1>3, <1>10, ExclusionKept, UnlinkAloneKept, OpenFilesAssumption
  <1>14. HandlesNamed'
    <2> SUFFICES ASSUME NEW v \in User, fd[v] # NoFd
                 PROVE  \/ fd[v].i = name'[0][fd[v].f]
                        \/ ~fd[v].write /\ fd[v].i = name'[1][fd[v].f]
      BY <1>3 DEF HandlesNamed
    <2>1. fd[v].f \in File /\ fd[v].i \in Inode
      BY DEF TypeOK
    <2> QED
      BY <1>6, <1>7, <2>1, OpenFilesAssumption DEF HandlesNamed, Exists
  <1> QED
    BY <1>1, <1>11, <1>12, <1>13, <1>14

LEMMA CopyInv ==
  ASSUME IInv, NEW u \in User, copy_file(u)
  PROVE  IInv'
  <1> DEFINE c == call[u]
  <1>1. TypeOK' /\ TypeOK /\ Stage(c) /\ c \in Call
    BY CopyType DEF IInv, Stages, TypeOK
  <1>2. CASE OpenTarget(u)
    BY <1>2, OpenTargetInv
  <1>3. CASE ReadChunk(u)
    <2>1. PICK at \in {"write", "setfile"} : Goto(u, at) /\ (at = "write" => c.pos < Chunks)
      BY <1>3 DEF ReadChunk
    <2>2. UNCHANGED <<name, fd>> /\ Busy(u) /\ c.at = "read"
      BY <1>3 DEF ReadChunk, disk, Busy
    <2>3. CallKept(u) /\ call'[u] = [c EXCEPT !.at = at]
      BY <1>1, <2>1, <2>2, GotoKept
    <2>4. Stage(call[u])'
      BY <1>1, <2>1, <2>2, <2>3 DEF Stage, Exists, Call
    <2> QED
      BY <1>1, <2>2, <2>3, <2>4, Quiet
  <1>4. CASE WriteChunk(u)
    <2>1. UNCHANGED <<name, fd>> /\ Busy(u) /\ c.at = "write"
      BY <1>4 DEF WriteChunk, Busy
    <2>2. CallKept(u) /\ call'[u] = [c EXCEPT !.at = "read", !.pos = c.pos + 1]
      BY <1>1, <1>4, <2>1 DEF WriteChunk, CallKept, TypeOK
    <2>3. Stage(call[u])'
      BY <1>1, <2>1, <2>2 DEF Stage, Exists, Call
    <2> QED
      BY <1>1, <2>1, <2>2, <2>3, Quiet
  <1>5. CASE SetFile(u)
    <2>1. UNCHANGED <<name, fd>> /\ Busy(u) /\ c.at = "setfile"
      BY <1>5 DEF SetFile, Busy
    <2>2. CallKept(u) /\ call'[u] = [c EXCEPT !.at = "unhide"]
      BY <1>1, <1>5, <2>1, GotoKept DEF SetFile
    <2>3. Stage(call[u])'
      BY <1>1, <2>1, <2>2 DEF Stage, Exists, Call
    <2> QED
      BY <1>1, <2>1, <2>2, <2>3, Quiet
  <1>6. CASE CopyFails(u)
    BY <1>1, <1>6, ReturnKept, Quiet DEF CopyFails, disk
  <1>7. CASE Unhide(u)
    <2>1. UNCHANGED <<name, fd>> /\ Busy(u) /\ c.at = "unhide"
      BY <1>7 DEF Unhide, Busy
    <2>2. CallKept(u) /\ call'[u] = [c EXCEPT !.at = "found", !.branch = 0]
      BY <1>1, <1>7, <2>1 DEF Unhide, CallKept, TypeOK
    <2>3. Stage(call[u])'
      BY <1>1, <2>1, <2>2 DEF Stage, Exists, Call
    <2> QED
      BY <1>1, <2>1, <2>2, <2>3, Quiet
  <1> QED
    BY <1>2, <1>3, <1>4, <1>5, <1>6, <1>7 DEF copy_file


\* a file is opened under the name that it has now
LEMMA OpenInv ==
  ASSUME IInv, NEW u \in User, open(u)
  PROVE  IInv'
  <1> DEFINE c == call[u]
  <1> USE DEF IInv
  <1>1. TypeOK' /\ Stage(c) /\ c \in Call
    BY HandlerType DEF ulakefs_oper, Stages, TypeOK
  <1>2. UNCHANGED name /\ Busy(u) /\ c.at = "found" /\ c.op \in {"open_r", "open_w"}
    BY DEF open, disk, Busy
  <1>3. CallKept(u) /\ Stage(call[u])'
    <2>1. CASE c.op = "open_w"
      <3>1. CallKept(u) /\ call'[u] = [c EXCEPT !.at = "opened"]
        BY <1>2, <2>1, GotoKept DEF open
      <3>2. Stage(call[u])'
        BY <1>1, <1>2, <2>1, <3>1 DEF Stage, Call
      <3> QED
        BY <3>1, <3>2
    <2>2. CASE c.op # "open_w"
      BY <2>2, ReturnKept DEF open
    <2> QED
      BY <2>1, <2>2
  <1>4. LowerFixed' /\ UpperNames'
    BY <1>2 DEF LowerFixed, UpperNames, Exists
  <1>5. Stages'
    <2> SUFFICES ASSUME NEW v \in User, v # u PROVE Stage(call[v])'
      BY <1>3 DEF Stages
    <2>1. call'[v] = call[v] /\ Stage(call[v])
      BY <1>3 DEF CallKept, Stages
    <2> QED
      BY <1>2, <2>1 DEF Stage, Exists
  <1>6. fd' = [fd EXCEPT ![u] = [f |-> c.f, i |-> name[c.branch][c.f], write |-> c.op = "open_w"]]
    BY DEF open
  <1>7. fd'[u].f = c.f /\ fd'[u].i = name[c.branch][c.f] /\ fd'[u].write = (c.op = "open_w")
    BY <1>6 DEF TypeOK
  <1>8. \A v \in User \ {u} : fd'[v] = fd[v]
    BY <1>6 DEF TypeOK
  <1>9. Exclusion'
    BY <1>3, ExclusionKept
  <1>10. UnlinkAlone'
    <2> SUFFICES ASSUME NEW w \in User, NEW v \in User, Busy(w)', call'[w].op = "unlink"
                 PROVE  fd'[v].f # call'[w].f
      BY DEF UnlinkAlone
    <2>1. w # u
      BY <1>2, <1>3 DEF CallKept, Busy
    <2>2. call'[w] = call[w] /\ Busy(w)
      BY <1>3, <2>1 DEF CallKept, Busy
    <2>3. call[w].f # c.f
      BY <1>2, <2>1, <2>2 DEF Exclusion
    <2> QED
      BY <1>7, <1>8, <2>2, <2>3 DEF UnlinkAlone
  <1>11. HandlesNamed'
    <2>1. c.branch = 0 \/ (c.branch = 1 /\ c.op # "open_w")
      <3>1. c.branch \in {0, 1}
        BY <1>1 DEF Call, Branch
      <3>2. c.op = "open_w" => c.branch = 0
        BY <1>1, <1>2 DEF Stage
      <3> QED
        BY <3>1, <3>2
    <2> QED
      BY <1>2, <1>7, <1>8, <2>1 DEF HandlesNamed
  <1> QED
    BY <1>1, <1>4, <1>5, <1>9, <1>10, <1>11

\* a link gives a second name to an inode of the writable branch, and takes
\* none away
LEMMA LinkInv ==
  ASSUME IInv, NEW u \in User, link(u)
  PROVE  IInv'
  <1> DEFINE c == call[u]
             i == name[c.branch][c.f]
  <1> USE DEF IInv
  <1>1. TypeOK' /\ Stage(c) /\ c \in Call
    BY HandlerType DEF ulakefs_oper, Stages, TypeOK
  <1>2. Busy(u) /\ c.at = "found" /\ c.op = "link" /\ fd' = fd
    BY DEF link, Handler, Busy
  <1>3. c.g \in File /\ c.g # c.f /\ ~Exists(0, c.g) /\ Upper(i)
    BY <1>1, <1>2, FoundUpper DEF Stage
  <1>4. name' = [name EXCEPT ![0][c.g] = i]
    BY DEF link
  <1>5. /\ name'[1] = name[1] /\ name'[0][c.g] = i
        /\ \A f \in File \ {c.g} : name'[0][f] = name[0][f]
    BY <1>3, <1>4 DEF TypeOK, Branch
  <1>6. \A b \in {0, 1}, f \in File : name[b][f] # NoInode => name'[b][f] = name[b][f]
    BY <1>3, <1>5 DEF Exists
  <1>7. CallKept(u) /\ call'[u] = [c EXCEPT !.at = "linked"]
    BY <1>2, GotoKept DEF link
  <1>8. LowerFixed' /\ UpperNames'
    BY <1>3, <1>5 DEF LowerFixed, UpperNames, Exists, Upper
  <1>9. Stages'
    <2> SUFFICES ASSUME NEW v \in User PROVE Stage(call[v])'
      BY DEF Stages
    <2>1. CASE v = u
      BY <1>1, <1>2, <1>3, <1>7, <2>1 DEF Stage, Call
    <2>2. CASE v # u
      <3>1. call'[v] = call[v] /\ Stage(call[v])
        BY <1>7, <2>2 DEF CallKept, Stages
      <3>2. call[v].at # "idle" => call[v].op # "link"
        BY <1>2, <2>2 DEF Exclusion, Busy
      <3>3. call[v].branch \in {0, 1}
        BY DEF TypeOK, Call, Branch
      <3> QED
        BY <1>6, <3>1, <3>2, <3>3 DEF Stage, Exists
    <2> QED
      BY <2>1, <2>2
  <1>10. Exclusion' /\ UnlinkAlone'
    BY <1>2, <1>7, ExclusionKept, UnlinkAloneKept, OpenFilesAssumption
  <1>11. HandlesNamed'
    <2> SUFFICES ASSUME NEW v \in User, fd[v] # NoFd
                 PROVE  \/ fd[v].i = name'[0][fd[v].f]
                        \/ ~fd[v].write /\ fd[v].i = name'[1][fd[v].f]
      BY <1>2 DEF HandlesNamed
    <2>1. fd[v].f \in File /\ fd[v].i \in Inode
      BY DEF TypeOK
    <2> QED
      BY <1>5, <1>6, <2>1, OpenFilesAssumption DEF HandlesNamed
  <1> QED
    BY <1>1, <1>8, <1>9, <1>10, <1>11

\* what is removed is neither open nor counted on by any other call
LEMMA UnlinkRwInv ==
  ASSUME IInv, NEW u \in User, unlink_rw(u)
  PROVE  IInv'
  <1> DEFINE c == call[u]
  <1> USE DEF IInv
  <1>1. TypeOK' /\ Stage(c) /\ c \in Call
    BY HandlerType DEF ulakefs_oper, Stages, TypeOK
  <1>2. Busy(u) /\ c.at = "unlink" /\ c.op = "unlink" /\ c.f \in File /\ fd' = fd
    BY <1>1 DEF unlink_rw, Busy, Stage
  <1>3. name' = [name EXCEPT ![0][c.f] = NoInode]
    BY DEF unlink_rw
  <1>4. /\ name'[1] = name[1] /\ name'[0][c.f] = NoInode
        /\ \A f \in File \ {c.f} : name'[0][f] = name[0][f]
    BY <1>2, <1>3 DEF TypeOK, Branch
  <1>5. CallKept(u) /\ call'[u] = [c EXCEPT !.at = "whiteout"]
    BY <1>2, GotoKept DEF unlink_rw
  <1>6. LowerFixed' /\ UpperNames'
    BY <1>4 DEF LowerFixed, UpperNames, Exists
  <1>7. Stages'
    <2> SUFFICES ASSUME NEW v \in User PROVE Stage(call[v])'
      BY DEF Stages
    <2>1. CASE v = u
      BY <1>1, <1>2, <1>5, <2>1 DEF Stage, Call
    <2>2. CASE v # u
      <3>1. call'[v] = call[v] /\ Stage(call[v])
        BY <1>5, <2>2 DEF CallKept, Stages
      <3>2. call[v].at # "idle" => call[v].f # c.f /\ call[v].op # "link"
        BY <1>2, <2>2 DEF Exclusion, Busy
      <3>3. call[v].branch \in {0, 1}
        BY DEF TypeOK, Call, Branch
      <3>4. \A b \in {0, 1}, f \in File : f # c.f => name'[b][f] = name[b][f]
        BY <1>4
      <3> QED
        BY <1>4, <3>1, <3>2, <3>3, <3>4 DEF Stage, Exists
    <2> QED
      BY <2>1, <2>2
  <1>8. Exclusion' /\ UnlinkAlone'
    BY <1>2, <1>5, ExclusionKept, UnlinkAloneKept, OpenFilesAssumption
  <1>9. HandlesNamed'
    <2> SUFFICES ASSUME NEW v \in User, fd[v] # NoFd
                 PROVE  \/ fd[v].i = name'[0][fd[v].f]
                        \/ ~fd[v].write /\ fd[v].i = name'[1][fd[v].f]
      BY <1>2 DEF HandlesNamed
    <2>1. fd[v].f \in File
      BY DEF TypeOK
    <2>2. fd[v].f # c.f
      BY <1>2 DEF UnlinkAlone
    <2> QED
      BY <1>4, <2>1, <2>2 DEF HandlesNamed
  <1> QED
    BY <1>1, <1>6, <1>7, <1>8, <1>9

LEMMA HandlerInv ==
  ASSUME IInv, NEW u \in User, ulakefs_oper(u)
  PROVE  IInv'
  <1>1. TypeOK' /\ TypeOK
    BY HandlerType DEF IInv
  <1>2. CASE open(u)
    BY <1>2, OpenInv
  <1>3. CASE link(u)
    BY <1>3, LinkInv
  <1>4. CASE unlink_rw(u)
    BY <1>4, UnlinkRwInv
  <1>5. CASE OpenUnhide(u) \/ LinkUnhide(u) \/ maybe_whiteout(u)
    <2>1. UNCHANGED <<name, fd>> /\ Return(u)
      BY <1>5 DEF OpenUnhide, LinkUnhide, maybe_whiteout
    <2> QED
      BY <1>1, <2>1, ReturnKept, Quiet
  <1>6. CASE chmod(u) \/ truncate(u) \/ unlink_ro(u)
    <2>1. UNCHANGED <<name, fd>> /\ Return(u)
      BY <1>6 DEF chmod, truncate, unlink_ro
    <2> QED
      BY <1>1, <2>1, ReturnKept, Quiet
  <1> QED
    BY <1>2, <1>3, <1>4, <1>5, <1>6 DEF ulakefs_oper


LEMMA WriteInv ==
  ASSUME IInv, NEW u \in User, NEW k \in Position, write(u, k)
  PROVE  IInv'
  <1> USE DEF IInv
  <1>1. TypeOK'
    BY WriteType
  <1>2. UNCHANGED <<name, call, fd>>
    BY DEF write
  <1>3. LowerFixed' /\ UpperNames' /\ HandlesNamed' /\ Exclusion' /\ UnlinkAlone'
    BY <1>2 DEF LowerFixed, UpperNames, HandlesNamed, Exclusion, UnlinkAlone, Busy, Exists
  <1>4. Stages'
    BY <1>2 DEF Stages, Stage, Exists
  <1> QED
    BY <1>1, <1>3, <1>4

LEMMA ReleaseInv ==
  ASSUME IInv, NEW u \in User, release(u)
  PROVE  IInv'
  <1> USE DEF IInv
  <1>1. TypeOK'
    BY ReleaseType
  <1>2. UNCHANGED <<name, call>> /\ fd' = [fd EXCEPT ![u] = NoFd]
    BY DEF release, disk
  <1>3. \A v \in User : fd'[v] \in {fd[v], NoFd}
    BY <1>2 DEF TypeOK
  <1>4. LowerFixed' /\ UpperNames' /\ Exclusion' /\ HandlesNamed'
    BY <1>2, <1>3 DEF LowerFixed, UpperNames, HandlesNamed, Exclusion, Busy, Exists
  <1>5. Stages'
    BY <1>2 DEF Stages, Stage, Exists
  <1>6. UnlinkAlone'
    BY <1>2, <1>3, OpenFilesAssumption DEF UnlinkAlone, Busy, NoFd, Stages, Stage
  <1> QED
    BY <1>1, <1>4, <1>5, <1>6

\* only the branches are left
LEMMA CrashInv ==
  ASSUME IInv, Crash
  PROVE  IInv'
  <1> USE DEF IInv
  <1>1. TypeOK'
    BY CrashType
  <1>2. UNCHANGED name /\ \A u \in User : call'[u] = Idle /\ fd'[u] = NoFd
    BY DEF Crash, disk
  <1>3. \A u \in User : call'[u].at = "idle"
    BY <1>2, IdleFields
  <1>4. LowerFixed' /\ UpperNames' /\ HandlesNamed'
    BY <1>2 DEF LowerFixed, UpperNames, HandlesNamed, Exists
  <1>5. Stages' /\ Exclusion' /\ UnlinkAlone'
    BY <1>3 DEF Stages, Stage, Exclusion, UnlinkAlone, Busy
  <1> QED
    BY <1>1, <1>4, <1>5

LEMMA StutterInv == ASSUME IInv, UNCHANGED vars PROVE IInv'
  <1> USE DEF IInv, vars, disk, history
  <1>1. TypeOK'
    BY DEF TypeOK
  <1>2. LowerFixed' /\ UpperNames' /\ HandlesNamed' /\ Exclusion' /\ UnlinkAlone'
    BY DEF LowerFixed, UpperNames, HandlesNamed, Exclusion, UnlinkAlone, Busy, Exists
  <1>3. Stages'
    BY DEF Stages, Stage, Exists
  <1> QED
    BY <1>1, <1>2, <1>3

LEMMA NextIInv == IInv /\ [Next]_vars => IInv'
  <1> SUFFICES ASSUME IInv, [Next]_vars PROVE IInv'
    OBVIOUS
  <1>1. ASSUME NEW u \in User, NEW op \in Op, NEW f \in File, NEW g \in File, Start(u, op, f, g)
        PROVE  IInv'
    BY <1>1, StartInv
  <1>2. ASSUME NEW u \in User, copy_file(u) \/ ulakefs_oper(u) \/ release(u)
        PROVE  IInv'
    BY <1>2, CopyInv, HandlerInv, ReleaseInv
  <1>3. ASSUME NEW u \in User, NEW k \in Position, write(u, k)
        PROVE  IInv'
    BY <1>3, WriteInv
  <1>4. CASE Crash
    BY <1>4, CrashInv
  <1>5. CASE UNCHANGED vars
    BY <1>5, StutterInv
  <1> QED
    BY <1>1, <1>2, <1>3, <1>4, <1>5 DEF Next

LEMMA Invariance == Spec => []IInv
  BY InitIInv, NextIInv, PTL DEF Spec

-----------------------------------------------------------------------------
(* Theorems.                                                               *)

(***************************************************************************)
(* What each handler has in its locals is what the branches have: copies   *)
(* run between files that exist, and stay within the file (copy_file, the  *)
(* handlers of fuse_operations.c and unlink), for any number of users.     *)
(***************************************************************************)
THEOREM OpenFileTypes == Spec => []TypeOK
  <1>1. IInv => TypeOK
    BY DEF IInv
  <1> QED
    BY Invariance, <1>1, PTL

(***************************************************************************)
(* A file that is open for writing stays the file that its name shows on   *)
(* the writable branch, and one that is open for reading is that file or   *)
(* the original, whatever is copied, linked and removed meanwhile and      *)
(* whenever the process is killed (ulakefs_open, copy_file).               *)
(***************************************************************************)
THEOREM HandlesStayNamed == Spec => []HandlesNamed
  <1>1. IInv => HandlesNamed
    BY DEF IInv
  <1> QED
    BY Invariance, <1>1, PTL

\* no inode but those of the writable branch is changed
Untouched == \A i \in Inode : inode'[i] = inode[i] \/ Upper(i)

\* every inode that a step may change is one that no lower name has
LEMMA StepsUpper ==
  ASSUME IInv, [Next]_vars
  PROVE  \A i \in Inode : inode'[i] = inode[i] \/ \A f \in File : LowerInode[f] # i
  <1> USE DEF Untouched
  <1>1. ASSUME NEW u \in User, copy_file(u)
        PROVE  Untouched
    <2> DEFINE c == call[u]
    <2>1. TypeOK /\ Stage(c) /\ UpperNames /\ LowerFixed
      BY DEF IInv, Stages
    <2>2. CASE OpenTarget(u)
      <3>1. PICK i \in Target(c.f) :
              inode' = [inode EXCEPT ![i] = [data |-> Blank,
                          attr |-> IF Exists(0, c.f) THEN inode[i].attr ELSE "made"]]
        BY <2>2 DEF OpenTarget
      <3>2. c.f \in File
        BY <2>1, <2>2 DEF OpenTarget, Stage
      <3>3. CASE Exists(0, c.f)
        BY <2>1, <3>1, <3>2, <3>3 DEF Target, UpperNames, TypeOK
      <3>4. CASE ~Exists(0, c.f)
        BY <2>1, <3>1, <3>4 DEF Target, Free, Upper, LowerFixed, Branch, TypeOK
      <3> QED
        BY <3>3, <3>4
    <2>3. CASE WriteChunk(u)
      <3>1. Upper(c.to)
        BY <2>1, <2>3 DEF WriteChunk, Stage, UpperNames
      <3> QED
        BY <2>1, <2>3, <3>1 DEF WriteChunk, TypeOK
    <2>4. CASE SetFile(u)
      <3>1. Upper(name[0][c.f])
        BY <2>1, <2>4 DEF SetFile, Stage, UpperNames
      <3> QED
        BY <2>1, <2>4, <3>1 DEF SetFile, TypeOK
    <2>5. CASE ReadChunk(u) \/ CopyFails(u) \/ Unhide(u)
      BY <2>5 DEF ReadChunk, CopyFails, Unhide, disk
    <2> QED
      BY <1>1, <2>2, <2>3, <2>4, <2>5 DEF copy_file
  <1>2. ASSUME NEW u \in User, ulakefs_oper(u)
        PROVE  Untouched
    <2> DEFINE i == name[call[u].branch][call[u].f]
    <2>1. CASE chmod(u) \/ truncate(u)
      <3>1. Upper(i)
        BY <2>1, FoundUpper DEF chmod, truncate, Handler
      <3> QED
        BY <2>1, <3>1 DEF chmod, truncate, IInv, TypeOK
    <2>2. CASE ~(chmod(u) \/ truncate(u))
      BY <1>2, <2>2 DEF ulakefs_oper, open, OpenUnhide, link, LinkUnhide, unlink_ro, unlink_rw,
                        maybe_whiteout, disk
    <2> QED
      BY <2>1, <2>2
  <1>3. ASSUME NEW u \in User, NEW k \in Position, write(u, k)
        PROVE  Untouched
    <2>1. Upper(fd[u].i)
      BY <1>3, WriterUpper DEF write
    <2> QED
      BY <1>3, <2>1 DEF write, IInv, TypeOK
  <1>4. ASSUME (\E u \in User : release(u)) \/ Crash \/ UNCHANGED vars
        PROVE  Untouched
    BY <1>4 DEF release, Crash, disk, vars
  <1>5. ASSUME NEW u \in User, NEW op \in Op, NEW f \in File, NEW g \in File, Start(u, op, f, g)
        PROVE  Untouched
    BY <1>5 DEF Start, disk
  <1>6. ASSUME NEW u \in User, copy_file(u) \/ ulakefs_oper(u) \/ release(u)
        PROVE  Untouched
    <2> HIDE DEF Untouched
    <2> QED
      BY <1>1, <1>2, <1>4, <1>6
  <1>7. Untouched
    <2> HIDE DEF Untouched
    <2> QED
      BY <1>3, <1>4, <1>5, <1>6 DEF Next
  <1> QED
    BY <1>7 DEF Upper

(***************************************************************************)
(* The read-only branch is never written: no step of any call, nor of any  *)
(* interleaving of calls, changes a name or an inode of it.                *)
(***************************************************************************)
THEOREM LowerNeverWritten == Spec => LowerUntouched
  <1> DEFINE Kept == /\ name'[1] = name[1]
                     /\ \A f \in File : Exists(1, f) => inode'[name[1][f]] = inode[name[1][f]]
  <1>1. ASSUME IInv, IInv', [Next]_vars
        PROVE  Kept
    <2>1. name[1] = LowerInode /\ name'[1] = LowerInode
      BY <1>1 DEF IInv, LowerFixed
    <2>2. \A f \in File : Exists(1, f) => name[1][f] \in Inode
      BY <1>1, NameInode DEF IInv, Branch
    <2> QED
      BY <1>1, <2>1, <2>2, StepsUpper
  <1>2. IInv /\ IInv' /\ [Next]_vars => [Kept]_vars
    BY <1>1
  <1> QED
    BY Invariance, <1>2, PTL DEF Spec, LowerUntouched

=============================================================================
