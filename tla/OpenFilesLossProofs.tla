-------------------------- MODULE OpenFilesLossProofs --------------------------
(***************************************************************************)
(* No order of the calls loses or revives a file, save for the hazards     *)
(* that OpenFiles counts in spoiled, for any number of users, files,       *)
(* inodes and buffers.  The invariant of OpenFilesProofs says what a call  *)
(* may count on; this one follows the contents: names are one file exactly *)
(* if they share an inode, what was never copied is as it was, and the     *)
(* only copy under way has written the chunks that it counted.             *)
(***************************************************************************)
EXTENDS OpenFilesProofs

\* names are links of one file if and only if they share their inode
SameFile ==
    \A f, g \in File : f # g =>
        /\ node[f] = node[g] /\ node[f] # NoFile => Exists(0, f) /\ name[0][f] = name[0][g]
        /\ Exists(0, f) /\ name[0][f] = name[0][g] => node[f] = node[g]

\* a file that no call has copied shows the original, which nobody changed
Below ==
    \A f \in File : node[f] # NoFile /\ ~Exists(0, f) =>
        Exists(1, f) /\ f \notin hidden /\ want[node[f]] = Original(f)

LowerKept == \A f \in File : Exists(1, f) => inode[name[1][f]] = Original(f)

\* what the calls count on that copy a file or change a whiteout
Knows(c) ==
    /\ c.at = "copy" => find_rorw_branch(c.f) # {} /\ c.pos = 0
    /\ c.at \in {"hide", "whiteout"} => ~Exists(0, c.f)
    /\ c.at = "whiteout" => node[c.f] = NoFile
    /\ c.at = "opened" => Exists(0, c.f)
    /\ c.at = "linked" => Exists(0, c.g)

AllKnow == \A u \in User : Knows(call[u])

RemovedNow(f) == \E u \in User : call[u].at = "whiteout" /\ call[u].f = f

\* a name that users gave up is gone
Absent ==
    \A f \in File \ spoiled : node[f] = NoFile => find_rorw_branch(f) = {} \/ RemovedNow(f)

\* a file of the writable branch is what it should be
Content ==
    \A f \in File \ spoiled :
        node[f] # NoFile /\ Exists(0, f) /\ ~CopiedNow(f) => inode[name[0][f]] = want[node[f]]

\* the copy of u is alone, and right as far as it went
CopyGood(u) ==
    /\ \A v \in User \ {u} : ~Copying(v)
    /\ want[node[call[u].f]] = Original(call[u].f)
    /\ \A k \in Position : k <= call[u].pos => inode[call[u].to].data[k] = <<call[u].f, k>>
    /\ call[u].at = "write" => buf = <<call[u].f, call[u].pos + 1>>
    /\ call[u].at = "setfile" => call[u].pos = Chunks

Copies == \A u \in User : Copying(u) => Names(call[u].f) \subseteq spoiled \/ CopyGood(u)

Fate == SameFile /\ Below /\ LowerKept /\ AllKnow /\ Absent /\ Content /\ Copies

-----------------------------------------------------------------------------
(* Initial states.                                                         *)

LEMMA InitFate == Init => Fate
  <1> SUFFICES ASSUME Init PROVE Fate
    OBVIOUS
  <1> USE OpenFilesAssumption
  <1>1. \A f \in File : name[0][f] = NoInode /\ name[1][f] = LowerInode[f]
    BY DEF Init, Branch
  <1>2. \A f \in File : ~Exists(0, f)
    BY <1>1 DEF Exists
  <1>3. \A f \in File : node[f] = IF LowerInode[f] = NoInode THEN NoFile ELSE f
    BY DEF Init
  <1>4. \A u \in User : call[u].at = "idle"
    BY IdleFields DEF Init
  <1>5. SameFile
    BY <1>2, <1>3 DEF SameFile
  <1>6. Below
    BY <1>1, <1>3 DEF Init, Below, Exists
  <1>7. LowerKept
    <2> SUFFICES ASSUME NEW f \in File, LowerInode[f] # NoInode
                 PROVE  inode[LowerInode[f]] = Original(f)
      BY <1>1 DEF LowerKept, Exists
    <2>1. LowerInode[f] \in Inode
      OBVIOUS
    <2>2. \A g \in File : LowerInode[g] = LowerInode[f] => g = f
      OBVIOUS
    <2>3. inode[LowerInode[f]] = Original(CHOOSE g \in File : LowerInode[g] = LowerInode[f])
      BY <2>1 DEF Init
    <2> QED
      BY <2>2, <2>3
  <1>8. AllKnow /\ Copies
    BY <1>4 DEF AllKnow, Knows, Copies, Copying
  <1>9. Absent
    BY <1>1, <1>2, <1>3 DEF Absent, find_rorw_branch, Exists
  <1>10. Content
    BY <1>2 DEF Content
  <1> QED
    BY <1>5, <1>6, <1>7, <1>8, <1>9, <1>10 DEF Fate

-----------------------------------------------------------------------------
(* What the steps have in common.                                          *)

\* no step changes the originals
LEMMA LowerStays == ASSUME IInv, IInv', [Next]_vars, LowerKept PROVE LowerKept'
  <1>1. name[1] = LowerInode /\ name'[1] = LowerInode
    BY DEF IInv, LowerFixed
  <1>2. \A f \in File : Exists(1, f) => name[1][f] \in Inode
    BY NameInode DEF IInv, Branch
  <1> QED
    BY <1>1, <1>2, StepsUpper DEF LowerKept, Exists

\* v goes on as it was
SameCall(v) == call'[v] = call[v]

\* no copy comes to an end in a step of u, save for one of a file that is spoiled
LEMMA CopiedKept ==
  ASSUME UNCHANGED node, NEW u \in User, \A v \in User \ {u} : SameCall(v),
         \/ ~Copying(u)
         \/ Names(call[u].f) \subseteq spoiled'
         \/ Copying(u)' /\ call'[u].f = call[u].f
  PROVE  \A f \in File \ spoiled' : CopiedNow(f) => CopiedNow(f)'
  <1> SUFFICES ASSUME NEW f \in File, f \notin spoiled', CopiedNow(f) PROVE CopiedNow(f)'
    OBVIOUS
  <1>1. PICK v \in User : Copying(v) /\ call[v].f \in Names(f)
    BY DEF CopiedNow
  <1>2. f \in Names(call[v].f)
    BY <1>1 DEF Names
  <1>3. Copying(v)' /\ call'[v].f = call[v].f
    BY <1>1, <1>2 DEF SameCall, Copying
  <1> QED
    BY <1>1, <1>3 DEF CopiedNow, Names

(***************************************************************************)
(* A step of a call that is no copy afterwards and changes no file: only   *)
(* the whiteouts that it makes and removes can matter.                     *)
(***************************************************************************)
LEMMA CallOnly ==
  ASSUME Fate, NEW u \in User, UNCHANGED <<name, inode, node, want, buf>>,
         spoiled \subseteq spoiled', LowerKept',
         \A v \in User \ {u} : SameCall(v),
         ~Copying(u)', AllKnow',
         Copying(u) => Names(call[u].f) \subseteq spoiled',
         \A f \in File : node[f] # NoFile /\ ~Exists(0, f) /\ f \notin hidden => f \notin hidden',
         \A f \in File \ spoiled' : node[f] = NoFile /\ (find_rorw_branch(f) = {} \/ RemovedNow(f))
                                      => find_rorw_branch(f)' = {} \/ RemovedNow(f)'
  PROVE  Fate'
  <1> USE DEF Fate
  <1>1. SameFile'
    BY DEF SameFile, Exists
  <1>2. Below'
    BY DEF Below, Exists
  <1>3. AllKnow'
    OBVIOUS
  <1>4. Absent'
    BY DEF Absent
  <1>5. Content'
    <2>1. UNCHANGED node /\ (~Copying(u) \/ Names(call[u].f) \subseteq spoiled')
      OBVIOUS
    <2>2. \A f \in File \ spoiled' : CopiedNow(f) => CopiedNow(f)'
      BY <2>1, CopiedKept
    <2> QED
      BY <2>2 DEF Content, Exists
  <1>6. Copies'
    <2> SUFFICES ASSUME NEW v \in User, Copying(v)', ~(Names(call[v].f)' \subseteq spoiled')
                 PROVE  CopyGood(v)'
      BY DEF Copies
    <2>1. v # u
      OBVIOUS
    <2>2. call'[v] = call[v] /\ Copying(v)
      BY <2>1 DEF SameCall, Copying
    <2>3. Names(call[v].f)' = Names(call[v].f)
      BY <2>2 DEF Names
    <2>4. CopyGood(v)
      BY <2>2, <2>3 DEF Copies
    <2>5. \A w \in User \ {v} : ~Copying(w)'
      BY <2>4 DEF CopyGood, Copying, SameCall
    <2> QED
      BY <2>2, <2>4, <2>5 DEF CopyGood
  <1> QED
    BY <1>1, <1>2, <1>3, <1>4, <1>5, <1>6

\* the same when also the whiteouts stay and no whiteout was due
LEMMA CallStarts ==
  ASSUME Fate, NEW u \in User, UNCHANGED <<name, inode, hidden, node, want, buf>>,
         spoiled \subseteq spoiled', LowerKept',
         \A v \in User \ {u} : SameCall(v),
         ~Copying(u)', Knows(call[u])',
         Copying(u) => Names(call[u].f) \subseteq spoiled',
         call[u].at # "whiteout"
  PROVE  Fate'
  <1>1. \A f : find_rorw_branch(f)' = find_rorw_branch(f)
    BY DEF find_rorw_branch, Exists
  <1>2. \A f \in File : RemovedNow(f) => RemovedNow(f)'
    BY DEF RemovedNow, SameCall
  <1>3. \A f \in File \ spoiled' : node[f] = NoFile /\ (find_rorw_branch(f) = {} \/ RemovedNow(f))
                                      => find_rorw_branch(f)' = {} \/ RemovedNow(f)'
    BY <1>1, <1>2
  <1>4. AllKnow'
    <2> SUFFICES ASSUME NEW v \in User, v # u PROVE Knows(call[v])'
      BY DEF AllKnow
    <2>1. call'[v] = call[v] /\ Knows(call[v])
      BY DEF Fate, AllKnow, SameCall
    <2> QED
      BY <1>1, <2>1 DEF Knows, Exists
  <1> QED
    BY <1>3, <1>4, CallOnly

LEMMA StartFate ==
  ASSUME IInv, Fate, LowerKept', NEW u \in User, NEW op \in Op, NEW f \in File, NEW g \in File,
         Start(u, op, f, g)
  PROVE  Fate'
  <1>1. PICK b \in find_rorw_branch(f) :
          call' = [call EXCEPT ![u] = [Idle EXCEPT !.op = op, !.f = f, !.g = g, !.branch = b,
                     !.at = CASE op = "unlink" -> IF b = 0 THEN "unlink" ELSE "hide"
                              [] op = "open_r" -> "found"
                              [] OTHER         -> IF b = 0 THEN "found" ELSE "copy"]]
    BY DEF Start
  <1>2. UNCHANGED <<name, inode, hidden, node, want, buf, spoiled>> /\ ~Busy(u)
    BY DEF Start, disk, history
  <1>3. /\ \A v \in User \ {u} : SameCall(v)
        /\ call'[u].f = f /\ call'[u].pos = 0
        /\ call'[u].at = CASE op = "unlink" -> IF b = 0 THEN "unlink" ELSE "hide"
                              [] op = "open_r" -> "found"
                              [] OTHER         -> IF b = 0 THEN "found" ELSE "copy"
    BY <1>1 DEF IInv, TypeOK, Idle, Call, SameCall
  <1>4. b # 0 => ~Exists(0, f)
    BY DEF find_rorw_branch
  <1>5. ~Copying(u)' /\ Knows(call[u])'
    BY <1>2, <1>3, <1>4 DEF Copying, Knows, Exists, find_rorw_branch
  <1>6. ~Copying(u) /\ call[u].at # "whiteout"
    BY <1>2 DEF Busy, Copying
  <1> QED
    BY <1>2, <1>3, <1>5, <1>6, CallStarts

LEMMA ReturnFate ==
  ASSUME IInv, NEW u \in User, Return(u)
  PROVE  /\ \A v \in User \ {u} : SameCall(v)
         /\ call'[u].at = "idle" /\ ~Copying(u)' /\ Knows(call[u])'
  <1>1. call'[u] = Idle /\ \A v \in User \ {u} : SameCall(v)
    BY DEF IInv, TypeOK, Return, SameCall
  <1>2. call'[u].at = "idle"
    BY <1>1, IdleFields
  <1> QED
    BY <1>1, <1>2 DEF Copying, Knows

\* what was not finished is spoiled
LEMMA CopyFailsFate ==
  ASSUME IInv, Fate, LowerKept', NEW u \in User, CopyFails(u)
  PROVE  Fate'
  <1>1. UNCHANGED <<name, inode, hidden, node, want, buf>> /\ Return(u)
    BY DEF CopyFails, disk
  <1>2. spoiled \subseteq spoiled' /\ (Copying(u) => Names(call[u].f) \subseteq spoiled')
    BY DEF CopyFails
  <1>3. call[u].at # "whiteout"
    BY DEF CopyFails
  <1> QED
    BY <1>1, <1>2, <1>3, ReturnFate, CallStarts

LEMMA OpenFate ==
  ASSUME IInv, Fate, LowerKept', NEW u \in User, open(u)
  PROVE  Fate'
  <1> DEFINE c == call[u]
  <1>1. UNCHANGED <<name, inode, hidden, node, want, buf, spoiled>> /\ c.at = "found" /\ c \in Call
    BY DEF open, disk, history, IInv, TypeOK
  <1>2. /\ \A v \in User \ {u} : SameCall(v)
        /\ ~Copying(u)' /\ Knows(call[u])'
    <2>1. CASE c.op = "open_w"
      <3>1. call' = [call EXCEPT ![u] = [c EXCEPT !.at = "opened"]]
        BY <2>1 DEF open, Goto
      <3>2. /\ \A v \in User \ {u} : SameCall(v)
            /\ call'[u].at = "opened" /\ call'[u].f = c.f
        BY <1>1, <3>1 DEF IInv, TypeOK, Call, SameCall
      <3>3. Exists(0, c.f)
        BY <1>1, <2>1 DEF IInv, Stages, Stage
      <3> QED
        BY <1>1, <3>2, <3>3 DEF Copying, Knows, Exists
    <2>2. CASE c.op # "open_w"
      BY <2>2, ReturnFate DEF open
    <2> QED
      BY <2>1, <2>2
  <1>3. ~Copying(u)
    BY <1>1 DEF Copying
  <1> QED
    BY <1>1, <1>2, <1>3, CallStarts

LEMMA ReleaseFate ==
  ASSUME IInv, Fate, LowerKept', NEW u \in User, release(u)
  PROVE  Fate'
  <1>1. UNCHANGED <<name, inode, hidden, node, want, buf, spoiled, call>> /\ ~Busy(u)
    BY DEF release, disk, history
  <1>2. ~Copying(u)' /\ ~Copying(u) /\ call[u].at # "whiteout" /\ Knows(call[u])'
    BY <1>1 DEF Busy, Copying, Knows
  <1> QED
    BY <1>1, <1>2, CallStarts DEF SameCall

-----------------------------------------------------------------------------
(* Whiteouts.                                                              *)

\* a whiteout above a file of the writable branch hides nothing
LEMMA UnhideFate ==
  ASSUME IInv, Fate, LowerKept', NEW u \in User, NEW f \in File, Exists(0, f),
         UNCHANGED <<name, inode, node, want, buf, spoiled>>, hidden' = hidden \ {f},
         \A v \in User \ {u} : SameCall(v),
         ~Copying(u)', Knows(call[u])',
         ~Copying(u), call[u].at # "whiteout"
  PROVE  Fate'
  <1>1. \A g \in File : find_rorw_branch(g) = {} => find_rorw_branch(g)' = {}
    <2> SUFFICES ASSUME NEW g \in File, find_rorw_branch(g) = {} PROVE find_rorw_branch(g)' = {}
      OBVIOUS
    <2>1. ~Exists(0, g) /\ g # f
      BY DEF find_rorw_branch
    <2> QED
      BY <2>1 DEF find_rorw_branch, Exists
  <1>2. \A g \in File : RemovedNow(g) => RemovedNow(g)'
    BY DEF RemovedNow, SameCall
  <1>3. \A g \in File \ spoiled' : node[g] = NoFile /\ (find_rorw_branch(g) = {} \/ RemovedNow(g))
                                      => find_rorw_branch(g)' = {} \/ RemovedNow(g)'
    BY <1>1, <1>2
  <1>4. AllKnow'
    <2> SUFFICES ASSUME NEW v \in User, v # u PROVE Knows(call[v])'
      BY DEF AllKnow
    <2>1. call'[v] = call[v] /\ Knows(call[v])
      BY DEF Fate, AllKnow, SameCall
    <2> QED
      BY <2>1 DEF Knows, Exists, find_rorw_branch
  <1> QED
    BY <1>3, <1>4, CallOnly

\* Unhide, OpenUnhide and LinkUnhide
LEMMA UnhidesFate ==
  ASSUME IInv, Fate, LowerKept', NEW u \in User, Unhide(u) \/ OpenUnhide(u) \/ LinkUnhide(u)
  PROVE  Fate'
  <1> DEFINE c == call[u]
  <1>1. Stage(c) /\ Knows(c) /\ c \in Call
    BY DEF IInv, Stages, Fate, AllKnow, TypeOK
  <1>2. CASE Unhide(u)
    <2>1. UNCHANGED <<name, inode, node, want, buf, spoiled>> /\ hidden' = hidden \ {c.f} /\ c.at = "unhide"
      BY <1>2 DEF Unhide, history
    <2>2. c.f \in File /\ Exists(0, c.f)
      BY <1>1, <2>1 DEF Stage
    <2>3. call' = [call EXCEPT ![u] = [c EXCEPT !.at = "found", !.branch = 0]]
      BY <1>2 DEF Unhide
    <2>4. call'[u].at = "found" /\ \A v \in User \ {u} : SameCall(v)
      BY <1>1, <2>3 DEF IInv, TypeOK, Call, SameCall
    <2>5. ~Copying(u)' /\ Knows(call[u])' /\ ~Copying(u)
      BY <2>1, <2>4 DEF Copying, Knows
    <2> QED
      BY <2>1, <2>2, <2>4, <2>5, UnhideFate
  <1>3. CASE OpenUnhide(u)
    <2>1. UNCHANGED <<name, inode, node, want, buf, spoiled>> /\ hidden' = hidden \ {c.f} /\ c.at = "opened"
      BY <1>3 DEF OpenUnhide, history
    <2>2. c.f \in File /\ Exists(0, c.f)
      BY <1>1, <2>1 DEF Stage, Knows
    <2>3. Return(u) /\ ~Copying(u)
      BY <1>3, <2>1 DEF OpenUnhide, Copying
    <2> QED
      BY <2>1, <2>2, <2>3, ReturnFate, UnhideFate
  <1>4. CASE LinkUnhide(u)
    <2>1. UNCHANGED <<name, inode, node, want, buf, spoiled>> /\ hidden' = hidden \ {c.g} /\ c.at = "linked"
      BY <1>4 DEF LinkUnhide, history
    <2>2. c.g \in File /\ Exists(0, c.g)
      BY <1>1, <2>1 DEF Stage, Knows
    <2>3. Return(u) /\ ~Copying(u)
      BY <1>4, <2>1 DEF LinkUnhide, Copying
    <2> QED
      BY <2>1, <2>2, <2>3, ReturnFate, UnhideFate
  <1> QED
    BY <1>2, <1>3, <1>4

\* after maybe_whiteout nothing is found under the name
LEMMA WhiteoutFate ==
  ASSUME IInv, Fate, LowerKept', NEW u \in User, maybe_whiteout(u)
  PROVE  Fate'
  <1>1. UNCHANGED <<name, inode, node, want, buf, spoiled>> /\ call[u].at = "whiteout" /\ Return(u)
    BY DEF maybe_whiteout, history
  <1>2. PICK f \in File : f = call[u].f /\ ~Exists(0, f) /\ node[f] = NoFile
    BY <1>1 DEF IInv, Stages, Stage, Fate, AllKnow, Knows
  <1>3. hidden' = IF find_rorw_branch(f) # {} THEN hidden \cup {f} ELSE hidden
    BY <1>2 DEF maybe_whiteout
  <1>4. find_rorw_branch(f)' = {}
    BY <1>1, <1>2, <1>3 DEF find_rorw_branch, Exists
  <1>5. \A g \in File \ {f} : /\ find_rorw_branch(g) = {} => find_rorw_branch(g)' = {}
                              /\ RemovedNow(g) => RemovedNow(g)'
                              /\ g \notin hidden => g \notin hidden'
    <2> SUFFICES ASSUME NEW g \in File \ {f}
                 PROVE  /\ find_rorw_branch(g) = {} => find_rorw_branch(g)' = {}
                        /\ RemovedNow(g) => RemovedNow(g)'
                        /\ g \notin hidden => g \notin hidden'
      OBVIOUS
    <2>1. g \in hidden' <=> g \in hidden
      BY <1>3
    <2>2. RemovedNow(g) => RemovedNow(g)'
      BY <1>1, <1>2, ReturnFate DEF RemovedNow, SameCall
    <2> QED
      BY <1>1, <2>1, <2>2 DEF find_rorw_branch, Exists
  <1>6. ~Copying(u)
    BY <1>1 DEF Copying
  <1>7. \A g \in File : node[g] # NoFile /\ ~Exists(0, g) /\ g \notin hidden => g \notin hidden'
    BY <1>2, <1>5
  <1>8. \A g \in File \ spoiled' : node[g] = NoFile /\ (find_rorw_branch(g) = {} \/ RemovedNow(g))
                                      => find_rorw_branch(g)' = {} \/ RemovedNow(g)'
    BY <1>4, <1>5
  <1>9. AllKnow'
    <2> SUFFICES ASSUME NEW v \in User, v # u PROVE Knows(call[v])'
      BY <1>1, ReturnFate DEF AllKnow
    <2>1. call'[v] = call[v] /\ Knows(call[v])
      BY <1>1, ReturnFate DEF Fate, AllKnow, SameCall
    <2>2. call[v].at = "copy" => call[v].f # f /\ call[v].f \in File
      BY <1>1, <1>2 DEF IInv, Exclusion, Busy, Stages, Stage
    <2>3. call[v].at = "copy" => (call[v].f \in hidden' <=> call[v].f \in hidden)
      BY <1>3, <2>2
    <2> QED
      BY <1>1, <2>1, <2>3 DEF Knows, Exists, find_rorw_branch
  <1> QED
    BY <1>1, <1>6, <1>7, <1>8, <1>9, ReturnFate, CallOnly

-----------------------------------------------------------------------------
(* unlink.                                                                 *)

\* A name goes.  No other call works on it, and its other links keep the file.
LEMMA GoneFate ==
  ASSUME IInv, Fate, LowerKept', NEW u \in User, NEW f \in File,
         Busy(u), call[u].op = "unlink", call[u].f = f,
         UNCHANGED <<inode, buf, name[1]>>,
         name'[0][f] = NoInode, \A g \in File \ {f} : name'[0][g] = name[0][g],
         \A g \in File \ {f} : g \in hidden' <=> g \in hidden,
         Gone(f),
         \A v \in User \ {u} : SameCall(v),
         ~Copying(u)', Knows(call[u])',
         ~Copying(u), call[u].at # "whiteout",
         find_rorw_branch(f)' = {} \/ RemovedNow(f)'
  PROVE  Fate'
  <1> USE DEF Fate
  <1>1. /\ node'[f] = NoFile /\ \A g \in File \ {f} : node'[g] = node[g]
        /\ spoiled' = spoiled \ {f} /\ want' = want
    BY DEF Gone, IInv, TypeOK
  <1>2. ~Exists(0, f)' /\ \A g \in File \ {f} : Exists(0, g)' = Exists(0, g)
    BY DEF Exists
  <1>3. \A g \in File : Exists(1, g)' = Exists(1, g)
    BY DEF Exists
  <1>4. \A v \in User \ {u} : call[v].at # "idle" => call[v].f # f /\ call[v].op \notin {"link", "unlink"}
    BY DEF IInv, Exclusion, Busy
  <1>5. SameFile'
    BY <1>1, <1>2 DEF SameFile, Exists
  <1>6. Below'
    BY <1>1, <1>2, <1>3 DEF Below
  <1>7. AllKnow'
    <2> SUFFICES ASSUME NEW v \in User, v # u PROVE Knows(call[v])'
      BY DEF AllKnow
    <2>1. call'[v] = call[v] /\ Knows(call[v]) /\ Stage(call[v])
      BY DEF AllKnow, SameCall, IInv, Stages
    <2>2. call[v].at = "copy" => find_rorw_branch(call[v].f)' = find_rorw_branch(call[v].f)
      BY <1>2, <1>3, <1>4, <2>1 DEF find_rorw_branch, Stage
    <2> QED
      BY <1>1, <1>2, <1>4, <2>1, <2>2 DEF Knows, Stage
  <1>8. Absent'
    <2> SUFFICES ASSUME NEW g \in File \ spoiled', g # f, node'[g] = NoFile
                 PROVE  find_rorw_branch(g)' = {} \/ RemovedNow(g)'
      BY DEF Absent
    <2>1. find_rorw_branch(g) = {} \/ RemovedNow(g)
      BY <1>1 DEF Absent
    <2>2. find_rorw_branch(g)' = find_rorw_branch(g)
      BY <1>2, <1>3 DEF find_rorw_branch
    <2>3. RemovedNow(g) => RemovedNow(g)'
      BY DEF RemovedNow, SameCall
    <2> QED
      BY <2>1, <2>2, <2>3
  <1>9. Content'
    <2> SUFFICES ASSUME NEW g \in File \ spoiled', node'[g] # NoFile, Exists(0, g)', ~CopiedNow(g)'
                 PROVE  inode'[name'[0][g]] = want'[node'[g]]
      BY DEF Content
    <2>1. g # f /\ Exists(0, g) /\ node'[g] = node[g] /\ g \notin spoiled
      BY <1>1, <1>2
    <2>2. ~CopiedNow(g)
      <3> SUFFICES ASSUME NEW v \in User, Copying(v), call[v].f \in Names(g) PROVE FALSE
        BY DEF CopiedNow
      <3>1. v # u /\ call[v].at # "idle"
        BY DEF Copying
      <3>2. call'[v] = call[v] /\ call[v].f # f
        BY <1>4, <3>1 DEF SameCall
      <3>3. Copying(v)' /\ call'[v].f \in Names(g)'
        BY <1>1, <2>1, <3>2 DEF Copying, Names
      <3> QED
        BY <3>3 DEF CopiedNow
    <2> QED
      BY <1>1, <2>1, <2>2 DEF Content
  <1>10. Copies'
    <2> SUFFICES ASSUME NEW v \in User, Copying(v)', ~(Names(call[v].f)' \subseteq spoiled')
                 PROVE  CopyGood(v)'
      BY DEF Copies
    <2>1. v # u
      OBVIOUS
    <2>2. call'[v] = call[v] /\ Copying(v) /\ call[v].at # "idle"
      BY <2>1 DEF SameCall, Copying
    <2>3. call[v].f # f /\ call[v].f \in File
      BY <1>4, <2>1, <2>2 DEF IInv, Stages, Stage
    <2>4. Names(call[v].f)' \subseteq Names(call[v].f) \ {f}
      BY <1>1, <2>2, <2>3 DEF Names
    <2>5. CopyGood(v)
      BY <1>1, <2>2, <2>4 DEF Copies
    <2>6. \A w \in User \ {v} : ~Copying(w)'
      BY <2>5 DEF CopyGood, Copying, SameCall
    <2> QED
      BY <1>1, <2>2, <2>3, <2>5, <2>6 DEF CopyGood
  <1> QED
    BY <1>5, <1>6, <1>7, <1>8, <1>9, <1>10

LEMMA UnlinkRoFate ==
  ASSUME IInv, Fate, LowerKept', NEW u \in User, unlink_ro(u)
  PROVE  Fate'
  <1>1. call[u].at = "hide" /\ Return(u) /\ UNCHANGED <<name, inode, buf>>
    BY DEF unlink_ro
  <1>2. PICK f \in File : f = call[u].f /\ ~Exists(0, f) /\ call[u].op = "unlink"
    BY <1>1 DEF IInv, Stages, Stage, Fate, AllKnow, Knows
  <1>3. Gone(f) /\ hidden' = hidden \cup {f}
    BY <1>2 DEF unlink_ro
  <1>4. name'[0][f] = NoInode /\ \A g \in File \ {f} : name'[0][g] = name[0][g]
    BY <1>1, <1>2 DEF Exists
  <1>5. find_rorw_branch(f)' = {}
    BY <1>3, <1>4 DEF find_rorw_branch, Exists
  <1>6. Busy(u) /\ ~Copying(u) /\ call[u].at # "whiteout"
    BY <1>1 DEF Busy, Copying
  <1>7. \A g \in File \ {f} : g \in hidden' <=> g \in hidden
    BY <1>3
  <1> QED
    BY <1>1, <1>2, <1>3, <1>4, <1>5, <1>6, <1>7, ReturnFate, GoneFate

LEMMA UnlinkRwFate ==
  ASSUME IInv, Fate, LowerKept', NEW u \in User, unlink_rw(u)
  PROVE  Fate'
  <1> DEFINE c == call[u]
  <1>1. c.at = "unlink" /\ UNCHANGED <<inode, hidden, buf>> /\ c \in Call
    BY DEF unlink_rw, IInv, TypeOK
  <1>2. PICK f \in File : f = c.f /\ c.op = "unlink"
    BY <1>1 DEF IInv, Stages, Stage
  <1>3. Gone(f) /\ name' = [name EXCEPT ![0][f] = NoInode]
    BY <1>2 DEF unlink_rw
  <1>4. name'[0][f] = NoInode /\ name'[1] = name[1] /\ \A g \in File \ {f} : name'[0][g] = name[0][g]
    BY <1>3 DEF IInv, TypeOK, Branch
  <1>5. call' = [call EXCEPT ![u] = [c EXCEPT !.at = "whiteout"]]
    BY DEF unlink_rw, Goto
  <1>6. /\ \A v \in User \ {u} : SameCall(v)
        /\ call'[u].at = "whiteout" /\ call'[u].f = f
    BY <1>1, <1>2, <1>5 DEF IInv, TypeOK, Call, SameCall
  <1>7. node'[f] = NoFile
    BY <1>3 DEF Gone, IInv, TypeOK
  <1>8. RemovedNow(f)' /\ ~Copying(u)' /\ Knows(call[u])'
    BY <1>4, <1>6, <1>7 DEF RemovedNow, Copying, Knows, Exists
  <1>9. Busy(u) /\ ~Copying(u)
    BY <1>1 DEF Busy, Copying
  <1>10. \A g \in File \ {f} : g \in hidden' <=> g \in hidden
    BY <1>1
  <1> QED
    BY <1>1, <1>2, <1>3, <1>4, <1>6, <1>8, <1>9, <1>10, GoneFate

-----------------------------------------------------------------------------
(* link.                                                                   *)

\* The new name shares file, inode and fate of the old one.
LEMMA LinkFate ==
  ASSUME IInv, Fate, LowerKept', NEW u \in User, link(u)
  PROVE  Fate'
  <1> DEFINE c == call[u]
  <1> USE DEF Fate
  <1>1. c.at = "found" /\ c.op = "link" /\ c \in Call /\ UNCHANGED <<inode, hidden, buf, want>>
    BY DEF link, Handler, IInv, TypeOK
  <1>2. PICK f \in File, g \in File :
          f = c.f /\ g = c.g /\ f # g /\ Exists(0, f) /\ ~Exists(0, g) /\ c.branch = 0
    BY <1>1 DEF IInv, Stages, Stage
  <1>3. /\ name' = [name EXCEPT ![0][g] = name[0][f]]
        /\ node' = [node EXCEPT ![g] = node[f]]
        /\ spoiled' = IF f \in spoiled THEN spoiled \cup {g} ELSE spoiled \ {g}
        /\ call' = [call EXCEPT ![u] = [c EXCEPT !.at = "linked"]]
    BY <1>2 DEF link, Goto
  <1>4. /\ name'[1] = name[1] /\ name'[0][g] = name[0][f]
        /\ \A x \in File \ {g} : name'[0][x] = name[0][x]
        /\ node'[g] = node[f] /\ \A x \in File \ {g} : node'[x] = node[x]
    BY <1>3 DEF IInv, TypeOK, Branch
  <1>5. /\ g \in spoiled' <=> f \in spoiled
        /\ \A x \in File \ {g} : x \in spoiled' <=> x \in spoiled
    BY <1>3
  <1>6. /\ \A v \in User \ {u} : SameCall(v)
        /\ call'[u].at = "linked" /\ call'[u].g = g
    BY <1>1, <1>2, <1>3 DEF IInv, TypeOK, Call, SameCall
  <1>7. /\ Exists(0, g)' /\ \A x \in File \ {g} : Exists(0, x)' = Exists(0, x)
        /\ \A x \in File : Exists(1, x)' = Exists(1, x)
    BY <1>2, <1>4 DEF Exists
  <1>8. \A v \in User \ {u} : call[v].at # "idle" => call[v].f # g /\ call[v].op \notin {"link", "unlink"}
    BY <1>1, <1>2 DEF IInv, Exclusion, Busy
  <1>9. SameFile'
    <2>1. \A x \in File \ {f, g} : node[x] = node[f] /\ node[f] # NoFile
                                     => Exists(0, x) /\ name[0][x] = name[0][f]
      BY <1>2 DEF SameFile
    <2>2. \A x \in File \ {f, g} : name[0][x] = name[0][f] => node[x] = node[f]
      BY <1>2 DEF SameFile
    <2>3. \A x \in File \ {g} : node'[x] = node'[g] /\ node'[g] # NoFile
                                     => Exists(0, x)' /\ name'[0][x] = name'[0][g]
      BY <1>2, <1>4, <1>7, <2>1
    <2>4. \A x \in File \ {g} : name'[0][x] = name'[0][g] => node'[x] = node'[g]
      BY <1>2, <1>4, <2>2
    <2>5. \A x, y \in File \ {g} : x # y =>
            /\ node'[x] = node'[y] /\ node'[x] # NoFile => Exists(0, x)' /\ name'[0][x] = name'[0][y]
            /\ Exists(0, x)' /\ name'[0][x] = name'[0][y] => node'[x] = node'[y]
      BY <1>4, <1>7 DEF SameFile
    <2> QED
      BY <1>7, <2>3, <2>4, <2>5 DEF SameFile
  <1>10. Below'
    BY <1>1, <1>4, <1>7 DEF Below
  <1>11. AllKnow'
    <2> SUFFICES ASSUME NEW v \in User PROVE Knows(call[v])'
      BY DEF AllKnow
    <2>1. CASE v = u
      BY <1>6, <1>7, <2>1 DEF Knows
    <2>2. CASE v # u
      <3>1. call'[v] = call[v] /\ Knows(call[v]) /\ Stage(call[v])
        BY <1>6, <2>2 DEF AllKnow, SameCall, IInv, Stages
      <3>2. call[v].at = "copy" => find_rorw_branch(call[v].f)' = find_rorw_branch(call[v].f)
        BY <1>1, <1>7, <1>8, <2>2, <3>1 DEF find_rorw_branch, Stage
      <3> QED
        BY <1>7, <1>8, <2>2, <3>1, <3>2 DEF Knows, Stage
    <2> QED
      BY <2>1, <2>2
  <1>12. Absent'
    <2> SUFFICES ASSUME NEW x \in File \ spoiled', node'[x] = NoFile
                 PROVE  find_rorw_branch(x)' = {} \/ RemovedNow(x)'
      BY DEF Absent
    <2>1. x # g
      <3> SUFFICES ASSUME x = g PROVE FALSE
        OBVIOUS
      <3>1. f \notin spoiled /\ node[f] = NoFile
        BY <1>4, <1>5
      <3>2. find_rorw_branch(f) # {}
        BY <1>2 DEF find_rorw_branch
      <3>3. ~RemovedNow(f)
        BY <1>2 DEF RemovedNow, AllKnow, Knows
      <3> QED
        BY <3>1, <3>2, <3>3 DEF Absent
    <2>2. find_rorw_branch(x) = {} \/ RemovedNow(x)
      BY <1>4, <1>5, <2>1 DEF Absent
    <2>3. find_rorw_branch(x)' = find_rorw_branch(x)
      BY <1>1, <1>7, <2>1 DEF find_rorw_branch
    <2>4. RemovedNow(x) => RemovedNow(x)'
      BY <1>1, <1>6 DEF RemovedNow, SameCall
    <2> QED
      BY <2>2, <2>3, <2>4
  <1>13. \A v \in User : Copying(v) => /\ call'[v] = call[v] /\ Copying(v)'
                                       /\ call[v].f \in File \ {g} /\ node'[call[v].f] = node[call[v].f]
    <2> SUFFICES ASSUME NEW v \in User, Copying(v)
                 PROVE  /\ call'[v] = call[v] /\ Copying(v)'
                        /\ call[v].f \in File \ {g} /\ node'[call[v].f] = node[call[v].f]
      OBVIOUS
    <2>1. v # u /\ call[v].at # "idle"
      BY <1>1 DEF Copying
    <2>2. call'[v] = call[v] /\ call[v].f \in File \ {g}
      BY <1>6, <1>8, <2>1 DEF SameCall, IInv, Stages, Stage
    <2> QED
      BY <1>4, <2>2 DEF Copying
  <1>14. Content'
    <2> SUFFICES ASSUME NEW x \in File \ spoiled', node'[x] # NoFile, Exists(0, x)', ~CopiedNow(x)'
                 PROVE  inode'[name'[0][x]] = want'[node'[x]]
      BY DEF Content
    <2>1. PICK y \in File \ spoiled : node'[x] = node[y] /\ name'[0][x] = name[0][y] /\ Exists(0, y)
      <3>1. CASE x = g
        BY <1>2, <1>4, <1>5, <3>1
      <3>2. CASE x # g
        BY <1>4, <1>5, <1>7, <3>2
      <3> QED
        BY <3>1, <3>2
    <2>2. ~CopiedNow(y)
      <3> SUFFICES ASSUME NEW v \in User, Copying(v), call[v].f \in Names(y) PROVE FALSE
        BY DEF CopiedNow
      <3>1. Copying(v)' /\ call'[v].f \in Names(x)'
        BY <1>13, <2>1 DEF Names
      <3> QED
        BY <3>1 DEF CopiedNow
    <2> QED
      BY <1>1, <2>1, <2>2 DEF Content
  <1>15. Copies'
    <2> SUFFICES ASSUME NEW v \in User, Copying(v)', ~(Names(call[v].f)' \subseteq spoiled')
                 PROVE  CopyGood(v)'
      BY DEF Copies
    <2>1. Copying(v)
      BY <1>6 DEF Copying, SameCall
    <2>2. ~(Names(call[v].f) \subseteq spoiled)
      <3>1. PICK x \in File : x \in Names(call[v].f)' /\ x \notin spoiled'
        BY DEF Names
      <3>2. CASE x = g
        <4>1. f \in Names(call[v].f) /\ f \notin spoiled
          BY <1>4, <1>5, <1>13, <2>1, <3>1, <3>2 DEF Names
        <4> QED
          BY <4>1
      <3>3. CASE x # g
        <4>1. x \in Names(call[v].f) /\ x \notin spoiled
          BY <1>4, <1>5, <1>13, <2>1, <3>1, <3>3 DEF Names
        <4> QED
          BY <4>1
      <3> QED
        BY <3>2, <3>3
    <2>3. CopyGood(v)
      BY <2>1, <2>2 DEF Copies
    <2>4. \A w \in User \ {v} : ~Copying(w)'
      BY <1>6, <2>3 DEF CopyGood, Copying, SameCall
    <2> QED
      BY <1>1, <1>13, <2>1, <2>3, <2>4 DEF CopyGood
  <1> QED
    BY <1>9, <1>10, <1>11, <1>12, <1>14, <1>15

-----------------------------------------------------------------------------
(* copy_file.                                                              *)

\* what a copy starts from, and that it spoils what another one copies
LEMMA OpenTargetFate ==
  ASSUME IInv, Fate, LowerKept', NEW u \in User, OpenTarget(u)
  PROVE  Fate'
  <1> DEFINE c == call[u]
  <1> USE DEF Fate
  <1>1. c.at = "copy" /\ c \in Call /\ UNCHANGED <<hidden, buf, node, want>>
    BY DEF OpenTarget, IInv, TypeOK
  <1>2. PICK f \in File : f = c.f /\ find_rorw_branch(f) # {} /\ Exists(1, f) /\ c.op # "unlink" /\ c.pos = 0
    BY <1>1 DEF IInv, Stages, Stage, AllKnow, Knows
  <1>3. PICK i \in Target(f) :
          /\ name' = [name EXCEPT ![0][f] = i]
          /\ inode' = [inode EXCEPT ![i] = [data |-> Blank,
                          attr |-> IF Exists(0, f) THEN inode[i].attr ELSE "made"]]
          /\ call' = [call EXCEPT ![u].at = "read", ![u].to = i]
    BY <1>2 DEF OpenTarget
  <1>4. /\ Exists(0, f) => i = name[0][f]
        /\ ~Exists(0, f) => \A x \in File : name[0][x] # i
        /\ i \in Inode
    BY <1>2, NameInode DEF Target, Free, Branch, IInv
  <1>5. /\ name'[1] = name[1] /\ name'[0][f] = i
        /\ \A x \in File \ {f} : name'[0][x] = name[0][x]
        /\ \A j \in Inode \ {i} : inode'[j] = inode[j]
    BY <1>3 DEF IInv, TypeOK, Branch
  <1>6. /\ \A v \in User \ {u} : SameCall(v)
        /\ call'[u].at = "read" /\ call'[u].to = i /\ call'[u].f = f /\ call'[u].pos = 0
    BY <1>1, <1>2, <1>3 DEF IInv, TypeOK, Call, SameCall
  <1>7. /\ Exists(0, f)' /\ \A x \in File \ {f} : Exists(0, x)' = Exists(0, x)
        /\ \A x \in File : Exists(1, x)' = Exists(1, x)
    BY <1>4, <1>5, OpenFilesAssumption DEF Exists
  <1>8. \A v \in User : call[v].at # "idle" /\ call[v].op = "unlink" => call[v].f # f
    BY <1>1, <1>2 DEF IInv, Exclusion, Busy
  <1>9. spoiled' = spoiled \cup SpoiledByCopy(u) /\ Copying(u)' /\ ~Copying(u)
    BY <1>1, <1>6 DEF OpenTarget, Copying
  <1>10. SameFile'
    <2>1. CASE Exists(0, f)
      <3>1. \A x \in File : name'[0][x] = name[0][x]
        BY <1>4, <1>5, <2>1
      <3> QED
        BY <1>1, <3>1 DEF SameFile, Exists
    <2>2. CASE ~Exists(0, f)
      <3>1. \A x \in File \ {f} : (node[f] = node[x] => node[f] = NoFile) /\ name'[0][x] # i
        BY <1>4, <1>5, <2>2 DEF SameFile
      <3> QED
        BY <1>1, <1>5, <1>7, <3>1 DEF SameFile
    <2> QED
      BY <2>1, <2>2
  <1>11. Below'
    BY <1>1, <1>7 DEF Below
  <1>12. AllKnow'
    <2> SUFFICES ASSUME NEW v \in User PROVE Knows(call[v])'
      BY DEF AllKnow
    <2>1. CASE v = u
      BY <1>6, <2>1 DEF Knows
    <2>2. CASE v # u
      <3>1. call'[v] = call[v] /\ Knows(call[v]) /\ Stage(call[v])
        BY <1>6, <2>2 DEF AllKnow, SameCall, IInv, Stages
      <3>2. call[v].at = "copy" /\ call[v].f # f => find_rorw_branch(call[v].f)' = find_rorw_branch(call[v].f)
        BY <1>1, <1>7, <3>1 DEF find_rorw_branch, Stage
      <3>3. find_rorw_branch(f)' # {}
        BY <1>7 DEF find_rorw_branch
      <3> QED
        BY <1>1, <1>7, <1>8, <3>1, <3>2, <3>3 DEF Knows, Stage
    <2> QED
      BY <2>1, <2>2
  <1>13. Absent'
    <2> SUFFICES ASSUME NEW x \in File \ spoiled', node[x] = NoFile
                 PROVE  find_rorw_branch(x)' = {} \/ RemovedNow(x)'
      BY <1>1 DEF Absent
    <2>1. find_rorw_branch(x) = {} \/ RemovedNow(x)
      BY <1>9 DEF Absent
    <2>2. RemovedNow(x) => RemovedNow(x)' /\ x # f
      <3> SUFFICES ASSUME NEW v \in User, call[v].at = "whiteout", call[v].f = x
                   PROVE  RemovedNow(x)' /\ x # f
        BY DEF RemovedNow
      <3>1. v # u
        BY <1>1
      <3>2. call[v].op = "unlink"
        BY DEF IInv, Stages, Stage
      <3> QED
        BY <1>6, <1>8, <3>1, <3>2 DEF RemovedNow, SameCall
    <2>3. x # f => find_rorw_branch(x)' = find_rorw_branch(x)
      BY <1>1, <1>7 DEF find_rorw_branch
    <2> QED
      BY <1>2, <2>1, <2>2, <2>3
  <1>14. Content'
    <2> SUFFICES ASSUME NEW x \in File \ spoiled', node[x] # NoFile, Exists(0, x)', ~CopiedNow(x)'
                 PROVE  inode'[name'[0][x]] = want[node[x]]
      BY <1>1 DEF Content
    <2>1. name'[0][x] # i
      <3> SUFFICES ASSUME name'[0][x] = i PROVE FALSE
        OBVIOUS
      <3>1. node[f] = node[x]
        BY <1>1, <1>5, <1>7, <1>10 DEF SameFile
      <3>2. f \in Names(x)'
        BY <1>1, <3>1 DEF Names
      <3> QED
        BY <1>6, <1>9, <3>2 DEF CopiedNow
    <2>2. x # f /\ Exists(0, x) /\ name'[0][x] = name[0][x] /\ name[0][x] \in Inode
      BY <1>5, <1>7, <2>1, NameInode DEF IInv, Branch
    <2>3. ~CopiedNow(x)
      BY <1>1, <1>6, <1>9, CopiedKept
    <2> QED
      BY <1>5, <1>9, <2>1, <2>2, <2>3 DEF Content
  <1>15. Copies'
    <2> SUFFICES ASSUME NEW v \in User, Copying(v)', ~(Names(call[v].f)' \subseteq spoiled')
                 PROVE  CopyGood(v)'
      BY DEF Copies
    <2>1. \A x : Names(x)' = Names(x)
      BY <1>1 DEF Names
    <2>2. v = u
      <3> SUFFICES ASSUME v # u PROVE FALSE
        OBVIOUS
      <3>1. call'[v] = call[v] /\ Copying(v)
        BY <1>6 DEF SameCall, Copying
      <3>2. Names(call[v].f) \subseteq SpoiledByCopy(u)
        BY <3>1 DEF SpoiledByCopy, Names
      <3> QED
        BY <1>9, <2>1, <3>1, <3>2
    <2>3. ~(Names(f) \subseteq SpoiledByCopy(u))
      BY <1>6, <1>9, <2>1, <2>2
    <2>4. \A w \in User \ {u} : ~Copying(w)
      BY <1>2, <2>3 DEF SpoiledByCopy, Names
    <2>5. \A w \in User \ {u} : ~Copying(w)'
      BY <1>6, <2>4 DEF Copying, SameCall
    <2>6. node[f] # NoFile
      BY <2>3 DEF Names
    <2>7. want[node[f]] = Original(f)
      <3>1. CASE Exists(0, f)
        BY <1>2, <2>3, <2>6, <3>1 DEF SpoiledByCopy, Names
      <3>2. CASE ~Exists(0, f)
        BY <2>6, <3>2 DEF Below
      <3> QED
        BY <3>1, <3>2
    <2>8. \A k \in Position : ~(k <= 0)
      BY DEF Position
    <2> QED
      BY <1>1, <1>6, <2>2, <2>5, <2>7, <2>8 DEF CopyGood
  <1> QED
    BY <1>10, <1>11, <1>12, <1>13, <1>14, <1>15

(***************************************************************************)
(* A step of a copy that changes no name: what does not depend on contents *)
(* stays.                                                                  *)
(***************************************************************************)
LEMMA CopyQuiet ==
  ASSUME Fate, NEW u \in User, UNCHANGED <<name, hidden, node, want, spoiled>>,
         \A v \in User \ {u} : SameCall(v),
         Copying(u), call'[u].at \in {"read", "write", "setfile", "unhide"}
  PROVE  SameFile' /\ Below' /\ AllKnow' /\ Absent'
  <1> USE DEF Fate
  <1>1. SameFile'
    BY DEF SameFile, Exists
  <1>2. Below'
    BY DEF Below, Exists
  <1>3. AllKnow'
    <2> SUFFICES ASSUME NEW v \in User PROVE Knows(call[v])'
      BY DEF AllKnow
    <2>1. CASE v = u
      BY <2>1 DEF Knows
    <2>2. CASE v # u
      <3>1. call'[v] = call[v] /\ Knows(call[v])
        BY <2>2 DEF AllKnow, SameCall
      <3> QED
        BY <3>1 DEF Knows, Exists, find_rorw_branch
    <2> QED
      BY <2>1, <2>2
  <1>4. Absent'
    <2>1. \A f \in File : find_rorw_branch(f)' = find_rorw_branch(f)
      BY DEF find_rorw_branch, Exists
    <2>2. \A f \in File : RemovedNow(f) => RemovedNow(f)'
      BY DEF RemovedNow, SameCall, Copying
    <2> QED
      BY <2>1, <2>2 DEF Absent
  <1> QED
    BY <1>1, <1>2, <1>3, <1>4

\* while u copies the file of a name that is not spoiled, nobody else copies
LEMMA OnlyCopy ==
  ASSUME Copies, NEW u \in User, Copying(u), UNCHANGED <<node, spoiled>>,
         \A v \in User \ {u} : SameCall(v),
         call'[u].f = call[u].f,
         Copying(u)' /\ CopyGood(u) => CopyGood(u)'
  PROVE  Copies'
  <1> SUFFICES ASSUME NEW v \in User, Copying(v)', ~(Names(call[v].f)' \subseteq spoiled')
               PROVE  CopyGood(v)'
    BY DEF Copies
  <1>1. call'[v].f = call[v].f /\ (v # u => Copying(v))
    BY DEF SameCall, Copying
  <1>2. CopyGood(v)
    BY <1>1 DEF Copies, Names
  <1>3. v = u
    BY <1>2 DEF CopyGood
  <1> QED
    BY <1>2, <1>3

\* what is read is a chunk of the original
LEMMA ReadChunkFate ==
  ASSUME IInv, Fate, LowerKept', NEW u \in User, ReadChunk(u)
  PROVE  Fate'
  <1> DEFINE c == call[u]
  <1>1. c.at = "read" /\ c \in Call /\ UNCHANGED <<name, inode, hidden, node, want, spoiled>>
    BY DEF ReadChunk, IInv, TypeOK, disk, history
  <1>2. c.f \in File /\ Exists(1, c.f)
    BY <1>1 DEF IInv, Stages, Stage
  <1>3. PICK at \in {"write", "setfile"} :
          /\ call' = [call EXCEPT ![u] = [c EXCEPT !.at = at]]
          /\ at = "write" => c.pos < Chunks /\ buf' = inode[name[1][c.f]].data[c.pos + 1]
          /\ at = "setfile" => ~(c.pos < Chunks)
    BY DEF ReadChunk, Goto
  <1>4. /\ \A v \in User \ {u} : SameCall(v)
        /\ call'[u].at = at /\ call'[u].to = c.to /\ call'[u].f = c.f /\ call'[u].pos = c.pos
    BY <1>1, <1>3 DEF IInv, TypeOK, Call, SameCall
  <1>5. Copying(u) /\ Copying(u)'
    BY <1>1, <1>4 DEF Copying
  <1>6. SameFile' /\ Below' /\ AllKnow' /\ Absent'
    BY <1>1, <1>4, <1>5, CopyQuiet
  <1>7. Content'
    <2>1. \A f \in File \ spoiled' : CopiedNow(f) => CopiedNow(f)'
      BY <1>1, <1>4, <1>5, CopiedKept
    <2> QED
      BY <1>1, <2>1 DEF Content, Exists, Fate
  <1>8. c.pos \in 0 .. Chunks
    BY <1>1 DEF Call
  <1>9. CopyGood(u) => CopyGood(u)'
    <2>1. at = "write" => buf' = <<c.f, c.pos + 1>>
      <3> SUFFICES ASSUME at = "write" PROVE buf' = <<c.f, c.pos + 1>>
        OBVIOUS
      <3>1. inode[name[1][c.f]] = Original(c.f)
        BY <1>2 DEF Fate, LowerKept
      <3>2. c.pos + 1 \in Position
        BY <1>3, <1>8, OpenFilesAssumption DEF Position
      <3> QED
        BY <1>3, <3>1, <3>2 DEF Original
    <2>2. at = "setfile" => c.pos = Chunks
      BY <1>3, <1>8, OpenFilesAssumption
    <2>3. (\A w \in User \ {u} : ~Copying(w)) => \A w \in User \ {u} : ~Copying(w)'
      BY <1>4 DEF Copying, SameCall
    <2> QED
      BY <1>1, <1>4, <2>1, <2>2, <2>3 DEF CopyGood
  <1>10. Copies'
    BY <1>1, <1>4, <1>5, <1>9, OnlyCopy DEF Fate
  <1> QED
    BY <1>6, <1>7, <1>10 DEF Fate

LEMMA WriteChunkFate ==
  ASSUME IInv, Fate, LowerKept', NEW u \in User, WriteChunk(u)
  PROVE  Fate'
  <1> DEFINE c == call[u]
  <1>1. c.at = "write" /\ c \in Call /\ UNCHANGED <<name, hidden, node, want, spoiled>>
    BY DEF WriteChunk, IInv, TypeOK, history
  <1>2. c.f \in File /\ Exists(0, c.f) /\ c.to = name[0][c.f] /\ c.pos < Chunks
    BY <1>1 DEF IInv, Stages, Stage
  <1>3. c.to \in Inode /\ inode[c.to] \in Meta /\ c.pos \in 0 .. Chunks
    BY <1>1, <1>2, NameInode DEF IInv, Branch, TypeOK, Call
  <1>4. inode' = [inode EXCEPT ![c.to] = [inode[c.to] EXCEPT !.data[c.pos + 1] = buf]]
    BY DEF WriteChunk
  <1>5. call' = [call EXCEPT ![u] = [c EXCEPT !.at = "read", !.pos = c.pos + 1]]
    BY DEF WriteChunk
  <1>6. /\ \A v \in User \ {u} : SameCall(v)
        /\ call'[u].at = "read" /\ call'[u].to = c.to /\ call'[u].f = c.f /\ call'[u].pos = c.pos + 1
    BY <1>1, <1>5 DEF IInv, TypeOK, Call, SameCall
  <1>7. Copying(u) /\ Copying(u)'
    BY <1>1, <1>6 DEF Copying
  <1>8. SameFile' /\ Below' /\ AllKnow' /\ Absent'
    BY <1>1, <1>6, <1>7, CopyQuiet
  <1>9. \A j \in Inode \ {c.to} : inode'[j] = inode[j]
    BY <1>4 DEF IInv, TypeOK
  <1>10. Content'
    <2> SUFFICES ASSUME NEW x \in File \ spoiled', node[x] # NoFile, Exists(0, x), ~CopiedNow(x)'
                 PROVE  inode'[name[0][x]] = want[node[x]]
      BY <1>1 DEF Content, Exists
    <2>1. ~CopiedNow(x)
      BY <1>1, <1>6, <1>7, CopiedKept
    <2>2. name[0][x] # c.to
      <3> SUFFICES ASSUME name[0][x] = c.to PROVE FALSE
        OBVIOUS
      <3>1. node[x] = node[c.f]
        BY <1>2 DEF Fate, SameFile
      <3> QED
        BY <1>2, <1>7, <2>1, <3>1 DEF CopiedNow, Names
    <2>3. name[0][x] \in Inode
      BY NameInode DEF IInv, Branch
    <2> QED
      BY <1>1, <1>9, <2>1, <2>2, <2>3 DEF Fate, Content
  <1>11. CopyGood(u) => CopyGood(u)'
    <2> SUFFICES ASSUME CopyGood(u) PROVE CopyGood(u)'
      OBVIOUS
    <2>1. c.pos + 1 \in Position
      BY <1>2, <1>3, OpenFilesAssumption DEF Position
    <2>2. inode[c.to].data \in [Position -> Bytes]
      BY <1>3, MetaUpdate
    <2>3. inode'[c.to].data = [inode[c.to].data EXCEPT ![c.pos + 1] = buf]
      BY <1>3, <1>4 DEF IInv, TypeOK, Meta
    <2>4. buf = <<c.f, c.pos + 1>>
      BY <1>1 DEF CopyGood
    <2>5. \A k \in Position : k <= c.pos + 1 => inode'[c.to].data[k] = <<c.f, k>>
      <3> SUFFICES ASSUME NEW k \in Position, k <= c.pos + 1
                   PROVE  inode'[c.to].data[k] = <<c.f, k>>
        OBVIOUS
      <3>1. CASE k = c.pos + 1
        BY <2>2, <2>3, <2>4, <3>1
      <3>2. CASE k # c.pos + 1
        <4>1. k <= c.pos
          BY <1>3, <3>2, OpenFilesAssumption DEF Position
        <4>2. inode[c.to].data[k] = <<c.f, k>>
          BY <4>1 DEF CopyGood
        <4> QED
          BY <2>2, <2>3, <3>2, <4>2
      <3> QED
        BY <3>1, <3>2
    <2>6. \A w \in User \ {u} : ~Copying(w)'
      BY <1>6 DEF Copying, SameCall, CopyGood
    <2>7. want'[node'[c.f]] = Original(c.f)
      BY <1>1 DEF CopyGood
    <2> QED
      BY <1>6, <2>5, <2>6, <2>7 DEF CopyGood
  <1>12. Copies'
    BY <1>1, <1>6, <1>7, <1>11, OnlyCopy DEF Fate
  <1> QED
    BY <1>8, <1>10, <1>12 DEF Fate

\* with its attributes the copy is the original
LEMMA SetFileFate ==
  ASSUME IInv, Fate, LowerKept', NEW u \in User, SetFile(u)
  PROVE  Fate'
  <1> DEFINE c == call[u]
             i == name[0][c.f]
  <1>1. c.at = "setfile" /\ c \in Call /\ UNCHANGED <<name, hidden, node, want, spoiled>>
    BY DEF SetFile, IInv, TypeOK, history
  <1>2. c.f \in File /\ Exists(0, c.f) /\ Exists(1, c.f) /\ c.to = i
    BY <1>1 DEF IInv, Stages, Stage
  <1>3. i \in Inode /\ inode[i] \in Meta
    BY <1>2, NameInode DEF IInv, Branch, TypeOK
  <1>4. inode' = [inode EXCEPT ![i] = [inode[i] EXCEPT !.attr = "lower"]]
    <2>1. inode[name[1][c.f]].attr = "lower"
      <3>1. inode[name[1][c.f]] = Original(c.f)
        BY <1>2 DEF Fate, LowerKept
      <3> QED
        BY <3>1 DEF Original
    <2>2. inode' = [inode EXCEPT ![i].attr = inode[name[1][c.f]].attr]
      BY DEF SetFile
    <2> QED
      BY <2>1, <2>2
  <1>5. call' = [call EXCEPT ![u] = [c EXCEPT !.at = "unhide"]]
    BY DEF SetFile, Goto
  <1>6. /\ \A v \in User \ {u} : SameCall(v)
        /\ call'[u].at = "unhide" /\ call'[u].f = c.f
    BY <1>1, <1>5 DEF IInv, TypeOK, Call, SameCall
  <1>7. Copying(u) /\ ~Copying(u)'
    BY <1>1, <1>6 DEF Copying
  <1>8. SameFile' /\ Below' /\ AllKnow' /\ Absent'
    BY <1>1, <1>6, <1>7, CopyQuiet
  <1>9. Copies'
    BY <1>1, <1>6, <1>7, OnlyCopy DEF Fate
  <1>10. CopyGood(u) => inode'[i] = Original(c.f)
    <2> SUFFICES ASSUME CopyGood(u) PROVE inode'[i] = Original(c.f)
      OBVIOUS
    <2>1. c.pos = Chunks /\ \A k \in Position : k <= Chunks => inode[i].data[k] = <<c.f, k>>
      BY <1>1, <1>2 DEF CopyGood
    <2>2. \A k \in Position : k <= Chunks
      BY OpenFilesAssumption DEF Position
    <2>3. inode[i].data \in [Position -> Bytes]
      BY <1>3, MetaUpdate
    <2>4. inode[i].data = [k \in Position |-> <<c.f, k>>]
      BY <2>1, <2>2, <2>3
    <2>5. inode[i] = [data |-> inode[i].data, attr |-> inode[i].attr]
      BY <1>3 DEF Meta
    <2>6. inode'[i] = [data |-> inode[i].data, attr |-> "lower"]
      BY <1>3, <1>4, <2>5 DEF IInv, TypeOK
    <2> QED
      BY <2>4, <2>6 DEF Original
  <1>11. Content'
    <2> SUFFICES ASSUME NEW x \in File \ spoiled', node[x] # NoFile, Exists(0, x), ~CopiedNow(x)'
                 PROVE  inode'[name[0][x]] = want[node[x]]
      BY <1>1 DEF Content, Exists
    <2>1. CASE name[0][x] = i
      <3>1. node[x] = node[c.f]
        BY <1>2, <2>1 DEF Fate, SameFile
      <3>2. x \in Names(c.f) /\ x \notin spoiled
        BY <1>1, <3>1 DEF Names
      <3>3. CopyGood(u)
        BY <1>7, <3>2 DEF Fate, Copies
      <3>4. want[node[c.f]] = Original(c.f)
        BY <3>3 DEF CopyGood
      <3> QED
        BY <1>10, <2>1, <3>1, <3>3, <3>4
    <2>2. CASE name[0][x] # i
      <3>1. node[x] # node[c.f]
        BY <1>2, <2>2 DEF Fate, SameFile
      <3>2. ~CopiedNow(x)
        <4> SUFFICES ASSUME NEW v \in User, Copying(v), call[v].f \in Names(x) PROVE FALSE
          BY DEF CopiedNow
        <4>1. v # u
          BY <3>1 DEF Names
        <4>2. Copying(v)' /\ call'[v].f \in Names(x)'
          BY <1>1, <1>6, <4>1 DEF SameCall, Copying, Names
        <4> QED
          BY <4>2 DEF CopiedNow
      <3>3. name[0][x] \in Inode
        BY NameInode DEF IInv, Branch
      <3>4. inode'[name[0][x]] = inode[name[0][x]]
        BY <1>4, <2>2, <3>3 DEF IInv, TypeOK
      <3> QED
        BY <1>1, <3>2, <3>4 DEF Fate, Content
    <2> QED
      BY <2>1, <2>2
  <1> QED
    BY <1>8, <1>9, <1>11 DEF Fate

-----------------------------------------------------------------------------
(* What users change.                                                      *)

(***************************************************************************)
(* f becomes m through its inode: so do its other links, and no other      *)
(* file.  A change during a copy spoils the file.                          *)
(***************************************************************************)
LEMMA ChangeFate ==
  ASSUME IInv, Fate, LowerKept', NEW f \in File, Exists(0, f), NEW m, Changed(f, m),
         UNCHANGED <<name, hidden, buf>>,
         \A j \in Inode \ {name[0][f]} : inode'[j] = inode[j],
         \A v \in User : SameCall(v) \/ (~Copying(v) /\ call[v].at # "whiteout" /\ call'[v].at = "idle"),
         node[f] # NoFile /\ inode[name[0][f]] = want[node[f]] => inode'[name[0][f]] = m
  PROVE  Fate'
  <1> USE DEF Fate
  <1>1. /\ node' = node
        /\ node[f] # NoFile => node[f] \in File
        /\ spoiled' = IF CopiedNow(f) THEN spoiled \cup Names(f) ELSE spoiled
        /\ \A x \in File : node[x] # NoFile =>
             want'[node[x]] = IF node[x] = node[f] THEN m ELSE want[node[x]]
    BY DEF Changed, IInv, TypeOK
  <1>2. SameFile'
    BY <1>1 DEF SameFile, Exists
  <1>3. \A x \in File : node[x] = node[f] /\ node[x] # NoFile => Exists(0, x) /\ name[0][x] = name[0][f]
    BY DEF SameFile, Exists
  <1>4. Below'
    BY <1>1, <1>3 DEF Below, Exists
  <1>5. \A v \in User : /\ Copying(v)' <=> Copying(v)
                        /\ Copying(v) => call'[v] = call[v]
    BY DEF SameCall, Copying
  <1>6. AllKnow'
    <2> SUFFICES ASSUME NEW v \in User PROVE Knows(call[v])'
      BY DEF AllKnow
    <2>1. CASE SameCall(v)
      <3>1. call'[v] = call[v] /\ Knows(call[v])
        BY <2>1 DEF SameCall, AllKnow
      <3> QED
        BY <1>1, <3>1 DEF Knows, Exists, find_rorw_branch
    <2>2. CASE call'[v].at = "idle"
      BY <2>2 DEF Knows
    <2> QED
      BY <2>1, <2>2
  <1>7. Absent'
    <2>1. \A x \in File : find_rorw_branch(x)' = find_rorw_branch(x)
      BY DEF find_rorw_branch, Exists
    <2>2. \A x \in File : RemovedNow(x) => RemovedNow(x)'
      BY DEF RemovedNow, SameCall
    <2> QED
      BY <1>1, <2>1, <2>2 DEF Absent
  <1>8. \A x : CopiedNow(x)' <=> CopiedNow(x)
    BY <1>1, <1>5 DEF CopiedNow, Names
  <1>9. Content'
    <2> SUFFICES ASSUME NEW x \in File \ spoiled', node[x] # NoFile, Exists(0, x), ~CopiedNow(x)
                 PROVE  inode'[name[0][x]] = want'[node[x]]
      BY <1>1, <1>8 DEF Content, Exists
    <2>1. inode[name[0][x]] = want[node[x]]
      BY <1>1 DEF Content
    <2>2. CASE node[x] = node[f]
      BY <1>1, <1>3, <2>1, <2>2
    <2>3. CASE node[x] # node[f]
      <3>1. name[0][x] # name[0][f]
        BY <2>3 DEF SameFile
      <3>2. name[0][x] \in Inode
        BY NameInode DEF IInv, Branch
      <3> QED
        BY <1>1, <2>1, <2>3, <3>1, <3>2
    <2> QED
      BY <2>2, <2>3
  <1>10. Copies'
    <2> SUFFICES ASSUME NEW v \in User, Copying(v)', ~(Names(call[v].f)' \subseteq spoiled')
                 PROVE  CopyGood(v)'
      BY DEF Copies
    <2>1. Copying(v) /\ call'[v] = call[v]
      BY <1>5
    <2>2. Names(call[v].f)' = Names(call[v].f)
      BY <1>1, <2>1 DEF Names
    <2>3. CopyGood(v)
      BY <1>1, <2>1, <2>2 DEF Copies
    <2>4. call[v].f \in File /\ node[call[v].f] # NoFile
      BY <2>1, <2>2 DEF Names, Copying, IInv, Stages, Stage
    <2>5. node[call[v].f] # node[f]
      <3> SUFFICES ASSUME node[call[v].f] = node[f] PROVE FALSE
        OBVIOUS
      <3>1. CopiedNow(f) /\ Names(call[v].f) = Names(f)
        BY <2>1, <2>4 DEF CopiedNow, Names
      <3> QED
        BY <1>1, <2>2, <3>1
    <2>6. want'[node'[call[v].f]] = want[node[call[v].f]]
      BY <1>1, <2>4, <2>5
    <2>7. Exists(0, call[v].f) /\ call[v].to = name[0][call[v].f]
      BY <2>1 DEF Copying, IInv, Stages, Stage
    <2>8. call[v].to \in Inode /\ call[v].to # name[0][f]
      BY <2>4, <2>5, <2>7, NameInode DEF SameFile, IInv, Branch
    <2>9. inode'[call[v].to] = inode[call[v].to]
      BY <2>8
    <2>10. \A w \in User \ {v} : ~Copying(w)'
      BY <1>5, <2>3 DEF CopyGood
    <2> QED
      BY <2>1, <2>3, <2>6, <2>9, <2>10 DEF CopyGood
  <1> QED
    BY <1>2, <1>4, <1>6, <1>7, <1>9, <1>10

LEMMA HandlerChangeFate ==
  ASSUME IInv, Fate, LowerKept', NEW u \in User, chmod(u) \/ truncate(u)
  PROVE  Fate'
  <1> DEFINE c == call[u]
  <1>1. c.at = "found" /\ c.op \in {"chmod", "truncate"} /\ Return(u) /\ UNCHANGED <<name, hidden, buf>>
    BY DEF chmod, truncate, Handler
  <1>2. PICK f \in File : f = c.f /\ Exists(0, f) /\ c.branch = 0
    BY <1>1 DEF IInv, Stages, Stage
  <1>3. PICK i \in Inode : i = name[0][f]
    BY <1>2, NameInode DEF IInv, Branch
  <1>4. inode[i] \in Meta
    BY DEF IInv, TypeOK
  <1>5. \A v \in User : SameCall(v) \/ (~Copying(v) /\ call[v].at # "whiteout" /\ call'[v].at = "idle")
    BY <1>1, ReturnFate DEF Copying
  <1>6. CASE chmod(u)
    <2>1. Changed(f, [data |-> want[node[f]].data, attr |-> "set"])
      BY <1>2, <1>6 DEF chmod
    <2>2. inode' = [inode EXCEPT ![i] = [inode[i] EXCEPT !.attr = "set"]]
      BY <1>2, <1>3, <1>6 DEF chmod
    <2>3. \A j \in Inode \ {i} : inode'[j] = inode[j]
      BY <2>2 DEF IInv, TypeOK
    <2>4. inode'[i] = [data |-> inode[i].data, attr |-> "set"]
      BY <1>4, <2>2 DEF IInv, TypeOK, Meta
    <2>5. inode[i] = want[node[f]] => inode'[i] = [data |-> want[node[f]].data, attr |-> "set"]
      BY <2>4
    <2> QED
      BY <1>1, <1>2, <1>3, <1>5, <2>1, <2>3, <2>5, ChangeFate
  <1>7. CASE truncate(u)
    <2>1. Changed(f, [data |-> Blank, attr |-> want[node[f]].attr])
      BY <1>2, <1>7 DEF truncate
    <2>2. inode' = [inode EXCEPT ![i] = [inode[i] EXCEPT !.data = Blank]]
      BY <1>2, <1>3, <1>7 DEF truncate
    <2>3. \A j \in Inode \ {i} : inode'[j] = inode[j]
      BY <2>2 DEF IInv, TypeOK
    <2>4. inode'[i] = [data |-> Blank, attr |-> inode[i].attr]
      BY <1>4, <2>2 DEF IInv, TypeOK, Meta
    <2>5. inode[i] = want[node[f]] => inode'[i] = [data |-> Blank, attr |-> want[node[f]].attr]
      BY <2>4
    <2> QED
      BY <1>1, <1>2, <1>3, <1>5, <2>1, <2>3, <2>5, ChangeFate
  <1> QED
    BY <1>6, <1>7

LEMMA WriteFate ==
  ASSUME IInv, Fate, LowerKept', NEW u \in User, NEW k \in Position, write(u, k)
  PROVE  Fate'
  <1>1. UNCHANGED <<name, hidden, buf, call>>
    BY DEF write
  <1>2. PICK f \in File : f = fd[u].f
    BY WriterUpper DEF write
  <1>3. PICK i \in Inode : i = name[0][f] /\ i = fd[u].i
    BY <1>2, WriterUpper DEF write, Upper
  <1>4. Exists(0, f)
    BY <1>3, OpenFilesAssumption DEF Exists
  <1>5. inode[i] \in Meta
    BY DEF IInv, TypeOK
  <1>6. Changed(f, [data |-> [want[node[f]].data EXCEPT ![k] = New], attr |-> want[node[f]].attr])
    BY <1>2 DEF write
  <1>7. inode' = [inode EXCEPT ![i] = [inode[i] EXCEPT !.data[k] = New]]
    BY <1>3 DEF write
  <1>8. \A j \in Inode \ {i} : inode'[j] = inode[j]
    BY <1>7 DEF IInv, TypeOK
  <1>9. inode'[i] = [data |-> [inode[i].data EXCEPT ![k] = New], attr |-> inode[i].attr]
    BY <1>5, <1>7 DEF IInv, TypeOK, Meta
  <1>10. inode[i] = want[node[f]] =>
           inode'[i] = [data |-> [want[node[f]].data EXCEPT ![k] = New], attr |-> want[node[f]].attr]
    BY <1>9
  <1>11. \A v \in User : SameCall(v)
    BY <1>1 DEF SameCall
  <1> QED
    BY <1>1, <1>3, <1>4, <1>6, <1>8, <1>10, <1>11, ChangeFate

-----------------------------------------------------------------------------
(* The invariant.                                                          *)

\* what a crash leaves unfinished is spoiled
LEMMA CrashFate ==
  ASSUME IInv, Fate, LowerKept', Crash
  PROVE  Fate'
  <1> USE DEF Fate
  <1>1. UNCHANGED <<name, inode, hidden, node, want>> /\ \A u \in User : call'[u] = Idle
    BY DEF Crash, disk
  <1>2. \A u \in User : call'[u].at = "idle"
    BY <1>1, IdleFields
  <1>3. /\ spoiled \subseteq spoiled' /\ \A f \in File : CopiedNow(f) => f \in spoiled'
        /\ \A f \in File : RemovedNow(f) /\ find_rorw_branch(f) # {} => f \in spoiled'
    BY DEF Crash, RemovedNow
  <1>4. SameFile' /\ Below'
    BY <1>1 DEF SameFile, Below, Exists
  <1>5. AllKnow' /\ Copies'
    BY <1>2 DEF AllKnow, Knows, Copies, Copying
  <1>6. Absent'
    <2>1. \A f \in File : find_rorw_branch(f)' = find_rorw_branch(f)
      BY <1>1 DEF find_rorw_branch, Exists
    <2> QED
      BY <1>1, <1>3, <2>1 DEF Absent
  <1>7. Content'
    BY <1>1, <1>3 DEF Content, Exists
  <1> QED
    BY <1>4, <1>5, <1>6, <1>7

LEMMA StutterFate == ASSUME Fate, UNCHANGED vars PROVE Fate'
  <1> USE DEF Fate, vars, disk, history
  <1>1. SameFile' /\ Below' /\ LowerKept'
    BY DEF SameFile, Below, LowerKept, Exists
  <1>2. \A f : find_rorw_branch(f)' = find_rorw_branch(f) /\ Names(f)' = Names(f)
    BY DEF find_rorw_branch, Exists, Names
  <1>3. AllKnow'
    BY <1>2 DEF AllKnow, Knows, Exists
  <1>4. Absent'
    BY <1>2 DEF Absent, RemovedNow
  <1>5. Content'
    BY <1>2 DEF Content, CopiedNow, Copying, Exists
  <1>6. Copies'
    BY <1>2 DEF Copies, CopyGood, Copying
  <1> QED
    BY <1>1, <1>3, <1>4, <1>5, <1>6

LEMMA NextFate == IInv /\ Fate /\ [Next]_vars => Fate'
  <1> SUFFICES ASSUME IInv, Fate, [Next]_vars PROVE Fate'
    OBVIOUS
  <1>1. LowerKept'
    BY NextIInv, LowerStays DEF Fate
  <1>2. ASSUME NEW u \in User, NEW op \in Op, NEW f \in File, NEW g \in File, Start(u, op, f, g)
        PROVE  Fate'
    BY <1>1, <1>2, StartFate
  <1>3. ASSUME NEW u \in User, copy_file(u)
        PROVE  Fate'
    BY <1>1, <1>3, OpenTargetFate, ReadChunkFate, WriteChunkFate, SetFileFate, CopyFailsFate, UnhidesFate
       DEF copy_file
  <1>4. ASSUME NEW u \in User, ulakefs_oper(u)
        PROVE  Fate'
    BY <1>1, <1>4, OpenFate, UnhidesFate, HandlerChangeFate, LinkFate, UnlinkRoFate, UnlinkRwFate, WhiteoutFate
       DEF ulakefs_oper
  <1>5. ASSUME NEW u \in User, copy_file(u) \/ ulakefs_oper(u) \/ release(u)
        PROVE  Fate'
    BY <1>1, <1>3, <1>4, <1>5, ReleaseFate
  <1>6. ASSUME NEW u \in User, NEW k \in Position, write(u, k)
        PROVE  Fate'
    BY <1>1, <1>6, WriteFate
  <1>7. CASE Crash
    BY <1>1, <1>7, CrashFate
  <1>8. CASE UNCHANGED vars
    BY <1>8, StutterFate
  <1> QED
    BY <1>2, <1>5, <1>6, <1>7, <1>8 DEF Next

LEMMA FateKept == Spec => [](IInv /\ Fate)
  BY InitIInv, NextIInv, InitFate, NextFate, PTL DEF Spec

-----------------------------------------------------------------------------
(* Theorems.                                                               *)

LEMMA FateImplies == IInv /\ Fate => LossNeedsOverlap
  <1> SUFFICES ASSUME IInv, Fate, NEW f \in File \ spoiled, ~CopiedNow(f), ~RemovedNow(f)
               PROVE  /\ Seen(f) = IF node[f] = NoFile THEN {} ELSE {want[node[f]]}
                      /\ \A u \in Readers(f), k \in Position : read(u, k) = want[node[f]].data[k]
    BY DEF LossNeedsOverlap, RemovedNow
  <1> USE DEF Fate
  <1>1. \A u \in Readers(f) : fd[u].f = f /\ fd[u].i = name[0][f] /\ Exists(0, f)
    <2> SUFFICES ASSUME NEW u \in User, fd[u].f = f, fd[u].i = name[0][f] PROVE Exists(0, f)
      BY DEF Readers
    <2>1. fd[u] # NoFd
      BY OpenFilesAssumption DEF NoFd
    <2>2. fd[u].i \in Inode
      BY <2>1 DEF IInv, TypeOK
    <2> QED
      BY <2>2, OpenFilesAssumption DEF Exists
  <1>2. CASE node[f] = NoFile
    <2>1. find_rorw_branch(f) = {}
      BY <1>2 DEF Absent
    <2>2. ~Exists(0, f)
      BY <2>1 DEF find_rorw_branch
    <2> QED
      BY <1>1, <1>2, <2>1, <2>2 DEF Seen
  <1>3. CASE node[f] # NoFile /\ Exists(0, f)
    <2>1. inode[name[0][f]] = want[node[f]]
      BY <1>3 DEF Content
    <2>2. find_rorw_branch(f) = {0}
      BY <1>3 DEF find_rorw_branch
    <2>3. Seen(f) = {want[node[f]]}
      BY <2>1, <2>2 DEF Seen
    <2> QED
      BY <1>1, <1>3, <2>1, <2>3 DEF read
  <1>4. CASE node[f] # NoFile /\ ~Exists(0, f)
    <2>1. find_rorw_branch(f) = {1}
      BY <1>4 DEF Below, find_rorw_branch
    <2>2. inode[name[1][f]] = want[node[f]]
      BY <1>4 DEF Below, LowerKept
    <2>3. Seen(f) = {want[node[f]]}
      BY <2>1, <2>2 DEF Seen
    <2> QED
      BY <1>1, <1>4, <2>3
  <1> QED
    BY <1>2, <1>3, <1>4

(***************************************************************************)
(* What users find under a name, and read from an open file of the         *)
(* writable branch, is what they made it, unless two copies overlapped, a  *)
(* copy was made again over a changed file, the file was changed during    *)
(* its copy, a copy failed, or the process was killed during a copy or     *)
(* between unlink_rw and maybe_whiteout: for any number of users and files *)
(* and in any order of their calls and of the chunks of their copies.      *)
(***************************************************************************)
THEOREM OnlyOverlapLoses == Spec => []LossNeedsOverlap
  BY FateKept, FateImplies, PTL
=============================================================================
