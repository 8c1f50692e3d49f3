---------------------------- MODULE UsyslogProofs ----------------------------
(***************************************************************************)
(* The locks of the entries do what list_lock does not: whatever happens   *)
(* to the lists, no message is read before it is whole or written over     *)
(* before it is read.  And until do_syslog first unlocks the list_lock of  *)
(* a logger, nobody follows a NULL pointer.                                *)
(***************************************************************************)
EXTENDS Usyslog, TLAPS

\* the places where a thread holds the lock of the entry that log points to
Owns(t) == pc[t] \in {"check", "append", "only", "only_head", "link", "linked", "bottom", "detach",
                      "cut", "last", "unlist", "begin", "write", "syslog", "relock", "save",
                      "unlink", "unlinked", "emptied", "none_used", "refree", "chain", "chained",
                      "new_bottom", "end", "ended", "refill", "first", "relist", "release"}

OwnersHold == \A t \in Thread : Owns(t) => lock[log[t]] = t

\* the places where usyslog has seen that the entry is not in use
Unused(l) == pc[l] \in {"append", "only", "only_head", "link", "linked", "bottom", "detach", "cut",
                        "last", "unlist", "begin", "write"}

UnusedFree == \A l \in Logger : Unused(l) => ~used[log[l]]

\* the places where usyslog and do_syslog work on the lists
Lists(l) == pc[l] \in {"head", "take", "pop", "popped", "try", "check", "append", "only",
                       "only_head", "link", "linked", "bottom", "detach", "cut", "last", "unlist",
                       "full"}

MyLists == pc[me] \in {"head", "save", "unlink", "unlinked", "emptied", "none_used", "refree",
                       "chain", "chained", "new_bottom", "end", "ended", "refill", "first",
                       "relist"}

Alone == /\ \A l \in Logger : Lists(l) => list_lock = l
         /\ MyLists => list_lock = me

\* what usyslog knows of the pointers it is about to follow or to store
Pointers(l) ==
    /\ pc[l] = "take" => free_head # NULL
    /\ pc[l] = "pop" => log[l] # NULL
    /\ pc[l] \in {"only_head", "link"} => used_bottom # NULL
    /\ pc[l] = "linked" => read[l] # NULL

\* the same for do_syslog: while it has an entry, the used list is not empty
MyPointers ==
    /\ pc[me] \in {"try", "unlist", "syslog", "relock", "save", "unlink", "unlinked"}
          => used_head # NULL
    /\ pc[me] = "unlink" /\ next_entry # NULL => next[log[me]] # NULL
    /\ pc[me] = "unlinked" /\ next_entry # NULL => read[me] # NULL
    /\ pc[me] \in {"emptied", "none_used", "refree", "chain", "chained", "new_bottom", "end",
                   "ended", "refill", "first", "relist", "release"} /\ next_entry # NULL
          => used_head # NULL
    /\ pc[me] = "none_used" => used_head = NULL
    /\ pc[me] \in {"chain", "end"} => free_bottom # NULL
    /\ pc[me] \in {"chained", "ended"} => read[me] # NULL

Bottom == used_head # NULL => used_bottom # NULL

Alive == \A t \in Thread : pc[t] # "crashed"

Guarded == ~stolen => Alone /\ (\A l \in Logger : Pointers(l)) /\ MyPointers /\ Bottom /\ Alive

IInv == TypeOK /\ OwnersHold /\ UnusedFree /\ Guarded

-----------------------------------------------------------------------------

(***************************************************************************)
(* The invariant holds when init_syslog is done.                           *)
(***************************************************************************)
LEMMA InitIInv == Init => IInv
  <1>1. 1 \in Entry /\ MAX_SYSLOG_MESSAGES \in Entry
    BY UsyslogAssumption DEF Entry
  <1>2. \A e \in Entry : e # MAX_SYSLOG_MESSAGES => e + 1 \in Entry
    BY UsyslogAssumption DEF Entry
  <1> SUFFICES ASSUME Init PROVE IInv
    OBVIOUS
  <1>3. \A t \in Thread : pc[t] \in {"wait", "idle"}
    BY DEF Init
  <1>4. TypeOK
    <2>1. next \in [Entry -> Entry \cup {NULL}]
      BY <1>2 DEF Init
    <2> QED
      BY <1>1, <1>3, <2>1 DEF Init, TypeOK, HasEntry, Pc
  <1>5. OwnersHold /\ UnusedFree
    BY <1>3 DEF OwnersHold, UnusedFree, Owns, Unused, Thread
  <1>6. Guarded
    BY <1>3 DEF Init, Guarded, Alone, Lists, MyLists, Pointers, MyPointers, Bottom, Alive, Thread, me
  <1> QED
    BY <1>4, <1>5, <1>6 DEF IInv

(***************************************************************************)
(* Types, step by step (usyslog, do_syslog).                               *)
(***************************************************************************)
LEMMA UsyslogType ==
  ASSUME NEW l \in Logger, TypeOK, Call(l) \/ usyslog(l)
  PROVE  TypeOK'
  <1> l \in Thread /\ l # me /\ me \in Thread /\ Logger \subseteq Thread
    BY UsyslogAssumption DEF Thread, me
  <1> USE DEF TypeOK, Go, HasEntry, Pc, lists, contents, locals, others
  <1>1. CASE Call(l)
    BY <1>1 DEF Call
  <1>2. CASE LockList(l, "lock", "head")
    BY <1>2 DEF LockList
  <1>3. CASE FreeLeft(l)
    BY <1>3 DEF FreeLeft, Test
  <1>4. CASE TakeFree(l)
    BY <1>4 DEF TakeFree
  <1>5. CASE ReadNext(l)
    BY <1>5 DEF ReadNext, Read, Crash
  <1>6. CASE Pop(l)
    BY <1>6 DEF Pop, Forget, Read
  <1>7. CASE TryLock(l, "try", "check", "full")
    BY <1>7 DEF TryLock
  <1>8. CASE CheckUsed(l)
    BY <1>8 DEF CheckUsed
  <1>9. CASE UsedLeft(l)
    BY <1>9 DEF UsedLeft, Test
  <1>10. CASE OnlyBottom(l)
    BY <1>10 DEF OnlyBottom
  <1>11. CASE OnlyHead(l)
    BY <1>11 DEF OnlyHead
  <1>12. CASE ReadBottom(l)
    BY <1>12 DEF ReadBottom, Read
  <1>13. CASE Link(l)
    BY <1>13 DEF Link, Crash, Forget, Read
  <1>14. CASE NewBottom(l)
    BY <1>14 DEF NewBottom
  <1>15. CASE NextLeft(l)
    BY <1>15 DEF NextLeft, Test
  <1>16. CASE Cut(l)
    BY <1>16 DEF Cut
  <1>17. CASE NoneFree(l)
    BY <1>17 DEF NoneFree
  <1>18. CASE UnlockList(l, "unlist", "begin")
    BY <1>18 DEF UnlockList
  <1>19. CASE Begin(l)
    BY <1>19 DEF Begin
  <1>20. CASE Write(l)
    BY <1>20 DEF Write
  <1>21. CASE Signal(l)
    BY <1>21 DEF Signal, me
  <1>22. CASE GiveUp(l)
    BY <1>22 DEF GiveUp
  <1> QED
    BY <1>1, <1>2, <1>3, <1>4, <1>5, <1>6, <1>7, <1>8, <1>9, <1>10, <1>11, <1>12, <1>13, <1>14,
       <1>15, <1>16, <1>17, <1>18, <1>19, <1>20, <1>21, <1>22
    DEF usyslog

LEMMA SyslogThreadType ==
  ASSUME TypeOK, Wakeup \/ do_syslog \/ Emit
  PROVE  TypeOK'
  <1> me \in Thread /\ me \notin Logger /\ Logger \subseteq Thread
    BY UsyslogAssumption DEF Thread, me
  <1> USE DEF TypeOK, Go, HasEntry, Pc, lists, contents, locals, others
  <1>1. CASE Wakeup
    BY <1>1 DEF Wakeup
  <1>2. CASE LockList(me, "lock", "head")
    BY <1>2 DEF LockList
  <1>3. CASE FirstUsed
    BY <1>3 DEF FirstUsed
  <1>4. CASE TryEntry
    BY <1>4 DEF TryEntry, TryLock
  <1>5. CASE UnlockList(me, "busy", "lock")
    BY <1>5 DEF UnlockList
  <1>6. CASE ReleaseList
    BY <1>6 DEF ReleaseList, UnlockList
  <1>7. CASE LockList(me, "relock", "save")
    BY <1>7 DEF LockList
  <1>8. CASE SaveNext
    BY <1>8 DEF SaveNext
  <1>9. CASE ReadUnlink
    BY <1>9 DEF ReadUnlink, Read
  <1>10. CASE Unlink
    BY <1>10 DEF Unlink, Forget, Read
  <1>11. CASE Emptied
    BY <1>11 DEF Emptied, Test
  <1>12. CASE NoneUsed
    BY <1>12 DEF NoneUsed
  <1>13. CASE SomeFree
    BY <1>13 DEF SomeFree, Test
  <1>14. CASE ReadFree
    BY <1>14 DEF ReadFree, Read
  <1>15. CASE Chain
    BY <1>15 DEF Chain, Crash, Forget, Read
  <1>16. CASE NewFree
    BY <1>16 DEF NewFree
  <1>17. CASE ReadEnd
    BY <1>17 DEF ReadEnd, Read
  <1>18. CASE End
    BY <1>18 DEF End, Crash, Forget, Read
  <1>19. CASE NoneLeft
    BY <1>19 DEF NoneLeft, Test
  <1>20. CASE FirstFree
    BY <1>20 DEF FirstFree
  <1>21. CASE UnlockList(me, "relist", "release")
    BY <1>21 DEF UnlockList
  <1>22. CASE NextEntry
    BY <1>22 DEF NextEntry
  <1>23. CASE Emit
    BY <1>23 DEF Emit
  <1> QED
    BY <1>1, <1>2, <1>3, <1>4, <1>5, <1>6, <1>7, <1>8, <1>9, <1>10, <1>11, <1>12, <1>13, <1>14,
       <1>15, <1>16, <1>17, <1>18, <1>19, <1>20, <1>21, <1>22, <1>23
    DEF do_syslog

(***************************************************************************)
(* An entry's lock is only given back by the thread that holds it, and the *)
(* flag used only changes under that lock (usyslog).                       *)
(***************************************************************************)
LEMMA UsyslogOwners ==
  ASSUME NEW l \in Logger, IInv, Call(l) \/ usyslog(l)
  PROVE  OwnersHold' /\ UnusedFree'
  <1> l \in Thread /\ l # me /\ me \in Thread /\ Logger \subseteq Thread
    BY UsyslogAssumption DEF Thread, me
  <1> /\ pc \in [Thread -> Pc]
      /\ log \in [Thread -> Entry \cup {NULL}]
      /\ used \in [Entry -> BOOLEAN]
      /\ lock \in [Entry -> Thread \cup {Free}]
      /\ \A t \in Thread : HasEntry(t) => log[t] \in Entry
    BY DEF IInv, TypeOK
  <1> Free \notin Thread
    BY UsyslogAssumption DEF Thread
  <1> OwnersHold /\ UnusedFree
    BY DEF IInv
  <1> USE DEF OwnersHold, UnusedFree, Owns, Unused, HasEntry, Go, lists, contents, locals, others
  <1>1. CASE Call(l)
    BY <1>1 DEF Call
  <1>2. CASE LockList(l, "lock", "head")
    BY <1>2 DEF LockList
  <1>3. CASE FreeLeft(l)
    BY <1>3 DEF FreeLeft, Test
  <1>4. CASE TakeFree(l)
    BY <1>4 DEF TakeFree
  <1>5. CASE ReadNext(l)
    BY <1>5 DEF ReadNext, Read, Crash
  <1>6. CASE Pop(l)
    BY <1>6 DEF Pop, Forget, Read
  <1>7. CASE TryLock(l, "try", "check", "full")
    BY <1>7 DEF TryLock
  <1>8. CASE CheckUsed(l)
    BY <1>8 DEF CheckUsed
  <1>9. CASE UsedLeft(l)
    BY <1>9 DEF UsedLeft, Test
  <1>10. CASE OnlyBottom(l)
    BY <1>10 DEF OnlyBottom
  <1>11. CASE OnlyHead(l)
    BY <1>11 DEF OnlyHead
  <1>12. CASE ReadBottom(l)
    BY <1>12 DEF ReadBottom, Read
  <1>13. CASE Link(l)
    BY <1>13 DEF Link, Crash, Forget, Read
  <1>14. CASE NewBottom(l)
    BY <1>14 DEF NewBottom
  <1>15. CASE NextLeft(l)
    BY <1>15 DEF NextLeft, Test
  <1>16. CASE Cut(l)
    BY <1>16 DEF Cut
  <1>17. CASE NoneFree(l)
    BY <1>17 DEF NoneFree
  <1>18. CASE UnlockList(l, "unlist", "begin")
    BY <1>18 DEF UnlockList
  <1>19. CASE Begin(l)
    BY <1>19 DEF Begin
  <1>20. CASE Write(l)
    BY <1>20 DEF Write
  <1>21. CASE Signal(l)
    BY <1>21 DEF Signal, me
  <1>22. CASE GiveUp(l)
    BY <1>22 DEF GiveUp
  <1> QED
    BY <1>1, <1>2, <1>3, <1>4, <1>5, <1>6, <1>7, <1>8, <1>9, <1>10, <1>11, <1>12, <1>13, <1>14,
       <1>15, <1>16, <1>17, <1>18, <1>19, <1>20, <1>21, <1>22
    DEF usyslog

(***************************************************************************)
(* The same for the syslog thread (do_syslog).                             *)
(***************************************************************************)
LEMMA SyslogThreadOwners ==
  ASSUME IInv, Wakeup \/ do_syslog \/ Emit
  PROVE  OwnersHold' /\ UnusedFree'
  <1> me \in Thread /\ me \notin Logger /\ Logger \subseteq Thread
    BY UsyslogAssumption DEF Thread, me
  <1> /\ pc \in [Thread -> Pc]
      /\ log \in [Thread -> Entry \cup {NULL}]
      /\ used \in [Entry -> BOOLEAN]
      /\ lock \in [Entry -> Thread \cup {Free}]
      /\ \A t \in Thread : HasEntry(t) => log[t] \in Entry
    BY DEF IInv, TypeOK
  <1> Free \notin Thread
    BY UsyslogAssumption DEF Thread
  <1> OwnersHold /\ UnusedFree
    BY DEF IInv
  <1> USE DEF OwnersHold, UnusedFree, Owns, Unused, HasEntry, Go, lists, contents, locals, others
  <1>1. CASE Wakeup
    BY <1>1 DEF Wakeup
  <1>2. CASE LockList(me, "lock", "head")
    BY <1>2 DEF LockList
  <1>3. CASE FirstUsed
    BY <1>3 DEF FirstUsed
  <1>4. CASE TryEntry
    BY <1>4 DEF TryEntry, TryLock
  <1>5. CASE UnlockList(me, "busy", "lock")
    BY <1>5 DEF UnlockList
  <1>6. CASE ReleaseList
    BY <1>6 DEF ReleaseList, UnlockList
  <1>7. CASE LockList(me, "relock", "save")
    BY <1>7 DEF LockList
  <1>8. CASE SaveNext
    BY <1>8 DEF SaveNext
  <1>9. CASE ReadUnlink
    BY <1>9 DEF ReadUnlink, Read
  <1>10. CASE Unlink
    BY <1>10 DEF Unlink, Forget, Read
  <1>11. CASE Emptied
    BY <1>11 DEF Emptied, Test
  <1>12. CASE NoneUsed
    BY <1>12 DEF NoneUsed
  <1>13. CASE SomeFree
    BY <1>13 DEF SomeFree, Test
  <1>14. CASE ReadFree
    BY <1>14 DEF ReadFree, Read
  <1>15. CASE Chain
    BY <1>15 DEF Chain, Crash, Forget, Read
  <1>16. CASE NewFree
    BY <1>16 DEF NewFree
  <1>17. CASE ReadEnd
    BY <1>17 DEF ReadEnd, Read
  <1>18. CASE End
    BY <1>18 DEF End, Crash, Forget, Read
  <1>19. CASE NoneLeft
    BY <1>19 DEF NoneLeft, Test
  <1>20. CASE FirstFree
    BY <1>20 DEF FirstFree
  <1>21. CASE UnlockList(me, "relist", "release")
    BY <1>21 DEF UnlockList
  <1>22. CASE NextEntry
    BY <1>22 DEF NextEntry
  <1>23. CASE Emit
    BY <1>23 DEF Emit
  <1> QED
    BY <1>1, <1>2, <1>3, <1>4, <1>5, <1>6, <1>7, <1>8, <1>9, <1>10, <1>11, <1>12, <1>13, <1>14,
       <1>15, <1>16, <1>17, <1>18, <1>19, <1>20, <1>21, <1>22, <1>23
    DEF do_syslog

(***************************************************************************)
(* While list_lock was never stolen, who works on the lists holds it, and  *)
(* no pointer that is about to be followed is NULL (usyslog).              *)
(***************************************************************************)
LEMMA UsyslogGuarded ==
  ASSUME NEW l \in Logger, IInv, Call(l) \/ usyslog(l)
  PROVE  Guarded'
  <1> l \in Thread /\ l # me /\ me \in Thread /\ Logger \subseteq Thread
    BY UsyslogAssumption DEF Thread, me
  <1> /\ pc \in [Thread -> Pc]
      /\ log \in [Thread -> Entry \cup {NULL}]
      /\ read \in [Thread -> Entry \cup {NULL}]
      /\ next \in [Entry -> Entry \cup {NULL}]
      /\ list_lock \in Thread \cup {Free}
      /\ stolen \in BOOLEAN
      /\ \A t \in Thread : HasEntry(t) => log[t] \in Entry
    BY DEF IInv, TypeOK
  <1> Free \notin Thread /\ NULL \notin Entry
    BY UsyslogAssumption DEF Thread, NULL, Entry
  <1> Guarded
    BY DEF IInv
  <1> USE DEF Guarded, Alone, Lists, MyLists, Pointers, MyPointers, Bottom, Alive, HasEntry, Go,
              lists, contents, locals, others
  <1>1. CASE Call(l)
    BY <1>1 DEF Call
  <1>2. CASE LockList(l, "lock", "head")
    BY <1>2 DEF LockList
  <1>3. CASE FreeLeft(l)
    BY <1>3 DEF FreeLeft, Test
  <1>4. CASE TakeFree(l)
    BY <1>4 DEF TakeFree
  <1>5. CASE ReadNext(l)
    BY <1>5 DEF ReadNext, Read, Crash
  <1>6. CASE Pop(l)
    BY <1>6 DEF Pop, Forget, Read
  <1>7. CASE TryLock(l, "try", "check", "full")
    BY <1>7 DEF TryLock
  <1>8. CASE CheckUsed(l)
    BY <1>8 DEF CheckUsed
  <1>9. CASE UsedLeft(l)
    BY <1>9 DEF UsedLeft, Test
  <1>10. CASE OnlyBottom(l)
    BY <1>10 DEF OnlyBottom
  <1>11. CASE OnlyHead(l)
    BY <1>11 DEF OnlyHead
  <1>12. CASE ReadBottom(l)
    BY <1>12 DEF ReadBottom, Read
  <1>13. CASE Link(l)
    BY <1>13 DEF Link, Crash, Forget, Read
  <1>14. CASE NewBottom(l)
    BY <1>14 DEF NewBottom
  <1>15. CASE NextLeft(l)
    BY <1>15 DEF NextLeft, Test
  <1>16. CASE Cut(l)
    BY <1>16 DEF Cut
  <1>17. CASE NoneFree(l)
    BY <1>17 DEF NoneFree
  <1>18. CASE UnlockList(l, "unlist", "begin")
    BY <1>18 DEF UnlockList
  <1>19. CASE Begin(l)
    BY <1>19 DEF Begin
  <1>20. CASE Write(l)
    BY <1>20 DEF Write
  <1>21. CASE Signal(l)
    BY <1>21 DEF Signal, me
  <1>22. CASE GiveUp(l)
    BY <1>22 DEF GiveUp
  <1> QED
    BY <1>1, <1>2, <1>3, <1>4, <1>5, <1>6, <1>7, <1>8, <1>9, <1>10, <1>11, <1>12, <1>13, <1>14,
       <1>15, <1>16, <1>17, <1>18, <1>19, <1>20, <1>21, <1>22
    DEF usyslog

(***************************************************************************)
(* The same for the syslog thread (do_syslog).                             *)
(***************************************************************************)
LEMMA SyslogThreadGuarded ==
  ASSUME IInv, Wakeup \/ do_syslog \/ Emit
  PROVE  Guarded'
  <1> me \in Thread /\ me \notin Logger /\ Logger \subseteq Thread
    BY UsyslogAssumption DEF Thread, me
  <1> /\ pc \in [Thread -> Pc]
      /\ log \in [Thread -> Entry \cup {NULL}]
      /\ read \in [Thread -> Entry \cup {NULL}]
      /\ next \in [Entry -> Entry \cup {NULL}]
      /\ list_lock \in Thread \cup {Free}
      /\ stolen \in BOOLEAN
      /\ \A t \in Thread : HasEntry(t) => log[t] \in Entry
    BY DEF IInv, TypeOK
  <1> Free \notin Thread /\ NULL \notin Entry
    BY UsyslogAssumption DEF Thread, NULL, Entry
  <1> Guarded
    BY DEF IInv
  <1> USE DEF Guarded, Alone, Lists, MyLists, Pointers, MyPointers, Bottom, Alive, HasEntry, Go,
              lists, contents, locals, others
  <1>1. CASE Wakeup
    BY <1>1 DEF Wakeup
  <1>2. CASE LockList(me, "lock", "head")
    BY <1>2 DEF LockList
  <1>3. CASE FirstUsed
    BY <1>3 DEF FirstUsed
  <1>4. CASE TryEntry
    BY <1>4 DEF TryEntry, TryLock
  <1>5. CASE UnlockList(me, "busy", "lock")
    BY <1>5 DEF UnlockList
  <1>6. CASE ReleaseList
    BY <1>6 DEF ReleaseList, UnlockList
  <1>7. CASE LockList(me, "relock", "save")
    BY <1>7 DEF LockList
  <1>8. CASE SaveNext
    BY <1>8 DEF SaveNext
  <1>9. CASE ReadUnlink
    BY <1>9 DEF ReadUnlink, Read
  <1>10. CASE Unlink
    BY <1>10 DEF Unlink, Forget, Read
  <1>11. CASE Emptied
    BY <1>11 DEF Emptied, Test
  <1>12. CASE NoneUsed
    BY <1>12 DEF NoneUsed
  <1>13. CASE SomeFree
    BY <1>13 DEF SomeFree, Test
  <1>14. CASE ReadFree
    BY <1>14 DEF ReadFree, Read
  <1>15. CASE Chain
    BY <1>15 DEF Chain, Crash, Forget, Read
  <1>16. CASE NewFree
    BY <1>16 DEF NewFree
  <1>17. CASE ReadEnd
    BY <1>17 DEF ReadEnd, Read
  <1>18. CASE End
    BY <1>18 DEF End, Crash, Forget, Read
  <1>19. CASE NoneLeft
    BY <1>19 DEF NoneLeft, Test
  <1>20. CASE FirstFree
    BY <1>20 DEF FirstFree
  <1>21. CASE UnlockList(me, "relist", "release")
    BY <1>21 DEF UnlockList
  <1>22. CASE NextEntry
    BY <1>22 DEF NextEntry
  <1>23. CASE Emit
    BY <1>23 DEF Emit
  <1> QED
    BY <1>1, <1>2, <1>3, <1>4, <1>5, <1>6, <1>7, <1>8, <1>9, <1>10, <1>11, <1>12, <1>13, <1>14,
       <1>15, <1>16, <1>17, <1>18, <1>19, <1>20, <1>21, <1>22, <1>23
    DEF do_syslog

(***************************************************************************)
(* The invariant holds after every step.                                   *)
(***************************************************************************)
LEMMA NextIInv == IInv /\ [Next]_vars => IInv'
  <1> SUFFICES ASSUME IInv, [Next]_vars PROVE IInv'
    OBVIOUS
  <1>1. ASSUME NEW l \in Logger, Call(l) \/ usyslog(l) PROVE IInv'
    BY <1>1, UsyslogType, UsyslogOwners, UsyslogGuarded DEF IInv
  <1>2. CASE Wakeup \/ do_syslog \/ Emit
    BY <1>2, SyslogThreadType, SyslogThreadOwners, SyslogThreadGuarded DEF IInv
  <1>3. CASE UNCHANGED vars
    <2> USE <1>3 DEF vars, lists, contents, locals
    <2>1. TypeOK'
      BY DEF IInv, TypeOK, HasEntry
    <2>2. OwnersHold' /\ UnusedFree'
      BY DEF IInv, OwnersHold, UnusedFree, Owns, Unused
    <2>3. Guarded'
      BY DEF IInv, Guarded, Alone, Lists, MyLists, Pointers, MyPointers, Bottom, Alive
    <2> QED
      BY <2>1, <2>2, <2>3 DEF IInv
  <1> QED
    BY <1>1, <1>2, <1>3 DEF Next

LEMMA Invariance == Spec => []IInv
  <1> QED
    BY InitIInv, NextIInv, PTL DEF Spec

-----------------------------------------------------------------------------

(***************************************************************************)
(* The types, and that usyslog has an entry once it has used log, and      *)
(* do_syslog in its loop, for any number of loggers and entries.           *)
(***************************************************************************)
THEOREM UsyslogTypes == Spec => []TypeOK
  <1>1. IInv => TypeOK
    BY DEF IInv
  <1> QED
    BY <1>1, Invariance, PTL

(***************************************************************************)
(* No NULL pointer of the lists is followed before do_syslog has unlocked  *)
(* a list_lock that a logger held (debug.c:147 and 140).                   *)
(***************************************************************************)
THEOREM OnlyStolenLockCrashes == Spec => []CrashNeedsStolenLock
  <1>1. IInv => CrashNeedsStolenLock
    BY DEF IInv, TypeOK, Guarded, Alive, CrashNeedsStolenLock
  <1> QED
    BY <1>1, Invariance, PTL

(***************************************************************************)
(* syslog(3) never reads a message that is being written: reader and       *)
(* writer would hold the same entry's lock (do_syslog, usyslog).           *)
(***************************************************************************)
THEOREM WholeMessages == Spec => []ReadsWholeMessages
  <1>1. IInv => ReadsWholeMessages
    BY UsyslogAssumption DEF IInv, OwnersHold, Owns, ReadsWholeMessages, Thread, me
  <1> QED
    BY <1>1, Invariance, PTL

(***************************************************************************)
(* No message is written over before syslog(3) has had it (usyslog).       *)
(***************************************************************************)
THEOREM MessagesKept == Spec => NoOverwrite
  <1>1. IInv /\ [Next]_vars =>
          [\A e \in Entry : used[e] /\ used'[e] => message'[e] = message[e]]_vars
    <2> SUFFICES ASSUME IInv, Next
                 PROVE  \A e \in Entry : used[e] /\ used'[e] => message'[e] = message[e]
      OBVIOUS
    <2>1. ASSUME NEW l \in Logger, Begin(l) \/ Write(l)
          PROVE  \A e \in Entry : used[e] /\ used'[e] => message'[e] = message[e]
      <3>1. ~used[log[l]]
        BY <2>1 DEF IInv, UnusedFree, Unused, Begin, Write, Go
      <3> QED
        BY <2>1, <3>1 DEF Begin, Write, IInv, TypeOK
    <2>2. ASSUME NEW l \in Logger, Call(l) \/ usyslog(l), ~Begin(l), ~Write(l)
          PROVE  UNCHANGED message
      BY <2>2 DEF Call, usyslog, LockList, UnlockList, TryLock, FreeLeft, Test, TakeFree, ReadNext,
             Crash, Pop, CheckUsed, UsedLeft, OnlyBottom, OnlyHead, ReadBottom, Link, NewBottom,
             NextLeft, Cut, NoneFree, Signal, GiveUp, contents, others
    <2>3. CASE Wakeup \/ do_syslog \/ Emit
      BY <2>3 DEF Wakeup, do_syslog, Emit, LockList, UnlockList, TryLock, FirstUsed, TryEntry,
             ReleaseList, SaveNext, ReadUnlink, Unlink, Emptied, NoneUsed, SomeFree, ReadFree,
             Chain, Crash, NewFree, ReadEnd, End, NoneLeft, FirstFree, NextEntry, Test, contents,
             others
    <2> QED
      BY <2>1, <2>2, <2>3 DEF Next
  <1> QED
    BY <1>1, Invariance, PTL DEF Spec, NoOverwrite
=============================================================================
