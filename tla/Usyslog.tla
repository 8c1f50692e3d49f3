------------------------------- MODULE Usyslog -------------------------------
(***************************************************************************)
(* The buffered syslog of debug.c: threads of the file system (loggers)    *)
(* call usyslog, which moves an entry from the free list to the used list  *)
(* and writes a message into it; a background thread drains the used list  *)
(* into syslog(3).  list_lock is to protect both lists, every entry has a  *)
(* lock of its own.                                                        *)
(*                                                                         *)
(* Each read and each write of the lists is a step, and between two steps  *)
(* of a thread any other may run, since list_lock does not keep the steps  *)
(* together; memory is sequentially consistent.  The flag and the message  *)
(* of an entry are only used with the entry's lock (see UsyslogProofs);    *)
(* what a thread does to them last and the release of that lock are one    *)
(* step.  A mutex is glibc's default kind: unlocking it frees it, whoever  *)
(* locked it, and unlocking a free one does nothing.  A signal nobody      *)
(* waits for is lost.                                                      *)
(***************************************************************************)
EXTENDS Naturals

CONSTANTS
    Logger,                  \* the threads that log
    syslog_thread,           \* the thread that drains the buffer
    Free,                    \* the owner of a free mutex
    Message,                 \* what may be logged
    NoMessage,               \* the contents of a new entry, or of one half written
    MAX_SYSLOG_MESSAGES,     \* how many entries the buffer has
    Spurious                 \* may pthread_cond_wait return without a signal?

ASSUME UsyslogAssumption ==
    /\ syslog_thread \notin Logger
    /\ Free \notin Logger \cup {syslog_thread}
    /\ MAX_SYSLOG_MESSAGES \in Nat \ {0}
    /\ Spurious \in BOOLEAN

Entry == 1 .. MAX_SYSLOG_MESSAGES

NULL == 0

Thread == Logger \cup {syslog_thread}

VARIABLES
    next, used, message, lock,                     \* the fields of the entries
    free_head, free_bottom, used_head, used_bottom,
    list_lock,
    pc,           \* where each thread is
    log,          \* log or log_entry of each thread
    next_entry,   \* the local variable of do_syslog
    read,         \* the pointer a thread has read in a statement that goes on
    stolen        \* history: has a thread unlocked a list_lock that another one held?

lists == <<next, free_head, free_bottom, used_head, used_bottom>>
contents == <<used, message>>
locals == <<log, next_entry, read>>
vars == <<lists, contents, lock, list_lock, stolen, pc, locals>>

\* all that a step leaves alone which only works on the lists, or only on locals
others == <<contents, lock, list_lock, stolen>>

\* init_syslog has chained all entries into the free list and started the thread
Init ==
    /\ next = [e \in Entry |-> IF e = MAX_SYSLOG_MESSAGES THEN NULL ELSE e + 1]
    /\ used = [e \in Entry |-> FALSE]
    /\ message = [e \in Entry |-> NoMessage]
    /\ lock = [e \in Entry |-> Free]
    /\ free_head = 1
    /\ free_bottom = MAX_SYSLOG_MESSAGES
    /\ used_head = NULL
    /\ used_bottom = NULL
    /\ list_lock = Free
    /\ pc = [t \in Thread |-> IF t = syslog_thread THEN "wait" ELSE "idle"]
    /\ log = [t \in Thread |-> NULL]
    /\ next_entry = NULL
    /\ read = [t \in Thread |-> NULL]
    /\ stolen = FALSE

-----------------------------------------------------------------------------

Go(t, from, to) == pc[t] = from /\ pc' = [pc EXCEPT ![t] = to]

\* t reads the pointer p; or follows or stores the one it has read
Read(t, p) == read' = [read EXCEPT ![t] = p] /\ UNCHANGED <<log, next_entry>>

Forget(t) == Read(t, NULL)

\* t dereferences NULL, which ends the process
Crash(t, from) ==
    /\ pc[t] = from
    /\ pc' = [u \in Thread |-> "crashed"]
    /\ UNCHANGED <<lists, others, locals>>

\* t tests a pointer of the lists
Test(t, from, p, null, there) ==
    /\ Go(t, from, IF p = NULL THEN null ELSE there)
    /\ UNCHANGED <<lists, others, locals>>

\* pthread_mutex_lock and pthread_mutex_unlock of list_lock
LockList(t, from, to) ==
    /\ Go(t, from, to)
    /\ list_lock = Free
    /\ list_lock' = t
    /\ UNCHANGED <<lists, contents, lock, stolen, locals>>

UnlockList(t, from, to) ==
    /\ Go(t, from, to)
    /\ list_lock' = Free
    /\ stolen' = (stolen \/ list_lock \notin {t, Free})
    /\ UNCHANGED <<lists, contents, lock, locals>>

\* pthread_mutex_trylock of the entry's lock, with the place to go on EBUSY
TryLock(t, from, to, busy) ==
    /\ pc[t] = from
    /\ \/ lock[log[t]] = Free /\ Go(t, from, to) /\ lock' = [lock EXCEPT ![log[t]] = t]
       \/ lock[log[t]] # Free /\ Go(t, from, busy) /\ UNCHANGED lock
    /\ UNCHANGED <<lists, contents, list_lock, stolen, locals>>

-----------------------------------------------------------------------------
\* usyslog

Call(l) == Go(l, "idle", "lock") /\ UNCHANGED <<lists, others, locals>>

FreeLeft(l) == Test(l, "head", free_head, "full", "take")

\* log = free_head, which is read a second time
TakeFree(l) ==
    /\ Go(l, "take", "pop")
    /\ log' = [log EXCEPT ![l] = free_head]
    /\ UNCHANGED <<lists, others, next_entry, read>>

\* free_head = log->next
ReadNext(l) ==
    \/ log[l] = NULL /\ Crash(l, "pop")
    \/ /\ log[l] # NULL
       /\ Go(l, "pop", "popped")
       /\ Read(l, next[log[l]])
       /\ UNCHANGED <<lists, others>>

Pop(l) ==
    /\ Go(l, "popped", "try")
    /\ free_head' = read[l] /\ Forget(l)
    /\ UNCHANGED <<next, free_bottom, used_head, used_bottom, others>>

\* mutant: an entry in use is taken all the same
CheckUsed_Ignored(l) == Go(l, "check", "append") /\ UNCHANGED <<lists, others, locals>>

CheckUsed(l) ==
    /\ pc[l] = "check"
    /\ \/ ~used[log[l]] /\ Go(l, "check", "append") /\ UNCHANGED lock
       \/ used[log[l]] /\ Go(l, "check", "full") /\ lock' = [lock EXCEPT ![log[l]] = Free]
    /\ UNCHANGED <<lists, contents, list_lock, stolen, locals>>

UsedLeft(l) == Test(l, "append", used_head, "only", "link")

\* used_head = used_bottom = log
OnlyBottom(l) ==
    /\ Go(l, "only", "only_head")
    /\ used_bottom' = log[l]
    /\ UNCHANGED <<next, free_head, free_bottom, used_head, others, locals>>

OnlyHead(l) ==
    /\ Go(l, "only_head", "detach")
    /\ used_head' = log[l]
    /\ UNCHANGED <<next, free_head, free_bottom, used_bottom, others, locals>>

\* used_bottom->next = log
ReadBottom(l) ==
    /\ Go(l, "link", "linked")
    /\ Read(l, used_bottom)
    /\ UNCHANGED <<lists, others>>

Link(l) ==
    \/ read[l] = NULL /\ Crash(l, "linked")
    \/ /\ read[l] # NULL
       /\ Go(l, "linked", "bottom")
       /\ next' = [next EXCEPT ![read[l]] = log[l]] /\ Forget(l)
       /\ UNCHANGED <<free_head, free_bottom, used_head, used_bottom, others>>

NewBottom(l) ==
    /\ Go(l, "bottom", "detach")
    /\ used_bottom' = log[l]
    /\ UNCHANGED <<next, free_head, free_bottom, used_head, others, locals>>

NextLeft(l) == Test(l, "detach", next[log[l]], "last", "cut")

Cut(l) ==
    /\ Go(l, "cut", "unlist")
    /\ next' = [next EXCEPT ![log[l]] = NULL]
    /\ UNCHANGED <<free_head, free_bottom, used_head, used_bottom, others, locals>>

NoneFree(l) ==
    /\ Go(l, "last", "unlist")
    /\ free_bottom' = NULL
    /\ UNCHANGED <<next, free_head, used_head, used_bottom, others, locals>>

\* vsnprintf writes a character at a time: first there is no whole message, and
\* before the entry's lock is released there is one and the entry is in use
Begin(l) ==
    /\ Go(l, "begin", "write")
    /\ message' = [message EXCEPT ![log[l]] = NoMessage]
    /\ UNCHANGED <<lists, used, lock, list_lock, stolen, locals>>

Write(l) ==
    /\ Go(l, "write", "signal")
    /\ \E m \in Message : message' = [message EXCEPT ![log[l]] = m]
    /\ used' = [used EXCEPT ![log[l]] = TRUE]
    /\ lock' = [lock EXCEPT ![log[l]] = Free]
    /\ UNCHANGED <<lists, list_lock, stolen, locals>>

Signal(l) ==
    /\ pc[l] = "signal"
    /\ pc' = [pc EXCEPT ![l] = "idle",
                        ![syslog_thread] = IF @ = "wait" THEN "lock" ELSE @]
    /\ log' = [log EXCEPT ![l] = NULL]
    /\ UNCHANGED <<lists, others, next_entry, read>>

\* the call returns without a message
GiveUp(l) ==
    /\ Go(l, "full", "idle")
    /\ list_lock' = Free
    /\ stolen' = (stolen \/ list_lock \notin {l, Free})
    /\ log' = [log EXCEPT ![l] = NULL]
    /\ UNCHANGED <<lists, contents, lock, next_entry, read>>

usyslog(l) ==
    \/ LockList(l, "lock", "head")
    \/ FreeLeft(l)
    \/ TakeFree(l)
    \/ ReadNext(l)
    \/ Pop(l)
    \/ TryLock(l, "try", "check", "full")
    \/ CheckUsed(l)
    \/ UsedLeft(l)
    \/ OnlyBottom(l)
    \/ OnlyHead(l)
    \/ ReadBottom(l)
    \/ Link(l)
    \/ NewBottom(l)
    \/ NextLeft(l)
    \/ Cut(l)
    \/ NoneFree(l)
    \/ UnlockList(l, "unlist", "begin")
    \/ Begin(l)
    \/ Write(l)
    \/ Signal(l)
    \/ GiveUp(l)

-----------------------------------------------------------------------------
\* syslog_thread and do_syslog

me == syslog_thread

Wakeup == Spurious /\ Go(me, "wait", "lock") /\ UNCHANGED <<lists, others, locals>>

\* mutant: the loop does not ask whether there is an entry
FirstUsed_Unchecked ==
    /\ log' = [log EXCEPT ![me] = used_head]
    /\ Go(me, "head", "try")
    /\ UNCHANGED <<lists, others, next_entry, read>>

\* with an empty list the loop ends here and list_lock stays locked
FirstUsed ==
    /\ log' = [log EXCEPT ![me] = used_head]
    /\ Go(me, "head", IF used_head = NULL THEN "wait" ELSE "try")
    /\ UNCHANGED <<lists, others, next_entry, read>>

\* mutant: the entry is locked whoever holds its lock
TryEntry_Blindly ==
    /\ Go(me, "try", "unlist")
    /\ lock' = [lock EXCEPT ![log[me]] = me]
    /\ UNCHANGED <<lists, contents, list_lock, stolen, locals>>

TryEntry == TryLock(me, "try", "unlist", "busy")

\* mutant: list_lock is kept during the call of syslog(3)
ReleaseList_Late == Go(me, "unlist", "syslog") /\ UNCHANGED <<lists, others, locals>>

\* from the second entry on, list_lock is not this thread's to unlock
ReleaseList == UnlockList(me, "unlist", "syslog")

\* syslog(3), which may block for as long as it likes, has returned
Emit ==
    /\ Go(me, "syslog", "relock")
    /\ used' = [used EXCEPT ![log[me]] = FALSE]
    /\ UNCHANGED <<lists, message, lock, list_lock, stolen, locals>>

SaveNext ==
    /\ Go(me, "save", "unlink")
    /\ next_entry' = next[log[me]]
    /\ UNCHANGED <<lists, others, log, read>>

\* used_head = log_entry->next
ReadUnlink ==
    /\ Go(me, "unlink", "unlinked")
    /\ Read(me, next[log[me]])
    /\ UNCHANGED <<lists, others>>

Unlink ==
    /\ Go(me, "unlinked", "emptied")
    /\ used_head' = read[me] /\ Forget(me)
    /\ UNCHANGED <<next, free_head, free_bottom, used_bottom, others>>

Emptied == Test(me, "emptied", used_head, "none_used", "refree")

NoneUsed ==
    /\ Go(me, "none_used", "refree")
    /\ used_bottom' = NULL
    /\ UNCHANGED <<next, free_head, free_bottom, used_head, others, locals>>

\* mutant: the test for an empty list is missing
SomeFree_Unchecked == Go(me, "refree", "chain") /\ UNCHANGED <<lists, others, locals>>

SomeFree == Test(me, "refree", free_bottom, "new_bottom", "chain")

\* free_bottom->next = log_entry
ReadFree ==
    /\ Go(me, "chain", "chained")
    /\ Read(me, free_bottom)
    /\ UNCHANGED <<lists, others>>

Chain ==
    \/ read[me] = NULL /\ Crash(me, "chained")
    \/ /\ read[me] # NULL
       /\ Go(me, "chained", "new_bottom")
       /\ next' = [next EXCEPT ![read[me]] = log[me]] /\ Forget(me)
       /\ UNCHANGED <<free_head, free_bottom, used_head, used_bottom, others>>

NewFree ==
    /\ Go(me, "new_bottom", "end")
    /\ free_bottom' = log[me]
    /\ UNCHANGED <<next, free_head, used_head, used_bottom, others, locals>>

\* free_bottom->next = NULL
ReadEnd ==
    /\ Go(me, "end", "ended")
    /\ Read(me, free_bottom)
    /\ UNCHANGED <<lists, others>>

End ==
    \/ read[me] = NULL /\ Crash(me, "ended")
    \/ /\ read[me] # NULL
       /\ Go(me, "ended", "refill")
       /\ next' = [next EXCEPT ![read[me]] = NULL] /\ Forget(me)
       /\ UNCHANGED <<free_head, free_bottom, used_head, used_bottom, others>>

NoneLeft == Test(me, "refill", free_head, "first", "relist")

FirstFree ==
    /\ Go(me, "first", "relist")
    /\ free_head' = log[me]
    /\ UNCHANGED <<next, free_bottom, used_head, used_bottom, others, locals>>

\* log_entry = next_entry, and the entry's lock is released
NextEntry ==
    /\ Go(me, "release", IF next_entry = NULL THEN "wait" ELSE "try")
    /\ lock' = [lock EXCEPT ![log[me]] = Free]
    /\ log' = [log EXCEPT ![me] = next_entry]
    /\ next_entry' = NULL
    /\ UNCHANGED <<lists, contents, list_lock, stolen, read>>

\* the steps that do not wait for the syslog daemon
do_syslog ==
    \/ LockList(me, "lock", "head")
    \/ FirstUsed
    \/ TryEntry
    \/ UnlockList(me, "busy", "lock")
    \/ ReleaseList
    \/ LockList(me, "relock", "save")
    \/ SaveNext
    \/ ReadUnlink
    \/ Unlink
    \/ Emptied
    \/ NoneUsed
    \/ SomeFree
    \/ ReadFree
    \/ Chain
    \/ NewFree
    \/ ReadEnd
    \/ End
    \/ NoneLeft
    \/ FirstFree
    \/ UnlockList(me, "relist", "release")
    \/ NextEntry

Next ==
    \/ \E l \in Logger : Call(l) \/ usyslog(l)
    \/ Wakeup
    \/ do_syslog
    \/ Emit

Spec == Init /\ [][Next]_vars

\* A mutex released again and again is at last obtained; syslog(3) may block.
Fairness == SF_vars(do_syslog) /\ \A l \in Logger : SF_vars(usyslog(l))

-----------------------------------------------------------------------------

\* the places where a thread goes on with the entry that log points to
HasEntry(t) == pc[t] \in {"popped", "try", "check", "append", "only", "only_head", "link",
                          "linked", "bottom", "detach", "cut", "last", "unlist", "begin", "write",
                          "signal", "syslog", "relock", "save", "unlink", "unlinked", "emptied",
                          "none_used", "refree", "chain", "chained", "new_bottom", "end", "ended",
                          "refill", "first", "relist", "release"}

Pc == {"idle", "lock", "head", "full", "take", "pop", "popped", "try", "check", "append",
       "only", "only_head", "link", "linked", "bottom", "detach", "cut", "last", "unlist",
       "begin", "write", "signal", "wait", "busy", "syslog", "relock", "save", "unlink",
       "unlinked", "emptied", "none_used", "refree", "chain", "chained", "new_bottom", "end",
       "ended", "refill", "first", "relist", "release", "crashed"}

(***************************************************************************)
(* Type invariant.  A thread that goes on after its first use of log, or   *)
(* into the loop over log_entry, has an entry there.                       *)
(***************************************************************************)
TypeOK ==
    /\ next \in [Entry -> Entry \cup {NULL}]
    /\ used \in [Entry -> BOOLEAN]
    /\ message \in [Entry -> Message \cup {NoMessage}]
    /\ lock \in [Entry -> Thread \cup {Free}]
    /\ {free_head, free_bottom, used_head, used_bottom, next_entry} \subseteq Entry \cup {NULL}
    /\ list_lock \in Thread \cup {Free}
    /\ pc \in [Thread -> Pc]
    /\ log \in [Thread -> Entry \cup {NULL}]
    /\ read \in [Thread -> Entry \cup {NULL}]
    /\ stolen \in BOOLEAN
    /\ \A t \in Thread : HasEntry(t) => log[t] # NULL

(***************************************************************************)
(* usyslog and do_syslog follow no NULL pointer as long as list_lock is    *)
(* unlocked by its holder only: what ends the process is that do_syslog    *)
(* unlocks it for a logger (debug.c:147 and 140), never the order in which *)
(* the two move entries from list to list.                                 *)
(***************************************************************************)
CrashNeedsStolenLock == (\E t \in Thread : pc[t] = "crashed") => stolen

(***************************************************************************)
(* syslog(3) is never given a message that usyslog is still writing, even  *)
(* when list_lock has failed to protect the lists (do_syslog, usyslog).    *)
(***************************************************************************)
ReadsWholeMessages ==
    pc[me] = "syslog" =>
        \A l \in Logger : pc[l] \in {"begin", "write"} => log[l] # log[me]

(***************************************************************************)
(* A message in the buffer is not written over before syslog(3) has had it *)
(* (the sanity checks of usyslog, debug.c:218).                            *)
(***************************************************************************)
NoOverwrite ==
    [][\A e \in Entry : used[e] /\ used'[e] => message'[e] = message[e]]_vars

\* the syslog thread sleeps, or wants list_lock, with list_lock in its hands
Kept == pc[me] \in {"wait", "lock"} /\ list_lock = me

(***************************************************************************)
(* A call of usyslog returns even if the syslog daemon never answers       *)
(* (debug.c:149-151), unless do_syslog has kept list_lock or the process   *)
(* has died.                                                               *)
(***************************************************************************)
CallsReturn ==
    \A l \in Logger : pc[l] = "lock" ~> pc[l] \in {"idle", "crashed"} \/ Kept

-----------------------------------------------------------------------------
\* What comments of debug.c say; each is refuted by what the code does.

(***************************************************************************)
(* debug.c:127: "we MUST ensure not to keep that forever": do_syslog       *)
(* returns with list_lock unlocked.                                        *)
(***************************************************************************)
ListLockReturned == ~Kept

(***************************************************************************)
(* debug.c:281: the signal of usyslog is there to "wake up the syslog      *)
(* thread", which "tries to to empty the syslog buffer" (debug.c:184): a   *)
(* message written to the buffer is at last handed to syslog(3).           *)
(***************************************************************************)
MessagesDrained == \A e \in Entry : used[e] ~> ~used[e]
=============================================================================
