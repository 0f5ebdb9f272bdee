------------------------------- MODULE RWLock -------------------------------
(***************************************************************************)
(* The spinning readers-writer lock of lock.c.                             *)
(*                                                                         *)
(* A lock is two ints: read, the number of threads that have announced     *)
(* themselves as readers, and write, the writers' test-and-set word.       *)
(* Every atomic builtin and every plain load of read or write is one step; *)
(* a turn of a spin loop that changes nothing is a stuttering step.  Loads *)
(* return the current value: each is separated from the previous access of *)
(* its thread by a full barrier (__sync_synchronize, or a locked           *)
(* instruction on the x86 targets configure.ac names).                     *)
(***************************************************************************)
EXTENDS Naturals, FiniteSets

CONSTANT Threads

ASSUME ThreadsAssumption == IsFiniteSet(Threads)

VARIABLES
    read,   \* v->read
    write,  \* v->write
    pc      \* where each thread is in its use of the lock

vars == <<read, write, pc>>

Reader == {"r_wait", "r_add", "r_check", "r_undo", "reading"}
Writer == {"w_set", "w_wait", "writing"}
Locations == {"idle"} \union Reader \union Writer

Goto(t, from, to) ==
    /\ pc[t] = from
    /\ pc' = [pc EXCEPT ![t] = to]

rwlock_init == read = 0 /\ write = 0

Init ==
    /\ rwlock_init
    /\ pc = [t \in Threads |-> "idle"]

-----------------------------------------------------------------------------
(* rlock() *)

CallRlock(t) == Goto(t, "idle", "r_wait") /\ UNCHANGED <<read, write>>

\* while (v->write)
RlockWait(t) ==
    /\ write = 0
    /\ Goto(t, "r_wait", "r_add")
    /\ UNCHANGED <<read, write>>

\* __sync_add_and_fetch(&v->read, 1)
RlockAdd(t) ==
    /\ Goto(t, "r_add", "r_check")
    /\ read' = read + 1
    /\ UNCHANGED write

\* Seeded fault: the first look at v->write is trusted.
RlockCheckBlind(t) ==
    /\ Goto(t, "r_check", "reading")
    /\ UNCHANGED <<read, write>>

\* if (v->write), the second look
RlockCheck(t) ==
    /\ Goto(t, "r_check", IF write = 1 THEN "r_undo" ELSE "reading")
    /\ UNCHANGED <<read, write>>

\* Seeded fault: the retry skips the wait for the writer.
RlockUndoToAdd(t) ==
    /\ Goto(t, "r_undo", "r_add")
    /\ read' = read - 1
    /\ UNCHANGED write

\* Seeded fault: the back-off keeps its count.
RlockUndoForgets(t) ==
    /\ Goto(t, "r_undo", "r_wait")
    /\ UNCHANGED <<read, write>>

\* __sync_sub_and_fetch(&v->read, 1) and back to the top of the for loop
RlockUndo(t) ==
    /\ Goto(t, "r_undo", "r_wait")
    /\ read' = read - 1
    /\ UNCHANGED write

runlock(t) ==
    /\ Goto(t, "reading", "idle")
    /\ read' = read - 1
    /\ UNCHANGED write

-----------------------------------------------------------------------------
(* wlock() *)

CallWlock(t) == Goto(t, "idle", "w_set") /\ UNCHANGED <<read, write>>

\* while (__sync_lock_test_and_set(&v->write, 1))
WlockSet(t) ==
    /\ write = 0
    /\ Goto(t, "w_set", "w_wait")
    /\ write' = 1
    /\ UNCHANGED read

\* Seeded fault: the writer does not wait for the readers inside.
WlockWaitSkipped(t) ==
    /\ Goto(t, "w_wait", "writing")
    /\ UNCHANGED <<read, write>>

\* while (v->read)
WlockWait(t) ==
    /\ read = 0
    /\ Goto(t, "w_wait", "writing")
    /\ UNCHANGED <<read, write>>

\* Seeded fault: the write word stays set.
WunlockForgets(t) ==
    /\ Goto(t, "writing", "idle")
    /\ UNCHANGED <<read, write>>

wunlock(t) ==
    /\ Goto(t, "writing", "idle")
    /\ write' = 0
    /\ UNCHANGED read

-----------------------------------------------------------------------------

\* A step inside rlock(), runlock(), wlock() or wunlock().
Step(t) ==
    \/ RlockWait(t) \/ RlockAdd(t) \/ RlockCheck(t) \/ RlockUndo(t)
    \/ runlock(t)
    \/ WlockSet(t) \/ WlockWait(t)
    \/ wunlock(t)

Next == \E t \in Threads : CallRlock(t) \/ CallWlock(t) \/ Step(t)

Spec == Init /\ [][Next]_vars

\* Every thread that is inside a call keeps running, and every holder ends up
\* releasing.  Nothing obliges a thread to call rlock() or wlock().
FairSpec == Spec /\ \A t \in Threads : WF_vars(Step(t))

-----------------------------------------------------------------------------

TypeOK ==
    /\ read \in Nat
    /\ write \in {0, 1}
    /\ pc \in [Threads -> Locations]

At(L) == {t \in Threads : pc[t] \in L}

Counted == At({"r_check", "r_undo", "reading"})
Owners == At({"w_wait", "writing"})

\* A thread holding the lock for writing holds it alone: no other writer and
\* no reader is past its lock call (rlock/wlock, lock.c:16-39).
Exclusion ==
    \A t \in At({"writing"}) : At({"reading", "writing"}) = {t}

\* read is exactly the number of threads between their increment and their
\* decrement, and write is 1 exactly while one thread owns the word
\* (lock.c:21-23, 31, 35, 42): no path through the retry loop leaks a count.
CountsAreExact ==
    /\ read = Cardinality(Counted)
    /\ write = Cardinality(Owners)

\* A writer that has won the write word gets in, whatever readers arrive:
\* each can disturb read at most once more before it parks on the first
\* loop (lock.c:18-23 against 36).
WriterGetsIn ==
    \A t \in Threads : (pc[t] = "w_wait") ~> (pc[t] = "writing")

\* Once no thread uses the write side any more, a waiting reader gets in: the
\* back-off at lock.c:23 always returns to a point from which it can succeed.
ReaderGetsIn ==
    \A t \in Threads :
        <>[](At(Writer) = {}) => ((pc[t] = "r_wait") ~> (pc[t] = "reading"))

\* The lock as its callers see it.
Abs == INSTANCE RWLockAbs WITH
    readers <- At({"reading"}),
    writers <- At({"writing"})

\* lock.c implements the atomic readers-writer lock: each thread acquires at
\* the load that lets it out of its loop and releases at the builtin of its
\* unlock call.
ImplementsRWLock == Abs!AbsSpec
=============================================================================
