------------------------------- MODULE Thread -------------------------------
(***************************************************************************)
(* Threads (thread.c): one thread creates the others with thread.new and   *)
(* joins them; every thread may ask for its thread_t with thread.self.     *)
(* A thread_t is freed by the destructor of the thread's key when the      *)
(* thread ends, and its address may then be used for another one.          *)
(*                                                                         *)
(* thread.new passes a struct _thread_boot_arg of its own stack frame to   *)
(* the new thread.  Every call of the creating thread has it at the same   *)
(* address.                                                                *)
(***************************************************************************)
EXTENDS Naturals

CONSTANTS
    Main,      \* the thread that calls thread.new and thread.join
    Children,  \* the threads it creates
    Objs,      \* the addresses of thread_t objects
    NULL

AllThreads == Children \union {Main}

ASSUME ThreadAssumption ==
    /\ Main \notin Children
    /\ NULL \notin AllThreads \union Objs

VARIABLES
    tpc,     \* where each thread is
    npc,     \* where the creating thread is in thread.new
    arg,     \* its boot argument: the thread it is for, and arg.thrd
    joining, \* the thread the creating thread is in thread.join for
    self,    \* each thread's __thread_self, and what its key holds
    tid,     \* the tid of each thread_t, NULL when it is not allocated
    handle,  \* what thread.new returned for each thread
    ran,     \* history: the thread whose runable each thread called
    waited   \* history: the thread that thread.join waited for, for each thread

thrdVars == <<tpc, npc, arg, joining, self, tid, handle, ran, waited>>

NoArg == [for |-> NULL, thrd |-> NULL]

\* thread.init has created the key.
ThrdInit ==
    /\ tpc = [t \in AllThreads |-> IF t = Main THEN "running" ELSE "none"]
    /\ npc = "idle" /\ arg = NoArg /\ joining = NULL
    /\ self = [t \in AllThreads |-> NULL]
    /\ tid = [o \in Objs |-> NULL]
    /\ handle = [c \in Children |-> NULL]
    /\ ran = [c \in Children |-> NULL]
    /\ waited = [c \in Children |-> NULL]

\* The creating thread is in neither thread.new nor thread.join.
InMain == npc = "idle" /\ joining = NULL

ThrdGoto(t, from, to) == tpc[t] = from /\ tpc' = [tpc EXCEPT ![t] = to]

\* Seeded fault: thread_self allocates without looking for an object first.
ThreadSelfAlways(t) ==
    \/ UNCHANGED <<self, tid>>
    \/ \E o \in Objs :
         /\ tid[o] = NULL
         /\ self' = [self EXCEPT ![t] = o]
         /\ tid' = [tid EXCEPT ![o] = t]

\* thread_self: the object there is, or one that is allocated, or 0 without memory.
thread_self(t) ==
    \/ UNCHANGED <<self, tid>>
    \/ /\ self[t] = NULL
       /\ \E o \in Objs :
            /\ tid[o] = NULL
            /\ self' = [self EXCEPT ![t] = o]
            /\ tid' = [tid EXCEPT ![o] = t]

-----------------------------------------------------------------------------
(* thread_boot, in the new thread *)

Boot(c) ==
    /\ ThrdGoto(c, "boot", "publish")
    /\ thread_self(c)
    /\ UNCHANGED <<npc, arg, joining, handle, ran, waited>>

\* Seeded fault: what thread_self returned is not stored.
PublishNothing(c) ==
    /\ ThrdGoto(c, "publish", "fetch")
    /\ UNCHANGED <<npc, arg, joining, self, tid, handle, ran, waited>>

\* arg->thrd = thread_self().
Publish(c) ==
    /\ ThrdGoto(c, "publish", "fetch")
    /\ arg' = [arg EXCEPT !.thrd = self[c]]
    /\ UNCHANGED <<npc, joining, self, tid, handle, ran, waited>>

\* arg->runable: if thread.new has returned, the frame still holds it, holds what
\* the next call put there, or holds anything.
Fetch(c) ==
    /\ ThrdGoto(c, "fetch", "running")
    /\ \E r \in IF arg.for = c THEN {c} ELSE {c, arg.for, NULL} :
         ran' = [ran EXCEPT ![c] = r]
    /\ UNCHANGED <<npc, arg, joining, self, tid, handle, waited>>

\* The runable, or the main program, calls thread.self.
CallSelf(t) ==
    /\ tpc[t] = "running" /\ (t = Main => InMain)
    /\ thread_self(t)
    /\ UNCHANGED <<tpc, npc, arg, joining, handle, ran, waited>>

\* pthread_exit, and thread_free as the destructor of the key; thread.uninit for Main.
ThreadExit(t) ==
    /\ ThrdGoto(t, "running", "ended") /\ (t = Main => InMain)
    /\ self' = [self EXCEPT ![t] = NULL]
    /\ tid' = [o \in Objs |-> IF o = self[t] THEN NULL ELSE tid[o]]
    /\ UNCHANGED <<npc, arg, joining, handle, ran, waited>>

-----------------------------------------------------------------------------
(* thread_new and thread_join, in the creating thread *)

CanCall == tpc[Main] = "running" /\ InMain

\* Seeded fault: arg.thrd keeps what the frame held before.
ThreadNewStale(c, ok) ==
    /\ CanCall
    /\ ThrdGoto(c, "none", IF ok THEN "boot" ELSE "failed")
    /\ arg' = [arg EXCEPT !.for = c]
    /\ npc' = "spin"
    /\ UNCHANGED <<joining, self, tid, handle, ran, waited>>

\* Up to pthread_create, whose result is not looked at.
ThreadNew(c, ok) ==
    /\ CanCall
    /\ ThrdGoto(c, "none", IF ok THEN "boot" ELSE "failed")
    /\ arg' = [for |-> c, thrd |-> NULL]
    /\ npc' = "spin"
    /\ UNCHANGED <<joining, self, tid, handle, ran, waited>>

Spin ==
    /\ npc = "spin" /\ npc' = "name"
    /\ arg.thrd # NULL
    /\ UNCHANGED <<tpc, arg, joining, self, tid, handle, ran, waited>>

\* snprintf into arg.thrd->name, and the return.
Name ==
    /\ npc = "name" /\ npc' = "idle"
    /\ handle' = [handle EXCEPT ![arg.for] = arg.thrd]
    /\ arg' = [arg EXCEPT !.for = NULL]
    /\ UNCHANGED <<tpc, joining, self, tid, ran, waited>>

\* thread_join: thrd->tid of an object that was freed is what it was, or that of its
\* next owner.
ThreadJoin(c) ==
    /\ CanCall
    /\ handle[c] # NULL /\ waited[c] = NULL
    /\ joining' = c
    /\ waited' = [waited EXCEPT ![c] =
                   IF tid[handle[c]] = NULL THEN c ELSE tid[handle[c]]]
    /\ UNCHANGED <<tpc, npc, arg, self, tid, handle, ran>>

\* Seeded fault: pthread_join fails at once and nobody looks.
JoinFails ==
    /\ joining # NULL /\ joining' = NULL
    /\ UNCHANGED <<tpc, npc, arg, self, tid, handle, ran, waited>>

\* pthread_join returns.
JoinReturns ==
    /\ joining # NULL /\ joining' = NULL
    /\ tpc[waited[joining]] = "ended"
    /\ UNCHANGED <<tpc, npc, arg, self, tid, handle, ran, waited>>

-----------------------------------------------------------------------------
ChildStep(c) == Boot(c) \/ Publish(c) \/ Fetch(c)
NewStep == Spin \/ Name

ThrdNext ==
    \/ \E c \in Children : ChildStep(c)
    \/ NewStep
    \/ \E t \in AllThreads : CallSelf(t) \/ ThreadExit(t)
    \/ \E c \in Children, ok \in BOOLEAN : ThreadNew(c, ok)
    \/ \E c \in Children : ThreadJoin(c)
    \/ JoinReturns

ThrdSpec == ThrdInit /\ [][ThrdNext]_thrdVars

\* Every thread runs; what a runable does, and when it ends, is up to it.
ThrdFairSpec ==
    /\ ThrdSpec
    /\ WF_thrdVars(NewStep)
    /\ \A c \in Children : WF_thrdVars(ChildStep(c))

-----------------------------------------------------------------------------
(* Properties *)

ThrdTypeOK ==
    /\ tpc \in [AllThreads ->
               {"none", "boot", "publish", "fetch", "running", "ended", "failed"}]
    /\ npc \in {"idle", "spin", "name"}
    /\ arg \in [for : Children \union {NULL}, thrd : Objs \union {NULL}]
    /\ self \in [AllThreads -> Objs \union {NULL}]
    /\ tid \in [Objs -> AllThreads \union {NULL}]
    /\ joining \in Children \union {NULL}
    /\ handle \in [Children -> Objs \union {NULL}]
    /\ ran \in [Children -> Children \union {NULL}]
    /\ waited \in [Children -> AllThreads \union {NULL}]

\* What thread.self returns to a thread is allocated, is its own and no other
\* thread's, and every object that is allocated is that of a thread that has not
\* ended: none is shared, freed too early or lost (thread.c:29-38, 52-74).
\* eventloop_apply tells the loop's thread by it (eventloop.c:54).
SelfIsOwn ==
    /\ \A t \in AllThreads : self[t] # NULL => tid[self[t]] = t
    /\ \A o \in Objs : tid[o] # NULL => self[tid[o]] = o /\ tpc[tid[o]] # "ended"

\* thread.new finds the object of the thread it has just created in the boot
\* argument, never that of an earlier one: until that thread ends, the object is what
\* thread.self returns in it (thread.c:79, 90-96).
NewFindsItsOwn ==
    npc # "idle" /\ arg.thrd # NULL =>
        \/ self[arg.for] = arg.thrd /\ tpc[arg.for] \in {"fetch", "running"}
        \/ tpc[arg.for] = "ended"

\* When thread.join has returned, the thread it was called for has ended, even if the
\* object was freed, or is another thread's, when tid was read (thread.c:100-102).
JoinedHasEnded ==
    \A c \in Children :
        waited[c] # NULL /\ joining # c => tpc[c] = "ended"

\* Once pthread_create has made the thread, thread.new returns, unless the new thread
\* found no memory for its object (thread.c:92-94, 64-67).
NewReturns ==
    \A c \in Children :
        npc # "idle" /\ tpc[c] = "boot" ~>
            npc = "idle" \/ (tpc[c] = "publish" /\ self[c] = NULL)

\* A thread calls the runable that was passed to thread.new for it (thread.c:81).
RunsItsOwn == \A c \in Children : tpc[c] \in {"running", "ended"} => ran[c] = c

\* thread.new writes the name into an object of the thread it has created
\* (thread.c:95).
NamesItsOwn == [][Name => tid[arg.thrd] = arg.for]_thrdVars

\* thread.join waits for the thread it is called for (thread.c:101).
JoinsItsOwn == \A c \in Children : waited[c] \in {NULL, c}
=============================================================================
