-------------------------- MODULE ThreadingProofs ---------------------------
(***************************************************************************)
(* Proofs about RWLock for every finite set of threads: the exclusion the  *)
(* lock exists for, and that it implements the atomic lock RWLockAbs; and  *)
(* about Thread for any number of threads and of addresses.                *)
(***************************************************************************)
EXTENDS RWLock, Thread, FiniteSetTheorems, TLAPS

\* The inductive invariant: exclusion alone is not inductive, because it does
\* not say why a writer that sees read = 0 has no reader behind it.
IInv == TypeOK /\ CountsAreExact /\ Exclusion

\* Sets of threads at given locations are finite, so they can be counted.
LEMMA AtFinite ==
    ASSUME NEW L
    PROVE  /\ IsFiniteSet(At(L))
           /\ Cardinality(At(L)) \in Nat
           /\ Cardinality(At(L)) = 0 <=> At(L) = {}
<1>1. At(L) \in SUBSET Threads
  BY DEF At
<1>2. IsFiniteSet(At(L))
  BY <1>1, ThreadsAssumption, FS_Subset
<1>. QED
  BY <1>2, FS_CardinalityType, FS_EmptySet

\* A thread that moves from location a to location b leaves or joins the set
\* of threads at L, and no other thread moves.
LEMMA AtGoto ==
    ASSUME TypeOK, NEW t \in Threads, NEW a, NEW b, Goto(t, a, b), NEW L
    PROVE  /\ a \in L <=> t \in At(L)
           /\ b \in L => At(L)' = At(L) \union {t}
           /\ b \notin L => At(L)' = At(L) \ {t}
BY DEF TypeOK, Goto, At

\* How such a move changes the number of threads at L.
LEMMA CountGoto ==
    ASSUME TypeOK, NEW t \in Threads, NEW a, NEW b, Goto(t, a, b), NEW L
    PROVE  Cardinality(At(L)') =
             IF a \in L /\ b \notin L THEN Cardinality(At(L)) - 1
             ELSE IF a \notin L /\ b \in L THEN Cardinality(At(L)) + 1
             ELSE Cardinality(At(L))
<1>1. IsFiniteSet(At(L))
  BY AtFinite
<1>2. /\ Cardinality(At(L) \union {t}) =
           IF t \in At(L) THEN Cardinality(At(L)) ELSE Cardinality(At(L)) + 1
      /\ Cardinality(At(L) \ {t}) =
           IF t \in At(L) THEN Cardinality(At(L)) - 1 ELSE Cardinality(At(L))
  BY <1>1, FS_AddElement, FS_RemoveElement
<1>3. /\ a \in L <=> t \in At(L)
      /\ b \in L => At(L)' = At(L) \union {t}
      /\ b \notin L => At(L)' = At(L) \ {t}
  BY AtGoto
<1>4. CASE b \in L
  BY <1>2, <1>3, <1>4
<1>5. CASE b \notin L
  BY <1>2, <1>3, <1>5
<1>. QED
  BY <1>4, <1>5

LEMMA InitIInv == Init => IInv
<1>. SUFFICES ASSUME Init PROVE IInv
  OBVIOUS
<1>1. TypeOK
  BY DEF Init, rwlock_init, TypeOK, Locations
<1>2. Counted = {} /\ Owners = {} /\ At({"writing"}) = {}
  BY DEF Init, At, Counted, Owners
<1>. QED
  BY <1>1, <1>2, FS_EmptySet
     DEF Init, rwlock_init, IInv, CountsAreExact, Exclusion

\* What the counts say about the sets they count.
LEMMA CountFacts ==
    ASSUME IInv
    PROVE  /\ read = 0 => Counted = {}
           /\ write = 0 => Owners = {}
           /\ \A t \in Owners : Owners = {t}
<1>1. /\ read = Cardinality(Counted)
      /\ write = Cardinality(Owners)
      /\ write \in {0, 1}
  BY DEF IInv, CountsAreExact, TypeOK
<1>2. /\ Cardinality(Counted) = 0 <=> Counted = {}
      /\ Cardinality(Owners) = 0 <=> Owners = {}
      /\ IsFiniteSet(Owners)
  BY AtFinite DEF Counted, Owners
<1>3. Cardinality(Owners) = 1 <=> \E x : Owners = {x}
  BY <1>2, FS_Singleton
<1>. QED
  BY <1>1, <1>2, <1>3

LEMMA StepTypeOK == IInv /\ [Next]_vars => TypeOK'
<1>. SUFFICES ASSUME IInv, [Next]_vars PROVE TypeOK'
  OBVIOUS
<1>. USE DEF IInv, TypeOK, Locations, Reader, Writer
<1>1. CASE UNCHANGED vars
  BY <1>1 DEF vars
<1>2. ASSUME NEW t \in Threads, RlockUndo(t) \/ runlock(t)
      PROVE  TypeOK'
  <2>1. t \in Counted
    BY <1>2 DEF RlockUndo, runlock, Goto, Counted, At
  <2>2. read # 0
    BY <2>1, CountFacts
  <2>. QED
    BY <1>2, <2>2 DEF RlockUndo, runlock, Goto
<1>3. ASSUME NEW t \in Threads,
             \/ CallRlock(t) \/ CallWlock(t) \/ RlockWait(t) \/ RlockAdd(t)
             \/ RlockCheck(t) \/ WlockSet(t) \/ WlockWait(t) \/ wunlock(t)
      PROVE  TypeOK'
  BY <1>3 DEF CallRlock, CallWlock, RlockWait, RlockAdd, RlockCheck,
              WlockSet, WlockWait, wunlock, Goto
<1>. QED
  BY <1>1, <1>2, <1>3 DEF Next, Step

LEMMA StepCounts == IInv /\ [Next]_vars => CountsAreExact'
<1>. SUFFICES ASSUME IInv, [Next]_vars PROVE CountsAreExact'
  OBVIOUS
<1>0. /\ TypeOK
      /\ read = Cardinality(Counted) /\ read \in Nat
      /\ write = Cardinality(Owners) /\ write \in {0, 1}
  BY DEF IInv, TypeOK, CountsAreExact
<1>1. CASE UNCHANGED vars
  BY <1>0, <1>1 DEF vars, CountsAreExact, Counted, Owners, At
<1>2. ASSUME NEW t \in Threads, NEW a, NEW b, Goto(t, a, b)
      PROVE  /\ Cardinality(Counted') =
                  IF /\ a \in {"r_check", "r_undo", "reading"}
                     /\ b \notin {"r_check", "r_undo", "reading"}
                  THEN read - 1
                  ELSE IF /\ a \notin {"r_check", "r_undo", "reading"}
                          /\ b \in {"r_check", "r_undo", "reading"}
                  THEN read + 1 ELSE read
             /\ Cardinality(Owners') =
                  IF a \in {"w_wait", "writing"} /\ b \notin {"w_wait", "writing"}
                  THEN write - 1
                  ELSE IF a \notin {"w_wait", "writing"} /\ b \in {"w_wait", "writing"}
                  THEN write + 1 ELSE write
  BY <1>0, <1>2, CountGoto DEF Counted, Owners
<1>3. ASSUME NEW t \in Threads, CallRlock(t) \/ CallWlock(t) \/ Step(t)
      PROVE  CountsAreExact'
  <2>1. CASE CallRlock(t)
    BY <1>0, <1>2, <2>1 DEF CallRlock, CountsAreExact
  <2>2. CASE CallWlock(t)
    BY <1>0, <1>2, <2>2 DEF CallWlock, CountsAreExact
  <2>3. CASE RlockWait(t)
    BY <1>0, <1>2, <2>3 DEF RlockWait, CountsAreExact
  <2>4. CASE RlockAdd(t)
    BY <1>0, <1>2, <2>4 DEF RlockAdd, CountsAreExact
  <2>5. CASE RlockCheck(t)
    BY <1>0, <1>2, <2>5 DEF RlockCheck, CountsAreExact
  <2>6. CASE RlockUndo(t)
    BY <1>0, <1>2, <2>6 DEF RlockUndo, CountsAreExact
  <2>7. CASE runlock(t)
    BY <1>0, <1>2, <2>7 DEF runlock, CountsAreExact
  <2>8. CASE WlockSet(t)
    BY <1>0, <1>2, <2>8 DEF WlockSet, CountsAreExact
  <2>9. CASE WlockWait(t)
    BY <1>0, <1>2, <2>9 DEF WlockWait, CountsAreExact
  <2>10. CASE wunlock(t)
    <3>1. Goto(t, "writing", "idle") /\ write' = 0 /\ read' = read
      BY <2>10 DEF wunlock
    <3>2. t \in Owners
      BY <3>1 DEF Owners, At, Goto
    <3>3. write = 1
      BY <1>0, <3>2, CountFacts
    <3>. QED
      BY <1>0, <1>2, <3>1, <3>3 DEF CountsAreExact
  <2>. QED
    BY <1>3, <2>1, <2>2, <2>3, <2>4, <2>5, <2>6, <2>7, <2>8, <2>9, <2>10 DEF Step
<1>. QED
  BY <1>1, <1>3 DEF Next

LEMMA StepExclusion == IInv /\ [Next]_vars => Exclusion'
<1>. SUFFICES ASSUME IInv, [Next]_vars PROVE Exclusion'
  OBVIOUS
<1>0. TypeOK /\ Exclusion
  BY DEF IInv
<1>1. CASE UNCHANGED vars
  BY <1>0, <1>1 DEF vars, Exclusion, At
<1>2. ASSUME NEW t \in Threads, RlockCheck(t)
      PROVE  Exclusion'
  <2>1. CASE write = 1
    BY <1>0, <1>2, <2>1 DEF RlockCheck, Goto, TypeOK, Exclusion, At
  <2>2. CASE write # 1
    <3>1. Owners = {}
      BY <1>0, <2>2, CountFacts DEF TypeOK
    <3>. QED
      BY <1>0, <1>2, <2>2, <3>1 DEF RlockCheck, Goto, TypeOK, Exclusion, At, Owners
  <2>. QED
    BY <2>1, <2>2
<1>3. ASSUME NEW t \in Threads, WlockWait(t)
      PROVE  Exclusion'
  <2>1. Counted = {}
    BY <1>3, CountFacts DEF WlockWait
  <2>2. Owners = {t}
    BY <1>3, CountFacts DEF WlockWait, Goto, Owners, At
  <2>. QED
    BY <1>0, <1>3, <2>1, <2>2
       DEF WlockWait, Goto, TypeOK, Exclusion, At, Counted, Owners
<1>4. ASSUME NEW t \in Threads,
             \/ CallRlock(t) \/ CallWlock(t) \/ RlockWait(t) \/ RlockAdd(t)
             \/ RlockUndo(t) \/ runlock(t) \/ WlockSet(t) \/ wunlock(t)
      PROVE  Exclusion'
  BY <1>0, <1>4 DEF CallRlock, CallWlock, RlockWait, RlockAdd, RlockUndo, runlock,
                    WlockSet, wunlock, Goto, TypeOK, Exclusion, At
<1>. QED
  BY <1>1, <1>2, <1>3, <1>4 DEF Next, Step

\* The invariant holds throughout every behaviour.
THEOREM Invariance == Spec => []IInv
<1>1. Init => IInv
  BY InitIInv
<1>2. IInv /\ [Next]_vars => IInv'
  BY StepTypeOK, StepCounts, StepExclusion DEF IInv
<1>. QED
  BY <1>1, <1>2, PTL DEF Spec

\* A writer is alone inside the lock, for any number of threads and any
\* interleaving of the steps of rlock, runlock, wlock and wunlock.
THEOREM MutualExclusion == Spec => []Exclusion
<1>1. IInv => Exclusion
  BY DEF IInv
<1>. QED
  BY <1>1, Invariance, PTL

\* The two words of the lock count the threads that announced themselves and
\* the owner of the write word, on every path, the back-off included.
THEOREM ExactCounts == Spec => []CountsAreExact
<1>1. IInv => CountsAreExact
  BY DEF IInv
<1>. QED
  BY <1>1, Invariance, PTL

\* Every variable of the lock has its type.
THEOREM TypeCorrect == Spec => []TypeOK
<1>1. IInv => TypeOK
  BY DEF IInv
<1>. QED
  BY <1>1, Invariance, PTL

\* A step of lock.c is a step of the atomic lock or leaves it unchanged.
LEMMA StepRefines ==
    IInv /\ [Next]_vars => [Abs!AbsNext]_(Abs!absVars)
<1>. SUFFICES ASSUME IInv, [Next]_vars PROVE [Abs!AbsNext]_(Abs!absVars)
  OBVIOUS
<1>. USE DEF Abs!absVars, At
<1>0. TypeOK /\ Exclusion
  BY DEF IInv
<1>1. CASE UNCHANGED vars
  BY <1>1 DEF vars
<1>2. ASSUME NEW t \in Threads, RlockCheck(t)
      PROVE  Abs!AbsNext \/ UNCHANGED Abs!absVars
  <2>1. CASE write = 1
    BY <1>0, <1>2, <2>1 DEF RlockCheck, Goto, TypeOK
  <2>2. CASE write # 1
    <3>1. Owners = {}
      BY <1>0, <2>2, CountFacts DEF TypeOK
    <3>2. Abs!AcquireRead(t)
      BY <1>0, <1>2, <2>2, <3>1
         DEF RlockCheck, Goto, TypeOK, Owners, Abs!AcquireRead
    <3>. QED
      BY <3>2 DEF Abs!AbsNext
  <2>. QED
    BY <2>1, <2>2
<1>3. ASSUME NEW t \in Threads, runlock(t)
      PROVE  Abs!AbsNext
  <2>1. Abs!ReleaseRead(t)
    BY <1>0, <1>3 DEF runlock, Goto, TypeOK, Abs!ReleaseRead
  <2>. QED
    BY <2>1 DEF Abs!AbsNext
<1>4. ASSUME NEW t \in Threads, WlockWait(t)
      PROVE  Abs!AbsNext
  <2>1. Counted = {}
    BY <1>4, CountFacts DEF WlockWait
  <2>2. Owners = {t}
    BY <1>4, CountFacts DEF WlockWait, Goto, Owners
  <2>3. Abs!AcquireWrite(t)
    BY <1>0, <1>4, <2>1, <2>2
       DEF WlockWait, Goto, TypeOK, Counted, Owners, Abs!AcquireWrite
  <2>. QED
    BY <2>3 DEF Abs!AbsNext
<1>5. ASSUME NEW t \in Threads, wunlock(t)
      PROVE  Abs!AbsNext
  <2>1. Abs!ReleaseWrite(t)
    BY <1>0, <1>5 DEF wunlock, Goto, TypeOK, Exclusion, Abs!ReleaseWrite
  <2>. QED
    BY <2>1 DEF Abs!AbsNext
<1>6. ASSUME NEW t \in Threads,
             \/ CallRlock(t) \/ CallWlock(t) \/ RlockWait(t) \/ RlockAdd(t)
             \/ RlockUndo(t) \/ WlockSet(t)
      PROVE  UNCHANGED Abs!absVars
  BY <1>0, <1>6 DEF CallRlock, CallWlock, RlockWait, RlockAdd, RlockUndo,
                    WlockSet, Goto, TypeOK
<1>. QED
  BY <1>1, <1>2, <1>3, <1>4, <1>5, <1>6 DEF Next, Step

\* lock.c implements the atomic readers-writer lock.
THEOREM Refinement == Spec => ImplementsRWLock
<1>1. Init => Abs!AbsInit
  BY DEF Init, Abs!AbsInit, At
<1>. QED
  BY <1>1, StepRefines, Invariance, PTL DEF Spec, ImplementsRWLock, Abs!AbsSpec

-----------------------------------------------------------------------------
(* thread.new, thread.self and thread.join *)

\* A thread that thread.new has created is still in boot or publish only while
\* thread.new spins for it; its object is in the boot argument from publish on, and
\* in the handle from the return on, until the thread ends.
Owns(c, o) == tpc[c] = "ended" \/ (self[c] = o /\ tpc[c] \in {"fetch", "running"})

Handshake ==
    /\ npc = "idle" <=> arg.for = NULL
    /\ npc = "name" => arg.thrd # NULL
    /\ \A c \in Children : tpc[c] \in {"boot", "publish"} =>
          npc = "spin" /\ arg.for = c /\ arg.thrd = NULL
    /\ npc # "idle" /\ arg.thrd # NULL => Owns(arg.for, arg.thrd)

Handles ==
    /\ \A c \in Children : handle[c] # NULL => Owns(c, handle[c])
    /\ \A c \in Children : waited[c] # NULL => waited[c] = c \/ tpc[c] = "ended"
    /\ joining # NULL => waited[joining] # NULL
    /\ JoinedHasEnded

\* The inductive invariant of the threads.
ThreadInv == ThrdTypeOK /\ SelfIsOwn /\ Handshake /\ Handles

LEMMA ThreadInitInv == ThrdInit => ThreadInv
BY ThreadAssumption DEF ThrdInit, ThreadInv, ThrdTypeOK, SelfIsOwn, Handshake,
     Handles, JoinedHasEnded,
     Owns, NoArg, AllThreads

\* thread_self gives a thread an object of its own or leaves everything as it is.
LEMMA SelfStep ==
    ASSUME ThreadInv, NEW t \in AllThreads,
           tpc[t] \notin {"none", "ended", "failed"}, thread_self(t)
    PROVE  /\ self' \in [AllThreads -> Objs \union {NULL}]
           /\ tid' \in [Objs -> AllThreads \union {NULL}]
           /\ \A u \in AllThreads : self[u] # NULL => self'[u] = self[u]
           /\ \A u \in AllThreads : self'[u] # NULL => tid'[self'[u]] = u
           /\ \A o \in Objs : tid'[o] # NULL => self'[tid'[o]] = o /\ tpc[tid'[o]] # "ended"
BY ThreadAssumption DEF ThreadInv, ThrdTypeOK, SelfIsOwn, thread_self, AllThreads

LEMMA ThreadNextInv == ThreadInv /\ [ThrdNext]_thrdVars => ThreadInv'
<1> SUFFICES ASSUME ThreadInv, [ThrdNext]_thrdVars PROVE ThreadInv'
  OBVIOUS
<1> USE ThreadAssumption DEF AllThreads
<1>1. ASSUME NEW c \in Children, Boot(c) PROVE ThreadInv'
  <2>1. tpc[c] = "boot" /\ tpc' = [tpc EXCEPT ![c] = "publish"]
    BY <1>1 DEF Boot, ThrdGoto
  <2>2. ThrdTypeOK' /\ SelfIsOwn'
    BY <1>1, <2>1, SelfStep DEF ThreadInv, ThrdTypeOK, SelfIsOwn, Boot
  <2>3. Handshake' /\ Handles'
    BY <1>1, <2>1, SelfStep DEF ThreadInv, ThrdTypeOK, Handshake, Handles, Owns,
         JoinedHasEnded, Boot
  <2> QED BY <2>2, <2>3 DEF ThreadInv
<1>2. ASSUME NEW c \in Children, Publish(c) PROVE ThreadInv'
  BY <1>2 DEF ThreadInv, ThrdTypeOK, SelfIsOwn, Handshake, Handles, Owns,
       JoinedHasEnded, Publish, ThrdGoto
<1>3. ASSUME NEW c \in Children, Fetch(c) PROVE ThreadInv'
  BY <1>3 DEF ThreadInv, ThrdTypeOK, SelfIsOwn, Handshake, Handles, Owns,
       JoinedHasEnded, Fetch, ThrdGoto
<1>4. ASSUME NEW t \in AllThreads, CallSelf(t) PROVE ThreadInv'
  <2>1. ThrdTypeOK' /\ SelfIsOwn'
    BY <1>4, SelfStep DEF ThreadInv, ThrdTypeOK, SelfIsOwn, CallSelf
  <2>2. Handshake' /\ Handles'
    BY <1>4, SelfStep DEF ThreadInv, ThrdTypeOK, Handshake, Handles, Owns,
         JoinedHasEnded, CallSelf
  <2> QED BY <2>1, <2>2 DEF ThreadInv
<1>5. ASSUME NEW t \in AllThreads, ThreadExit(t) PROVE ThreadInv'
  <2>1. ThrdTypeOK' /\ SelfIsOwn'
    BY <1>5 DEF ThreadInv, ThrdTypeOK, SelfIsOwn, ThreadExit, ThrdGoto
  <2>2. Handshake' /\ Handles'
    BY <1>5 DEF ThreadInv, ThrdTypeOK, Handshake, Handles, Owns, JoinedHasEnded,
         ThreadExit, ThrdGoto
  <2> QED BY <2>1, <2>2 DEF ThreadInv
<1>6. ASSUME NEW c \in Children, NEW ok \in BOOLEAN, ThreadNew(c, ok) PROVE ThreadInv'
  <2>1. ThrdTypeOK' /\ SelfIsOwn'
    BY <1>6 DEF ThreadInv, ThrdTypeOK, SelfIsOwn, ThreadNew, ThrdGoto
  <2>2. Handshake' /\ Handles'
    BY <1>6 DEF ThreadInv, ThrdTypeOK, Handshake, Handles, Owns, JoinedHasEnded,
         ThreadNew, ThrdGoto,
                CanCall, InMain
  <2> QED BY <2>1, <2>2 DEF ThreadInv
<1>7. CASE Spin
  BY <1>7 DEF ThreadInv, ThrdTypeOK, SelfIsOwn, Handshake, Handles, Owns,
       JoinedHasEnded, Spin
<1>8. CASE Name
  <2>1. ThrdTypeOK' /\ SelfIsOwn'
    BY <1>8 DEF ThreadInv, ThrdTypeOK, SelfIsOwn, Handshake, Name
  <2>2. Handshake' /\ Handles'
    BY <1>8 DEF ThreadInv, ThrdTypeOK, Handshake, Handles, Owns, JoinedHasEnded, Name
  <2> QED BY <2>1, <2>2 DEF ThreadInv
<1>9. ASSUME NEW c \in Children, ThreadJoin(c) PROVE ThreadInv'
  <2>1. ThrdTypeOK' /\ SelfIsOwn' /\ Handshake'
    BY <1>9 DEF ThreadInv, ThrdTypeOK, SelfIsOwn, Handshake, Owns, ThreadJoin
  <2>2. waited'[c] = c \/ tpc[c] = "ended"
    BY <1>9 DEF ThreadInv, ThrdTypeOK, SelfIsOwn, Handles, Owns, ThreadJoin
  <2>3. Handles'
    BY <1>9, <2>2 DEF ThreadInv, ThrdTypeOK, Handles, Owns, JoinedHasEnded,
         ThreadJoin, CanCall, InMain
  <2> QED BY <2>1, <2>3 DEF ThreadInv
<1>10. CASE JoinReturns
  BY <1>10 DEF ThreadInv, ThrdTypeOK, SelfIsOwn, Handshake, Handles, Owns,
       JoinedHasEnded, JoinReturns
<1>11. CASE UNCHANGED thrdVars
  BY <1>11 DEF ThreadInv, ThrdTypeOK, SelfIsOwn, Handshake, Handles, Owns,
       JoinedHasEnded, thrdVars
<1> QED
  BY <1>1, <1>2, <1>3, <1>4, <1>5, <1>6, <1>7, <1>8, <1>9, <1>10, <1>11
     DEF ThrdNext, ChildStep, NewStep

\* The inductive invariant holds in every state (thread.c:29-102).
THEOREM ThreadInvariance == ThrdSpec => []ThreadInv
<1>1. ThrdInit => ThreadInv
  BY ThreadInitInv
<1>2. ThreadInv /\ [ThrdNext]_thrdVars => ThreadInv'
  BY ThreadNextInv
<1> QED
  BY <1>1, <1>2, PTL DEF ThrdSpec

\* Every variable has its type.
THEOREM ThreadTypeCorrect == ThrdSpec => []ThrdTypeOK
<1> ThreadInv => ThrdTypeOK BY DEF ThreadInv
<1> QED BY ThreadInvariance, PTL

\* A thread_t belongs to one thread, which has not ended (thread.c:29-38, 52-74).
THEOREM ObjectsOwned == ThrdSpec => []SelfIsOwn
<1> ThreadInv => SelfIsOwn BY DEF ThreadInv
<1> QED BY ThreadInvariance, PTL

\* thread.new finds the object of the thread it has created (thread.c:79, 90-96).
THEOREM NewFindsTheNewThread == ThrdSpec => []NewFindsItsOwn
<1> ThreadInv => NewFindsItsOwn BY DEF ThreadInv, Handshake, Owns, NewFindsItsOwn
<1> QED BY ThreadInvariance, PTL

\* The thread that was joined has ended (thread.c:100-102).
THEOREM JoinWaits == ThrdSpec => []JoinedHasEnded
<1> ThreadInv => JoinedHasEnded BY DEF ThreadInv, Handles
<1> QED BY ThreadInvariance, PTL
=============================================================================
