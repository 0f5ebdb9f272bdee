-------------------------- MODULE EventLoopProofs ---------------------------
(***************************************************************************)
(* For every set of events and threads and every bound: the pending list   *)
(* is touched by one thread at a time, and the loop does not go to sleep   *)
(* over a pending event.                                                   *)
(***************************************************************************)
EXTENDS EventLoop, EventPollProofs

\* A thread inside the critical section holds the lock.
LockHeld ==
    panding_lock = 0 => ~LoopInside /\ \A t \in Foreign : ~Inside(t)

\* A caller that has queued its event and not yet written to the eventfd, or a
\* write that the loop has not read yet.
WakeOnItsWay ==
    \/ Wake \in edge /\ wakes > 0
    \/ \E t \in Foreign : fpc[t] \in {"unlock", "wakeup"}

\* NoLostWakeup extended to the steps that lead to epoll_wait: nothing between
\* the release of the lock and epoll_wait reads the eventfd.
WakeInv ==
    lpc \in {"setup", "unlock", "while", "poll"} /\ pandings # NULL => WakeOnItsWay

IInv == TypeOK /\ LockHeld /\ QueueGuarded /\ WakeInv

-----------------------------------------------------------------------------
LEMMA InitIInv == Init => IInv
<1> SUFFICES ASSUME Init PROVE IInv
  OBVIOUS
<1>1. event_init \in EventFields
  BY DEF event_init, EventFields
<1>2. TypeOK
  BY <1>1 DEF Init, TypeOK, PollTypeOK, eventpoll_new, PandingLock!mtx_init, LoopPc, ForeignPc
<1> QED
  BY <1>2 DEF Init, IInv, LockHeld, QueueGuarded, WakeInv, LoopInside, Inside

-----------------------------------------------------------------------------
\* Type correctness.
LEMMA StepTypeOK == TypeOK /\ [Next]_vars => TypeOK'
<1> SUFFICES ASSUME TypeOK, [Next]_vars PROVE TypeOK'
  OBVIOUS
<1> USE EventsAssumption DEF TypeOK, LoopPc, ForeignPc
<1>1. CASE StartLoop \/ While \/ PollError \/ Return \/ PollDone \/ ExitInLoop
  BY <1>1 DEF StartLoop, While, PollError, Return, PollDone, ExitInLoop, LoopGoto,
      pollVars, queueVars, callerVars, foreignVars, PollTypeOK
<1>2. CASE DrainLock \/ DrainDone \/ DrainUnlock
  BY <1>2 DEF DrainLock, DrainDone, DrainUnlock, LoopGoto, pollVars, callerVars, foreignVars,
      PandingLock!mtx_lock, PandingLock!mtx_unlock, PollTypeOK
<1>3. CASE Poll
  BY <1>3 DEF Poll, epoll_wait, LoopGoto, queueVars, callerVars, foreignVars, PollTypeOK
<1>4. CASE DispatchWake
  BY <1>4 DEF DispatchWake, wake_cb, queueVars, callerVars, foreignVars, PollTypeOK
<1>5. ASSUME NEW e \in Events, Dispatch(e) PROVE TypeOK'
  <2>1. ev' \in [Events -> EventFields]
    <3>1. DEFAULT_POLL_MASK \in SUBSET EPOLLMASK
      BY DEF DEFAULT_POLL_MASK, EPOLLMASK
    <3>2. [ev[e] EXCEPT !.mask = evt[e], !.last_mask = DEFAULT_POLL_MASK] \in EventFields
      <4>1. ev[e] \in EventFields /\ evt[e] \in SUBSET EVMASK
        BY DEF PollTypeOK
      <4>2. \A r \in EventFields, m \in SUBSET EVMASK, l \in SUBSET EPOLLMASK :
              [r EXCEPT !.mask = m, !.last_mask = l] \in EventFields
        BY DEF EventFields
      <4> QED
        BY <3>1, <4>1, <4>2
    <3> QED
      BY <1>5, <3>2 DEF Dispatch, StampEvent, PollTypeOK
  <2> QED
    BY <1>5, <2>1 DEF Dispatch, StampEvent, LoopGoto, queueVars, callerVars, foreignVars, PollTypeOK
<1>6. CASE Drain
  <2>1. ev[pandings] \in EventFields /\ pandings \in Events
    BY <1>6 DEF Drain, PollTypeOK
  <2>2. PollTypeOK'
    BY <1>6, <2>1, ApplyFacts DEF Drain
  <2>3. pandings' \in Events \union {NULL}
    BY <1>6, <2>1 DEF Drain, EventFields
  <2> QED
    BY <1>6, <2>2, <2>3 DEF Drain, callerVars, foreignVars
<1>7. ASSUME NEW t \in Foreign, ForeignStep(t) \/ ExitElsewhere(t) PROVE TypeOK'
  <2>1. CASE Push(t)
    <3>1. ev' \in [Events -> EventFields]
      <4>1. fev[t] \in Events \union {NULL} /\ ev \in [Events -> EventFields]
        BY <1>7 DEF PollTypeOK
      <4>2. \A r \in EventFields, n \in Events \union {NULL} :
              [r EXCEPT !.next = n] \in EventFields
        BY DEF EventFields
      <4>3. \/ ev' = ev
            \/ ev' = [ev EXCEPT ![pandings_tail] = [ev[pandings_tail] EXCEPT !.next = fev[t]]]
        BY <2>1 DEF Push
      <4> QED
        BY <4>1, <4>2, <4>3
    <3> QED
      BY <1>7, <2>1, <3>1 DEF Push, Advance, callerVars, PollTypeOK
  <2>2. CASE PushLock(t) \/ PushUnlock(t) \/ ExitElsewhere(t)
    BY <1>7, <2>2 DEF PushLock, PushUnlock, ExitElsewhere, Advance, pollVars, queueVars, callerVars,
        foreignVars, PandingLock!mtx_lock, PandingLock!mtx_unlock, PollTypeOK
  <2>3. CASE Wakeup(t)
    BY <1>7, <2>3 DEF Wakeup, eventpoll_wakeup, Advance, queueVars, callerVars, PollTypeOK
  <2> QED
    BY <1>7, <2>1, <2>2, <2>3 DEF ForeignStep
<1>8. ASSUME NEW e \in Events, Ready(e) PROVE TypeOK'
  BY <1>8 DEF Ready, KernelReady, queueVars, callerVars, foreignVars, PollTypeOK
<1>9. ASSUME NEW e \in Events, NEW enable \in BOOLEAN PROVE Masked(e, enable) \in EventFields
  BY DEF Masked, PollTypeOK, EventFields, EVMASK
<1>10. ASSUME NEW e \in Events, NEW enable \in BOOLEAN, SetEnabled(e, enable)
       PROVE  enabled' \in [Events -> BOOLEAN] /\ uses' \in [Events -> Nat]
  BY <1>10 DEF SetEnabled
<1>11. ASSUME NEW e \in Events, NEW enable \in BOOLEAN, EnableInLoop(e, enable) PROVE TypeOK'
  <2>1. PollTypeOK'
    BY <1>9, <1>11, ApplyFacts DEF EnableInLoop
  <2> QED
    BY <1>10, <1>11, <2>1 DEF EnableInLoop, queueVars, foreignVars
<1>12. ASSUME NEW e \in Events, NEW enable \in BOOLEAN, NEW t \in Foreign,
              EnableElsewhere(t, e, enable)
       PROVE  TypeOK'
  <2>1. ev' \in [Events -> EventFields]
    BY <1>9, <1>12 DEF EnableElsewhere, PollTypeOK
  <2> QED
    BY <1>10, <1>12, <2>1 DEF EnableElsewhere, queueVars, PollTypeOK
<1>13. CASE UNCHANGED vars
  BY <1>13 DEF vars, pollVars, queueVars, callerVars, foreignVars, PollTypeOK
<1> QED
  BY <1>1, <1>2, <1>3, <1>4, <1>5, <1>6, <1>7, <1>8, <1>11, <1>12, <1>13 DEF Next, LoopStep

-----------------------------------------------------------------------------
\* The lock: one case per action that takes it, releases it or moves a thread.
LEMMA StepLock ==
    TypeOK /\ LockHeld /\ QueueGuarded /\ [Next]_vars => LockHeld' /\ QueueGuarded'
<1> SUFFICES ASSUME TypeOK, LockHeld, QueueGuarded, [Next]_vars
             PROVE  LockHeld' /\ QueueGuarded'
  OBVIOUS
<1> USE DEF LockHeld, QueueGuarded, LoopInside, Inside
<1>1. CASE DrainLock
  BY <1>1 DEF DrainLock, LoopGoto, PandingLock!mtx_lock, foreignVars
<1>2. CASE DrainUnlock
  BY <1>2 DEF DrainUnlock, LoopGoto, PandingLock!mtx_unlock, foreignVars
<1>3. CASE DrainDone
  BY <1>3 DEF DrainDone, LoopGoto, foreignVars
<1>4. ASSUME NEW t \in Foreign, PushLock(t) PROVE LockHeld' /\ QueueGuarded'
  BY <1>4 DEF PushLock, Advance, PandingLock!mtx_lock, TypeOK
<1>5. ASSUME NEW t \in Foreign, PushUnlock(t) PROVE LockHeld' /\ QueueGuarded'
  BY <1>5 DEF PushUnlock, Advance, PandingLock!mtx_unlock, TypeOK
<1>6. ASSUME NEW t \in Foreign, Push(t) PROVE LockHeld' /\ QueueGuarded'
  BY <1>6 DEF Push, Advance, TypeOK
<1>7. ASSUME NEW t \in Foreign, Wakeup(t) PROVE LockHeld' /\ QueueGuarded'
  BY <1>7 DEF Wakeup, Advance, queueVars, TypeOK
<1>8. ASSUME NEW t \in Foreign, NEW e \in Events, NEW enable \in BOOLEAN,
             EnableElsewhere(t, e, enable)
      PROVE  LockHeld' /\ QueueGuarded'
  BY <1>8 DEF EnableElsewhere, queueVars, TypeOK
<1>9. ASSUME UNCHANGED <<panding_lock, fpc, lpc>> PROVE LockHeld' /\ QueueGuarded'
  BY <1>9
<1>10. CASE ExitInLoop \/ DispatchWake \/ Drain \/ UNCHANGED vars
  BY <1>9, <1>10 DEF ExitInLoop, DispatchWake, Drain, vars, queueVars, foreignVars
<1>11. ASSUME NEW e \in Events, NEW enable \in BOOLEAN, EnableInLoop(e, enable)
       PROVE  LockHeld' /\ QueueGuarded'
  BY <1>9, <1>11 DEF EnableInLoop, queueVars, foreignVars
<1>12. ASSUME NEW t \in Foreign, ExitElsewhere(t) PROVE LockHeld' /\ QueueGuarded'
  BY <1>9, <1>12 DEF ExitElsewhere, queueVars, foreignVars
<1>13. CASE StartLoop \/ While \/ Poll \/ PollError \/ Return \/ PollDone
  BY <1>13 DEF StartLoop, While, Poll, PollError, Return, PollDone, LoopGoto, queueVars, foreignVars
<1>14. ASSUME NEW e \in Events, Dispatch(e) PROVE LockHeld' /\ QueueGuarded'
  BY <1>14 DEF Dispatch, LoopGoto, queueVars, foreignVars
<1>15. ASSUME NEW e \in Events, Ready(e) PROVE LockHeld' /\ QueueGuarded'
  BY <1>9, <1>15 DEF Ready, queueVars, foreignVars
<1> QED
  BY <1>1, <1>2, <1>3, <1>4, <1>5, <1>6, <1>7, <1>8, <1>10, <1>11, <1>12, <1>13, <1>14, <1>15
     DEF Next, LoopStep, ForeignStep

\* The wakeup: callers announce what they push, and between the release of the
\* lock and epoll_wait the loop takes nothing of the announcement away.
LEMMA StepWake == IInv /\ [Next]_vars => WakeInv'
<1> SUFFICES ASSUME IInv, [Next]_vars PROVE WakeInv'
  OBVIOUS
<1> USE DEF IInv, WakeInv, WakeOnItsWay
<1>1. ASSUME NEW t \in Foreign, PushLock(t) PROVE WakeInv'
  BY <1>1 DEF PushLock, Advance, pollVars, TypeOK
<1>2. ASSUME NEW t \in Foreign, Push(t) PROVE WakeInv'
  BY <1>2 DEF Push, Advance, TypeOK
<1>3. ASSUME NEW t \in Foreign, PushUnlock(t) PROVE WakeInv'
  BY <1>3 DEF PushUnlock, Advance, pollVars, TypeOK
<1>4. ASSUME NEW t \in Foreign, Wakeup(t) PROVE WakeInv'
  BY <1>4 DEF Wakeup, eventpoll_wakeup, TypeOK, PollTypeOK
<1>5. ASSUME NEW t \in Foreign, ExitElsewhere(t) PROVE WakeInv'
  BY <1>5 DEF ExitElsewhere, pollVars, queueVars, foreignVars
<1>6. ASSUME NEW t \in Foreign, NEW e \in Events, NEW enable \in BOOLEAN,
             EnableElsewhere(t, e, enable)
      PROVE  WakeInv'
  BY <1>6 DEF EnableElsewhere, queueVars, TypeOK
<1>7. ASSUME NEW e \in Events, NEW enable \in BOOLEAN, EnableInLoop(e, enable) PROVE WakeInv'
  <2>1. Masked(e, enable) \in EventFields
    BY DEF Masked, TypeOK, PollTypeOK, EventFields, EVMASK
  <2>2. wakes' = wakes /\ (Wake \in edge => Wake \in edge')
    BY <1>7, <2>1, ApplyFacts DEF EnableInLoop, TypeOK
  <2> QED
    BY <1>7, <2>2 DEF EnableInLoop, queueVars, foreignVars
<1>8. ASSUME NEW e \in Events, Ready(e) PROVE WakeInv'
  BY <1>8 DEF Ready, KernelReady, queueVars, foreignVars
<1>9. CASE StartLoop \/ While \/ PollError \/ PollDone \/ Return \/ ExitInLoop
  BY <1>9 DEF StartLoop, While, PollError, PollDone, Return, ExitInLoop, LoopGoto, pollVars,
      queueVars, foreignVars
<1>10. CASE Poll \/ DispatchWake \/ DrainLock \/ Drain
  BY <1>10 DEF Poll, DispatchWake, DrainLock, Drain, LoopGoto
<1>11. CASE DrainDone
  BY <1>11 DEF DrainDone
<1>12. CASE DrainUnlock
  BY <1>12 DEF DrainUnlock, LoopGoto, pollVars, foreignVars
<1>13. ASSUME NEW e \in Events, Dispatch(e) PROVE WakeInv'
  BY <1>13 DEF Dispatch, LoopGoto
<1>14. CASE UNCHANGED vars
  BY <1>14 DEF vars, pollVars, queueVars, foreignVars
<1> QED
  BY <1>1, <1>2, <1>3, <1>4, <1>5, <1>6, <1>7, <1>8, <1>9, <1>10, <1>11, <1>12, <1>13, <1>14
     DEF Next, LoopStep, ForeignStep

-----------------------------------------------------------------------------
\* The inductive invariant of the loop and the threads that call into it.
THEOREM Invariance == Spec => []IInv
<1>1. IInv /\ [Next]_vars => IInv'
  BY StepTypeOK, StepLock, StepWake DEF IInv
<1> QED
  BY <1>1, InitIInv, PTL DEF Spec

\* panding and apply_panding exclude each other, whatever the number of threads.
THEOREM PandingsGuarded == Spec => []QueueGuarded
<1>1. IInv => QueueGuarded
  BY DEF IInv
<1> QED
  BY <1>1, Invariance, PTL

\* The loop never blocks in epoll_wait over a pending event that no wakeup,
\* written or about to be written, announces.
THEOREM WakeupNotLost == Spec => []NoLostWakeup
<1>1. IInv => NoLostWakeup
  BY DEF IInv, WakeInv, WakeOnItsWay, NoLostWakeup
<1> QED
  BY <1>1, Invariance, PTL

\* Every variable of the loop has its type.
THEOREM TypeCorrect == Spec => []TypeOK
<1>1. IInv => TypeOK
  BY DEF IInv
<1> QED
  BY <1>1, Invariance, PTL
=============================================================================
