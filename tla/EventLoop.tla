----------------------------- MODULE EventLoop ------------------------------
(***************************************************************************)
(* The event loop (eventloop.c) over its epoll back end: the loop thread,  *)
(* the queue of pending events that other threads hand to it, and the      *)
(* callers that switch dispatching of an event on and off (socket_enable). *)
(*                                                                         *)
(* Steps of the loop thread between two accesses to data that other        *)
(* threads touch are one action; so are eventpoll.apply and a callback's   *)
(* call of socket_.enable, which only the loop thread makes.  What a       *)
(* callback does to its socket's streams is not modelled here.             *)
(***************************************************************************)
EXTENDS EventPoll

CONSTANTS
    Foreign,      \* the threads other than loop->me
    MaxUses,      \* bound: how often each event is enabled or disabled
    CrossCalls,   \* whether a callback may enable or disable other events
    ForeignExit   \* whether other threads may call eventloop.exit

ASSUME LoopAssumption ==
    /\ MaxUses \in Nat
    /\ CrossCalls \in BOOLEAN
    /\ ForeignExit \in BOOLEAN

VARIABLES
    running, pandings, pandings_tail, panding_lock,
    lpc,      \* where the loop thread is
    cur,      \* the event whose callback runs, NULL outside callbacks
    fpc,      \* where each other thread is in socket_enable
    fev,      \* the event it is called for
    enabled,  \* sock->enabled
    uses      \* how often each event was enabled or disabled so far

queueVars == <<pandings, pandings_tail, panding_lock>>
callerVars == <<enabled, uses>>
foreignVars == <<fpc, fev>>
vars == <<pollVars, queueVars, callerVars, foreignVars, running, lpc, cur>>

PandingLock == INSTANCE SpinLock WITH word <- panding_lock

LoopPc == {"setup", "while", "poll", "dispatch", "callback",
           "panding", "drain", "unlock", "done"}
ForeignPc == {"idle", "lock", "push", "unlock", "wakeup"}

\* event.init for every event, then eventloop.init.
Init ==
    /\ ev = [e \in Events |-> event_init]
    /\ eventpoll_new
    /\ pandings = NULL /\ pandings_tail = NULL
    /\ PandingLock!mtx_init
    /\ running = 1
    /\ lpc = "setup" /\ cur = NULL
    /\ fpc = [t \in Foreign |-> "idle"]
    /\ fev = [t \in Foreign |-> NULL]
    /\ enabled = [e \in Events |-> FALSE]
    /\ uses = [e \in Events |-> 0]

-----------------------------------------------------------------------------
(* socket_enable *)

\* The early return, and the assignment of sock->enabled.
SetEnabled(e, enable) ==
    /\ enabled[e] # enable
    /\ uses[e] < MaxUses
    /\ uses' = [uses EXCEPT ![e] = @ + 1]
    /\ enabled' = [enabled EXCEPT ![e] = enable]

\* The fields of the event after the assignment of ev.mask.
Masked(e, enable) ==
    [ev[e] EXCEPT !.mask = IF enable THEN {"READ"} ELSE {}]

\* Called by the loop's own thread, before eventloop.loop or in a callback:
\* eventloop_apply goes straight to eventpoll.apply.
EnableInLoop(e, enable) ==
    /\ \/ lpc = "setup"
       \/ lpc = "callback" /\ (e = cur \/ CrossCalls)
    /\ SetEnabled(e, enable)
    /\ eventpoll_apply(e, Masked(e, enable))
    /\ UNCHANGED <<queueVars, foreignVars, running, lpc, cur>>

\* Called by another thread: eventloop_apply goes on to apply_panding.
EnableElsewhere(t, e, enable) ==
    /\ fpc[t] = "idle"
    /\ SetEnabled(e, enable)
    /\ ev' = [ev EXCEPT ![e] = Masked(e, enable)]
    /\ fpc' = [fpc EXCEPT ![t] = "lock"]
    /\ fev' = [fev EXCEPT ![t] = e]
    /\ UNCHANGED <<interest, edge, wakes, evt, queueVars, running, lpc, cur>>

-----------------------------------------------------------------------------
(* apply_panding and the wakeup after it, in another thread *)

Advance(t, from, to) ==
    /\ fpc[t] = from
    /\ fpc' = [fpc EXCEPT ![t] = to]

\* Seeded fault: apply_panding does not take the lock.
PushLockSkipped(t) ==
    /\ Advance(t, "lock", "push")
    /\ panding_lock' = 1
    /\ UNCHANGED <<pollVars, pandings, pandings_tail, callerVars, fev, running,
                   lpc, cur>>

PushLock(t) ==
    /\ Advance(t, "lock", "push")
    /\ PandingLock!mtx_lock
    /\ UNCHANGED <<pollVars, pandings, pandings_tail, callerVars, fev, running,
                   lpc, cur>>

\* The test is pandings == pandings_tail: a queue of one event counts as empty.
Push(t) ==
    LET e == fev[t]
        single == pandings = pandings_tail
    IN  /\ Advance(t, "push", "unlock")
        /\ pandings' = IF single THEN e ELSE pandings
        /\ pandings_tail' = e
        /\ ev' = IF single THEN ev ELSE [ev EXCEPT ![pandings_tail].next = e]
        /\ UNCHANGED <<interest, edge, wakes, evt, panding_lock, callerVars, fev,
                       running, lpc, cur>>

PushUnlock(t) ==
    /\ Advance(t, "unlock", "wakeup")
    /\ PandingLock!mtx_unlock
    /\ UNCHANGED <<pollVars, pandings, pandings_tail, callerVars, fev, running,
                   lpc, cur>>

Wakeup(t) ==
    /\ Advance(t, "wakeup", "idle")
    /\ fev' = [fev EXCEPT ![t] = NULL]
    /\ eventpoll_wakeup
    /\ UNCHANGED <<queueVars, callerVars, running, lpc, cur>>

-----------------------------------------------------------------------------
(* eventloop_exit *)

ExitInLoop ==
    /\ lpc = "callback"
    /\ running' = 0
    /\ UNCHANGED <<pollVars, queueVars, callerVars, foreignVars, lpc, cur>>

ExitElsewhere(t) ==
    /\ ForeignExit
    /\ fpc[t] = "idle"
    /\ running' = 0
    /\ UNCHANGED <<pollVars, queueVars, callerVars, foreignVars, lpc, cur>>

-----------------------------------------------------------------------------
(* eventloop_loop, with eventpoll_poll, _dispatch and panding *)

LoopGoto(from, to) == lpc = from /\ lpc' = to

StartLoop ==
    /\ LoopGoto("setup", "while")
    /\ UNCHANGED <<pollVars, queueVars, callerVars, foreignVars, running, cur>>

\* while (SYNC_GET(loop->running))
While ==
    /\ LoopGoto("while", IF running = 1 THEN "poll" ELSE "done")
    /\ UNCHANGED <<pollVars, queueVars, callerVars, foreignVars, running, cur>>

Poll ==
    /\ LoopGoto("poll", "dispatch")
    /\ \E items \in SUBSET (Events \union {Wake}) : epoll_wait(items)
    /\ UNCHANGED <<queueVars, callerVars, foreignVars, running, cur>>

\* epoll_wait is interrupted by a signal: nothing to dispatch.
PollError ==
    /\ LoopGoto("poll", "panding")
    /\ UNCHANGED <<pollVars, queueVars, callerVars, foreignVars, running, cur>>

DispatchWake ==
    /\ lpc = "dispatch"
    /\ evt[Wake] # {}
    /\ wake_cb
    /\ UNCHANGED <<queueVars, callerVars, foreignVars, running, lpc, cur>>

Dispatch(e) ==
    /\ evt[e] # {}
    /\ LoopGoto("dispatch", "callback")
    /\ StampEvent(e)
    /\ cur' = e
    /\ UNCHANGED <<queueVars, callerVars, foreignVars, running>>

Return ==
    /\ LoopGoto("callback", "dispatch")
    /\ cur' = NULL
    /\ UNCHANGED <<pollVars, queueVars, callerVars, foreignVars, running>>

\* Seeded fault: the loop polls again without looking at the pending events.
PollDoneNoPanding ==
    /\ LoopGoto("dispatch", "while")
    /\ \A e \in Events \union {Wake} : evt[e] = {}
    /\ UNCHANGED <<pollVars, queueVars, callerVars, foreignVars, running, cur>>

PollDone ==
    /\ LoopGoto("dispatch", "panding")
    /\ \A e \in Events \union {Wake} : evt[e] = {}
    /\ UNCHANGED <<pollVars, queueVars, callerVars, foreignVars, running, cur>>

DrainLock ==
    /\ LoopGoto("panding", "drain")
    /\ PandingLock!mtx_lock
    /\ UNCHANGED <<pollVars, pandings, pandings_tail, callerVars, foreignVars,
                   running, cur>>

Drain ==
    /\ lpc = "drain"
    /\ pandings # NULL
    /\ pandings' = ev[pandings].next
    /\ eventpoll_apply(pandings, ev[pandings])
    /\ UNCHANGED <<pandings_tail, panding_lock, callerVars, foreignVars, running,
                   lpc, cur>>

DrainDone ==
    /\ LoopGoto("drain", "unlock")
    /\ pandings = NULL
    /\ pandings_tail' = NULL
    /\ UNCHANGED <<pollVars, pandings, panding_lock, callerVars, foreignVars,
                   running, cur>>

\* Seeded fault: panding returns with the lock taken.
DrainUnlockForgotten ==
    /\ LoopGoto("unlock", "while")
    /\ UNCHANGED <<pollVars, queueVars, callerVars, foreignVars, running, cur>>

DrainUnlock ==
    /\ LoopGoto("unlock", "while")
    /\ PandingLock!mtx_unlock
    /\ UNCHANGED <<pollVars, pandings, pandings_tail, callerVars, foreignVars,
                   running, cur>>

-----------------------------------------------------------------------------
LoopStep ==
    \/ While \/ Poll \/ PollError \/ DispatchWake \/ Return \/ PollDone
    \/ DrainLock \/ Drain \/ DrainDone \/ DrainUnlock
    \/ \E e \in Events : Dispatch(e)

ForeignStep(t) == PushLock(t) \/ Push(t) \/ PushUnlock(t) \/ Wakeup(t)

Ready(e) ==
    /\ KernelReady(e)
    /\ UNCHANGED <<queueVars, callerVars, foreignVars, running, lpc, cur>>

Next ==
    \/ StartLoop \/ LoopStep \/ ExitInLoop
    \/ \E t \in Foreign : ForeignStep(t) \/ ExitElsewhere(t)
    \/ \E e \in Events : Ready(e)
    \/ \E e \in Events, enable \in BOOLEAN :
         \/ EnableInLoop(e, enable)
         \/ \E t \in Foreign : EnableElsewhere(t, e, enable)

Spec == Init /\ [][Next]_vars

\* Threads that can run do run; the owner enters the loop once it is set up.
\* epoll_wait need not fail, callers need not call, descriptors need not become
\* ready, and a caller spinning for the lock need not find it free.
Fairness ==
    /\ WF_vars(StartLoop \/ (LoopStep /\ ~PollError))
    /\ \A t \in Foreign : WF_vars(ForeignStep(t))

FairSpec == Spec /\ Fairness

-----------------------------------------------------------------------------
(* Properties *)

TypeOK ==
    /\ PollTypeOK
    /\ pandings \in Events \union {NULL}
    /\ pandings_tail \in Events \union {NULL}
    /\ panding_lock \in {0, 1}
    /\ running \in {0, 1}
    /\ lpc \in LoopPc
    /\ cur \in Events \union {NULL}
    /\ fpc \in [Foreign -> ForeignPc]
    /\ fev \in [Foreign -> Events \union {NULL}]
    /\ enabled \in [Events -> BOOLEAN]
    /\ uses \in [Events -> Nat]

LoopInside == lpc \in {"drain", "unlock"}
Inside(t) == fpc[t] \in {"push", "unlock"}

\* The list of pending events is touched by one thread at a time: the loop
\* inside panding and a caller inside apply_panding exclude each other, and two
\* callers do (panding_lock, eventloop.c:41-50 and 65-75).
QueueGuarded ==
    /\ \A t \in Foreign : ~(LoopInside /\ Inside(t))
    /\ \A t, u \in Foreign : Inside(t) /\ Inside(u) => t = u

\* The loop never sleeps over a pending event: when it is about to block in
\* epoll_wait with the list not empty, the eventfd is readable and queued, or a
\* caller that has not yet written to it is still on its way from apply_panding
\* to eventpoll.wakeup (eventloop.c:57-58, 81-87).
NoLostWakeup ==
    lpc = "poll" /\ pandings # NULL =>
        \/ Wake \in edge /\ wakes > 0
        \/ \E t \in Foreign : fpc[t] \in {"unlock", "wakeup"}

\* What is in the list is taken out of it, unless the loop has ended
\* (eventloop.c:64-76, reached after every poll).
QueueDrains == pandings # NULL ~> pandings = NULL \/ lpc = "done"

\* A call of eventloop.exit, from whatever thread, that takes place while a callback
\* runs ends the loop: the rest of the batch is dispatched, the pending events are
\* applied, and loop->running is read as 0 (eventloop.c:80, 92-94).
ExitStops == running = 0 /\ lpc = "callback" ~> lpc = "done"

\* A disabled event is not registered with epoll, so nothing new is reported for
\* it (epoll.c:114-118), when only the loop's thread enables and disables.
DisabledIsOff == \A e \in Events : ~enabled[e] => interest[e] = {}

\* An enabled event is registered whenever the loop waits (socket.c:67-78).
EnabledIsOn ==
    lpc = "poll" => \A e \in Events : enabled[e] => interest[e] # {}

\* The callback of a disabled event is not called (eventloop.c:6-10).
NoCallbackWhenDisabled == [][\A e \in Events : Dispatch(e) => enabled[e]]_vars

Settled(e) == \A t \in Foreign : fev[t] # e

\* Once socket_.enable(sock, 1) has returned to its caller, in whatever thread,
\* the event gets registered, unless it is disabled again or the loop ends first
\* (socket.c:67-78 through eventloop.c:57-58).
EnableTakesEffect ==
    \A e \in Events :
        enabled[e] /\ Settled(e)
            ~> interest[e] # {} \/ ~enabled[e] \/ lpc = "done"

\* Once socket_.enable(sock, 0) has returned to its caller, in whatever thread,
\* the event leaves the interest list, unless it is enabled again or the loop
\* ends first (socket.c:67-78 through eventloop.c:57-58).
DisableTakesEffect ==
    \A e \in Events :
        ~enabled[e] /\ Settled(e)
            ~> interest[e] = {} \/ enabled[e] \/ lpc = "done"
=============================================================================
