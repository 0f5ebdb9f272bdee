-------------------------- MODULE EventPollProofs ---------------------------
(***************************************************************************)
(* What eventpoll_apply and eventpoll_poll do to an event and to its       *)
(* registration, for any events; used for the loop, the listener and the   *)
(* sockets.                                                                *)
(***************************************************************************)
EXTENDS EventPoll, TLAPS

\* The masks eventpoll_apply computes are epoll masks.
LEMMA NewMaskType == \A mask : NewMask(mask) \in SUBSET EPOLLMASK
BY DEF NewMask, EPOLLMASK, DEFAULT_POLL_MASK

\* eventpoll_apply keeps the types and takes nothing of the wakeup away.
LEMMA ApplyFacts ==
    ASSUME PollTypeOK, NEW e \in Events, NEW fields \in EventFields,
           eventpoll_apply(e, fields)
    PROVE  /\ PollTypeOK'
           /\ wakes' = wakes
           /\ Wake \in edge => Wake \in edge'
<1>1. NewMask(fields.mask) \in SUBSET EPOLLMASK
  BY NewMaskType
<1>2. ev' \in [Events -> EventFields]
  <2> DEFINE nm == NewMask(fields.mask)
  <2>1. [fields EXCEPT !.last_mask = nm] \in EventFields
    <3> HIDE DEF nm
    <3>1. nm \in SUBSET EPOLLMASK
      BY <1>1 DEF nm
    <3> QED
      BY <3>1 DEF EventFields
  <2>2. ev' = [ev EXCEPT ![e] = fields] \/ ev' = [ev EXCEPT ![e] = [fields EXCEPT !.last_mask = nm]]
    BY DEF eventpoll_apply, ApplyFields
  <2> HIDE DEF nm
  <2> QED
    BY <2>1, <2>2 DEF PollTypeOK
<1>3. /\ interest' \in [Events -> SUBSET EPOLLMASK]
      /\ edge' \subseteq Events \union {Wake}
      /\ Wake \in edge => Wake \in edge'
  BY <1>1, EventsAssumption
     DEF PollTypeOK, eventpoll_apply, ApplyFields, CtlDel, CtlMod, CtlAddOrMod
<1>4. wakes' = wakes /\ evt' = evt
  BY DEF eventpoll_apply
<1> QED
  BY <1>2, <1>3, <1>4 DEF PollTypeOK

\* An event that was never applied is not registered, and only a registered one is in
\* the ready list.
Known(e) == ev[e].last_mask = {} => interest[e] = {}
Queued(e) == e \in edge => interest[e] # {}

\* eventpoll_apply with a mask that asks for nothing leaves the event unregistered,
\* whatever was applied and reported before; and it keeps Known and Queued
\* (epoll.c:111-128).
LEMMA ApplyRegisters ==
    ASSUME PollTypeOK, NEW e \in Events, NEW fields \in EventFields,
           fields.last_mask = ev[e].last_mask, Known(e), Queued(e),
           eventpoll_apply(e, fields)
    PROVE  /\ Known(e)' /\ Queued(e)'
           /\ NewMask(fields.mask) = {} => interest'[e] = {}
BY DEF PollTypeOK, EventFields, Known, Queued, eventpoll_apply, ApplyFields, CtlDel,
       CtlAddOrMod, CtlMod

\* eventpoll_apply leaves every other event and its registration as they are, and what
\* epoll_wait has reported (epoll.c:92-130).
LEMMA ApplyOthers ==
    ASSUME PollTypeOK, NEW e \in Events, NEW fields, eventpoll_apply(e, fields),
           NEW d \in Events, d # e
    PROVE  /\ ev'[d] = ev[d] /\ interest'[d] = interest[d]
           /\ d \in edge' <=> d \in edge
           /\ evt' = evt
BY DEF PollTypeOK, eventpoll_apply, ApplyFields, CtlDel, CtlAddOrMod, CtlMod
=============================================================================
