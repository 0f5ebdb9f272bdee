----------------------------- MODULE EventPoll ------------------------------
(***************************************************************************)
(* The epoll back end of the event loop (epoll.c) with the kernel objects  *)
(* it drives: the interest list of the epoll descriptor, its ready list,   *)
(* and the eventfd that wakes the loop.                                    *)
(*                                                                         *)
(* Masks are sets of flags; the empty set is 0.  Every registration is     *)
(* edge-triggered, so an item enters the ready list when its descriptor    *)
(* becomes ready (or is found ready by epoll_ctl) and leaves it when       *)
(* epoll_wait returns it.                                                  *)
(***************************************************************************)
EXTENDS Naturals, FiniteSets

CONSTANTS
    Events,         \* the event_t objects of the sockets and listeners
    Wake,           \* poll->wakev
    NULL,           \* the null pointer
    MAX_POLL_EVENT  \* how many items one epoll_wait can return

ASSUME EventsAssumption ==
    /\ Wake \notin Events
    /\ NULL \notin Events
    /\ NULL # Wake
    /\ MAX_POLL_EVENT \in Nat \ {0}

VARIABLES
    ev,        \* the fields of each event_t that the loop reads or writes
    interest,  \* the epoll mask each event is registered with, {} if it is not
    edge,      \* the ready list
    wakes,     \* the counter of the eventfd
    evt        \* eventpoll_poll's local array: the mask each item still to be
               \* dispatched was reported with, {} for the others

pollVars == <<ev, interest, edge, wakes, evt>>

EVMASK == {"READ", "WRITE", "ERROR"}
DEFAULT_POLL_MASK == {"EPOLLHUP", "EPOLLERR", "EPOLLET"}
EPOLLMASK == {"EPOLLIN", "EPOLLOUT"} \union DEFAULT_POLL_MASK

EventFields ==
    [mask : SUBSET EVMASK, last_mask : SUBSET EPOLLMASK, next : Events \union {NULL}]

\* event.init(ev, fd, EVMASK_NONE, cb, ud)
event_init == [mask |-> {}, last_mask |-> {}, next |-> NULL]

\* eventpoll.new: the descriptors exist and wakev is registered for reading.
eventpoll_new ==
    /\ interest = [e \in Events |-> {}]
    /\ edge = {}
    /\ wakes = 0
    /\ evt = [e \in Events \union {Wake} |-> {}]

-----------------------------------------------------------------------------
(* eventpoll.apply *)

\* The switch on ev->mask & (EVMASK_READ | EVMASK_WRITE).
NewMask(mask) ==
    LET io == (IF "READ" \in mask THEN {"EPOLLIN"} ELSE {})
                \union (IF "WRITE" \in mask THEN {"EPOLLOUT"} ELSE {})
    IN  IF io = {} THEN {} ELSE io \union DEFAULT_POLL_MASK

\* epoll_ctl(DEL); that the event was not registered (ENOENT) is no error.
CtlDel(e) ==
    /\ interest' = [interest EXCEPT ![e] = {}]
    /\ edge' = edge \ {e}

\* epoll_ctl(MOD) of an event that is registered.  The kernel looks at the
\* descriptor and queues the item if it is ready.
CtlMod(e, newmask) ==
    /\ interest' = [interest EXCEPT ![e] = newmask]
    /\ edge' \in {edge, edge \union {e}}

\* op is MOD if last_mask says the event was applied before and ADD otherwise.
\* ADD of a registered descriptor (EEXIST) is repeated as a MOD; MOD of one
\* that is not registered fails (ENOENT) and changes nothing.
CtlAddOrMod(e, fields, newmask) ==
    IF fields.last_mask # {} /\ interest[e] = {}
    THEN UNCHANGED <<interest, edge>>
    ELSE CtlMod(e, newmask)

\* Seeded fault: a mask of 0 is taken for "nothing to do".
ApplyIgnoresNone(e, fields) ==
    LET newmask == NewMask(fields.mask)
    IN  IF newmask = fields.last_mask \/ newmask = {}
        THEN ev' = [ev EXCEPT ![e] = fields] /\ UNCHANGED <<interest, edge>>
        ELSE /\ ev' = [ev EXCEPT ![e] = [fields EXCEPT !.last_mask = newmask]]
             /\ CtlAddOrMod(e, fields, newmask)

\* eventpoll_apply on an event whose fields are these; last_mask is stored for
\* ADD and MOD and left alone by DEL.
ApplyFields(e, fields) ==
    LET newmask == NewMask(fields.mask)
    IN  IF newmask = fields.last_mask
        THEN ev' = [ev EXCEPT ![e] = fields] /\ UNCHANGED <<interest, edge>>
        ELSE IF newmask = {}
        THEN ev' = [ev EXCEPT ![e] = fields] /\ CtlDel(e)
        ELSE /\ ev' = [ev EXCEPT ![e] = [fields EXCEPT !.last_mask = newmask]]
             /\ CtlAddOrMod(e, fields, newmask)

eventpoll_apply(e, fields) == ApplyFields(e, fields) /\ UNCHANGED <<wakes, evt>>

-----------------------------------------------------------------------------
(* eventpoll.wakeup, eventpoll.poll and wake_cb *)

\* Seeded fault: the eventfd is not written.
WakeupLost == UNCHANGED pollVars

\* write(poll->wakev.fd, &one, 8): every write queues the item again.
eventpoll_wakeup ==
    /\ wakes' = wakes + 1
    /\ edge' = edge \union {Wake}
    /\ UNCHANGED <<ev, interest, evt>>

\* The items epoll_wait can return: queued, and still ready when looked at.
Deliverable ==
    {e \in edge \ {Wake} : interest[e] # {}}
        \union (IF wakes > 0 THEN edge \intersect {Wake} ELSE {})

\* The switch on evt[i].events: EVMASK_ERROR when EPOLLERR or EPOLLHUP is in it,
\* which the kernel reports whatever was asked for; otherwise the directions
\* asked for that are ready.
Reported(e) ==
    LET asked == IF e = Wake THEN {"READ"}
                 ELSE (IF "EPOLLIN" \in interest[e] THEN {"READ"} ELSE {})
                        \union (IF "EPOLLOUT" \in interest[e] THEN {"WRITE"} ELSE {})
    IN  {{"ERROR"}} \union (SUBSET asked \ {{}})

\* epoll_wait fills evt with at most MAX_POLL_EVENT items; the rest stay queued.
epoll_wait(items) ==
    /\ items # {}
    /\ items \subseteq Deliverable
    /\ IF Cardinality(Deliverable) <= MAX_POLL_EVENT
       THEN items = Deliverable
       ELSE Cardinality(items) = MAX_POLL_EVENT
    /\ evt' \in [Events \union {Wake} -> SUBSET EVMASK]
    /\ \A e \in Events \union {Wake} :
         IF e \in items THEN evt'[e] \in Reported(e) ELSE evt'[e] = {}
    /\ edge' = edge \ items
    /\ UNCHANGED <<ev, interest, wakes>>

\* One turn of the loop over evt, up to the call of poll->disp: the event is
\* overwritten with what epoll_wait reported for it.
StampEvent(e) ==
    /\ ev' = [ev EXCEPT ![e] =
               [@ EXCEPT !.mask = evt[e], !.last_mask = DEFAULT_POLL_MASK]]
    /\ evt' = [evt EXCEPT ![e] = {}]
    /\ UNCHANGED <<interest, edge, wakes>>

\* wake_cb: the read of the eventfd takes the whole counter.
wake_cb ==
    /\ wakes' = 0
    /\ evt' = [evt EXCEPT ![Wake] = {}]
    /\ UNCHANGED <<ev, interest, edge>>

\* A registered descriptor becomes ready.
KernelReady(e) ==
    /\ interest[e] # {}
    /\ e \notin edge
    /\ edge' = edge \union {e}
    /\ UNCHANGED <<ev, interest, wakes, evt>>

PollTypeOK ==
    /\ ev \in [Events -> EventFields]
    /\ interest \in [Events -> SUBSET EPOLLMASK]
    /\ edge \subseteq Events \union {Wake}
    /\ wakes \in Nat
    /\ evt \in [Events \union {Wake} -> SUBSET EVMASK]
=============================================================================
