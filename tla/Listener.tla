------------------------------ MODULE Listener ------------------------------
(***************************************************************************)
(* A listener (listener.c) on an event loop of its own thread: bind and    *)
(* enable, called by the set-up code or by the acceptor, and the dispatch  *)
(* that accepts a connection.  The kernel keeps the connections that wait  *)
(* to be accepted.                                                         *)
(***************************************************************************)
EXTENDS EventPoll

CONSTANTS
    L,                \* lstn->ev
    Addrs, UnixAddrs, \* the addresses callers bind to, those of family AF_UNIX
    Backlogs,         \* the positive backlogs callers set
    DefaultBacklogs,  \* SOMAXCONN, and the number in /proc
    Disabling,        \* whether callers disable the listener
    Failures,         \* whether socket, listen and accept may fail
    MaxConns,         \* bound: how many connections arrive
    MaxWaiting        \* bound: how many of them wait at the same time

ASSUME ListenerAssumption ==
    /\ L \in Events
    /\ UnixAddrs \subseteq Addrs /\ NULL \notin Addrs
    /\ Backlogs \subseteq Nat \ {0}
    /\ DefaultBacklogs \subseteq Nat \ {0} /\ DefaultBacklogs # {}
    /\ Disabling \in BOOLEAN /\ Failures \in BOOLEAN
    /\ MaxConns \in Nat /\ MaxWaiting \in Nat

VARIABLES
    fd,         \* whether lstn->ev.fd is a socket
    addr, enabled, listening, backlog,   \* the fields of listener_t
    bound,      \* kernel: the address the socket is bound to
    limit,      \* kernel: the backlog given to listen(2)
    waiting,    \* kernel: how many connections wait to be accepted
    arrived,    \* history: how many connections arrived
    handed,     \* history: how many were handed to the acceptor
    closed,     \* history: how many were accepted and closed again
    result,     \* the last call that returned, and whether with 0
    lpc         \* where the loop's thread is

kernel == <<bound, limit, waiting, arrived>>
fields == <<fd, addr, enabled, listening, backlog>>
tally == <<handed, closed>>
vars == <<pollVars, fields, kernel, tally, result, lpc>>

\* listener.new, with listener_set_backlog(lstn, 0).
Init ==
    /\ ev = [e \in Events |-> [event_init EXCEPT !.mask = {"READ"}]]
    /\ eventpoll_new
    /\ fd = FALSE /\ addr = NULL /\ enabled = FALSE /\ listening = FALSE
    /\ backlog \in DefaultBacklogs
    /\ bound = NULL /\ limit = 0 /\ waiting = 0 /\ arrived = 0
    /\ handed = 0 /\ closed = 0
    /\ result = [op |-> "new", ok |-> TRUE]
    /\ lpc = "setup"

\* The user's code runs before the loop and inside the acceptor.
UserCode == lpc \in {"setup", "acceptor"}
Returns(op, ok) == UserCode /\ result' = [op |-> op, ok |-> ok]

-----------------------------------------------------------------------------
(* listener.set_backlog and listener.bind *)

listener_set_backlog(n) ==
    /\ UserCode
    /\ backlog' \in IF n > 0 THEN {n} ELSE DefaultBacklogs
    /\ UNCHANGED <<pollVars, fd, addr, enabled, listening, kernel, tally, result, lpc>>

\* socket_.for_addr fails.
BindNoSocket ==
    /\ Failures /\ ~fd
    /\ Returns("bind", FALSE)
    /\ UNCHANGED <<pollVars, fields, kernel, tally, lpc>>

\* bind(2) may succeed; a socket that is bound, or was given an address by
\* listen(2), has EINVAL.
Unbound == bound = NULL /\ ~listening

\* The first bind(2) succeeds.
BindFirst(a) ==
    /\ Unbound
    /\ fd' = TRUE /\ bound' = a /\ addr' = a
    /\ Returns("bind", TRUE)
    /\ UNCHANGED <<pollVars, enabled, listening, backlog, limit, waiting, arrived,
                   tally, lpc>>

\* EADDRINUSE for a unix socket: the path is unlinked, the second bind(2)
\* succeeds.  lstn->addr is not assigned on this path.
BindSecond(a) ==
    /\ Unbound
    /\ a \in UnixAddrs
    /\ fd' = TRUE /\ bound' = a
    /\ Returns("bind", TRUE)
    /\ UNCHANGED <<pollVars, addr, enabled, listening, backlog, limit, waiting,
                   arrived, tally, lpc>>

BindFails ==
    /\ Failures \/ ~Unbound
    /\ fd' = TRUE
    /\ Returns("bind", FALSE)
    /\ UNCHANGED <<pollVars, addr, enabled, listening, backlog, kernel, tally, lpc>>

-----------------------------------------------------------------------------
(* listener.enable *)

Masked(enable) == [ev[L] EXCEPT !.mask = IF enable THEN {"READ"} ELSE {}]

\* A call that changes nothing returns at once.
CallEnable(enable) == enabled # enable /\ (enable \/ Disabling)

\* listen(2) fails: the mask is set, and nothing else.
EnableNoListen(enable) ==
    /\ CallEnable(enable)
    /\ ~listening
    /\ Failures \/ ~fd
    /\ ev' = [ev EXCEPT ![L] = Masked(enable)]
    /\ Returns("enable", FALSE)
    /\ UNCHANGED <<interest, edge, wakes, evt, fields, kernel, tally, lpc>>

\* Seeded fault: eventloop.apply is called only once the socket listens already.
EnableNotApplied(enable) ==
    /\ CallEnable(enable)
    /\ listening \/ fd
    /\ listening' = TRUE
    /\ limit' = IF listening THEN limit ELSE backlog
    /\ IF listening THEN eventpoll_apply(L, Masked(enable))
       ELSE UNCHANGED pollVars
    /\ enabled' = enable
    /\ Returns("enable", TRUE)
    /\ UNCHANGED <<fd, addr, backlog, bound, waiting, arrived, tally, lpc>>

\* The result of eventloop.apply is not looked at.  epoll_ctl queues the item if
\* connections wait.
listener_enable(enable) ==
    /\ CallEnable(enable)
    /\ listening \/ fd
    /\ listening' = TRUE
    /\ limit' = IF listening THEN limit ELSE backlog
    /\ eventpoll_apply(L, Masked(enable))
    /\ interest' # interest => (L \in edge' <=> interest'[L] # {} /\ waiting > 0)
    /\ enabled' = enable
    /\ Returns("enable", TRUE)
    /\ UNCHANGED <<fd, addr, backlog, bound, waiting, arrived, tally, lpc>>

-----------------------------------------------------------------------------
(* The loop, and _accept_dispatch *)

StartLoop ==
    /\ lpc = "setup" /\ lpc' = "poll"
    /\ UNCHANGED <<pollVars, fields, kernel, tally, result>>

Poll ==
    /\ lpc = "poll" /\ lpc' = "dispatch"
    /\ waiting > 0
    /\ epoll_wait({L})
    /\ evt'[L] = {"READ"}
    /\ UNCHANGED <<fields, kernel, tally, result>>

\* Seeded fault: _accept_dispatch returns before accept(2).
DispatchReturns ==
    /\ lpc = "dispatch" /\ lpc' = "poll"
    /\ StampEvent(L)
    /\ UNCHANGED <<fields, kernel, tally, result>>

Dispatch ==
    /\ lpc = "dispatch" /\ lpc' = "accept"
    /\ StampEvent(L)
    /\ UNCHANGED <<fields, kernel, tally, result>>

AcceptFails ==
    /\ lpc = "accept" /\ lpc' = "poll"
    /\ Failures \/ waiting = 0
    /\ UNCHANGED <<pollVars, fields, kernel, tally, result>>

\* accept(2) returns a connection.
Accept ==
    /\ lpc = "accept"
    /\ waiting > 0
    /\ waiting' = waiting - 1
    /\ UNCHANGED <<pollVars, fields, bound, limit, arrived, result>>

\* Seeded fault: the descriptor is forgotten.
AcceptNoMemoryLeak == Accept /\ lpc' = "poll" /\ UNCHANGED tally

\* socket_.new fails.
AcceptNoMemory ==
    /\ Failures
    /\ Accept
    /\ lpc' = "poll"
    /\ closed' = closed + 1
    /\ UNCHANGED handed

Accepted ==
    /\ Accept
    /\ lpc' = "acceptor"
    /\ handed' = handed + 1
    /\ UNCHANGED closed

\* lstn->acceptor returns.
AcceptorReturns ==
    /\ lpc = "acceptor" /\ lpc' = "poll"
    /\ UNCHANGED <<pollVars, fields, kernel, tally, result>>

-----------------------------------------------------------------------------
\* A client connects: an edge, if the listener is registered.
Arrive ==
    /\ listening
    /\ waiting < limit /\ waiting < MaxWaiting /\ arrived < MaxConns
    /\ waiting' = waiting + 1
    /\ arrived' = arrived + 1
    /\ edge' = IF interest[L] # {} THEN edge \union {L} ELSE edge
    /\ UNCHANGED <<ev, interest, wakes, evt, fields, bound, limit, tally, result, lpc>>

LoopStep ==
    \/ StartLoop \/ Poll \/ Dispatch \/ AcceptFails \/ AcceptNoMemory \/ Accepted
    \/ AcceptorReturns

Next ==
    \/ \E n \in Backlogs \union {0} : listener_set_backlog(n)
    \/ BindNoSocket \/ BindFails
    \/ \E a \in Addrs : BindFirst(a) \/ BindSecond(a)
    \/ \E enable \in BOOLEAN : EnableNoListen(enable) \/ listener_enable(enable)
    \/ LoopStep
    \/ Arrive

Spec == Init /\ [][Next]_vars

\* The loop's thread runs; callers need not call and clients need not connect.
FairSpec == Spec /\ WF_vars(LoopStep)

-----------------------------------------------------------------------------
(* Properties *)

TypeOK ==
    /\ PollTypeOK
    /\ addr \in Addrs \union {NULL} /\ bound \in Addrs \union {NULL}
    /\ backlog \in Backlogs \union DefaultBacklogs
    /\ waiting \in 0 .. MaxWaiting

\* Every connection taken from the kernel is handed to the acceptor or closed:
\* no path of _accept_dispatch loses the descriptor (listener.c:48-69).
ConnectionsAccounted == arrived = waiting + handed + closed

\* The acceptor is not called while the listener is disabled (listener.c:169-180
\* through epoll.c:114-118).
AcceptsOnlyEnabled == [][Accepted => enabled]_vars

\* Every edge brings an accept(2), however calls to the listener, failures and other
\* arrivals fall in between, unless callers disable the listener (listener.c:25-51,
\* epoll.c:142-166).
EdgeAccepted ==
    enabled /\ waiting > 0 /\ L \in edge ~> lpc = "accept" \/ ~enabled

\* While the listener is enabled, a connection that waits is handed to the
\* acceptor, unless callers disable the listener (listener.c:25-70, one accept per
\* edge).
ConnectionsServed == enabled /\ waiting > 0 ~> waiting = 0 \/ ~enabled

\* After a bind that returned 0, lstn->addr is the address the socket is bound to;
\* _accept_dispatch passes it on as the local name (listener.c:148-157, 63).
BindRemembered == result = [op |-> "bind", ok |-> TRUE] => addr = bound
=============================================================================
