----------------------------- MODULE Connector ------------------------------
(***************************************************************************)
(* A connector (connector.c) on an event loop of its own thread.  Each     *)
(* connect uses a new descriptor and the connector's only event; a         *)
(* descriptor is registered with epoll for the connector's event or for    *)
(* the event of the socket made from it.                                   *)
(***************************************************************************)
EXTENDS Naturals

CONSTANTS
    MaxFds,       \* bound: how many connects are started
    None,         \* no descriptor, no socket
    Careful,      \* whether the user's code enables every socket it is given, before
                  \* anything else, and has one connect under way at a time
    ShortOfMemory \* whether socket_.new may fail

ASSUME ConnectorAssumption ==
    /\ MaxFds \in Nat /\ None \notin 1 .. MaxFds
    /\ Careful \in BOOLEAN /\ ShortOfMemory \in BOOLEAN

VARIABLES
    evfd,     \* conct->ev.fd
    opened,   \* how many descriptors were opened, 1 .. opened
    peer,     \* kernel: the state of each descriptor's connection
    reg,      \* kernel: the event each descriptor is registered for
    ready,    \* kernel: the descriptors in the ready list of epoll
    calls,    \* history: how often conct->cb was called for each descriptor
    told,     \* what the last call of conct->cb was told: the descriptor, the
              \* error and the descriptor of the socket
    upc       \* where the loop's thread is: in user code, the callback
              \* included, or in epoll_wait

conctVars == <<evfd, opened, peer, reg, ready, calls, told, upc>>

Fds == 1 .. MaxFds

ConctInit ==
    /\ evfd = None /\ opened = 0
    /\ peer = [f \in Fds |-> "none"]
    /\ reg = [f \in Fds |-> "none"]
    /\ ready = {}
    /\ calls = [f \in Fds |-> 0]
    /\ told = [fd |-> None, err |-> 0, sock |-> None]
    /\ upc = "user"

\* conct->cb(conct, err, sock), for the descriptor f.
Callback(f, err, sock) ==
    /\ calls' = IF f = None THEN calls ELSE [calls EXCEPT ![f] = @ + 1]
    /\ told' = [fd |-> f, err |-> err, sock |-> sock]
    /\ upc' = "user"

\* sockaddr.sockname and socket_.new on a descriptor that is open.  socket_.new
\* returns 0 when memory is short.
Finish(f) ==
    \E sock \in {f} \union (IF ShortOfMemory THEN {None} ELSE {}) : Callback(f, 0, sock)

MayConnect ==
    /\ upc = "user"
    /\ Careful => /\ told.sock = None
                  /\ \A f \in Fds : reg[f] = "conct" => calls[f] > 0

-----------------------------------------------------------------------------
(* connector.connect *)

NewFd(state) ==
    /\ MayConnect
    /\ opened < MaxFds
    /\ opened' = opened + 1
    /\ peer' = [peer EXCEPT ![opened + 1] = state]

\* socket_.for_addr fails.
ConnectNoSocket ==
    /\ MayConnect
    /\ Callback(None, 1, None)
    /\ UNCHANGED <<evfd, opened, peer, reg, ready>>

\* connect(2) succeeds or fails at once; errno is looked at for EINPROGRESS only.
ConnectAtOnce(state) ==
    /\ state \in {"up", "failed"}
    /\ NewFd(state)
    /\ Finish(opened + 1)
    /\ UNCHANGED <<evfd, reg, ready>>

\* Seeded fault: the event is set up and not applied.
ConnectNotApplied ==
    /\ NewFd("progress")
    /\ evfd' = opened + 1
    /\ UNCHANGED <<reg, ready, calls, told, upc>>

\* EINPROGRESS: event.init and eventloop.apply.
ConnectInProgress ==
    /\ NewFd("progress")
    /\ evfd' = opened + 1
    /\ reg' = [reg EXCEPT ![opened + 1] = "conct"]
    /\ UNCHANGED <<ready, calls, told, upc>>

-----------------------------------------------------------------------------
(* The loop, and _connector_dispatch *)

\* Seeded fault: EEXIST is not answered with EPOLL_CTL_MOD.
EnableSocketAddOnly ==
    /\ upc = "user"
    /\ told.sock # None
    /\ reg' = [reg EXCEPT ![told.sock] = IF @ = "none" THEN "sock" ELSE @]
    /\ told' = [told EXCEPT !.sock = None]
    /\ UNCHANGED <<evfd, opened, peer, ready, calls, upc>>

\* The callback calls socket_.enable(sock, 1).  The descriptor may be registered
\* for the connector's event: EPOLL_CTL_ADD gives EEXIST and EPOLL_CTL_MOD
\* replaces the event and queues the item if the descriptor is ready.
EnableSocket ==
    /\ upc = "user"
    /\ told.sock # None
    /\ reg' = [reg EXCEPT ![told.sock] = "sock"]
    /\ ready' \in {ready, ready \union {told.sock}}
    /\ told' = [told EXCEPT !.sock = None]
    /\ UNCHANGED <<evfd, opened, peer, calls, upc>>

\* The user's code returns to the loop.
UserReturns ==
    /\ upc = "user" /\ upc' = "poll"
    /\ Careful => told.sock = None
    /\ UNCHANGED <<evfd, opened, peer, reg, ready, calls, told>>

\* epoll_wait reports f, which is registered for the connector's event: what is
\* dispatched is the event, with the descriptor it has now.  getsockopt stores
\* the error of the connect in err, and sockaddr.sockname stores 0 over it.
connector_dispatch(f) ==
    /\ upc = "poll"
    /\ f \in ready
    /\ reg[f] = "conct"
    /\ ready' = ready \ {f}
    /\ Finish(evfd)
    /\ UNCHANGED <<evfd, opened, peer, reg>>

\* epoll_wait reports f for its socket; what that does is not modelled here.
DispatchSocket(f) ==
    /\ upc = "poll"
    /\ f \in ready
    /\ reg[f] = "sock"
    /\ ready' = ready \ {f}
    /\ UNCHANGED <<evfd, opened, peer, reg, calls, told, upc>>

-----------------------------------------------------------------------------
Signal(f) == ready' = IF reg[f] = "none" THEN ready ELSE ready \union {f}

\* The connect in progress ends, one way or the other.
Resolve(f, state) ==
    /\ peer[f] = "progress"
    /\ peer' = [peer EXCEPT ![f] = state]
    /\ Signal(f)
    /\ UNCHANGED <<evfd, opened, reg, calls, told, upc>>

\* The peer of an established connection hangs up.
HangUp(f) ==
    /\ peer[f] = "up"
    /\ peer' = [peer EXCEPT ![f] = "hungup"]
    /\ Signal(f)
    /\ UNCHANGED <<evfd, opened, reg, calls, told, upc>>

ConctLoopStep == \E f \in Fds : connector_dispatch(f) \/ DispatchSocket(f)

ConctNext ==
    \/ ConnectNoSocket \/ ConnectInProgress
    \/ \E state \in {"up", "failed"} : ConnectAtOnce(state)
    \/ EnableSocket \/ UserReturns
    \/ ConctLoopStep
    \/ \E f \in Fds : HangUp(f) \/ \E state \in {"up", "failed"} : Resolve(f, state)

ConctSpec == ConctInit /\ [][ConctNext]_conctVars

\* The loop's thread runs, callbacks return, and every connect ends.
ConctFairSpec ==
    /\ ConctSpec
    /\ WF_conctVars(ConctLoopStep)
    /\ WF_conctVars(UserReturns) /\ WF_conctVars(EnableSocket)
    /\ \A f \in Fds : WF_conctVars(\E state \in {"up", "failed"} : Resolve(f, state))

-----------------------------------------------------------------------------
(* Properties *)

ConctTypeOK ==
    /\ evfd \in Fds \union {None}
    /\ reg \in [Fds -> {"none", "conct", "sock"}]
    /\ ready \subseteq Fds
    /\ opened \in 0 .. MaxFds

\* The callback is called once for each connect: the event of the connector,
\* which is never taken out of epoll, does not fire again for a descriptor whose
\* socket was enabled (connector.c:76-77, 59; epoll.c:125-127).  Callers are careful
\* and memory is not short.
CalledOnce == \A f \in Fds : calls[f] <= 1

\* Every connect that is in progress comes to a call of the callback
\* (connector.c:75-79, 59).
CallbackComes ==
    \A f \in Fds : peer[f] = "progress" ~> calls[f] > 0

\* The callback is told of no error only if the connection was established
\* (connector.c:49-59, 74-84).
HonestCallback ==
    told.fd # None /\ told.err = 0 => peer[told.fd] # "failed"
=============================================================================
