--------------------------- MODULE EndpointProofs ---------------------------
(***************************************************************************)
(* The two ways to a connection, for any events, addresses, backlogs and   *)
(* bounds: the listener loses no connection and accepts none while it is   *)
(* disabled; the connector calls back at most once for each connect, if    *)
(* callers are careful and memory is not short.                            *)
(***************************************************************************)
EXTENDS Listener, Connector, EventPollProofs

Types ==
    /\ TypeOK
    /\ enabled \in BOOLEAN
    /\ arrived \in Nat /\ handed \in Nat /\ closed \in Nat
    /\ lpc \in {"setup", "poll", "dispatch", "accept", "acceptor"}

\* A disabled listener is not registered, so no batch that epoll_wait returned can
\* hold it; nobody disables it between epoll_wait and accept(2).
Registered ==
    /\ Known(L) /\ Queued(L)
    /\ ~enabled => interest[L] = {}
    /\ lpc \in {"dispatch", "accept"} => enabled

IInv == Types /\ ConnectionsAccounted /\ Registered

-----------------------------------------------------------------------------
LEMMA InitIInv == Init => IInv
<1> SUFFICES ASSUME Init PROVE IInv
  OBVIOUS
<1> DEFINE fresh == [event_init EXCEPT !.mask = {"READ"}]
<1>1. fresh \in EventFields
  BY DEF event_init, EventFields, EVMASK
<1>2. ev = [e \in Events |-> fresh]
  BY DEF Init
<1>3. ev \in [Events -> EventFields]
  <2> HIDE DEF fresh
  <2> QED BY <1>1, <1>2
<1>4. PollTypeOK
  BY <1>3 DEF Init, PollTypeOK, eventpoll_new
<1>5. /\ addr = NULL /\ bound = NULL /\ enabled = FALSE /\ backlog \in DefaultBacklogs
      /\ waiting = 0 /\ arrived = 0 /\ handed = 0 /\ closed = 0 /\ lpc = "setup"
  BY DEF Init
<1>6. Types
  <2>1. TypeOK
    BY <1>4, <1>5, ListenerAssumption DEF TypeOK
  <2>2. enabled \in BOOLEAN
    BY <1>5
  <2>3. arrived \in Nat /\ handed \in Nat /\ closed \in Nat
    BY <1>5
  <2> QED BY <1>5, <2>1, <2>2, <2>3 DEF Types
<1> QED
  BY <1>6, ListenerAssumption
     DEF Init, IInv, ConnectionsAccounted, Registered, Known, Queued, eventpoll_new

\* The fields that listener_enable gives to eventpoll_apply.
LEMMA MaskedFields ==
    ASSUME PollTypeOK, NEW enable \in BOOLEAN
    PROVE  /\ Masked(enable) \in EventFields
           /\ Masked(enable).last_mask = ev[L].last_mask
           /\ ~enable => NewMask(Masked(enable).mask) = {}
<1>1. ev[L] \in EventFields
  BY ListenerAssumption DEF PollTypeOK
<1>2. (IF enable THEN {"READ"} ELSE {}) \in SUBSET EVMASK
  BY DEF EVMASK
<1>3. /\ Masked(enable) \in EventFields
      /\ Masked(enable).last_mask = ev[L].last_mask
      /\ Masked(enable).mask = IF enable THEN {"READ"} ELSE {}
  BY <1>1, <1>2 DEF Masked, EventFields
<1> QED
  BY <1>3 DEF NewMask

-----------------------------------------------------------------------------
LEMMA NextIInv == IInv /\ [Next]_vars => IInv'
<1> SUFFICES ASSUME IInv, [Next]_vars PROVE IInv'
  OBVIOUS
<1> USE ListenerAssumption DEF IInv, Types
<1>1. ASSUME NEW n \in Backlogs \union {0}, listener_set_backlog(n) PROVE IInv'
  BY <1>1 DEF listener_set_backlog, pollVars, kernel, tally, TypeOK, PollTypeOK,
       ConnectionsAccounted, Registered, Known, Queued
<1>2. CASE BindNoSocket \/ BindFails
  BY <1>2 DEF BindNoSocket, BindFails, Returns, pollVars, fields, kernel, tally, TypeOK, PollTypeOK,
       ConnectionsAccounted, Registered, Known, Queued
<1>3. ASSUME NEW a \in Addrs, BindFirst(a) \/ BindSecond(a) PROVE IInv'
  BY <1>3 DEF BindFirst, BindSecond, Returns, pollVars, tally, TypeOK, PollTypeOK,
       ConnectionsAccounted, Registered, Known, Queued
<1>4. ASSUME NEW enable \in BOOLEAN, EnableNoListen(enable) PROVE IInv'
  <2>1. Masked(enable) \in EventFields /\ Masked(enable).last_mask = ev[L].last_mask
    BY MaskedFields DEF TypeOK
  <2>2. ev' = [ev EXCEPT ![L] = Masked(enable)]
    BY <1>4 DEF EnableNoListen
  <2>3. UNCHANGED <<interest, edge, wakes, evt, fields, kernel, tally, lpc>>
    BY <1>4 DEF EnableNoListen
  <2> HIDE DEF IInv, Types
  <2>4. PollTypeOK'
    BY <2>1, <2>2, <2>3 DEF IInv, Types, TypeOK, PollTypeOK
  <2>5. Known(L)' /\ Queued(L)'
    BY <2>1, <2>2, <2>3 DEF IInv, Types, TypeOK, PollTypeOK, Registered, Known, Queued
  <2> QED
    BY <2>3, <2>4, <2>5 DEF IInv, Types, TypeOK, ConnectionsAccounted, Registered,
       fields, kernel, tally
<1>5. ASSUME NEW enable \in BOOLEAN, listener_enable(enable) PROVE IInv'
  <2>1. eventpoll_apply(L, Masked(enable))
    BY <1>5 DEF listener_enable
  <2>2. PollTypeOK /\ Known(L) /\ Queued(L)
    BY DEF TypeOK, Registered
  <2>3. PollTypeOK'
    BY <2>1, <2>2, MaskedFields, ApplyFacts
  <2>4. Known(L)' /\ Queued(L)' /\ (~enable => interest'[L] = {})
    BY <2>1, <2>2, MaskedFields, ApplyRegisters
  <2>5. /\ enabled' = enable /\ lpc' = lpc /\ lpc \in {"setup", "acceptor"}
        /\ UNCHANGED <<addr, backlog, bound, waiting, arrived, handed, closed>>
    BY <1>5 DEF listener_enable, Returns, UserCode, tally
  <2> QED
    BY <2>3, <2>4, <2>5 DEF TypeOK, ConnectionsAccounted, Registered
<1>6. CASE StartLoop \/ AcceptFails \/ AcceptorReturns
  BY <1>6 DEF StartLoop, AcceptFails, AcceptorReturns, pollVars, fields, kernel, tally, TypeOK,
       PollTypeOK, ConnectionsAccounted, Registered, Known, Queued
<1>7. CASE Poll
  <2>1. L \in edge /\ interest[L] # {} /\ edge' = edge \ {L}
    BY <1>7, EventsAssumption DEF Poll, epoll_wait, Deliverable
  <2>2. UNCHANGED <<ev, interest, wakes, fields, kernel, tally>> /\ lpc' = "dispatch"
    BY <1>7 DEF Poll, epoll_wait
  <2>3. evt' \in [Events \union {Wake} -> SUBSET EVMASK]
    BY <1>7 DEF Poll, epoll_wait
  <2> QED
    BY <2>1, <2>2, <2>3 DEF fields, kernel, tally, TypeOK, PollTypeOK, ConnectionsAccounted,
       Registered, Known, Queued
<1>8. CASE Dispatch
  <2> DEFINE stamped == [ev[L] EXCEPT !.mask = evt[L], !.last_mask = DEFAULT_POLL_MASK]
  <2>1. ev[L] \in EventFields /\ evt[L] \in SUBSET EVMASK
    BY DEF TypeOK, PollTypeOK
  <2>2. stamped \in EventFields /\ stamped.last_mask # {}
    BY <2>1 DEF EventFields, DEFAULT_POLL_MASK, EPOLLMASK
  <2>3. /\ ev' = [ev EXCEPT ![L] = stamped] /\ evt' = [evt EXCEPT ![L] = {}]
        /\ UNCHANGED <<interest, edge, wakes, fields, kernel, tally>>
        /\ lpc = "dispatch" /\ lpc' = "accept"
    BY <1>8 DEF Dispatch, StampEvent
  <2> HIDE DEF stamped, IInv, Types
  <2>4. PollTypeOK'
    BY <2>2, <2>3 DEF IInv, Types, TypeOK, PollTypeOK
  <2>5. Known(L)' /\ Queued(L)'
    BY <2>2, <2>3 DEF IInv, Types, TypeOK, PollTypeOK, Registered, Known, Queued
  <2> QED
    BY <2>3, <2>4, <2>5 DEF IInv, Types, TypeOK, ConnectionsAccounted, Registered,
       fields, kernel, tally
<1>9. CASE AcceptNoMemory \/ Accepted
  BY <1>9 DEF AcceptNoMemory, Accepted, Accept, pollVars, fields, TypeOK, PollTypeOK,
       ConnectionsAccounted, Registered, Known, Queued
<1>10. CASE Arrive
  BY <1>10 DEF Arrive, fields, tally, TypeOK, PollTypeOK, ConnectionsAccounted, Registered,
       Known, Queued
<1>11. CASE UNCHANGED vars
  BY <1>11 DEF vars, pollVars, fields, kernel, tally, TypeOK, PollTypeOK,
       ConnectionsAccounted, Registered, Known, Queued
<1> QED
  BY <1>1, <1>2, <1>3, <1>4, <1>5, <1>6, <1>7, <1>8, <1>9, <1>10, <1>11 DEF Next, LoopStep

\* The inductive invariant of the listener holds in every state (listener.c:25-183).
THEOREM Invariance == Spec => []IInv
BY InitIInv, NextIInv, PTL DEF Spec

\* Every variable of the listener has its type.
THEOREM TypeCorrect == Spec => []TypeOK
<1>1. IInv => TypeOK
  BY DEF IInv, Types
<1> QED
  BY <1>1, Invariance, PTL

\* No path of _accept_dispatch loses a connection (listener.c:48-69).
THEOREM NoConnectionLost == Spec => []ConnectionsAccounted
<1>1. IInv => ConnectionsAccounted
  BY DEF IInv
<1> QED
  BY <1>1, Invariance, PTL

\* No connection is accepted while the listener is disabled (listener.c:169-180).
THEOREM NoneWhenDisabled == Spec => AcceptsOnlyEnabled
<1>1. IInv => [Accepted => enabled]_vars
  BY DEF IInv, Registered, Accepted, Accept
<1> QED
  BY <1>1, Invariance, PTL DEF AcceptsOnlyEnabled

-----------------------------------------------------------------------------
(* The connector, on an event loop of its own *)

ConnectorTypes ==
    /\ ConctTypeOK
    /\ calls \in [Fds -> Nat]
    /\ peer \in [Fds -> {"none", "progress", "up", "failed", "hungup"}]
    /\ told \in [fd : Fds \union {None}, err : {0, 1}, sock : Fds \union {None}]

\* The connector's event is registered for one descriptor at most: the one it holds,
\* whose callback is still to come, or, until the callback enables it, the one whose
\* socket the callback was given.
OneUnderWay ==
    /\ Careful /\ ~ShortOfMemory
    /\ upc = "poll" => told.sock = None
    /\ told.sock # None => told.sock <= opened
    /\ \A f \in Fds : reg[f] = "conct" => f = told.sock \/ (f = evfd /\ calls[f] = 0)
    /\ \A f \in Fds : f > opened => calls[f] = 0 /\ reg[f] = "none"

ConnectorInv == ConnectorTypes /\ OneUnderWay /\ CalledOnce

-----------------------------------------------------------------------------
LEMMA ConnectorInitInv ==
    ASSUME Careful, ~ShortOfMemory
    PROVE  ConctInit => ConnectorInv
BY ConnectorAssumption DEF ConctInit, ConnectorInv, ConnectorTypes, ConctTypeOK, OneUnderWay,
       CalledOnce, Fds

LEMMA ConnectorTypesStep ==
    ASSUME ConnectorTypes, [ConctNext]_conctVars
    PROVE  ConnectorTypes'
<1> USE ConnectorAssumption DEF ConnectorTypes, ConctTypeOK, Fds
<1>1. CASE ConnectNoSocket \/ ConnectInProgress
  <2>1. CASE ConnectNoSocket
    BY <2>1 DEF ConnectNoSocket, Callback
  <2>2. CASE ConnectInProgress
    BY <2>2 DEF ConnectInProgress, NewFd
  <2> QED BY <1>1, <2>1, <2>2
<1>2. ASSUME NEW state \in {"up", "failed"}, ConnectAtOnce(state) PROVE ConnectorTypes'
  BY <1>2 DEF ConnectAtOnce, NewFd, Finish, Callback
<1>3. CASE EnableSocket
  <2>1. told' \in [fd : Fds \union {None}, err : {0, 1}, sock : Fds \union {None}]
    BY <1>3 DEF EnableSocket
  <2> QED
    BY <1>3, <2>1 DEF EnableSocket
<1>4. ASSUME NEW f \in Fds, connector_dispatch(f) \/ DispatchSocket(f) \/ HangUp(f) PROVE ConnectorTypes'
  <2>1. CASE connector_dispatch(f)
    <3>1. PICK sock \in Fds \union {None} : Callback(evfd, 0, sock)
      BY <2>1 DEF connector_dispatch, Finish
    <3>2. told' \in [fd : Fds \union {None}, err : {0, 1}, sock : Fds \union {None}]
      BY <3>1 DEF Callback
    <3>3. calls' \in [Fds -> Nat]
      BY <3>1 DEF Callback
    <3> QED BY <2>1, <3>2, <3>3 DEF connector_dispatch
  <2>2. CASE DispatchSocket(f) \/ HangUp(f)
    BY <2>2 DEF DispatchSocket, HangUp, Signal
  <2> QED BY <1>4, <2>1, <2>2
<1>5. ASSUME NEW f \in Fds, NEW state \in {"up", "failed"}, Resolve(f, state) PROVE ConnectorTypes'
  BY <1>5 DEF Resolve, Signal
<1>6. CASE UserReturns \/ UNCHANGED conctVars
  BY <1>6 DEF UserReturns, conctVars
<1> HIDE DEF ConnectorTypes, Fds
<1> QED
  BY <1>1, <1>2, <1>3, <1>4, <1>5, <1>6 DEF ConctNext, ConctLoopStep

LEMMA ConnectorStep ==
    ASSUME ConnectorInv, [ConctNext]_conctVars
    PROVE  ConnectorInv'
<1> USE ConnectorAssumption DEF ConnectorInv, ConnectorTypes, ConctTypeOK, OneUnderWay,
            CalledOnce, Fds
<1>1. CASE ConnectNoSocket
  BY <1>1 DEF ConnectNoSocket, MayConnect, Callback
<1>2. CASE ConnectInProgress
  BY <1>2 DEF ConnectInProgress, NewFd, MayConnect
<1>3. ASSUME NEW state \in {"up", "failed"}, ConnectAtOnce(state) PROVE ConnectorInv'
  <2> DEFINE f == opened + 1
  <2>1. /\ f \in Fds /\ calls[f] = 0
        /\ opened' = f /\ peer' = [peer EXCEPT ![f] = state]
        /\ UNCHANGED <<evfd, reg, ready>>
    BY <1>3 DEF ConnectAtOnce, NewFd
  <2>2. calls' = [calls EXCEPT ![f] = 1] /\ told' = [fd |-> f, err |-> 0, sock |-> f] /\ upc' = "user"
    BY <1>3, <2>1 DEF ConnectAtOnce, Finish, Callback
  <2>3. \A g \in Fds : reg[g] # "conct"
    BY <1>3 DEF ConnectAtOnce, NewFd, MayConnect
  <2> QED
    BY <2>1, <2>2, <2>3
<1>4. CASE EnableSocket
  <2>1. told.sock \in Fds /\ told' \in [fd : Fds \union {None}, err : {0, 1}, sock : Fds \union {None}]
    BY <1>4 DEF EnableSocket
  <2>2. told'.sock = None
    BY <1>4 DEF EnableSocket
  <2> QED
    BY <1>4, <2>1, <2>2 DEF EnableSocket
<1>5. CASE UserReturns
  BY <1>5 DEF UserReturns
<1>6. ASSUME NEW f \in Fds, connector_dispatch(f) PROVE ConnectorInv'
  BY <1>6 DEF connector_dispatch, Finish, Callback
<1>7. ASSUME NEW f \in Fds, DispatchSocket(f) PROVE ConnectorInv'
  BY <1>7 DEF DispatchSocket
<1>8. ASSUME NEW f \in Fds, HangUp(f) PROVE ConnectorInv'
  BY <1>8 DEF HangUp, Signal
<1>9. ASSUME NEW f \in Fds, NEW state \in {"up", "failed"}, Resolve(f, state) PROVE ConnectorInv'
  BY <1>9 DEF Resolve, Signal
<1>10. CASE UNCHANGED conctVars
  BY <1>10 DEF conctVars
<1> HIDE DEF ConnectorInv, Fds
<1> QED
  BY <1>1, <1>2, <1>3, <1>4, <1>5, <1>6, <1>7, <1>8, <1>9, <1>10 DEF ConctNext, ConctLoopStep

\* Every variable of the connector has its type, whatever callers do.
THEOREM ConnectorTypeCorrect == ConctSpec => []ConctTypeOK
<1>1. ConctInit => ConnectorTypes
  BY ConnectorAssumption DEF ConctInit, ConnectorTypes, ConctTypeOK, Fds
<1>2. ConnectorTypes => ConctTypeOK
  BY DEF ConnectorTypes
<1>3. ConnectorTypes /\ [ConctNext]_conctVars => ConnectorTypes'
  BY ConnectorTypesStep
<1> QED
  BY <1>1, <1>2, <1>3, PTL DEF ConctSpec

\* For careful callers with enough memory, the callback is called at most once for each
\* connect, although the connector's event stays registered (connector.c:59, 76-77).
THEOREM OneCallback ==
    ASSUME Careful, ~ShortOfMemory
    PROVE  ConctSpec => []CalledOnce
<1>1. ConctInit => ConnectorInv
  BY ConnectorInitInv
<1>2. ConnectorInv => CalledOnce
  BY DEF ConnectorInv
<1>3. ConnectorInv /\ [ConctNext]_conctVars => ConnectorInv'
  BY ConnectorStep
<1> QED
  BY <1>1, <1>2, <1>3, PTL DEF ConctSpec
=============================================================================
