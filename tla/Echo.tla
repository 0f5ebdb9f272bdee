-------------------------------- MODULE Echo --------------------------------
(***************************************************************************)
(* The echo program (test.c): two sockets (socket.c) of one process, the   *)
(* two ends of one connection, with their streams on one event loop.  The  *)
(* connecting end sends a first record; each end sends back every record   *)
(* it receives.                                                            *)
(*                                                                         *)
(* Bytes leave a socket into net, arrive in pieces of any size, and wait   *)
(* in rcv until they are read.  Every arrival is an edge for epoll.        *)
(* Sockets are registered for reading only (socket_enable), so the branch  *)
(* of _sock_dispatch for EVMASK_WRITE is not taken.  Memory is available.  *)
(***************************************************************************)
EXTENDS EventPoll, Buffer

CONSTANTS
    Client,     \* the socket of the connector; Events are the two sockets
    CR, LF,     \* the bytes that end a record
    Hello,      \* what connected prints
    READALL,    \* STM_READALL_LEN
    SndBuf      \* how many bytes the kernel keeps for a sender

ASSUME EchoAssumption ==
    /\ \E s \in Events : s # Client /\ Events = {Client, s}
    /\ CR \in Byte /\ LF \in Byte /\ CR # LF
    /\ Hello \in Seq(Byte)
    /\ READALL \in Nat /\ SndBuf \in Nat \ {0}

VARIABLES
    istm, ostm,  \* the buffers of each socket's streams
    state,       \* whether a socket is still to be set up, is used, or is freed
    lpc, cur,    \* where the loop is, and the socket whose callback runs
    running,     \* loop->running
    net, rcv,    \* the bytes on the way to each socket, and those that arrived
    reset        \* whether the connection broke

socks == <<istm, ostm, state>>
kernel == <<net, rcv, reset>>
vars == <<pollVars, socks, kernel, lpc, cur, running>>

Peer(s) == CHOOSE t \in Events : t # s
Delim == <<CR, LF>>
Drop(q, n) == SubSeq(q, n + 1, Len(q))

\* socket_new_from_fd for both ends, by the connector and the listener.
Init ==
    /\ ev = [s \in Events |-> event_init]
    /\ eventpoll_new
    /\ istm = [s \in Events |-> buffer_new(0)]
    /\ ostm = [s \in Events |-> buffer_new(0)]
    /\ state = [s \in Events |-> "new"]
    /\ lpc = "poll" /\ cur = NULL /\ running = 1
    /\ net = [s \in Events |-> <<>>] /\ rcv = [s \in Events |-> <<>>]
    /\ reset = FALSE

-----------------------------------------------------------------------------
(* socket_enable, and printing to an output stream *)

HasInput(s) == rcv[s] # <<>> \/ reset

\* The loop's own thread calls it; each socket is enabled and disabled once, so that
\* the early return is not taken.  epoll_ctl queues a socket that has input.
socket_enable(s, enable) ==
    /\ eventpoll_apply(s, [ev[s] EXCEPT !.mask = IF enable THEN {"READ"} ELSE {}])
    /\ interest' # interest => (s \in edge' <=> enable /\ HasInput(s))

\* buffer_vprintf: a second turn has the room that the first one made.
Printed(b, text) ==
    LET p == vprintf_pass(b, text, TRUE)
    IN  IF p.again THEN vprintf_pass(p.buf, text, TRUE).buf ELSE p.buf

\* Other callbacks of the loop run between two dispatches of the sockets.
OtherCallback(s) == lpc \in {"poll", "dispatch"} /\ state[s] = "new" /\ running = 1

\* The acceptor, called by the listener's dispatch.
acceptor(s) ==
    /\ s # Client
    /\ OtherCallback(s)
    /\ state' = [state EXCEPT ![s] = "used"]
    /\ socket_enable(s, TRUE)
    /\ lpc' = "dispatch"
    /\ UNCHANGED <<istm, ostm, kernel, cur, running>>

\* The connector's callback, up to the flush of the first record.  The connect that
\* follows makes a connection with sockets of its own.
connected ==
    /\ OtherCallback(Client)
    /\ state' = [state EXCEPT ![Client] = "used"]
    /\ socket_enable(Client, TRUE)
    /\ ostm' = [ostm EXCEPT ![Client] = Printed(@, Hello)]
    /\ lpc' = "flush" /\ cur' = Client
    /\ UNCHANGED <<istm, kernel, running>>

-----------------------------------------------------------------------------
(* eventloop_loop *)

While ==
    /\ lpc = "dispatch"
    /\ \A s \in Events : evt[s] = {}
    /\ lpc' = IF running = 1 THEN "poll" ELSE "done"
    /\ UNCHANGED <<pollVars, socks, kernel, cur, running>>

\* A broken connection is reported as an error.
Poll ==
    /\ lpc = "poll" /\ lpc' = "dispatch"
    /\ \E items \in SUBSET Events : epoll_wait(items)
    /\ \A s \in Events : evt'[s] # {} => evt'[s] = IF reset THEN {"ERROR"} ELSE {"READ"}
    /\ UNCHANGED <<socks, kernel, cur, running>>

\* _sock_dispatch up to its first system call.
sock_dispatch(s) ==
    /\ lpc = "dispatch"
    /\ evt[s] # {}
    /\ lpc' = IF evt[s] = {"READ"} THEN "read" ELSE "disconnect"
    /\ cur' = s
    /\ StampEvent(s)
    /\ UNCHANGED <<socks, kernel, running>>

-----------------------------------------------------------------------------
(* ecprocessor *)

\* "%s\r\n" of the record that ends at offset k, which "%s" prints up to a NUL.
Answer(b, k) ==
    LET stops == {i \in 1 .. k : Readable(b)[i] = NUL}
        n == IF stops = {} THEN k ELSE (CHOOSE i \in stops : \A j \in stops : i <= j) - 1
    IN  SubSeq(Readable(b), 1, n) \o Delim

\* Seeded fault: the record is taken out without its last byte.
ProcessorLeavesLF(s, b) ==
    IF Occurrences(b, Delim) = {}
    THEN /\ istm' = [istm EXCEPT ![s] = b]
         /\ lpc' = "dispatch" /\ cur' = NULL
         /\ UNCHANGED ostm
    ELSE \E k \in Occurrences(b, Delim) :
         /\ IsFirst(b, Delim, k)
         /\ istm' = [istm EXCEPT ![s] = buffer_yield(b, k + 1)]
         /\ ostm' = [ostm EXCEPT ![s] = Printed(@, Answer(b, k))]
         /\ lpc' = "flush" /\ UNCHANGED cur

\* Without an error, s having the input b: one record is yielded, its CR replaced by
\* a NUL, and printed to the output stream, which is flushed next.
ecprocessor(s, b) ==
    IF Occurrences(b, Delim) = {}
    THEN /\ istm' = [istm EXCEPT ![s] = b]
         /\ lpc' = "dispatch" /\ cur' = NULL
         /\ UNCHANGED ostm
    ELSE \E k \in Occurrences(b, Delim) :
         /\ IsFirst(b, Delim, k)
         /\ istm' = [istm EXCEPT ![s] =
              buffer_yield([b EXCEPT !.mem = Store(@, b.rpos + k, <<NUL>>)], k + 2)]
         /\ ostm' = [ostm EXCEPT ![s] = Printed(@, Answer(b, k))]
         /\ lpc' = "flush" /\ UNCHANGED cur

\* try_read: stream_fill's readv returns all that has arrived, as far as it fits.
TryRead ==
    LET s == cur
        n == Min2(Len(rcv[s]), buffer_space(istm[s]) + READALL)
    IN  /\ lpc = "read"
        /\ rcv[s] # <<>>
        /\ rcv' = [rcv EXCEPT ![s] = Drop(@, n)]
        /\ \E b \in {Filled(istm[s], SubSeq(rcv[s], 1, n), TRUE, TRUE)} : ecprocessor(s, b)
        /\ UNCHANGED <<pollVars, state, net, reset, running>>

\* EAGAIN, which try_read does not report.
TryReadAgain ==
    /\ lpc = "read"
    /\ ~HasInput(cur)
    /\ ecprocessor(cur, istm[cur])
    /\ UNCHANGED <<pollVars, state, kernel, running>>

\* The error of a broken connection.
TryReadFails ==
    /\ lpc = "read" /\ lpc' = "disconnect"
    /\ reset
    /\ UNCHANGED <<pollVars, socks, kernel, cur, running>>

\* Seeded fault: the socket is freed while it is registered.
DisconnectKeepsEvent ==
    /\ lpc = "disconnect" /\ lpc' = "dispatch"
    /\ state' = [state EXCEPT ![cur] = "freed"]
    /\ running' = 0
    /\ cur' = NULL
    /\ UNCHANGED <<pollVars, istm, ostm, kernel>>

\* Seeded fault: ecprocessor does not call eventloop.exit.
DisconnectNoExit ==
    /\ lpc = "disconnect" /\ lpc' = "dispatch"
    /\ socket_enable(cur, FALSE)
    /\ state' = [state EXCEPT ![cur] = "freed"]
    /\ cur' = NULL
    /\ UNCHANGED <<istm, ostm, kernel, running>>

\* With an error: socket_enable(sock, 0), socket_shutdown, which finds the connection
\* broken already, socket_free and eventloop_exit.
Disconnect ==
    /\ lpc = "disconnect" /\ lpc' = "dispatch"
    /\ socket_enable(cur, FALSE)
    /\ state' = [state EXCEPT ![cur] = "freed"]
    /\ running' = 0
    /\ cur' = NULL
    /\ UNCHANGED <<istm, ostm, kernel>>

-----------------------------------------------------------------------------
(* stream_flush of the output stream *)

\* Seeded fault: one writev per flush.
WritevOnce(n) ==
    LET s == cur
    IN  /\ lpc = "flush" /\ lpc' = "dispatch" /\ cur' = NULL
        /\ ~reset
        /\ n <= buffer_avail(ostm[s]) /\ Len(net[Peer(s)]) + n <= SndBuf
        /\ net' = [net EXCEPT ![Peer(s)] = @ \o SubSeq(Readable(ostm[s]), 1, n)]
        /\ ostm' = [ostm EXCEPT ![s] = buffer_read(@, n)]
        /\ UNCHANGED <<pollVars, istm, state, rcv, reset, running>>

\* writev takes n bytes, as far as the kernel has room; the loop goes on.
Writev(n) ==
    LET s == cur
        b == buffer_read(ostm[s], n)
    IN  /\ lpc = "flush"
        /\ ~reset
        /\ n <= buffer_avail(ostm[s]) /\ Len(net[Peer(s)]) + n <= SndBuf
        /\ net' = [net EXCEPT ![Peer(s)] = @ \o SubSeq(Readable(ostm[s]), 1, n)]
        /\ ostm' = [ostm EXCEPT ![s] = b]
        /\ IF buffer_avail(b) = 0 THEN lpc' = "dispatch" /\ cur' = NULL
           ELSE UNCHANGED <<lpc, cur>>
        /\ UNCHANGED <<pollVars, istm, state, rcv, reset, running>>

\* EAGAIN, or the error of a broken connection; callers do not look at the result.
WritevFails ==
    /\ lpc = "flush" /\ lpc' = "dispatch"
    /\ reset \/ Len(net[Peer(cur)]) = SndBuf
    /\ cur' = NULL
    /\ UNCHANGED <<pollVars, socks, kernel, running>>

-----------------------------------------------------------------------------
(* The connection *)

Signal(which) == edge' = edge \union {s \in which : interest[s] # {}}

\* A segment of n bytes arrives.
Deliver(s, n) ==
    /\ ~reset
    /\ n <= Len(net[s])
    /\ rcv' = [rcv EXCEPT ![s] = @ \o SubSeq(net[s], 1, n)]
    /\ net' = [net EXCEPT ![s] = Drop(@, n)]
    /\ Signal({s})
    /\ UNCHANGED <<ev, interest, wakes, evt, socks, reset, lpc, cur, running>>

\* The connection breaks, for both ends.
Reset ==
    /\ ~reset
    /\ reset' = TRUE
    /\ Signal(Events)
    /\ UNCHANGED <<ev, interest, wakes, evt, socks, net, rcv, lpc, cur, running>>

-----------------------------------------------------------------------------
LoopStep ==
    \/ While \/ Poll \/ TryRead \/ TryReadAgain \/ TryReadFails \/ Disconnect \/ WritevFails
    \/ \E s \in Events : sock_dispatch(s) \/ acceptor(s)
    \/ connected
    \/ \E n \in 1 .. SndBuf : Writev(n)

Arrival == \E s \in Events, n \in 1 .. SndBuf : Deliver(s, n)

Next == LoopStep \/ Arrival \/ Reset

Spec == Init /\ [][Next]_vars

\* The loop's thread runs, the listener and the connector call back, and what was sent
\* arrives.  Connections need not break.
FairSpec ==
    /\ Spec
    /\ WF_vars(LoopStep)
    /\ WF_vars(connected) /\ \A s \in Events : WF_vars(acceptor(s))
    /\ WF_vars(Arrival)

-----------------------------------------------------------------------------
(* Properties *)

\* What was sent toward s and is not yet taken out of its input stream.
Toward(s) == Readable(istm[s]) \o rcv[s] \o net[s] \o Readable(ostm[Peer(s)])

\* Once the first record is sent there is one record under way and it is whole,
\* however it is cut into segments, reads and writes: neither end loses, repeats or
\* changes a byte (socket.c:15-43, test.c:37-44, stream.c:184-211, 272-313).
OneRecord ==
    state[Client] # "new" => {Toward(s) : s \in Events} = {<<>>, Hello}

\* A socket that ecprocessor has freed is not known to the loop any more: it is
\* neither registered nor queued nor in the batch being dispatched, and its callback
\* does not run (test.c:25-33 through socket.c:67-88).
FreedIsForgotten ==
    \A s \in Events : state[s] = "freed" =>
        interest[s] = {} /\ s \notin edge /\ evt[s] = {} /\ cur # s

\* As long as the connection holds, both ends keep receiving the record and sending
\* it back: no arrival is missed although registrations are edge-triggered and each
\* dispatch makes one readv and yields one record (socket.c:26-43, test.c:37-44).
EchoGoesOn ==
    \A s \in Events : TRUE ~> (lpc = "flush" /\ cur = s) \/ reset

\* A connection that breaks ends the loop: one of its sockets is dispatched with an
\* error, and ecprocessor calls eventloop.exit (test.c:25-33, eventloop.c:78-94).
BreakEndsLoop == reset ~> lpc = "done"
=============================================================================
