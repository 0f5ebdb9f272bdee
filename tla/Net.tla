-------------------------------- MODULE Net ---------------------------------
(***************************************************************************)
(* The blocking helpers of net.c: starting a server, accepting,            *)
(* connecting, and the loops of readn and writen.  Every system call may   *)
(* fail; read, write and accept may be interrupted, read and write may     *)
(* transfer less than was asked for.                                       *)
(***************************************************************************)
EXTENDS Descriptors

CONSTANTS
    MaxAddrs,  \* bound: how many addresses getaddrinfo returns
    Byte,      \* the bytes that are transferred
    Input,     \* what the peer sends
    Sizes,     \* how much callers ask readn for
    Chunks,    \* what callers pass to writen
    MaxSink,   \* bound: how many bytes callers write in all
    MaxIntr    \* bound: how often one call is interrupted

\* Callers ask for one byte at least.
ASSUME NetAssumption ==
    /\ MaxAddrs \in Nat /\ MaxSink \in Nat /\ MaxIntr \in Nat
    /\ Input \in Seq(Byte) /\ Sizes \subseteq Nat \ {0}
    /\ Chunks \subseteq Seq(Byte) \ {<<>>}

VARIABLES
    inq, sink,       \* what is still to be read from the peer, what was written to it
    taken, written,  \* history: what readn and writen returned with success for
    torn             \* history: the helpers that failed after a part was transferred

data == <<inq, sink, taken, written, torn>>

NetInit ==
    /\ inq = Input /\ sink = <<>>
    /\ taken = <<>> /\ written = <<>> /\ torn = {}

-----------------------------------------------------------------------------
(* tcp_server *)

\* n addresses are found; with n = 0 getaddrinfo fails.
tcp_server(n) ==
    /\ MayCall("tcp_server")
    /\ Begins([op |-> "tcp_server", left |-> n, fd |-> -1])
    /\ UNCHANGED <<table, rlim, data>>

ServerSocketFails ==
    /\ InCall("tcp_server") /\ call.fd = -1
    /\ IF call.left > 0 THEN call' = [call EXCEPT !.left = @ - 1] /\ UNCHANGED result
       ELSE Returns(-1)
    /\ UNCHANGED <<table, rlim, data>>

\* socket, and reuse, which does not fail on an open socket.
ServerSocket(fd) ==
    /\ InCall("tcp_server") /\ call.fd = -1 /\ call.left > 0
    /\ Opens(fd, "socket")
    /\ call' = [call EXCEPT !.fd = fd]
    /\ UNCHANGED <<owned, lost, rlim, result, data>>

\* Seeded fault: the descriptor is returned after it was closed.
ListenFailsReturnsFd ==
    /\ InCall("tcp_server") /\ call.fd # -1
    /\ kind' = [kind EXCEPT ![call.fd] = "free"]
    /\ Hands(call.fd)
    /\ UNCHANGED <<lost, rlim, data>>

\* Seeded fault: tcp_listen does not close the descriptor.
ListenFailsKeepsFd ==
    /\ InCall("tcp_server") /\ call.fd # -1
    /\ Returns(-1)
    /\ UNCHANGED <<table, rlim, data>>

\* tcp_listen closes the descriptor; no other address is tried.
ListenFails ==
    /\ InCall("tcp_server") /\ call.fd # -1
    /\ kind' = [kind EXCEPT ![call.fd] = "free"]
    /\ Returns(-1)
    /\ UNCHANGED <<owned, lost, rlim, data>>

Listens ==
    /\ InCall("tcp_server") /\ call.fd # -1
    /\ kind' = [kind EXCEPT ![call.fd] = "listen"]
    /\ Hands(call.fd)
    /\ UNCHANGED <<lost, rlim, data>>

-----------------------------------------------------------------------------
(* tcp_connect, unix_connect and unix_server *)

\* "fd == socket(...)" compares: fd stays -1, reuse fails on it, and the helper
\* returns -1 whether or not socket has opened a descriptor.
ConnectHelper(op) ==
    /\ MayCall(op)
    /\ \/ \E fd \in Fds : Opens(fd, "socket") /\ lost' = lost \union {fd}
       \/ UNCHANGED <<kind, lost>>
    /\ Returns(-1)
    /\ UNCHANGED <<owned, rlim, data>>

-----------------------------------------------------------------------------
(* nonblock_accept, under tcp_accept and unix_accept *)

accept(lfd) ==
    /\ MayCall("accept")
    /\ lfd \in owned /\ kind[lfd] = "listen"
    /\ Begins([op |-> "accept", intr |-> 0])
    /\ UNCHANGED <<table, rlim, data>>

AcceptFails ==
    /\ InCall("accept")
    /\ Returns(-1)
    /\ UNCHANGED <<table, rlim, data>>

Accepts(fd) ==
    /\ InCall("accept")
    /\ Opens(fd, "conn")
    /\ Hands(fd)
    /\ UNCHANGED <<lost, rlim, data>>

-----------------------------------------------------------------------------
(* readn and writen, on a connection the caller has *)

Connected == \E fd \in owned : kind[fd] = "conn"

\* EINTR: the loop of accept, readn or writen goes round.
Interrupted ==
    /\ call.op \in {"accept", "readn", "writen"}
    /\ call.intr < MaxIntr
    /\ call' = [call EXCEPT !.intr = @ + 1]
    /\ UNCHANGED <<table, rlim, result, data>>

readn(sz) ==
    /\ MayCall("readn") /\ Connected
    /\ Begins([op |-> "readn", sz |-> sz, buf |-> <<>>, intr |-> 0])
    /\ UNCHANGED <<table, rlim, data>>

ReadnReturns(buf) ==
    /\ Returns(Len(buf))
    /\ taken' = taken \o buf

\* Seeded fault: buf is not advanced.
ReadOverwrites(n) ==
    LET buf == SubSeq(inq, 1, n) \o SubSeq(call.buf, n + 1, Len(call.buf))
    IN  /\ InCall("readn")
        /\ n <= Len(inq) /\ n <= call.sz
        /\ inq' = SubSeq(inq, n + 1, Len(inq))
        /\ IF n = call.sz THEN ReadnReturns(buf)
           ELSE call' = [call EXCEPT !.buf = buf, !.sz = @ - n] /\ UNCHANGED <<result, taken>>
        /\ UNCHANGED <<table, rlim, sink, written, torn>>

\* read returns n bytes of the nleft that are missing.
Read(n) ==
    LET buf == call.buf \o SubSeq(inq, 1, n)
        nleft == call.sz - Len(call.buf)
    IN  /\ InCall("readn")
        /\ n <= Len(inq) /\ n <= nleft
        /\ inq' = SubSeq(inq, n + 1, Len(inq))
        /\ IF n = nleft THEN ReadnReturns(buf)
           ELSE call' = [call EXCEPT !.buf = buf] /\ UNCHANGED <<result, taken>>
        /\ UNCHANGED <<table, rlim, sink, written, torn>>

\* read returns 0.
ReadEof ==
    /\ InCall("readn")
    /\ inq = <<>>
    /\ ReadnReturns(call.buf)
    /\ UNCHANGED <<table, rlim, inq, sink, written, torn>>

\* Another error: what was read so far is not reported.
ReadFails ==
    /\ InCall("readn")
    /\ torn' = IF call.buf = <<>> THEN torn ELSE torn \union {"readn"}
    /\ Returns(-1)
    /\ UNCHANGED <<table, rlim, inq, sink, taken, written>>

writen(s) ==
    /\ MayCall("writen") /\ Connected
    /\ Len(sink) + Len(s) <= MaxSink
    /\ Begins([op |-> "writen", s |-> s, done |-> 0, intr |-> 0])
    /\ UNCHANGED <<table, rlim, data>>

\* Seeded fault: a partial write is taken for a complete one.
WriteOnce(n) ==
    /\ InCall("writen")
    /\ n <= Len(call.s)
    /\ sink' = sink \o SubSeq(call.s, 1, n)
    /\ Returns(Len(call.s)) /\ written' = written \o call.s
    /\ UNCHANGED <<table, rlim, inq, taken, torn>>

\* write takes n bytes of the nleft that are missing.
Write(n) ==
    LET nleft == Len(call.s) - call.done
    IN  /\ InCall("writen")
        /\ n <= nleft
        /\ sink' = sink \o SubSeq(call.s, call.done + 1, call.done + n)
        /\ IF n = nleft
           THEN Returns(Len(call.s)) /\ written' = written \o call.s
           ELSE call' = [call EXCEPT !.done = @ + n] /\ UNCHANGED <<result, written>>
        /\ UNCHANGED <<table, rlim, inq, taken, torn>>

\* write fails, or returns 0.
WriteFails ==
    /\ InCall("writen")
    /\ torn' = IF call.done = 0 THEN torn ELSE torn \union {"writen"}
    /\ Returns(-1)
    /\ UNCHANGED <<table, rlim, inq, sink, taken, written>>

-----------------------------------------------------------------------------
NetCall ==
    \/ \E n \in 0 .. MaxAddrs : tcp_server(n)
    \/ \E op \in {"tcp_connect", "unix_connect", "unix_server"} : ConnectHelper(op)
    \/ \E fd \in Fds : accept(fd)
    \/ \E sz \in Sizes : readn(sz)
    \/ \E s \in Chunks : writen(s)

NetStep ==
    \/ ServerSocketFails \/ ListenFails \/ Listens \/ AcceptFails
    \/ \E fd \in Fds : ServerSocket(fd) \/ Accepts(fd)
    \/ Interrupted \/ ReadEof \/ ReadFails \/ WriteFails
    \/ \E n \in 1 .. Len(Input) : Read(n)
    \/ \E n \in 1 .. MaxSink : Write(n)

-----------------------------------------------------------------------------
(* Properties *)

\* What the caller got from readn, then what a call in progress has read, then what
\* is still to come, is what the peer sent, however read cuts it and wherever it is
\* interrupted, unless a readn failed half-way (net.c:130-142).
ReadnExact ==
    "readn" \notin torn =>
        taken \o (IF InCall("readn") THEN call.buf ELSE <<>>) \o inq = Input

\* What the peer got is what writen was given, up to the part that a call in progress
\* has still to send, unless a writen failed half-way (net.c:144-156).
WritenExact ==
    "writen" \notin torn =>
        sink = written \o (IF InCall("writen") THEN SubSeq(call.s, 1, call.done) ELSE <<>>)
=============================================================================
