----------------------------- MODULE EchoProofs -----------------------------
(***************************************************************************)
(* The echo program for every record, buffer size and segmentation: the    *)
(* record stays whole, and a socket that was freed is forgotten.           *)
(***************************************************************************)
EXTENDS Echo, BufferProofs, EventPollProofs

\* The two ends of the connection.
LEMMA PeerFacts ==
    ASSUME NEW s \in Events
    PROVE  /\ Peer(s) \in Events /\ Peer(s) # s /\ Peer(Peer(s)) = s
           /\ \A t \in Events : t = s \/ t = Peer(s)
<1>1. PICK a \in Events : a # Client /\ Events = {Client, a}
  BY EchoAssumption
<1>2. ASSUME NEW t \in Events PROVE Peer(t) \in Events /\ Peer(t) # t
  BY <1>1, <1>2 DEF Peer
<1> QED
  BY <1>1, <1>2

-----------------------------------------------------------------------------
(* The loop and its sockets *)

InCallback == lpc \in {"read", "disconnect", "flush"}

\* A socket is registered, and can be in a batch, only while it is used; the socket
\* whose callback runs is used and is no longer in the batch.
LoopInv ==
    /\ PollTypeOK
    /\ state \in [Events -> {"new", "used", "freed"}]
    /\ IF InCallback THEN cur \in Events /\ state[cur] = "used" /\ evt[cur] = {}
       ELSE cur = NULL
    /\ \A s \in Events : Known(s) /\ Queued(s)
    /\ \A s \in Events : state[s] # "used" => interest[s] = {} /\ evt[s] = {}

\* The event_t that socket_enable gives to eventpoll_apply.
LEMMA EnableFields ==
    ASSUME PollTypeOK, NEW s \in Events, NEW enable \in BOOLEAN,
           NEW f, f = [ev[s] EXCEPT !.mask = IF enable THEN {"READ"} ELSE {}]
    PROVE  /\ f \in EventFields /\ f.last_mask = ev[s].last_mask
           /\ ~enable => NewMask(f.mask) = {}
<1>1. ev[s] \in EventFields
  BY DEF PollTypeOK
<1>2. (IF enable THEN {"READ"} ELSE {}) \in SUBSET EVMASK
  BY DEF EVMASK
<1>3. f \in EventFields /\ f.last_mask = ev[s].last_mask /\ f.mask = IF enable THEN {"READ"} ELSE {}
  BY <1>1, <1>2 DEF EventFields
<1> QED
  BY <1>3 DEF NewMask

\* socket_enable, on a socket of any registration (socket.c:67-88).
LEMMA EnableFacts ==
    ASSUME LoopInv, NEW s \in Events, NEW enable \in BOOLEAN, socket_enable(s, enable)
    PROVE  /\ PollTypeOK' /\ evt' = evt
           /\ \A t \in Events : Known(t)' /\ Queued(t)'
           /\ \A t \in Events : t # s => interest'[t] = interest[t]
           /\ ~enable => interest'[s] = {}
<1> DEFINE f == [ev[s] EXCEPT !.mask = IF enable THEN {"READ"} ELSE {}]
<1>1. PollTypeOK /\ Known(s) /\ Queued(s) /\ eventpoll_apply(s, f)
  BY DEF LoopInv, socket_enable
<1>2. f \in EventFields /\ f.last_mask = ev[s].last_mask /\ (~enable => NewMask(f.mask) = {})
  BY <1>1, EnableFields
<1> HIDE DEF f
<1>3. PollTypeOK' /\ Known(s)' /\ Queued(s)' /\ (~enable => interest'[s] = {})
  BY <1>1, <1>2, ApplyFacts, ApplyRegisters
<1>4. evt' = evt
  BY <1>1 DEF eventpoll_apply
<1>5. ASSUME NEW t \in Events, t # s
      PROVE  ev'[t] = ev[t] /\ interest'[t] = interest[t] /\ (t \in edge' <=> t \in edge)
  BY <1>1, <1>5, ApplyOthers
<1>6. ASSUME NEW t \in Events, t # s PROVE Known(t)' /\ Queued(t)'
  BY <1>5, <1>6 DEF LoopInv, Known, Queued
<1> QED
  BY <1>3, <1>4, <1>5, <1>6

\* Steps that leave epoll and the sockets' states alone.
LEMMA SamePoll ==
    ASSUME LoopInv, UNCHANGED <<pollVars, state>>,
           \/ lpc' \in {"read", "disconnect", "flush"} /\ InCallback /\ cur' = cur
           \/ lpc' \notin {"read", "disconnect", "flush"} /\ cur' = NULL
    PROVE  LoopInv'
BY DEF LoopInv, pollVars, PollTypeOK, Known, Queued, InCallback

\* ecprocessor is called in the callback and goes on to the flush or ends it.
LEMMA ProcessorLeaves ==
    ASSUME NEW s, NEW c, ecprocessor(s, c)
    PROVE  \/ lpc' = "flush" /\ cur' = cur
           \/ lpc' = "dispatch" /\ cur' = NULL
BY DEF ecprocessor

LEMMA LoopInit == Init => LoopInv
<1> SUFFICES ASSUME Init PROVE LoopInv
  OBVIOUS
<1>1. event_init \in EventFields /\ event_init.last_mask = {}
  BY DEF event_init, EventFields
<1>2. PollTypeOK
  <2> HIDE DEF event_init
  <2> QED
    BY <1>1 DEF Init, PollTypeOK, eventpoll_new
<1>3. /\ state = [s \in Events |-> "new"] /\ lpc = "poll" /\ cur = NULL
      /\ interest = [s \in Events |-> {}] /\ edge = {}
      /\ evt = [e \in Events \union {Wake} |-> {}]
  BY DEF Init, eventpoll_new
<1> QED
  BY <1>2, <1>3 DEF LoopInv, InCallback, Known, Queued

LEMMA LoopStepInv == ASSUME LoopInv, [Next]_vars PROVE LoopInv'
<1> USE EventsAssumption
<1>1. ASSUME NEW s \in Events, acceptor(s) PROVE LoopInv'
  <2>1. /\ socket_enable(s, TRUE) /\ state' = [state EXCEPT ![s] = "used"]
        /\ lpc' = "dispatch" /\ cur' = cur /\ state[s] = "new" /\ cur = NULL
    BY <1>1 DEF acceptor, OtherCallback, LoopInv, InCallback
  <2>2. /\ PollTypeOK' /\ evt' = evt
        /\ \A t \in Events : Known(t)' /\ Queued(t)'
        /\ \A t \in Events : t # s => interest'[t] = interest[t]
    BY <2>1, EnableFacts
  <2> QED
    BY <2>1, <2>2 DEF LoopInv, InCallback
<1>2. CASE connected
  <2>0. Client \in Events
    BY EchoAssumption
  <2>1. /\ socket_enable(Client, TRUE) /\ state' = [state EXCEPT ![Client] = "used"]
        /\ lpc' = "flush" /\ cur' = Client /\ state[Client] = "new"
    BY <1>2 DEF connected, OtherCallback
  <2>2. /\ PollTypeOK' /\ evt' = evt
        /\ \A t \in Events : Known(t)' /\ Queued(t)'
        /\ \A t \in Events : t # Client => interest'[t] = interest[t]
    BY <2>0, <2>1, EnableFacts
  <2> QED
    BY <2>0, <2>1, <2>2 DEF LoopInv, InCallback
<1>3. CASE While
  BY <1>3, SamePoll DEF While, socks, LoopInv, InCallback
<1>4. CASE Poll
  <2>1. PICK items \in SUBSET Events : epoll_wait(items)
    BY <1>4 DEF Poll
  <2>2. /\ lpc = "poll" /\ lpc' = "dispatch" /\ cur' = cur /\ state' = state
    BY <1>4 DEF Poll, socks
  <2>3. /\ UNCHANGED <<ev, interest, wakes>> /\ edge' = edge \ items
        /\ evt' \in [Events \union {Wake} -> SUBSET EVMASK]
        /\ \A e \in Events : e \notin items => evt'[e] = {}
        /\ \A e \in items : interest[e] # {}
    BY <2>1 DEF epoll_wait, Deliverable
  <2>4. PollTypeOK'
    BY <2>3 DEF LoopInv, PollTypeOK
  <2>5. \A t \in Events : Known(t)' /\ Queued(t)'
    BY <2>3 DEF LoopInv, Known, Queued
  <2> QED
    BY <2>2, <2>3, <2>4, <2>5 DEF LoopInv, InCallback
<1>5. ASSUME NEW s \in Events, sock_dispatch(s) PROVE LoopInv'
  <2> DEFINE stamped == [ev[s] EXCEPT !.mask = evt[s], !.last_mask = DEFAULT_POLL_MASK]
  <2>1. ev[s] \in EventFields /\ evt[s] \in SUBSET EVMASK
    BY DEF LoopInv, PollTypeOK
  <2>2. stamped \in EventFields /\ stamped.last_mask # {}
    BY <2>1 DEF EventFields, DEFAULT_POLL_MASK, EPOLLMASK
  <2>3. /\ ev' = [ev EXCEPT ![s] = stamped] /\ evt' = [evt EXCEPT ![s] = {}]
        /\ UNCHANGED <<interest, edge, wakes, state>>
        /\ lpc' \in {"read", "disconnect"} /\ cur' = s /\ evt[s] # {}
    BY <1>5 DEF sock_dispatch, StampEvent, socks
  <2> HIDE DEF stamped
  <2>4. PollTypeOK'
    BY <2>2, <2>3 DEF LoopInv, PollTypeOK
  <2>5. \A t \in Events : Known(t)' /\ Queued(t)'
    BY <2>2, <2>3 DEF LoopInv, PollTypeOK, Known, Queued
  <2>6. state[s] = "used"
    BY <2>3 DEF LoopInv
  <2>7. evt'[s] = {} /\ \A t \in Events : evt'[t] = {} \/ evt'[t] = evt[t]
    BY <2>3 DEF LoopInv, PollTypeOK
  <2> QED
    BY <2>3, <2>4, <2>5, <2>6, <2>7 DEF LoopInv, InCallback
<1>6. CASE TryRead \/ TryReadAgain
  <2>1. UNCHANGED <<pollVars, state>> /\ lpc = "read"
    BY <1>6 DEF TryRead, TryReadAgain
  <2>2. PICK c : ecprocessor(cur, c)
    BY <1>6 DEF TryRead, TryReadAgain
  <2> QED
    BY <2>1, <2>2, ProcessorLeaves, SamePoll DEF InCallback
<1>7. CASE TryReadFails
  BY <1>7, SamePoll DEF TryReadFails, socks, InCallback
<1>8. CASE Disconnect
  <2>1. cur \in Events /\ state[cur] = "used" /\ evt[cur] = {}
    BY <1>8 DEF Disconnect, LoopInv, InCallback
  <2>2. /\ socket_enable(cur, FALSE) /\ state' = [state EXCEPT ![cur] = "freed"]
        /\ lpc' = "dispatch" /\ cur' = NULL
    BY <1>8 DEF Disconnect
  <2>3. /\ PollTypeOK' /\ evt' = evt /\ interest'[cur] = {}
        /\ \A t \in Events : Known(t)' /\ Queued(t)'
        /\ \A t \in Events : t # cur => interest'[t] = interest[t]
    BY <2>1, <2>2, EnableFacts
  <2> QED
    BY <2>1, <2>2, <2>3 DEF LoopInv, InCallback
<1>9. CASE WritevFails
  BY <1>9, SamePoll DEF WritevFails, socks
<1>10. ASSUME NEW n \in 1 .. SndBuf, Writev(n) PROVE LoopInv'
  BY <1>10, SamePoll DEF Writev, InCallback
<1>11. ASSUME NEW which \in SUBSET Events, Signal(which),
              UNCHANGED <<ev, interest, wakes, evt, state, lpc, cur>>
       PROVE  LoopInv'
  <2>1. PollTypeOK'
    BY <1>11 DEF LoopInv, PollTypeOK, Signal
  <2>2. \A t \in Events : Known(t)' /\ Queued(t)'
    BY <1>11 DEF LoopInv, Known, Queued, Signal
  <2> QED
    BY <1>11, <2>1, <2>2 DEF LoopInv, InCallback
<1>12. CASE Arrival \/ Reset
  <2>1. CASE Reset
    BY <1>11, <2>1 DEF Reset, socks
  <2>2. ASSUME NEW s \in Events, NEW n \in 1 .. SndBuf, Deliver(s, n) PROVE LoopInv'
    BY <1>11, <2>2 DEF Deliver, socks
  <2> QED
    BY <1>12, <2>1, <2>2 DEF Arrival
<1>13. CASE UNCHANGED vars
  BY <1>13 DEF LoopInv, vars, pollVars, socks, PollTypeOK, Known, Queued, InCallback
<1> QED
  BY <1>1, <1>2, <1>3, <1>4, <1>5, <1>6, <1>7, <1>8, <1>9, <1>10, <1>12, <1>13 DEF Next, LoopStep

\* A socket that ecprocessor has freed is neither registered nor queued nor in the
\* batch, and its callback does not run (test.c:25-33 through socket.c:67-88).
THEOREM SocketForgotten == Spec => []FreedIsForgotten
<1>1. LoopInv => FreedIsForgotten
  <2> SUFFICES ASSUME LoopInv, NEW s \in Events, state[s] = "freed"
               PROVE  interest[s] = {} /\ s \notin edge /\ evt[s] = {} /\ cur # s
    BY DEF FreedIsForgotten
  <2>1. cur # s
    BY EventsAssumption DEF LoopInv
  <2> QED
    BY <2>1 DEF LoopInv, Queued
<1>2. LoopInv /\ [Next]_vars => LoopInv'
  BY LoopStepInv
<1> QED
  BY <1>1, <1>2, LoopInit, PTL DEF Spec

-----------------------------------------------------------------------------
(* The buffers of the streams keep their first size *)

Sized(c) == BufOK(c) /\ Rewound(c) /\ c.size = DefaultSize
Front(c) == Sized(c) /\ c.rpos = 0

\* buffer_read.
LEMMA SizedRead ==
    ASSUME NEW c, Sized(c), NEW n \in 0 .. Len(Readable(c)), NEW d, d = buffer_read(c, n)
    PROVE  Sized(d) /\ Readable(d) = After(Readable(c), n)
<1>1. Len(Readable(c)) \in Nat
  BY ReadableType DEF Sized, BufOK
<1>2. n \in Nat /\ Min2(n, Len(Readable(c))) = n
  BY <1>1 DEF Min2
<1>3. BufOK(d) /\ Rewound(d) /\ Readable(d) = After(Readable(c), n)
  BY <1>2, ReadFacts DEF Sized
<1>4. d.size = c.size
  BY DEF buffer_read, Advance, Sized, BufOK
<1> QED
  BY <1>3, <1>4 DEF Sized

\* stream_fill of what fits.
LEMMA SizedFill ==
    ASSUME NEW c, Front(c), NEW s \in Seq(Cell), Len(s) <= buffer_space(c),
           NEW d, d = Filled(c, s, TRUE, TRUE)
    PROVE  Front(d) /\ Readable(d) = Cat(Readable(c), s)
BY FillFacts DEF Front, Sized

\* stream_printf of a text that leaves room for its NUL, into an empty buffer.
LEMMA SizedPrint ==
    ASSUME NEW c, Sized(c), Readable(c) = <<>>, NEW text \in Seq(Byte),
           Len(text) \in 1 .. DefaultSize - 1, NEW d, d = Printed(c, text)
    PROVE  Sized(d) /\ Readable(d) = text
<1> DEFINE p == vprintf_pass(c, text, TRUE)
           f == Formatted(c, text)
<1>1. c.wpos = 0 /\ c.rpos = 0 /\ buffer_space(c) = DefaultSize
  BY ReadableType, EmptySeq DEF Sized, BufOK, Rewound
<1>2. Len(text) < TwoTo32 /\ text # <<>> /\ DefaultSize \in Nat
  BY BufferAssumption
<1>3. Shown(c, text) = text
  BY <1>1, <1>2 DEF Shown
<1>4. Len(text) # 0 /\ Len(text) <= buffer_space(c)
  BY <1>1, <1>2
<1>5. p = [buf |-> [f EXCEPT !.wpos = U32(f.wpos + Len(text))], again |-> FALSE]
  <2> HIDE DEF f
  <2> QED
    BY <1>4 DEF vprintf_pass, f
<1>6. f.size = c.size /\ DOMAIN f = {"mem", "size", "rpos", "wpos"}
  BY DEF Formatted, Sized, BufOK
<1> HIDE DEF f, p
<1>7. p.again = FALSE /\ p.buf.size = c.size
  BY <1>5, <1>6
<1>8. d = p.buf
  BY <1>7 DEF Printed, p
<1>9. BufOK(p.buf) /\ Rewound(p.buf) /\ Readable(p.buf) = Cat(Readable(c), text)
  <2>1. p = vprintf_pass(c, text, TRUE) /\ TRUE \in BOOLEAN
    BY DEF p
  <2>2. c.wpos + Len(text) < TwoTo32 /\ text \in Seq(Byte) \ {<<>>}
    BY <1>1, <1>2
  <2>3. BufOK(c) /\ Rewound(c)
    BY DEF Sized
  <2> QED
    BY <1>3, <1>7, <2>1, <2>2, <2>3, PrintFacts, ZenonT(30)
<1>10. text \in Seq(Cell)
  BY DEF Cell
<1>11. Cat(Readable(c), text) = text
  BY <1>10, CatEmpty
<1> QED
  BY <1>7, <1>8, <1>9, <1>11 DEF Sized

\* stream_yield of all there is, the CR having been replaced by a NUL.
LEMMA YieldAll ==
    ASSUME NEW c, Front(c), NEW k \in Nat, k + 2 = Len(Readable(c)),
           NEW d, d = buffer_yield([c EXCEPT !.mem = Store(@, c.rpos + k, <<NUL>>)], k + 2)
    PROVE  Front(d) /\ Readable(d) = <<>>
<1> DEFINE m == Store(c.mem, c.rpos + k, <<NUL>>)
           e == [c EXCEPT !.mem = m]
<1>1. <<NUL>> \in Seq(Cell)
  BY DEF Cell
<1>2. m \in [0 .. c.size - 1 -> Cell]
  <2>1. c.size \in Nat /\ c.mem \in [0 .. c.size - 1 -> Cell] /\ c.rpos + k \in Nat
    BY DEF Front, Sized, BufOK
  <2> DEFINE nul == <<NUL>>
  <2> HIDE DEF nul
  <2>2. nul \in Seq(Cell)
    BY <1>1 DEF nul
  <2>3. Store(c.mem, c.rpos + k, nul) \in [0 .. c.size - 1 -> Cell]
    BY <2>1, <2>2, StoreType
  <2> QED
    BY <2>3 DEF nul
<1> HIDE DEF m
<1>3. /\ e.mem = m /\ e.size = c.size /\ e.rpos = 0 /\ e.wpos = c.wpos
      /\ DOMAIN e = {"mem", "size", "rpos", "wpos"}
  BY DEF Front, Sized, BufOK
<1>4. c.wpos = k + 2
  BY ReadableType DEF Front, Sized, BufOK
<1>5. U32(e.rpos + (k + 2)) = k + 2
  <2>1. c.wpos < TwoTo32 /\ TwoTo32 \in Nat
    BY BufferAssumption DEF Front, Sized, BufOK
  <2> HIDE DEF e
  <2> QED
    BY <1>3, <1>4, <2>1 DEF U32
<1>6. d = buffer_yield(e, k + 2)
  BY DEF m
<1> HIDE DEF e
<1>7. d = [e EXCEPT !.rpos = 0, !.wpos = 0]
  BY <1>3, <1>4, <1>5, <1>6 DEF buffer_yield, Advance
<1>8. d.mem = m /\ d.size = c.size /\ d.rpos = 0 /\ d.wpos = 0 /\ DOMAIN d = {"mem", "size", "rpos", "wpos"}
  BY <1>3, <1>7
<1>9. BufOK(d) /\ Rewound(d)
  <2>1. c.size \in Nat /\ c.size < TwoTo32
    BY DEF Front, Sized, BufOK
  <2>2. d.mem \in [0 .. d.size - 1 -> Cell]
    BY <1>2, <1>8
  <2> QED
    BY <1>8, <2>1, <2>2 DEF BufOK, Rewound
<1>10. Len(Readable(d)) = 0 /\ Readable(d) \in Seq(Cell)
  BY <1>8, <1>9, ReadableType
<1> QED
  BY <1>8, <1>9, <1>10, EmptySeq DEF Front, Sized

-----------------------------------------------------------------------------
(* The record *)

\* The text of test.c:74: its only CR LF is at its end, and it fits into a buffer
\* with its NUL.
OneLine ==
    /\ Len(Hello) \in 2 .. DefaultSize - 1
    /\ \A k \in 0 .. Len(Hello) - 2 :
          Hello[k + 1] = CR /\ Hello[k + 2] = LF => k = Len(Hello) - 2
    /\ Hello[Len(Hello) - 1] = CR /\ Hello[Len(Hello)] = LF

\* The delimiter of ecprocessor, and where it occurs.
LEMMA DelimFacts ==
    ASSUME NEW c, BufOK(c), NEW k
    PROVE  k \in Occurrences(c, Delim) <=>
              /\ k \in 0 .. Len(Readable(c)) - 2
              /\ Readable(c)[k + 1] = CR /\ Readable(c)[k + 2] = LF
<1> DEFINE dl == Delim
           r == Readable(c)
<1>1. Len(dl) = 2 /\ dl[1] = CR /\ dl[2] = LF
  BY DEF Delim
<1>2. 1 .. 2 = {1, 2}
  OBVIOUS
<1> HIDE DEF dl, r
<1>3. Occurrences(c, dl) = {j \in 0 .. Len(r) - Len(dl) : \A i \in 1 .. Len(dl) : r[j + i] = dl[i]}
  BY DEF Occurrences, r
<1>4. Occurrences(c, dl) = {j \in 0 .. Len(r) - 2 : \A i \in {1, 2} : r[j + i] = dl[i]}
  BY <1>1, <1>2, <1>3
<1> QED
  BY <1>1, <1>4 DEF dl, r

\* If what is readable, r, is the start of the record and the rest of it is still
\* under way, then the delimiter occurs in r only when r is the whole record.
LEMMA WholeOrNothing ==
    ASSUME OneLine, NEW c, BufOK(c), NEW rest \in Seq(Cell),
           Cat(Readable(c), rest) \in {<<>>, Hello}, NEW k \in Occurrences(c, Delim)
    PROVE  Readable(c) = Hello /\ rest = <<>> /\ k \in Nat /\ k + 2 = Len(Hello)
<1> DEFINE r == Readable(c)
           w == Cat(r, rest)
<1>1. r \in Seq(Cell) /\ Len(r) \in Nat /\ Len(rest) \in Nat
  BY ReadableType
<1>2. k \in 0 .. Len(r) - 2 /\ r[k + 1] = CR /\ r[k + 2] = LF
  BY DelimFacts
<1> HIDE DEF r
<1>3. /\ w \in Seq(Cell) /\ Len(w) = Len(r) + Len(rest)
      /\ \A i \in 1 .. Len(r) : w[i] = r[i]
  BY <1>1, CatFacts
<1>4. w \in {<<>>, Hello}
  BY DEF r
<1> HIDE DEF w
<1>5. w = Hello
  <2>1. Len(w) # 0
    BY <1>1, <1>2, <1>3
  <2> QED
    BY <1>4, <2>1
<1>6. /\ k \in Nat /\ k \in 0 .. Len(Hello) - 2 /\ Len(Hello) \in Nat
      /\ Hello[k + 1] = CR /\ Hello[k + 2] = LF
  <2>1. k + 1 \in 1 .. Len(r) /\ k + 2 \in 1 .. Len(r)
    BY <1>1, <1>2
  <2> QED
    BY <1>1, <1>2, <1>3, <1>5, <2>1
<1>7. k = Len(Hello) - 2
  BY <1>6 DEF OneLine
<1>8. Len(rest) = 0
  BY <1>1, <1>2, <1>3, <1>5, <1>6, <1>7
<1>9. rest = <<>>
  BY <1>8, EmptySeq
<1>10. Cat(r, <<>>) = r
  BY <1>1, CatEmpty
<1> QED
  BY <1>5, <1>6, <1>7, <1>9, <1>10 DEF r, w

\* What ecprocessor prints for the whole record is the record.
LEMMA AnswerIsRecord ==
    ASSUME OneLine, NEW c, Readable(c) = Hello, NEW k \in Nat, k + 2 = Len(Hello)
    PROVE  Answer(c, k) = Hello
<1> DEFINE stops == {i \in 1 .. k : Readable(c)[i] = NUL}
<1>1. Hello \in Seq(Byte) /\ Len(Hello) \in Nat
  BY EchoAssumption
<1>2. stops = {}
  <2>1. \A i \in 1 .. k : Hello[i] \in Byte
    BY <1>1
  <2> QED
    BY <2>1, BufferAssumption
<1>3. Answer(c, k) = SubSeq(Hello, 1, k) \o <<CR, LF>>
  BY <1>2 DEF Answer, Delim
<1> DEFINE h == SubSeq(Hello, 1, k)
           l == <<CR, LF>>
           a == Cat(h, l)
<1>4. h \in Seq(Cell) /\ Len(h) = k /\ \A i \in 1 .. k : h[i] = Hello[i]
  BY <1>1 DEF Cell
<1>5. l \in Seq(Cell) /\ Len(l) = 2 /\ l[1] = CR /\ l[2] = LF
  BY EchoAssumption DEF Cell
<1> HIDE DEF h, l
<1>6. /\ a \in Seq(Cell) /\ Len(a) = k + 2
      /\ \A i \in 1 .. k : a[i] = h[i]
      /\ \A i \in 1 .. 2 : a[k + i] = l[i]
  <2>1. /\ a \in Seq(Cell) /\ Len(a) = Len(h) + Len(l)
        /\ \A i \in 1 .. Len(h) : a[i] = h[i]
        /\ \A i \in 1 .. Len(l) : a[Len(h) + i] = l[i]
    BY <1>4, <1>5, CatFacts
  <2> HIDE DEF a
  <2> QED
    BY <1>4, <1>5, <2>1
<1> HIDE DEF a
<1>7. ASSUME NEW i \in 1 .. Len(Hello) PROVE a[i] = Hello[i]
  <2>1. CASE i <= k
    BY <1>4, <1>6, <2>1
  <2>2. CASE i = k + 1
    BY <1>5, <1>6, <2>2 DEF OneLine
  <2>3. CASE i = k + 2
    BY <1>5, <1>6, <2>3 DEF OneLine
  <2> QED
    BY <2>1, <2>2, <2>3
<1>8. a = Hello
  <2>1. Hello \in Seq(Cell)
    BY <1>1 DEF Cell
  <2> QED
    BY <1>6, <1>7, <2>1, SameSeq
<1> QED
  BY <1>3, <1>8 DEF a, h, l, Cat

\* The input that is buffered, what has arrived, what is in the network and the
\* output that is buffered at the other end.
Way(i, r, n, o) == Cat(Cat(Cat(i, r), n), o)
WayTo(s) == Way(Readable(istm[s]), rcv[s], net[s], Readable(ostm[Peer(s)]))

DataTypes ==
    /\ DOMAIN istm = Events /\ DOMAIN ostm = Events /\ DOMAIN rcv = Events /\ DOMAIN net = Events
    /\ \A s \in Events : /\ Front(istm[s]) /\ Sized(ostm[s])
                         /\ rcv[s] \in Seq(Cell) /\ net[s] \in Seq(Cell)

\* Nothing is under way before the first record is printed; then the record is on
\* its way to one end, and nothing to the other.
RecordInv ==
    IF state[Client] = "new" THEN \A s \in Events : WayTo(s) = <<>>
    ELSE \E s \in Events : WayTo(s) = Hello /\ WayTo(Peer(s)) = <<>>

DataInv == DataTypes /\ RecordInv

LEMMA NoCells ==
    ASSUME NEW x \in Seq(Cell), Len(x) = 0
    PROVE  x = <<>>
BY EmptySeq

LEMMA WayFacts ==
    ASSUME NEW i \in Seq(Cell), NEW r \in Seq(Cell), NEW n \in Seq(Cell), NEW o \in Seq(Cell)
    PROVE  /\ Way(i, r, n, o) \in Seq(Cell)
           /\ Way(i, r, n, o) = Cat(Cat(i, r), Cat(n, o))
           /\ Len(Way(i, r, n, o)) = Len(i) + Len(r) + Len(n) + Len(o)
           /\ Way(i, r, n, o) = <<>> => i = <<>> /\ r = <<>> /\ n = <<>> /\ o = <<>>
<1>1. Cat(i, r) \in Seq(Cell) /\ Len(Cat(i, r)) = Len(i) + Len(r)
  BY CatFacts
<1> DEFINE a == Cat(i, r)
<1> HIDE DEF a
<1>2. Cat(a, n) \in Seq(Cell) /\ Len(Cat(a, n)) = Len(a) + Len(n)
  BY <1>1, CatFacts DEF a
<1> DEFINE b2 == Cat(a, n)
<1> HIDE DEF b2
<1>3. Cat(b2, o) \in Seq(Cell) /\ Len(Cat(b2, o)) = Len(b2) + Len(o)
  BY <1>2, CatFacts DEF b2
<1>4. Way(i, r, n, o) = Cat(b2, o)
  BY DEF Way, a, b2
<1>5. Cat(b2, o) = Cat(a, Cat(n, o))
  BY <1>1, CatAssociative DEF a, b2
<1>6. Len(i) \in Nat /\ Len(r) \in Nat /\ Len(n) \in Nat /\ Len(o) \in Nat
  OBVIOUS
<1>7. Len(Cat(b2, o)) = Len(i) + Len(r) + Len(n) + Len(o)
  BY <1>1, <1>2, <1>3, <1>6 DEF a, b2
<1>8. ASSUME Cat(b2, o) = <<>> PROVE i = <<>> /\ r = <<>> /\ n = <<>> /\ o = <<>>
  <2>1. Len(Cat(b2, o)) = 0
    BY <1>8
  <2>2. Len(i) = 0 /\ Len(r) = 0 /\ Len(n) = 0 /\ Len(o) = 0
    <3> DEFINE li == Len(i)
               lr == Len(r)
               ln == Len(n)
               lo == Len(o)
    <3>1. li + lr + ln + lo = 0
      BY <1>7, <2>1
    <3> HIDE DEF li, lr, ln, lo
    <3>2. li \in Nat /\ lr \in Nat /\ ln \in Nat /\ lo \in Nat
      BY <1>6 DEF li, lr, ln, lo
    <3>3. li = 0 /\ lr = 0 /\ ln = 0 /\ lo = 0
      BY <3>1, <3>2
    <3> QED
      BY <3>3 DEF li, lr, ln, lo
  <2> QED
    BY <2>2, NoCells
<1> QED
  BY <1>3, <1>4, <1>5, <1>7, <1>8 DEF a

LEMMA WaySplit ==
    ASSUME NEW i \in Seq(Cell), NEW r \in Seq(Cell), NEW n \in Seq(Cell), NEW o \in Seq(Cell)
    PROVE  Way(i, r, n, o) = Cat(Cat(i, r), Cat(n, o))
BY WayFacts

\* Nothing is under way when every part of the way is empty.
LEMMA WayEmpty ==
    ASSUME NEW i \in Seq(Cell), NEW r \in Seq(Cell), NEW n \in Seq(Cell), NEW o \in Seq(Cell),
           Way(i, r, n, o) = <<>>
    PROVE  i = <<>> /\ r = <<>> /\ n = <<>> /\ o = <<>>
BY WayFacts

LEMMA CatNothing ==
    ASSUME NEW n \in Seq(Cell), NEW o \in Seq(Cell), Cat(n, o) = <<>>
    PROVE  n = <<>> /\ o = <<>>
<1>1. Len(Cat(n, o)) = Len(n) + Len(o) /\ Len(Cat(n, o)) = 0
  BY CatFacts
<1>2. Len(n) \in Nat /\ Len(o) \in Nat
  OBVIOUS
<1> DEFINE ln == Len(n)
           lo == Len(o)
<1>3. ln + lo = 0 /\ ln \in Nat /\ lo \in Nat
  BY <1>1, <1>2
<1> HIDE DEF ln, lo
<1>4. ln = 0 /\ lo = 0
  BY <1>3
<1> QED
  BY <1>4, NoCells DEF ln, lo

\* Bytes that move on from x to the end of y before it.
LEMMA Shift ==
    ASSUME NEW a \in Seq(Cell), NEW y \in Seq(Cell), NEW x \in Seq(Cell), NEW n \in 0 .. Len(x)
    PROVE  /\ Cat(Cat(a, Cat(y, Before(x, n))), After(x, n)) = Cat(Cat(a, y), x)
           /\ Cat(y, Before(x, n)) \in Seq(Cell) /\ After(x, n) \in Seq(Cell)
<1> DEFINE h == Before(x, n)
           t == After(x, n)
           u == Cat(a, y)
<1>1. h \in Seq(Cell) /\ t \in Seq(Cell) /\ Cat(h, t) = x
  BY CutFacts, CutWhole
<1> HIDE DEF h, t
<1>2. Cat(y, h) \in Seq(Cell) /\ u \in Seq(Cell)
  BY <1>1, CatFacts
<1>3. Cat(a, Cat(y, h)) = Cat(u, h)
  BY <1>1, CatAssociative
<1> HIDE DEF u
<1>4. Cat(Cat(u, h), t) = Cat(u, Cat(h, t))
  BY <1>1, <1>2, CatAssociative
<1> QED
  BY <1>1, <1>2, <1>3, <1>4 DEF h, t, u

\* The parts of the way to s.
LEMMA WayParts ==
    ASSUME DataTypes, NEW s \in Events
    PROVE  /\ Readable(istm[s]) \in Seq(Cell) /\ rcv[s] \in Seq(Cell) /\ net[s] \in Seq(Cell)
           /\ Readable(ostm[s]) \in Seq(Cell) /\ Readable(ostm[Peer(s)]) \in Seq(Cell)
           /\ Peer(s) \in Events
BY PeerFacts, ReadableType DEF DataTypes, Front, Sized

LEMMA HelloFacts ==
    ASSUME OneLine
    PROVE  /\ Hello \in Seq(Cell) /\ Hello \in Seq(Byte) /\ Hello # <<>>
           /\ Len(Hello) \in 1 .. DefaultSize - 1 /\ Len(Hello) \in Nat
<1>1. Hello \in Seq(Byte) /\ Len(Hello) \in Nat
  BY EchoAssumption
<1>2. Len(Hello) \in 1 .. DefaultSize - 1
  BY <1>1 DEF OneLine
<1> QED
  BY <1>1, <1>2 DEF Cell

\* On its way to s is the record or nothing.
LEMMA WayChoice ==
    ASSUME OneLine, DataInv, NEW s \in Events
    PROVE  /\ WayTo(s) \in {<<>>, Hello}
           /\ WayTo(s) = Hello => WayTo(Peer(s)) = <<>> /\ state[Client] # "new"
<1>1. Hello # <<>>
  BY HelloFacts
<1>2. CASE state[Client] = "new"
  BY <1>1, <1>2 DEF DataInv, RecordInv
<1>3. CASE state[Client] # "new"
  <2>1. PICK t \in Events : WayTo(t) = Hello /\ WayTo(Peer(t)) = <<>>
    BY <1>3 DEF DataInv, RecordInv
  <2>2. s = t \/ s = Peer(t)
    BY PeerFacts
  <2> QED
    BY <1>1, <1>3, <2>1, <2>2
<1> QED
  BY <1>2, <1>3

\* A step that moves bytes along the way, or leaves them where they are.
LEMMA Moves ==
    ASSUME DataInv, DataTypes', \A s \in Events : WayTo(s)' = WayTo(s),
           state'[Client] = "new" <=> state[Client] = "new"
    PROVE  DataInv'
<1>1. \A s \in Events : Peer(s)' = Peer(s) /\ Peer(s) \in Events
  BY PeerFacts DEF Peer
<1>2. CASE state[Client] = "new"
  BY <1>2 DEF DataInv, RecordInv
<1>3. CASE state[Client] # "new"
  <2>1. PICK s \in Events : WayTo(s) = Hello /\ WayTo(Peer(s)) = <<>>
    BY <1>3 DEF DataInv, RecordInv
  <2>2. WayTo(s)' = Hello /\ WayTo(Peer(s))' = <<>>
    BY <1>1, <2>1
  <2> QED
    BY <1>3, <2>2 DEF DataInv, RecordInv
<1> QED
  BY <1>2, <1>3

\* Steps that touch neither a buffer nor the connection.
LEMMA SameData ==
    ASSUME DataInv, UNCHANGED <<istm, ostm, net, rcv>>,
           state'[Client] = "new" <=> state[Client] = "new"
    PROVE  DataInv'
<1>1. DataTypes'
  BY DEF DataInv, DataTypes, Front, Sized, BufOK, Rewound
<1>2. \A s \in Events : WayTo(s)' = WayTo(s)
  BY DEF WayTo, Way, Peer, Cat, Readable, buffer_avail, U32
<1> QED
  BY <1>1, <1>2, Moves

\* A segment arrives.
LEMMA DeliverStep ==
    ASSUME DataInv, NEW s \in Events, NEW n \in 1 .. SndBuf, Deliver(s, n)
    PROVE  DataInv'
<1> DEFINE x == net[s]
           y == rcv[s]
           i == Readable(istm[s])
           o == Readable(ostm[Peer(s)])
<1>1. x \in Seq(Cell) /\ y \in Seq(Cell) /\ i \in Seq(Cell) /\ o \in Seq(Cell)
  BY WayParts DEF DataInv
<1>2. /\ rcv' = [rcv EXCEPT ![s] = Cat(y, Before(x, n))]
      /\ net' = [net EXCEPT ![s] = After(x, n)]
      /\ istm' = istm /\ ostm' = ostm /\ state' = state /\ n <= Len(x)
  BY DEF Deliver, Drop, Cat, Before, After, socks
<1>3. DOMAIN rcv = Events /\ DOMAIN net = Events
  BY DEF DataInv, DataTypes
<1>4. n \in 0 .. Len(x)
  BY <1>1, <1>2
<1> HIDE DEF x, y, i, o
<1> DEFINE y1 == Cat(y, Before(x, n))
           x1 == After(x, n)
<1>5. Cat(Cat(i, y1), x1) = Cat(Cat(i, y), x) /\ y1 \in Seq(Cell) /\ x1 \in Seq(Cell)
  BY <1>1, <1>4, Shift
<1> HIDE DEF y1, x1
<1>6. /\ rcv'[s] = y1 /\ net'[s] = x1 /\ DOMAIN rcv' = Events /\ DOMAIN net' = Events
      /\ \A t \in Events : t # s => rcv'[t] = rcv[t] /\ net'[t] = net[t]
  BY <1>2, <1>3 DEF x1, y1
<1>7. DataTypes'
  BY <1>2, <1>5, <1>6 DEF DataInv, DataTypes, Front, Sized, BufOK, Rewound
<1>8. ASSUME NEW t \in Events PROVE WayTo(t)' = WayTo(t)
  <2>1. /\ WayTo(t) = Way(Readable(istm[t]), rcv[t], net[t], Readable(ostm[Peer(t)]))
        /\ WayTo(t)' = Way(Readable(istm'[t]), rcv'[t], net'[t], Readable(ostm'[Peer(t)]))
    BY DEF WayTo
  <2>2. CASE t = s
    BY <1>2, <1>5, <1>6, <2>1, <2>2 DEF Way, i, o, x, y
  <2>3. CASE t # s
    BY <1>2, <1>6, <2>1, <2>3
  <2> QED
    BY <2>2, <2>3
<1> QED
  BY <1>2, <1>7, <1>8, Moves

\* A writev of the flush.
LEMMA WritevStep ==
    ASSUME LoopInv, DataInv, NEW n \in 1 .. SndBuf, Writev(n)
    PROVE  DataInv'
<1>1. cur \in Events
  BY DEF LoopInv, Writev, InCallback
<1> SUFFICES ASSUME NEW s \in Events, s = cur
             PROVE  DataInv'
  BY <1>1
<1> DEFINE p == Peer(s)
           o == Readable(ostm[s])
           x == net[p]
           d == buffer_read(ostm[s], n)
<1>2. /\ p \in Events /\ Peer(p) = s /\ p # s /\ \A t \in Events : t = s \/ t = p
  BY <1>1, PeerFacts
<1>3. o \in Seq(Cell) /\ x \in Seq(Cell) /\ Sized(ostm[s]) /\ Len(o) = buffer_avail(ostm[s])
  BY <1>1, <1>2, ReadableType DEF DataInv, DataTypes, Sized
<1>4. /\ net' = [net EXCEPT ![p] = Cat(x, Before(o, n))]
      /\ ostm' = [ostm EXCEPT ![s] = d]
      /\ istm' = istm /\ rcv' = rcv /\ state' = state /\ n <= buffer_avail(ostm[s])
  BY DEF Writev, Cat, Before
<1>5. n \in 0 .. Len(o)
  BY <1>3, <1>4
<1>6. Sized(d) /\ Readable(d) = After(o, n)
  BY <1>3, <1>5, SizedRead
<1>7. /\ DOMAIN net = Events /\ DOMAIN ostm = Events
      /\ Readable(istm[p]) \in Seq(Cell) /\ rcv[p] \in Seq(Cell)
  BY <1>2, WayParts DEF DataInv, DataTypes
<1> DEFINE a == Cat(Readable(istm[p]), rcv[p])
           x1 == Cat(x, Before(o, n))
<1>8. a \in Seq(Cell)
  BY <1>7, CatFacts, ZenonT(30)
<1> HIDE DEF p, o, x, d, a
<1>9. Cat(Cat(a, x1), After(o, n)) = Cat(Cat(a, x), o) /\ x1 \in Seq(Cell)
  BY <1>3, <1>5, <1>8, Shift
<1> HIDE DEF x1
<1>10. /\ net'[p] = x1 /\ ostm'[s] = d /\ DOMAIN net' = Events /\ DOMAIN ostm' = Events
       /\ \A t \in Events : t # p => net'[t] = net[t]
       /\ \A t \in Events : t # s => ostm'[t] = ostm[t]
  BY <1>1, <1>2, <1>4, <1>7 DEF x1
<1>11. DataTypes'
  BY <1>4, <1>6, <1>9, <1>10 DEF DataInv, DataTypes
<1>12. WayTo(p)' = WayTo(p)
  <2>1. WayTo(p)' = Way(Readable(istm'[p]), rcv'[p], net'[p], Readable(ostm'[s]))
    BY <1>2 DEF WayTo
  <2>2. WayTo(p) = Way(Readable(istm[p]), rcv[p], x, o)
    BY <1>2 DEF WayTo, x, o
  <2> QED
    BY <1>4, <1>6, <1>9, <1>10, <2>1, <2>2 DEF Way, a
<1>13. WayTo(s)' = WayTo(s)
  <2>1. WayTo(s)' = Way(Readable(istm'[s]), rcv'[s], net'[s], Readable(ostm'[p]))
    BY DEF WayTo, p
  <2>2. WayTo(s) = Way(Readable(istm[s]), rcv[s], net[s], Readable(ostm[p]))
    BY DEF WayTo, p
  <2> QED
    BY <1>2, <1>4, <1>10, <2>1, <2>2
<1>14. \A t \in Events : WayTo(t)' = WayTo(t)
  BY <1>2, <1>12, <1>13
<1> QED
  BY <1>4, <1>11, <1>14, Moves

\* When all that arrived has been read.
LEMMA WayRead ==
    ASSUME NEW r \in Seq(Cell), NEW n \in Seq(Cell), NEW o \in Seq(Cell)
    PROVE  Way(r, <<>>, n, o) = Cat(r, Cat(n, o))
<1> DEFINE e == <<>>
<1>1. e \in Seq(Cell)
  OBVIOUS
<1>2. Cat(r, e) = r
  BY CatEmpty
<1> HIDE DEF e
<1>3. Way(r, e, n, o) = Cat(Cat(r, e), Cat(n, o))
  BY <1>1, WayFacts
<1> QED
  BY <1>2, <1>3 DEF e

\* ecprocessor, with the input c that all that has arrived was added to.
LEMMA ProcessorStep ==
    ASSUME OneLine, DataInv, NEW s \in Events, NEW c, Front(c),
           Readable(c) = Cat(Readable(istm[s]), rcv[s]), ecprocessor(s, c),
           DOMAIN rcv' = Events, rcv'[s] = <<>>, \A t \in Events : t # s => rcv'[t] = rcv[t],
           net' = net, state' = state
    PROVE  DataInv'
<1> DEFINE p == Peer(s)
           r == Readable(c)
           o == Readable(ostm[p])
           rest == Cat(net[s], o)
           e == <<>>
<1>1. /\ p \in Events /\ p # s /\ Peer(p) = s /\ \A t \in Events : t = s \/ t = p
  BY PeerFacts
<1>2. /\ DOMAIN istm = Events /\ DOMAIN ostm = Events /\ DOMAIN net = Events
      /\ Sized(ostm[s])
      /\ Readable(istm[s]) \in Seq(Cell) /\ rcv[s] \in Seq(Cell) /\ net[s] \in Seq(Cell)
      /\ o \in Seq(Cell)
      /\ Readable(istm[p]) \in Seq(Cell) /\ rcv[p] \in Seq(Cell) /\ net[p] \in Seq(Cell)
      /\ Readable(ostm[s]) \in Seq(Cell)
  BY <1>1, WayParts DEF DataInv, DataTypes
<1> DEFINE i == Readable(istm[s])
           v == rcv[s]
           n == net[s]
<1>3. r = Cat(i, v) /\ r \in Seq(Cell) /\ rest = Cat(n, o) /\ rest \in Seq(Cell)
  <2>1. i \in Seq(Cell) /\ v \in Seq(Cell) /\ n \in Seq(Cell) /\ o \in Seq(Cell)
    BY <1>2
  <2>2. r = Cat(i, v) /\ rest = Cat(n, o)
    OBVIOUS
  <2> HIDE DEF i, v, n, o, r, rest
  <2>3. Cat(i, v) \in Seq(Cell) /\ Cat(n, o) \in Seq(Cell)
    BY <2>1, CatFacts
  <2> QED
    BY <2>2, <2>3
<1>4. /\ WayTo(s) = Way(Readable(istm[s]), rcv[s], net[s], o)
      /\ WayTo(p) = Way(Readable(istm[p]), rcv[p], net[p], Readable(ostm[s]))
      /\ WayTo(s)' = Way(Readable(istm'[s]), rcv'[s], net'[s], Readable(ostm'[p]))
      /\ WayTo(p)' = Way(Readable(istm'[p]), rcv'[p], net'[p], Readable(ostm'[s]))
  BY <1>1, ZenonT(30) DEF WayTo
<1>5. WayTo(s) = Cat(r, rest)
  <2>1. i \in Seq(Cell) /\ v \in Seq(Cell) /\ n \in Seq(Cell) /\ o \in Seq(Cell)
    BY <1>2
  <2>2. WayTo(s) = Way(i, v, n, o)
    BY <1>4
  <2> HIDE DEF i, v, n, o, r, rest
  <2>3. Way(i, v, n, o) = Cat(Cat(i, v), Cat(n, o))
    BY <2>1, WaySplit
  <2> QED
    BY <1>3, <2>2, <2>3
<1>6. e \in Seq(Cell)
  OBVIOUS
<1> HIDE DEF p, r, o, rest, e
<1>7. CASE Occurrences(c, Delim) = {}
  <2>1. istm' = [istm EXCEPT ![s] = c] /\ ostm' = ostm
    BY <1>7 DEF ecprocessor
  <2>2. istm'[s] = c /\ istm'[p] = istm[p] /\ DOMAIN istm' = Events
    BY <1>1, <1>2, <2>1
  <2>3. DataTypes'
    <3>1. \A t \in Events : istm'[t] = c \/ istm'[t] = istm[t]
      BY <1>2, <2>1
    <3>2. \A t \in Events : rcv'[t] = e \/ rcv'[t] = rcv[t]
      BY DEF e
    <3> QED
      BY <1>6, <2>1, <2>2, <3>1, <3>2 DEF DataInv, DataTypes
  <2>4. WayTo(s)' = WayTo(s)
    <3>1. WayTo(s)' = Way(r, e, net[s], o)
      BY <1>4, <2>1, <2>2 DEF r, o, e
    <3>2. o \in Seq(Cell) /\ net[s] \in Seq(Cell) /\ r \in Seq(Cell)
      BY <1>2, <1>3
    <3>3. Way(r, <<>>, net[s], o) = Cat(r, rest)
      BY <3>2, WayRead DEF rest
    <3> QED
      BY <1>5, <3>1, <3>3 DEF e
  <2>5. WayTo(p)' = WayTo(p)
    BY <1>1, <1>4, <2>1, <2>2
  <2> QED
    BY <1>1, <2>3, <2>4, <2>5, Moves
<1>8. ASSUME NEW k \in Occurrences(c, Delim),
             istm' = [istm EXCEPT ![s] =
               buffer_yield([c EXCEPT !.mem = Store(@, c.rpos + k, <<NUL>>)], k + 2)],
             ostm' = [ostm EXCEPT ![s] = Printed(@, Answer(c, k))]
      PROVE  DataInv'
  <2> DEFINE d == buffer_yield([c EXCEPT !.mem = Store(@, c.rpos + k, <<NUL>>)], k + 2)
             g == Printed(ostm[s], Hello)
  <2>1. Cat(r, rest) \in {<<>>, Hello}
    BY <1>5, WayChoice
  <2>2. r = Hello /\ rest = <<>> /\ k \in Nat /\ k + 2 = Len(Hello)
    BY <1>3, <2>1, WholeOrNothing DEF r, Front, Sized
  <2>3. Answer(c, k) = Hello
    BY <2>2, AnswerIsRecord DEF r
  <2>4. Front(d) /\ Readable(d) = <<>>
    BY <2>2, YieldAll DEF r
  <2>5. istm' = [istm EXCEPT ![s] = d] /\ ostm' = [ostm EXCEPT ![s] = g]
    BY <1>8, <2>3
  <2> HIDE DEF d
  <2>6. Hello \in Seq(Cell) /\ Hello # <<>>
    BY HelloFacts
  <2>7. WayTo(s) = Hello
    BY <1>5, <2>2, <2>6, CatEmpty
  <2>8. WayTo(p) = <<>> /\ state[Client] # "new"
    BY <2>7, WayChoice DEF p
  <2>9. Readable(istm[p]) = <<>> /\ rcv[p] = <<>> /\ net[p] = <<>> /\ Readable(ostm[s]) = <<>>
    <3> DEFINE pi == Readable(istm[p])
               pv == rcv[p]
               pn == net[p]
               so == Readable(ostm[s])
    <3>1. /\ pi \in Seq(Cell) /\ pv \in Seq(Cell) /\ pn \in Seq(Cell) /\ so \in Seq(Cell)
          /\ Way(pi, pv, pn, so) = <<>>
      BY <1>2, <1>4, <2>8, ZenonT(30)
    <3> HIDE DEF pi, pv, pn, so
    <3>2. pi = <<>> /\ pv = <<>> /\ pn = <<>> /\ so = <<>>
      BY <3>1, WayEmpty, ZenonT(30)
    <3> QED
      BY <3>2 DEF pi, pv, pn, so
  <2>10. Sized(g) /\ Readable(g) = Hello
    <3>1. Hello \in Seq(Byte) /\ Len(Hello) \in 1 .. DefaultSize - 1
      BY HelloFacts
    <3> QED
      BY <1>2, <2>9, <3>1, SizedPrint
  <2> HIDE DEF g
  <2>11. /\ istm'[s] = d /\ istm'[p] = istm[p] /\ DOMAIN istm' = Events
         /\ ostm'[s] = g /\ ostm'[p] = ostm[p] /\ DOMAIN ostm' = Events
    BY <1>1, <1>2, <2>5
  <2>12. net[s] = <<>> /\ o = <<>>
    BY <1>2, <2>2, CatNothing, ZenonT(30) DEF rest
  <2>13. DataTypes'
    <3>1. \A t \in Events : Front(istm'[t]) /\ Sized(ostm'[t])
      BY <1>1, <2>4, <2>10, <2>11, ZenonT(30) DEF DataInv, DataTypes
    <3>2. \A t \in Events : rcv'[t] = e \/ rcv'[t] = rcv[t]
      BY DEF e
    <3> QED
      BY <1>6, <2>11, <3>1, <3>2 DEF DataInv, DataTypes
  <2>14. Cat(e, e) = e /\ Cat(e, Hello) = Hello
    BY <1>6, <2>6, CatEmpty DEF e
  <2>15. WayTo(s)' = Way(e, e, e, e) /\ WayTo(p)' = Way(e, e, e, Hello)
    BY <1>1, <1>4, <2>4, <2>9, <2>10, <2>11, <2>12, ZenonT(30) DEF e, o
  <2>16. WayTo(s)' = <<>> /\ WayTo(p)' = Hello
    BY <2>14, <2>15 DEF Way, e
  <2>17. WayTo(p)' = Hello /\ WayTo(Peer(p))' = <<>>
    BY <1>1, <2>16
  <2> QED
    BY <1>1, <2>8, <2>13, <2>17, ZenonT(30) DEF DataInv, RecordInv
<1> QED
  BY <1>7, <1>8, ZenonT(30) DEF ecprocessor

\* All that has arrived is read, for there is room for the record: try_read and
\* ecprocessor.
LEMMA ReadArrived ==
    ASSUME OneLine, LoopInv, DataInv, TryRead
    PROVE  DataInv'
<1>1. cur \in Events
  BY DEF LoopInv, TryRead, InCallback
<1> SUFFICES ASSUME NEW s \in Events, s = cur
             PROVE  DataInv'
  BY <1>1
<1> DEFINE i == Readable(istm[s])
           v == rcv[s]
           space == buffer_space(istm[s])
           n == Min2(Len(v), space + READALL)
           o == Readable(ostm[Peer(s)])
           x == net[s]
<1>2. /\ i \in Seq(Cell) /\ v \in Seq(Cell) /\ x \in Seq(Cell) /\ o \in Seq(Cell)
      /\ Front(istm[s]) /\ DOMAIN rcv = Events
  BY WayParts DEF DataInv, DataTypes
<1>3. space = DefaultSize - Len(i) /\ Len(i) \in Nat
  <2> DEFINE w == istm[s]
  <2>1. BufOK(w) /\ w.size = DefaultSize /\ w.rpos = 0
    BY <1>2 DEF Front, Sized
  <2> HIDE DEF w
  <2>2. buffer_space(w) = w.size - w.wpos /\ Len(Readable(w)) = w.wpos - w.rpos
    BY <2>1, ReadableType
  <2>3. w.wpos \in Nat
    BY <2>1 DEF BufOK
  <2>4. buffer_space(w) = DefaultSize - Len(Readable(w)) /\ Len(Readable(w)) \in Nat
    BY <2>1, <2>2, <2>3, BufferAssumption
  <2> QED
    BY <2>4 DEF w
<1>4. WayTo(s) = Way(i, v, x, o) /\ WayTo(s) \in {<<>>, Hello}
  BY WayChoice DEF WayTo
<1>5. rcv' = [rcv EXCEPT ![s] = Drop(v, n)] /\ net' = net /\ state' = state
  BY DEF TryRead
<1>6. PICK c : c = Filled(istm[s], SubSeq(v, 1, n), TRUE, TRUE) /\ ecprocessor(s, c)
  BY DEF TryRead
<1> HIDE DEF i, x, o, space
<1>7. Len(v) <= space
  <2> DEFINE lv == Len(v)
             li == Len(i)
             lx == Len(x)
             lo == Len(o)
             lw == Len(WayTo(s))
             lh == Len(Hello)
  <2>1. lw = li + lv + lx + lo
    BY <1>2, <1>4, WayFacts
  <2>2. lw = 0 \/ lw = lh
    BY <1>4
  <2>3. /\ lv \in Nat /\ li \in Nat /\ lx \in Nat /\ lo \in Nat
        /\ lh \in 1 .. DefaultSize - 1 /\ space = DefaultSize - li /\ DefaultSize \in Nat
    BY <1>2, <1>3, HelloFacts, BufferAssumption
  <2> HIDE DEF lv, li, lx, lo, lw, lh
  <2>4. lv <= space
    BY <2>1, <2>2, <2>3
  <2> QED
    BY <2>4 DEF lv
<1>8. n = Len(v) /\ Len(v) \in Nat
  BY <1>2, <1>3, <1>7, EchoAssumption, BufferAssumption DEF Min2
<1> HIDE DEF n
<1>9. SubSeq(v, 1, Len(v)) = v /\ SubSeq(v, Len(v) + 1, Len(v)) = <<>>
  <2>1. Len(v) \in 0 .. Len(v)
    BY <1>8
  <2> QED
    BY <1>2, <2>1, CutWhole DEF Before, After
<1>10. Front(c) /\ Readable(c) = Cat(i, v)
  BY <1>2, <1>6, <1>7, <1>8, <1>9, SizedFill, ZenonT(30) DEF space, i
<1>11. DOMAIN rcv' = Events /\ rcv'[s] = <<>> /\ \A t \in Events : t # s => rcv'[t] = rcv[t]
  BY <1>2, <1>5, <1>8, <1>9 DEF Drop
<1> QED
  BY <1>5, <1>6, <1>10, <1>11, ProcessorStep, ZenonT(30) DEF i

\* A read that finds nothing.
LEMMA ReadAgain ==
    ASSUME OneLine, LoopInv, DataInv, TryReadAgain
    PROVE  DataInv'
<1>1. cur \in Events
  BY DEF LoopInv, TryReadAgain, InCallback
<1> SUFFICES ASSUME NEW s \in Events, s = cur
             PROVE  DataInv'
  BY <1>1
<1>2. Readable(istm[s]) \in Seq(Cell) /\ Front(istm[s]) /\ DOMAIN rcv = Events
  BY WayParts DEF DataInv, DataTypes
<1>3. rcv[s] = <<>> /\ ecprocessor(s, istm[s]) /\ UNCHANGED <<state, net, rcv>>
  BY DEF TryReadAgain, HasInput, kernel
<1>4. Readable(istm[s]) = Cat(Readable(istm[s]), rcv[s])
  BY <1>2, <1>3, CatEmpty
<1> QED
  BY <1>2, <1>3, <1>4, ProcessorStep

\* The first record is printed.
LEMMA ConnectedStep ==
    ASSUME OneLine, LoopInv, DataInv, connected
    PROVE  DataInv'
<1> DEFINE p == Peer(Client)
           g == Printed(ostm[Client], Hello)
<1>1. Client \in Events
  BY EchoAssumption
<1>2. p \in Events /\ p # Client /\ Peer(p) = Client /\ \A t \in Events : t = Client \/ t = p
  BY <1>1, PeerFacts
<1>3. /\ state[Client] = "new" /\ state'[Client] = "used"
      /\ ostm' = [ostm EXCEPT ![Client] = g] /\ UNCHANGED <<istm, net, rcv>>
  BY <1>1 DEF connected, OtherCallback, kernel, LoopInv
<1>4. WayTo(Client) = <<>> /\ WayTo(p) = <<>>
  BY <1>1, <1>2, <1>3 DEF DataInv, RecordInv
<1>5. /\ WayTo(p) = Way(Readable(istm[p]), rcv[p], net[p], Readable(ostm[Client]))
      /\ WayTo(p)' = Way(Readable(istm'[p]), rcv'[p], net'[p], Readable(ostm'[Client]))
      /\ WayTo(Client) = Way(Readable(istm[Client]), rcv[Client], net[Client], Readable(ostm[p]))
      /\ WayTo(Client)' = Way(Readable(istm'[Client]), rcv'[Client], net'[Client], Readable(ostm'[p]))
  BY <1>2 DEF WayTo
<1>6. Readable(istm[p]) = <<>> /\ rcv[p] = <<>> /\ net[p] = <<>> /\ Readable(ostm[Client]) = <<>>
  <2> DEFINE pi == Readable(istm[p])
             pv == rcv[p]
             pn == net[p]
             so == Readable(ostm[Client])
  <2>1. /\ pi \in Seq(Cell) /\ pv \in Seq(Cell) /\ pn \in Seq(Cell) /\ so \in Seq(Cell)
        /\ Way(pi, pv, pn, so) = <<>>
    BY <1>1, <1>2, <1>4, <1>5, WayParts DEF DataInv
  <2> HIDE DEF pi, pv, pn, so
  <2>2. pi = <<>> /\ pv = <<>> /\ pn = <<>> /\ so = <<>>
    BY <2>1, WayEmpty, ZenonT(30)
  <2> QED
    BY <2>2 DEF pi, pv, pn, so
<1>7. Sized(ostm[Client]) /\ DOMAIN ostm = Events
  BY <1>1 DEF DataInv, DataTypes
<1>8. Sized(g) /\ Readable(g) = Hello
  <2>1. Hello \in Seq(Byte) /\ Len(Hello) \in 1 .. DefaultSize - 1
    BY HelloFacts
  <2> QED
    BY <1>6, <1>7, <2>1, SizedPrint
<1> HIDE DEF p, g
<1>9. DOMAIN ostm' = Events /\ ostm'[Client] = g /\ ostm'[p] = ostm[p]
  BY <1>1, <1>2, <1>3, <1>7
<1>10. DataTypes'
  <2>1. \A t \in Events : Sized(ostm'[t])
    BY <1>2, <1>8, <1>9 DEF DataInv, DataTypes
  <2> QED
    BY <1>3, <1>9, <2>1 DEF DataInv, DataTypes
<1>11. WayTo(Client)' = <<>>
  BY <1>3, <1>4, <1>5, <1>9
<1>12. WayTo(p)' = Hello
  <2> DEFINE e == <<>>
  <2>1. e \in Seq(Cell) /\ Hello \in Seq(Cell)
    BY HelloFacts
  <2>2. Cat(e, e) = e /\ Cat(e, Hello) = Hello
    BY <2>1, CatEmpty
  <2> HIDE DEF e
  <2>3. WayTo(p)' = Way(e, e, e, Hello)
    BY <1>3, <1>5, <1>6, <1>8, <1>9 DEF e
  <2> QED
    BY <2>2, <2>3 DEF Way
<1>13. WayTo(p)' = Hello /\ WayTo(Peer(p))' = <<>>
  BY <1>2, <1>11, <1>12
<1> QED
  BY <1>2, <1>3, <1>10, <1>13 DEF DataInv, RecordInv

LEMMA DataInit == Init => DataInv
<1> SUFFICES ASSUME Init PROVE DataInv
  OBVIOUS
<1> DEFINE e == <<>>
           w == buffer_new(0)
<1>1. Front(w) /\ Readable(w) = e
  BY NewFacts DEF Front, Sized
<1>2. e \in Seq(Cell)
  OBVIOUS
<1>3. Cat(e, e) = e
  BY <1>2, CatEmpty
<1> HIDE DEF e, w
<1>4. /\ DOMAIN istm = Events /\ DOMAIN ostm = Events /\ DOMAIN rcv = Events /\ DOMAIN net = Events
      /\ \A s \in Events : /\ istm[s] = w /\ ostm[s] = w /\ rcv[s] = e /\ net[s] = e
                           /\ state[s] = "new"
  BY DEF Init, e, w
<1>5. DataTypes
  BY <1>1, <1>2, <1>4 DEF DataTypes, Front
<1>6. \A s \in Events : WayTo(s) = e
  BY <1>1, <1>3, <1>4, PeerFacts DEF WayTo, Way
<1>7. Client \in Events
  BY EchoAssumption
<1> QED
  BY <1>4, <1>5, <1>6, <1>7 DEF DataInv, RecordInv, e

LEMMA DataStep == ASSUME OneLine, LoopInv, DataInv, [Next]_vars PROVE DataInv'
<1>0. Client \in Events
  BY EchoAssumption
<1>1. ASSUME NEW s \in Events, acceptor(s) PROVE DataInv'
  BY <1>0, <1>1, SameData DEF acceptor, kernel, LoopInv
<1>2. CASE connected
  BY <1>2, ConnectedStep
<1>3. CASE While \/ Poll \/ TryReadFails \/ WritevFails \/ Reset \/ UNCHANGED vars
  <2>1. UNCHANGED <<istm, ostm, net, rcv, state>>
    BY <1>3 DEF While, Poll, TryReadFails, WritevFails, Reset, vars, socks, kernel
  <2> QED
    BY <2>1, SameData
<1>4. ASSUME NEW s \in Events, sock_dispatch(s) PROVE DataInv'
  BY <1>4, SameData DEF sock_dispatch, socks, kernel
<1>5. CASE TryRead
  BY <1>5, ReadArrived
<1>6. CASE TryReadAgain
  BY <1>6, ReadAgain
<1>7. CASE Disconnect
  <2>1. cur \in Events /\ state[cur] = "used"
    BY <1>7 DEF Disconnect, LoopInv, InCallback
  <2>2. state'[Client] = "new" <=> state[Client] = "new"
    BY <1>0, <1>7, <2>1 DEF Disconnect, LoopInv
  <2> QED
    BY <1>7, <2>2, SameData DEF Disconnect, kernel
<1>8. ASSUME NEW n \in 1 .. SndBuf, Writev(n) PROVE DataInv'
  BY <1>8, WritevStep
<1>9. CASE Arrival
  BY <1>9, DeliverStep DEF Arrival
<1> QED
  BY <1>1, <1>2, <1>3, <1>4, <1>5, <1>6, <1>7, <1>8, <1>9 DEF Next, LoopStep

\* Once connected has printed its record, that record and nothing else is on the way,
\* whole and to one of the two ends, for every record that ends with its only CR LF
\* and fits a buffer with its NUL, every partition of the bytes into reads, writes and
\* segments, and after the connection broke (socket.c:15-43, test.c:37-44, 74,
\* stream.c:184-211, 272-313).
THEOREM RecordWhole == ASSUME OneLine PROVE Spec => []OneRecord
<1>1. Init => LoopInv /\ DataInv
  BY LoopInit, DataInit
<1>2. LoopInv /\ DataInv /\ [Next]_vars => (LoopInv /\ DataInv)'
  BY LoopStepInv, DataStep
<1>3. LoopInv /\ DataInv => OneRecord
  <2> SUFFICES ASSUME DataInv, state[Client] # "new"
               PROVE  {Toward(s) : s \in Events} = {<<>>, Hello}
    BY DEF OneRecord
  <2>1. PICK s \in Events : WayTo(s) = Hello /\ WayTo(Peer(s)) = <<>>
    BY DEF DataInv, RecordInv
  <2>2. \A t \in Events : Toward(t) = WayTo(t)
    BY DEF Toward, WayTo, Way, Cat
  <2>3. Peer(s) \in Events /\ \A t \in Events : t = s \/ t = Peer(s)
    BY PeerFacts
  <2>4. Toward(s) = Hello /\ Toward(Peer(s)) = <<>>
    BY <2>1, <2>2, <2>3
  <2> QED
    BY <2>3, <2>4
<1> QED
  BY <1>1, <1>2, <1>3, PTL DEF Spec
=============================================================================
