---------------------------- MODULE StreamProofs ----------------------------
(***************************************************************************)
(* For every buffer size, every text and every outcome of the system       *)
(* calls: what is written to a stream reaches its descriptor in order,     *)
(* what its descriptor delivers reaches its callers in order, a flush and  *)
(* a close tell the truth, and the lock is free between two calls.         *)
(***************************************************************************)
EXTENDS Stream, BufferProofs

\* A stream used for output only, and one used for input only.
Sends == ops \intersect {"fill", "read", "yield", "overlap"} = {}
Receives ==
    /\ ops \intersect {"write", "printf", "flush", "close", "seek"} = {}
    /\ ForInput

\* Every stream is one or the other.
Separated ==
    \A u \in Uses :
        \/ u \intersect {"fill", "read", "yield", "overlap"} = {}
        \/ /\ u \intersect {"write", "printf", "flush", "close", "seek"} = {}
           /\ u \intersect {"fill", "read"} # {}

\* No position of the buffer comes near 2^32.
NoOverflow ==
    /\ \A s \in Chunks : buf.wpos + Len(s) < TwoTo32
    /\ buf.size + 2 * READALL < TwoTo32

\* The call k in _stream_write between two writev, with the buffer c: two iovecs, the
\* first one what the buffer holds; or one, what is left of the caller's data,
\* and an empty buffer.
LoopShape(k, c) ==
    /\ k.op \in {"write", "flush", "close", "seek"}
    /\ DOMAIN k = {"op", "iov", "ravail", "towrite"}
    /\ k.ravail \in Nat
    /\ Len(Readable(c)) <= k.ravail
    /\ \/ /\ k.iov = <<Readable(c), k.iov[2]>>
          /\ k.iov[2] \in Seq(Cell)
          /\ k.op # "write" => k.iov[2] = <<>>
          /\ k.towrite = Len(Readable(c)) + Len(k.iov[2])
       \/ /\ k.iov = <<k.iov[1]>>
          /\ k.iov[1] \in Seq(Cell)
          /\ k.op = "write"
          /\ Readable(c) = <<>>
          /\ k.towrite = Len(k.iov[1])

\* stream_read between two readv.
ReadShape(k) ==
    /\ k.op = "read"
    /\ DOMAIN k = {"op", "len", "ret"}
    /\ k.len \in Nat \ {0}
    /\ k.ret \in Nat

\* No call, or one that does not hold the lock.
Closing == [op |-> "close", iov |-> <<>>]
Seeking == [op |-> "seek", iov |-> <<>>]
QuietShape(k) == k \in {Idle, [op |-> "printf"], Closing, Seeking}

Shape ==
    /\ StreamOK /\ Rewound(buf)
    /\ QuietShape(call) \/ ReadShape(call) \/ LoopShape(call, buf)
    /\ sink \in Seq(Cell) /\ accepted \in Seq(Cell) /\ taken \in Seq(Cell)
    /\ got \in Seq(Byte) /\ inq \in Seq(Byte)

Unlocked == QuietShape(call) => lock = 0

\* A stream for output: what was sent, what is buffered and what the call in
\* progress has left, and how the empty buffer goes with the results of a flush
\* and a close.
SendInv ==
    /\ ~ReadShape(call)
    /\ Cat(Cat(sink, Readable(buf)), Pending) = accepted
    /\ call = Idle /\ result.op = "flush" => (result.ok <=> Readable(buf) = <<>>)
    /\ call = Closing => Readable(buf) = <<>>
    /\ ~fdopen => call = Idle /\ Readable(buf) = <<>>

\* A stream for input.
ReceiveInv ==
    /\ call = Idle \/ ReadShape(call)
    /\ fdopen
    /\ result.op # "flush"
    /\ ~lossy => call = Idle /\ Cat(taken, Readable(buf)) = got

StreamInv ==
    /\ ops \in Uses
    /\ Shape
    /\ "discard" \notin ops => Unlocked
    /\ Sends => SendInv
    /\ Receives => ReceiveInv

-----------------------------------------------------------------------------
\* After n bytes are sent of what is buffered, r, and what follows it, w.
LEMMA SentFacts ==
    ASSUME NEW s \in Seq(Cell), NEW r \in Seq(Cell), NEW w \in Seq(Cell),
           NEW r1 \in Seq(Cell), NEW w1 \in Seq(Cell), NEW n \in 0 .. Len(r) + Len(w),
           Cat(r1, w1) = After(Cat(r, w), n)
    PROVE  /\ Cat(s, Before(Cat(r, w), n)) \in Seq(Cell)
           /\ Cat(Cat(Cat(s, Before(Cat(r, w), n)), r1), w1) = Cat(Cat(s, r), w)
<1> DEFINE all == Cat(r, w)
           h == Before(all, n)
           z == After(all, n)
<1>1. all \in Seq(Cell) /\ Len(all) = Len(r) + Len(w)
  BY CatFacts
<1>2. n \in 0 .. Len(all)
  BY <1>1
<1> HIDE DEF all
<1>3. h \in Seq(Cell) /\ z \in Seq(Cell) /\ Cat(h, z) = all
  BY <1>1, <1>2, CutFacts, CutWhole
<1>4. Cat(r1, w1) = z
  BY DEF all
<1> HIDE DEF h, z
<1>5. Cat(s, h) \in Seq(Cell)
  BY <1>3, CatFacts
<1>6. Cat(Cat(Cat(s, h), r1), w1) = Cat(Cat(s, h), z)
  BY <1>4, <1>5, CatAssociative
<1>7. Cat(Cat(s, h), z) = Cat(s, all)
  BY <1>3, CatAssociative
<1>8. Cat(s, all) = Cat(Cat(s, r), w)
  BY CatAssociative DEF all
<1> QED
  BY <1>5, <1>6, <1>7, <1>8 DEF h, all

\* The three shapes of a call exclude each other.
LEMMA ShapesDiffer ==
    ASSUME NEW k, NEW c
    PROVE  /\ ~(QuietShape(k) /\ ReadShape(k))
           /\ ~(QuietShape(k) /\ LoopShape(k, c))
           /\ ~(ReadShape(k) /\ LoopShape(k, c))
<1>1. ~(QuietShape(k) /\ ReadShape(k))
  BY DEF QuietShape, ReadShape, Idle, Closing, Seeking
<1>2. ~(ReadShape(k) /\ LoopShape(k, c))
  BY DEF ReadShape, LoopShape
<1>3. ~(QuietShape(k) /\ LoopShape(k, c))
  <2> SUFFICES ASSUME QuietShape(k), LoopShape(k, c) PROVE FALSE
    OBVIOUS
  <2>1. k \in {Closing, Seeking}
    BY DEF QuietShape, LoopShape, Idle, Closing, Seeking
  <2>2. k.iov = <<>>
    BY <2>1 DEF Closing, Seeking
  <2> QED
    BY <2>2 DEF LoopShape
<1> QED
  BY <1>1, <1>2, <1>3

\* The calls that are not in the loop of _stream_write.
LEMMA NotWriting ==
    ASSUME NEW k, QuietShape(k) \/ ReadShape(k)
    PROVE  k.op # "write"
BY DEF QuietShape, ReadShape, Idle, Closing, Seeking

LEMMA Reading ==
    ASSUME NEW k, NEW c, QuietShape(k) \/ ReadShape(k) \/ LoopShape(k, c), k.op = "read"
    PROVE  ReadShape(k) /\ k # Idle
<1>1. ~QuietShape(k)
  BY DEF QuietShape, Idle, Closing, Seeking
<1>2. ~LoopShape(k, c)
  BY DEF LoopShape
<1>3. k # Idle
  BY DEF Idle
<1> QED
  BY <1>1, <1>2, <1>3

LEMMA StartsReading ==
    ASSUME NEW len \in Nat \ {0}, NEW ret \in Nat
    PROVE  ReadShape([op |-> "read", len |-> len, ret |-> ret])
BY DEF ReadShape

LEMMA Printing ==
    /\ QuietShape(Idle) /\ QuietShape([op |-> "printf"])
    /\ Idle # Closing /\ [op |-> "printf"] # Closing /\ [op |-> "printf"] # Idle
<1>1. QuietShape(Idle) /\ QuietShape([op |-> "printf"])
  BY DEF QuietShape
<1>2. Idle.op # Closing.op /\ [op |-> "printf"].op # Closing.op /\ [op |-> "printf"].op # Idle.op
  BY DEF Idle, Closing
<1> QED
  BY <1>1, <1>2

\* The fields of a list of one or two iovecs.
LEMMA Iovecs ==
    ASSUME NEW v, NEW e, NEW f
    PROVE  /\ v = <<e, f>> => Len(v) = 2 /\ v[1] = e /\ v[2] = f
           /\ v = <<e>> => Len(v) = 1 /\ v[1] = e
           /\ <<e, f>> # <<e>> /\ <<e, f>> # <<>> /\ <<e>> # <<>>
OBVIOUS

\* What Consume, Remaining and the loop do, for any call k and buffer c.
LastIov(k) == k.iov[Len(k.iov)]
ConsumeOf(k, c, n) ==
    IF n = k.towrite \/ n > Len(k.iov[1]) THEN buffer_read(c, k.ravail)
    ELSE IF Len(k.iov) = 2 THEN buffer_read(c, n)
    ELSE c
RemainingOf(k, n) ==
    IF n > Len(k.iov[1]) THEN <<Drop(k.iov[2], n - Len(k.iov[1]))>>
    ELSE [k.iov EXCEPT ![1] = Drop(k.iov[1], n)]
NextTurn(k, n) == [k EXCEPT !.towrite = @ - n, !.iov = RemainingOf(k, n)]

\* In the loop: the bytes still to be sent are those of the buffer and then the
\* rest of the caller's data.
LEMMA LoopFacts ==
    ASSUME NEW k, NEW c, BufOK(c), LoopShape(k, c),
           NEW r, r = Readable(c), NEW w, w = LastIov(k)
    PROVE  /\ r \in Seq(Cell) /\ w \in Seq(Cell)
           /\ k.op # "write" => w = <<>>
           /\ k.towrite = Len(r) + Len(w)
           /\ \/ Len(k.iov) = 2 /\ k.iov = <<r, w>> /\ Cat(k.iov[1], k.iov[2]) = Cat(r, w)
              \/ Len(k.iov) = 1 /\ k.iov = <<w>> /\ k.iov[1] = Cat(r, w) /\ r = <<>> /\ k.op = "write"
<1>1. r \in Seq(Cell)
  BY ReadableType
<1>2. ASSUME NEW v, NEW e, v = <<r, e>>, k.iov = v, e \in Seq(Cell), k.op # "write" => e = <<>>,
             k.towrite = Len(r) + Len(e)
      PROVE  /\ w = e /\ Len(k.iov) = 2 /\ k.iov = <<r, w>>
             /\ Cat(k.iov[1], k.iov[2]) = Cat(r, w)
  <2>1. Len(v) = 2 /\ v[1] = r /\ v[2] = e
    BY <1>2, Iovecs
  <2> QED
    BY <1>2, <2>1 DEF LastIov
<1>3. ASSUME NEW v, NEW e, v = <<e>>, k.iov = v, e \in Seq(Cell), r = <<>>, k.towrite = Len(e)
      PROVE  /\ w = e /\ Len(k.iov) = 1 /\ k.iov = <<w>> /\ k.iov[1] = Cat(r, w)
             /\ k.towrite = Len(r) + Len(w)
  <2>1. Len(v) = 1 /\ v[1] = e
    BY <1>3, Iovecs
  <2>2. Cat(<<>>, e) = e /\ Len(<<>>) = 0 /\ Len(e) \in Nat
    BY <1>3, CatEmpty
  <2> QED
    BY <1>3, <2>1, <2>2 DEF LastIov
<1>4. CASE /\ k.iov = <<r, k.iov[2]>>
           /\ k.iov[2] \in Seq(Cell)
           /\ k.op # "write" => k.iov[2] = <<>>
           /\ k.towrite = Len(r) + Len(k.iov[2])
  BY <1>1, <1>2, <1>4
<1>5. CASE /\ k.iov = <<k.iov[1]>>
           /\ k.iov[1] \in Seq(Cell)
           /\ k.op = "write"
           /\ r = <<>>
           /\ k.towrite = Len(k.iov[1])
  BY <1>1, <1>3, <1>5
<1> QED
  BY <1>4, <1>5 DEF LoopShape

\* One writev that takes n bytes, up to the test of whether it took them all.
LEMMA WritevFacts ==
    ASSUME NEW k, NEW c, BufOK(c), Rewound(c), LoopShape(k, c), NEW n \in Nat \ {0}, n <= k.towrite,
           NEW r, r = Readable(c), NEW w, w = LastIov(k), NEW d, d = ConsumeOf(k, c, n),
           NEW rest, rest = RemainingOf(k, n), NEW k1, k1 = NextTurn(k, n)
    PROVE  /\ BufOK(d) /\ Rewound(d)
           /\ n \in 0 .. Len(r) + Len(w)
           /\ n = k.towrite => Readable(d) = <<>> /\ After(Cat(r, w), n) = <<>>
           /\ n # k.towrite => /\ LoopShape(k1, d) /\ k1.op = k.op
                               /\ Cat(Readable(d), LastIov(k1)) = After(Cat(r, w), n)
<1>1. /\ r \in Seq(Cell) /\ w \in Seq(Cell) /\ Len(r) \in Nat /\ Len(w) \in Nat
      /\ k.op # "write" => w = <<>>
      /\ k.towrite = Len(r) + Len(w)
  <2>1. /\ r \in Seq(Cell) /\ w \in Seq(Cell)
        /\ k.op # "write" => w = <<>>
        /\ k.towrite = Len(r) + Len(w)
    BY LoopFacts
  <2> QED
    BY <2>1
<1>2. \/ Len(k.iov) = 2 /\ k.iov = <<r, w>>
      \/ Len(k.iov) = 1 /\ k.iov = <<w>> /\ r = <<>> /\ k.op = "write"
  BY LoopFacts
<1>3. k.ravail \in Nat /\ Len(r) <= k.ravail /\ DOMAIN k = {"op", "iov", "ravail", "towrite"}
      /\ k.op \in {"write", "flush", "close", "seek"}
  BY DEF LoopShape
<1>4. n \in 0 .. Len(r) + Len(w)
  BY <1>1
<1>5. k1.op = k.op /\ k1.ravail = k.ravail /\ k1.towrite = k.towrite - n /\ k1.iov = rest
      /\ DOMAIN k1 = {"op", "iov", "ravail", "towrite"}
  BY <1>3 DEF NextTurn
\* The whole buffer is read.
<1>6. ASSUME NEW e, e = buffer_read(c, k.ravail)
      PROVE  BufOK(e) /\ Rewound(e) /\ Readable(e) = <<>>
  <2> DEFINE m == NRead(c, k.ravail)
  <2>1. /\ BufOK(e) /\ Rewound(e) /\ m = Min2(k.ravail, Len(r)) /\ Readable(e) = After(r, m)
    BY <1>3, <1>6, ReadFacts
  <2>2. m = Len(r) /\ m \in 0 .. Len(r)
    BY <1>1, <1>3, <2>1 DEF Min2
  <2> HIDE DEF m
  <2> QED
    BY <1>1, <2>1, <2>2, CutWhole
<1>7. ASSUME n = k.towrite PROVE BufOK(d) /\ Rewound(d) /\ Readable(d) = <<>> /\ After(Cat(r, w), n) = <<>>
  <2>1. Cat(r, w) \in Seq(Cell) /\ Len(Cat(r, w)) = n /\ n \in 0 .. Len(Cat(r, w))
    BY <1>1, <1>7, CatFacts
  <2>2. d = buffer_read(c, k.ravail)
    BY <1>7 DEF ConsumeOf
  <2> QED
    BY <1>6, <2>1, <2>2, CutWhole
<1>8. ASSUME n # k.towrite, k.iov = <<r, w>>, n > Len(r)
      PROVE  /\ BufOK(d) /\ Rewound(d) /\ LoopShape(k1, d)
             /\ Cat(Readable(d), LastIov(k1)) = After(Cat(r, w), n)
  <2>1. k.iov[1] = r /\ k.iov[2] = w /\ Len(k.iov) = 2
    BY <1>8, Iovecs
  <2> DEFINE m == n - Len(r)
             w1 == After(w, m)
  <2>2. m \in 0 .. Len(w) /\ n = Len(r) + m /\ w # <<>>
    BY <1>1, <1>8
  <2>3. d = buffer_read(c, k.ravail) /\ rest = <<w1>>
    BY <1>8, <2>1 DEF Drop, After, ConsumeOf, RemainingOf
  <2>4. BufOK(d) /\ Rewound(d) /\ Readable(d) = <<>>
    BY <1>6, <2>3
  <2>5. w1 \in Seq(Cell) /\ Len(w1) = Len(w) - m
    BY <1>1, <2>2, CutFacts
  <2>6. After(Cat(r, w), n) = w1
    BY <1>1, <2>2, CutCat
  <2> HIDE DEF m, w1
  <2>7. Len(rest) = 1 /\ rest[1] = w1 /\ k1.op = "write"
    BY <1>1, <1>5, <2>2, <2>3, Iovecs
  <2>8. k1.towrite = Len(w1)
    BY <1>1, <1>5, <2>2, <2>5
  <2>9. LoopShape(k1, d)
    <3>1. Len(Readable(d)) <= k1.ravail /\ k1.ravail \in Nat
      BY <1>3, <1>5, <2>4
    <3> QED
      BY <1>5, <2>3, <2>4, <2>5, <2>7, <2>8, <3>1 DEF LoopShape
  <2> QED
    BY <1>5, <2>4, <2>5, <2>6, <2>7, <2>9, CatEmpty DEF LastIov
<1>9. ASSUME n # k.towrite, k.iov = <<r, w>>, ~(n > Len(r))
      PROVE  /\ BufOK(d) /\ Rewound(d) /\ LoopShape(k1, d)
             /\ Cat(Readable(d), LastIov(k1)) = After(Cat(r, w), n)
  <2>1. k.iov[1] = r /\ k.iov[2] = w /\ Len(k.iov) = 2
    BY <1>9, Iovecs
  <2> DEFINE r1 == After(r, n)
  <2>2. n \in 0 .. Len(r)
    BY <1>1, <1>9
  <2>3. d = buffer_read(c, n) /\ rest = <<r1, w>>
    BY <1>9, <2>1 DEF Drop, After, ConsumeOf, RemainingOf
  <2>4. BufOK(d) /\ Rewound(d) /\ Readable(d) = r1
    <3> DEFINE m == NRead(c, n)
    <3>1. BufOK(d) /\ Rewound(d) /\ m = Min2(n, Len(r)) /\ Readable(d) = After(r, m)
      BY <2>3, ReadFacts
    <3>2. m = n
      BY <1>1, <2>2, <3>1 DEF Min2
    <3> QED
      BY <3>1, <3>2
  <2>5. r1 \in Seq(Cell) /\ Len(r1) = Len(r) - n
    BY <1>1, <2>2, CutFacts
  <2>6. After(Cat(r, w), n) = Cat(r1, w)
    BY <1>1, <2>2, CutCat
  <2> HIDE DEF r1
  <2>7. Len(rest) = 2 /\ rest[1] = r1 /\ rest[2] = w
    BY <2>3, Iovecs
  <2>8. k1.towrite = Len(r1) + Len(w) /\ Len(r1) <= k1.ravail /\ k1.ravail \in Nat
    BY <1>1, <1>3, <1>5, <2>2, <2>5
  <2>9. LoopShape(k1, d)
    BY <1>1, <1>3, <1>5, <2>3, <2>4, <2>5, <2>7, <2>8 DEF LoopShape
  <2> QED
    BY <1>5, <2>4, <2>6, <2>7, <2>9 DEF LastIov
<1>10. ASSUME n # k.towrite, k.iov = <<w>>, r = <<>>, k.op = "write"
       PROVE  /\ BufOK(d) /\ Rewound(d) /\ LoopShape(k1, d)
              /\ Cat(Readable(d), LastIov(k1)) = After(Cat(r, w), n)
  <2>1. k.iov[1] = w /\ Len(k.iov) = 1
    BY <1>10, Iovecs
  <2> DEFINE w1 == After(w, n)
  <2>2. n \in 0 .. Len(w) /\ ~(n > Len(w)) /\ k.towrite = Len(w)
    BY <1>1, <1>10
  <2>3. d = c /\ rest = <<w1>>
    BY <1>10, <2>1, <2>2 DEF Drop, After, ConsumeOf, RemainingOf
  <2>5. w1 \in Seq(Cell) /\ Len(w1) = Len(w) - n
    BY <1>1, <2>2, CutFacts, ZenonT(30)
  <2>6. After(Cat(r, w), n) = w1
    BY <1>1, <1>10, CatEmpty
  <2> HIDE DEF w1
  <2>7. Len(rest) = 1 /\ rest[1] = w1
    BY <2>3, Iovecs
  <2>8. LoopShape(k1, d)
    BY <1>3, <1>5, <1>10, <2>2, <2>3, <2>5, <2>7 DEF LoopShape
  <2>9. LastIov(k1) = w1
    BY <1>5, <2>7 DEF LastIov
  <2>10. Cat(Readable(d), w1) = w1
    BY <1>10, <2>3, <2>5, CatEmpty
  <2> QED
    BY <2>3, <2>6, <2>8, <2>9, <2>10
<1> QED
  BY <1>2, <1>4, <1>5, <1>7, <1>8, <1>9, <1>10

\* An empty buffer is one with nothing to read.
LEMMA EmptyFacts ==
    ASSUME NEW c, BufOK(c)
    PROVE  /\ Readable(c) \in Seq(Cell) /\ Len(Readable(c)) = buffer_avail(c)
           /\ buffer_avail(c) \in Nat
           /\ buffer_avail(c) = 0 <=> Readable(c) = <<>>
<1>1. /\ Readable(c) \in Seq(Cell) /\ Len(Readable(c)) = c.wpos - c.rpos
      /\ buffer_avail(c) = c.wpos - c.rpos
  BY ReadableType
<1>2. c.wpos - c.rpos \in Nat
  BY DEF BufOK
<1>3. Len(Readable(c)) = 0 <=> Readable(c) = <<>>
  BY <1>1, EmptySeq
<1> QED
  BY <1>1, <1>2, <1>3

\* What a call has still to send of its caller's data.
PendingOf(k) == IF k.op = "write" THEN LastIov(k) ELSE <<>>

LEMMA PendingFacts ==
    ASSUME NEW k, NEW c, BufOK(c)
    PROVE  /\ QuietShape(k) \/ ReadShape(k) => PendingOf(k) = <<>>
           /\ LoopShape(k, c) => PendingOf(k) = LastIov(k) /\ LastIov(k) \in Seq(Cell)
<1>1. QuietShape(k) \/ ReadShape(k) => k.op # "write"
  BY NotWriting
<1>2. LoopShape(k, c) => LastIov(k) \in Seq(Cell) /\ (k.op # "write" => LastIov(k) = <<>>)
  BY LoopFacts
<1> QED
  BY <1>1, <1>2 DEF PendingOf

\* A call is in the loop of _stream_write exactly when it has the shape of one.
LEMMA InLoop ==
    ASSUME Shape
    PROVE  InWriteLoop <=> LoopShape(call, buf)
<1>1. BufOK(buf) /\ (QuietShape(call) \/ ReadShape(call) \/ LoopShape(call, buf))
  BY DEF Shape, StreamOK
<1>2. ASSUME InWriteLoop PROVE ~QuietShape(call) /\ ~ReadShape(call)
  BY <1>2 DEF InWriteLoop, QuietShape, ReadShape, Idle, Closing, Seeking
<1>3. ASSUME LoopShape(call, buf) PROVE InWriteLoop
  <2>1. call.op \in {"write", "flush", "close", "seek"}
    BY <1>3 DEF LoopShape
  <2>2. Len(call.iov) = 2 \/ Len(call.iov) = 1
    BY <1>1, <1>3, LoopFacts
  <2>3. call.iov # <<>>
    BY <2>2
  <2> QED
    BY <2>1, <2>3 DEF InWriteLoop, Idle
<1> QED
  BY <1>1, <1>2, <1>3

\* What stream_flush, stream_close and stream_seek do next, with a buffer c.
LEMMA AfterFlushFacts ==
    ASSUME NEW op \in {"flush", "close", "seek"}, NEW flushed \in BOOLEAN, AfterFlush(op, flushed)
    PROVE  /\ call' \in {Idle, Closing, Seeking}
           /\ call' = Closing => flushed
           /\ call' = Idle /\ result'.op = "flush" => (result'.ok <=> flushed)
<1>1. CASE (op = "close" /\ flushed) \/ (op = "seek" /\ ~flushed)
  <2>1. call' = [op |-> op, iov |-> <<>>]
    BY <1>1 DEF AfterFlush
  <2>2. call' # Idle
    BY <2>1 DEF Idle
  <2>3. call' \in {Closing, Seeking} /\ (call' = Closing => op = "close")
    BY <1>1, <2>1 DEF Closing, Seeking
  <2> QED
    BY <1>1, <2>2, <2>3
<1>2. CASE ~((op = "close" /\ flushed) \/ (op = "seek" /\ ~flushed))
  <2>1. call' = Idle /\ result' = [op |-> op, ok |-> op = "flush" /\ flushed]
    BY <1>2 DEF AfterFlush, Returns
  <2>2. call' # Closing
    BY <2>1 DEF Idle, Closing
  <2>3. result'.op = op /\ result'.ok = (op = "flush" /\ flushed)
    BY <2>1
  <2> QED
    BY <2>1, <2>2, <2>3
<1> QED
  BY <1>1, <1>2

\* The end of _stream_write.
LEMMA EndWriteFacts ==
    ASSUME LoopShape(call, buf), BufOK(buf'), NEW ok \in BOOLEAN, EndWrite(ok)
    PROVE  /\ lock' = 0
           /\ call' \in {Idle, Closing, Seeking}
           /\ call' = Closing => Readable(buf') = <<>>
           /\ call' = Idle /\ result'.op = "flush" => (result'.ok <=> Readable(buf') = <<>>)
<1>1. call.op \in {"write", "flush", "close", "seek"}
  BY DEF LoopShape
<1>2. lock' = 0
  BY DEF EndWrite, StreamLock!mtx_unlock
<1>3. buffer_avail(buf') = 0 <=> Readable(buf') = <<>>
  BY EmptyFacts
<1>4. CASE call.op = "write"
  <2>1. call' = Idle /\ result' = [op |-> "write", ok |-> ok]
    BY <1>4 DEF EndWrite, Returns
  <2> QED
    BY <1>2, <2>1 DEF Idle, Closing
<1>5. CASE call.op # "write"
  <2> DEFINE flushed == buffer_avail(buf') = 0
  <2>1. AfterFlush(call.op, flushed)
    BY <1>5 DEF EndWrite
  <2>2. flushed \in BOOLEAN /\ call.op \in {"flush", "close", "seek"}
    BY <1>1, <1>5
  <2> HIDE DEF flushed
  <2>3. /\ call' \in {Idle, Closing, Seeking}
        /\ call' = Closing => flushed
        /\ call' = Idle /\ result'.op = "flush" => (result'.ok <=> flushed)
    BY <2>1, <2>2, AfterFlushFacts
  <2> QED
    BY <1>2, <1>3, <2>3 DEF flushed
<1> QED
  BY <1>4, <1>5

\* What a step of an output operation has to keep.
LEMMA OutputStep ==
    ASSUME StreamInv, ops' = ops, UNCHANGED inputs, ~Receives,
           BufOK(buf'), Rewound(buf'),
           need_mask' \subseteq {"READ", "WRITE"}, lock' \in {0, 1}, last_err' \in Errors,
           QuietShape(call') \/ LoopShape(call', buf'),
           "discard" \notin ops /\ QuietShape(call') => lock' = 0,
           sink' \in Seq(Cell), accepted' \in Seq(Cell),
           Sends => /\ Cat(Cat(sink', Readable(buf')), PendingOf(call')) = accepted'
                    /\ call' = Idle /\ result'.op = "flush" => (result'.ok <=> Readable(buf') = <<>>)
                    /\ call' = Closing => Readable(buf') = <<>>
                    /\ ~fdopen' => call' = Idle /\ Readable(buf') = <<>>
    PROVE  StreamInv'
<1>1. Sends' = Sends /\ Receives' = Receives
  BY DEF Sends, Receives, ForInput
<1>2. Pending' = PendingOf(call')
  BY DEF Pending, PendingOf, LastIov
<1>3. ops' \in Uses
  BY DEF StreamInv
<1>4. Shape'
  BY DEF StreamInv, Shape, StreamOK, inputs
<1>5. ~ReadShape(call')
  BY ShapesDiffer
<1>6. Sends => SendInv'
  BY <1>2, <1>5 DEF SendInv
<1>7. "discard" \notin ops => Unlocked'
  BY DEF Unlocked
<1> QED
  BY <1>1, <1>3, <1>4, <1>6, <1>7 DEF StreamInv

-----------------------------------------------------------------------------
\* The parts of the invariant that every step uses.
LEMMA Parts ==
    ASSUME StreamInv
    PROVE  /\ BufOK(buf) /\ Rewound(buf)
           /\ need_mask \subseteq {"READ", "WRITE"} /\ lock \in {0, 1} /\ last_err \in Errors
           /\ QuietShape(call) \/ ReadShape(call) \/ LoopShape(call, buf)
           /\ sink \in Seq(Cell) /\ accepted \in Seq(Cell) /\ taken \in Seq(Cell)
           /\ got \in Seq(Byte) /\ inq \in Seq(Byte)
           /\ Readable(buf) \in Seq(Cell) /\ Len(Readable(buf)) = buffer_avail(buf)
           /\ buffer_avail(buf) = 0 <=> Readable(buf) = <<>>
<1>1. BufOK(buf)
  BY DEF StreamInv, Shape, StreamOK
<1> QED
  BY <1>1, EmptyFacts DEF StreamInv, Shape, StreamOK

\* What a stream for output has sent, holds and has left.
LEMMA SendParts ==
    ASSUME StreamInv, Sends
    PROVE  /\ Cat(Cat(sink, Readable(buf)), PendingOf(call)) = accepted
           /\ call = Closing => Readable(buf) = <<>>
           /\ ~fdopen => call = Idle /\ Readable(buf) = <<>>
<1>1. Pending = PendingOf(call)
  BY DEF Pending, PendingOf, LastIov
<1> QED
  BY <1>1 DEF StreamInv, SendInv

\* The call that enters the loop.
LEMMA LoopBegins ==
    ASSUME BufOK(buf), NEW op \in {"write", "flush", "close", "seek"}, NEW data \in Seq(Cell),
           op # "write" => data = <<>>, NEW k, k = WriteLoop(op, data)
    PROVE  LoopShape(k, buf) /\ PendingOf(k) = data
<1> DEFINE r == Readable(buf)
           v == <<r, data>>
<1>1. r \in Seq(Cell) /\ Len(r) = buffer_avail(buf) /\ buffer_avail(buf) \in Nat
  BY EmptyFacts
<1> HIDE DEF r
<1>2. Len(v) = 2 /\ v[1] = r /\ v[2] = data
  BY Iovecs
<1>3. v = <<r, v[2]>>
  BY <1>2
<1> HIDE DEF v
<1>4. k = [op |-> op, iov |-> v, ravail |-> Len(r), towrite |-> Len(r) + Len(data)]
  BY <1>1 DEF WriteLoop, r, v
<1>5. /\ k.op = op /\ k.iov = v /\ k.ravail = Len(r) /\ k.towrite = Len(r) + Len(data)
      /\ DOMAIN k = {"op", "iov", "ravail", "towrite"}
  BY <1>4
<1>6. k.ravail \in Nat /\ Len(r) <= k.ravail
  BY <1>1, <1>5
<1>7. LoopShape(k, buf)
  BY <1>2, <1>3, <1>5, <1>6 DEF LoopShape, r
<1>8. LastIov(k) = data
  BY <1>2, <1>5 DEF LastIov
<1> QED
  BY <1>5, <1>7, <1>8 DEF PendingOf

\* stream_write.
LEMMA StreamWriteStep ==
    ASSUME StreamInv, NEW data \in Chunks, StreamWrite(data), ops' = ops
    PROVE  StreamInv'
<1> DEFINE r == Readable(buf)
<1>1. /\ BufOK(buf) /\ Rewound(buf) /\ sink \in Seq(Cell) /\ accepted \in Seq(Cell)
      /\ need_mask \subseteq {"READ", "WRITE"} /\ lock \in {0, 1} /\ last_err \in Errors
      /\ r \in Seq(Cell) /\ (buffer_avail(buf) = 0 <=> r = <<>>)
  BY Parts
<1>2. /\ "write" \in ops /\ call = Idle /\ fdopen /\ lock = 0
      /\ "overlap" \in ops \/ buffer_avail(buf) = 0 \/ Len(data) >= buffer_space(buf)
      /\ accepted' = Cat(accepted, data)
      /\ UNCHANGED <<need_mask, last_err, fdopen, moved, inputs, sink>>
  BY DEF StreamWrite, LockedCall, Calls, Cat
<1>3. data \in Seq(Byte) /\ data \in Seq(Cell) /\ Len(data) \in Nat
  BY StreamAssumption DEF Cell
<1>4. ~Receives
  BY <1>2 DEF Receives
<1>5. accepted' \in Seq(Cell)
  BY <1>1, <1>2, <1>3, CatFacts
<1>6. Sends => Cat(Cat(sink, r), <<>>) = accepted
  <2>1. PendingOf(call) = <<>>
    BY <1>2 DEF PendingOf, Idle
  <2> QED
    BY <2>1, SendParts
<1>7. Cat(sink, r) \in Seq(Cell)
  BY <1>1, CatFacts
<1>8. Sends => accepted = Cat(sink, r)
  BY <1>6, <1>7, CatEmpty
<1>9. CASE Len(data) < buffer_space(buf)
  <2>1. buf' = buffer_write(buf, data, TRUE).buf /\ call' = Idle
        /\ result' = [op |-> "write", ok |-> TRUE] /\ lock' = lock
    BY <1>9 DEF StreamWrite, Returns
  <2>2. buf.wpos + Len(data) <= buf.size /\ buf.wpos + Len(data) < TwoTo32
    <3>1. buffer_space(buf) = buf.size - buf.wpos
      BY <1>1, ReadableType
    <3> QED
      BY <1>1, <1>3, <1>9, <3>1, BufferAssumption DEF BufOK
  <2>3. BufOK(buf') /\ Rewound(buf') /\ (r = <<>> => Readable(buf') = data)
    BY <1>1, <1>3, <2>1, <2>2, WriteFacts
  <2>4. PendingOf(call') = <<>> /\ QuietShape(call') /\ result'.op # "flush" /\ call' # Closing
    BY <2>1 DEF PendingOf, QuietShape, Idle, Closing
  <2>5. Sends => Cat(Cat(sink', Readable(buf')), PendingOf(call')) = accepted'
    <3> SUFFICES ASSUME Sends
                 PROVE  Cat(Cat(sink', Readable(buf')), PendingOf(call')) = accepted'
      OBVIOUS
    <3>1. "overlap" \notin ops
      BY DEF Sends
    <3>2. ~(Len(data) >= buffer_space(buf))
      <4>1. buffer_space(buf) = buf.size - buf.wpos /\ buf.size \in Nat /\ buf.wpos \in Nat
        <5>1. buffer_space(buf) = buf.size - buf.wpos
          BY <1>1, ReadableType
        <5> QED
          BY <1>1, <5>1 DEF BufOK
      <4> QED
        BY <1>3, <1>9, <4>1
    <3>3. r = <<>> /\ Readable(buf') = data
      BY <1>1, <1>2, <2>3, <3>1, <3>2
    <3>4. accepted' = Cat(sink, data)
      BY <1>1, <1>2, <1>8, <3>3, CatEmpty
    <3>5. Cat(Cat(sink, data), <<>>) = Cat(sink, data)
      BY <1>1, <1>3, CatFacts, CatEmpty
    <3> QED
      BY <1>2, <2>4, <3>3, <3>4, <3>5
  <2> QED
    BY <1>1, <1>2, <1>4, <1>5, <2>1, <2>3, <2>4, <2>5, OutputStep
<1>10. CASE ~(Len(data) < buffer_space(buf))
  <2>1. call' = WriteLoop("write", data) /\ lock' = 1 /\ buf' = buf /\ result' = result
    BY <1>10 DEF StreamWrite, StreamLock!mtx_lock
  <2>2. LoopShape(call', buf') /\ PendingOf(call') = data
    BY <1>1, <1>3, <2>1, LoopBegins
  <2>3. ~QuietShape(call')
    BY <2>2, ShapesDiffer
  <2>4. call' # Idle /\ call' # Closing
    BY <2>3 DEF QuietShape
  <2>5. Sends => Cat(Cat(sink', Readable(buf')), PendingOf(call')) = accepted'
    BY <1>2, <1>8, <2>1, <2>2
  <2> QED
    BY <1>1, <1>2, <1>4, <1>5, <2>1, <2>2, <2>3, <2>4, <2>5, OutputStep
<1> QED
  BY <1>9, <1>10

\* stream_flush, and stream_close and stream_seek up to their flush.
LEMMA StreamFlushStep ==
    ASSUME StreamInv, NEW op \in {"flush", "close", "seek"}, StreamFlush(op), ops' = ops
    PROVE  StreamInv'
<1> DEFINE r == Readable(buf)
<1>1. /\ BufOK(buf) /\ Rewound(buf) /\ sink \in Seq(Cell) /\ accepted \in Seq(Cell)
      /\ need_mask \subseteq {"READ", "WRITE"} /\ lock \in {0, 1} /\ last_err \in Errors
      /\ r \in Seq(Cell) /\ (buffer_avail(buf) = 0 <=> r = <<>>)
  BY Parts
<1>2. /\ op \in ops /\ call = Idle /\ fdopen /\ lock = 0
      /\ UNCHANGED <<buf, need_mask, last_err, fdopen, inputs, outputs>>
  BY DEF StreamFlush, LockedCall, Calls
<1>3. ~Receives
  BY <1>2 DEF Receives
<1>4. sink' = sink /\ accepted' = accepted /\ buf' = buf /\ Readable(buf') = r
  BY <1>2 DEF outputs
<1>5. Sends => Cat(Cat(sink, r), <<>>) = accepted
  <2>1. PendingOf(call) = <<>>
    BY <1>2 DEF PendingOf, Idle
  <2> QED
    BY <2>1, SendParts
<1>6. CASE buffer_avail(buf) = 0
  <2>1. AfterFlush(op, TRUE) /\ lock' = lock
    BY <1>6 DEF StreamFlush
  <2>2. /\ call' \in {Idle, Closing, Seeking}
        /\ call' = Idle /\ result'.op = "flush" => (result'.ok <=> TRUE)
    BY <2>1, AfterFlushFacts
  <2>3. QuietShape(call')
    BY <2>2 DEF QuietShape
  <2>4. PendingOf(call') = <<>>
    BY <1>1, <2>3, PendingFacts
  <2>5. Sends => Cat(Cat(sink', Readable(buf')), PendingOf(call')) = accepted'
    BY <1>4, <1>5, <2>4
  <2> QED
    BY <1>1, <1>2, <1>3, <1>4, <1>6, <2>1, <2>2, <2>3, <2>5, OutputStep
<1>7. CASE buffer_avail(buf) # 0
  <2>1. call' = WriteLoop(op, <<>>) /\ lock' = 1
    BY <1>7 DEF StreamFlush, StreamLock!mtx_lock
  <2>2. LoopShape(call', buf') /\ PendingOf(call') = <<>>
    <3>1. <<>> \in Seq(Cell) /\ op \in {"write", "flush", "close", "seek"}
      OBVIOUS
    <3>2. LoopShape(call', buf) /\ PendingOf(call') = <<>>
      BY <1>1, <2>1, <3>1, LoopBegins, ZenonT(30)
    <3> QED
      BY <1>4, <3>2
  <2>3. ~QuietShape(call')
    BY <2>2, ShapesDiffer
  <2>4. call' # Idle /\ call' # Closing
    BY <2>3 DEF QuietShape
  <2>5. Sends => Cat(Cat(sink', Readable(buf')), PendingOf(call')) = accepted'
    BY <1>4, <1>5, <2>2
  <2> QED
    BY <1>1, <1>2, <1>3, <1>4, <2>1, <2>2, <2>3, <2>4, <2>5, OutputStep
<1> QED
  BY <1>6, <1>7

\* A writev that fails.
LEMMA WritevErrorStep ==
    ASSUME StreamInv, NEW err \in Errors, WritevError(err), ops' = ops
    PROVE  StreamInv'
<1> DEFINE r == Readable(buf)
           w == PendingOf(call)
<1>1. /\ BufOK(buf) /\ Rewound(buf) /\ sink \in Seq(Cell) /\ accepted \in Seq(Cell)
      /\ need_mask \subseteq {"READ", "WRITE"} /\ r \in Seq(Cell)
  BY Parts
<1>2. /\ InWriteLoop /\ FdError(err, "WRITE") /\ EndWrite(FALSE)
      /\ accepted' = Before(accepted, Len(accepted) - Len(w))
      /\ UNCHANGED <<buf, fdopen, moved, inputs, sink>>
  BY DEF WritevError, Before, Pending, PendingOf, LastIov
<1>3. LoopShape(call, buf)
  BY <1>2, InLoop DEF StreamInv
<1>4. w = LastIov(call) /\ w \in Seq(Cell)
  BY <1>1, <1>3, PendingFacts
<1>5. need_mask' \subseteq {"READ", "WRITE"} /\ last_err' \in Errors
  BY <1>1, <1>2 DEF FdError
<1>6. ~QuietShape(call) /\ ~ReadShape(call)
  BY <1>3, ShapesDiffer
<1>7. call # Idle
  BY <1>6 DEF QuietShape
<1>8. ~Receives
  BY <1>6, <1>7 DEF StreamInv, ReceiveInv
<1>9. Sends => fdopen
  BY <1>7, SendParts
<1>10. BufOK(buf') /\ Rewound(buf') /\ Readable(buf') = r /\ sink' = sink
  BY <1>1, <1>2
<1>11. /\ lock' = 0
       /\ call' \in {Idle, Closing, Seeking}
       /\ call' = Closing => Readable(buf') = <<>>
       /\ call' = Idle /\ result'.op = "flush" => (result'.ok <=> Readable(buf') = <<>>)
  BY <1>2, <1>3, <1>10, EndWriteFacts
<1>12. QuietShape(call')
  BY <1>11 DEF QuietShape
<1>13. PendingOf(call') = <<>>
  BY <1>1, <1>12, PendingFacts
<1>14. Len(accepted) - Len(w) \in Int /\ accepted' \in Seq(Cell)
  <2>1. Len(accepted) \in Nat /\ Len(w) \in Nat
    BY <1>1, <1>4
  <2>2. Len(accepted) - Len(w) <= Len(accepted)
    BY <2>1
  <2> HIDE DEF w
  <2> QED
    BY <1>1, <1>2, <2>1, <2>2 DEF Before
<1>15. Sends => Cat(Cat(sink', Readable(buf')), PendingOf(call')) = accepted'
  <2> SUFFICES ASSUME Sends
               PROVE  Cat(Cat(sink', Readable(buf')), PendingOf(call')) = accepted'
    OBVIOUS
  <2> DEFINE q == Cat(sink, r)
  <2>1. q \in Seq(Cell)
    BY <1>1, CatFacts
  <2>2. Cat(q, w) = accepted
    BY SendParts
  <2> HIDE DEF q, w
  <2>3. Len(accepted) = Len(q) + Len(w) /\ Len(q) \in Nat /\ Len(w) \in Nat
    <3>1. Len(q) \in Nat /\ Len(w) \in Nat
      BY <1>4, <2>1
    <3>2. Len(Cat(q, w)) = Len(q) + Len(w)
      BY <1>4, <2>1, CatFacts
    <3> QED
      BY <2>2, <3>1, <3>2
  <2>4. Len(accepted) - Len(w) = Len(q)
    BY <2>3
  <2>5. Before(accepted, Len(q)) = Before(q, Len(q)) /\ Len(q) \in 0 .. Len(q)
    BY <1>4, <2>1, <2>2, <2>3, CutCat
  <2>6. Before(q, Len(q)) = q /\ Cat(q, <<>>) = q
    BY <2>1, <2>5, CutWhole, CatEmpty
  <2> QED
    BY <1>2, <1>10, <1>13, <2>4, <2>5, <2>6 DEF q
<1> HIDE DEF r, w
<1> QED
  BY <1>1, <1>2, <1>5, <1>8, <1>9, <1>10, <1>11, <1>12, <1>14, <1>15, OutputStep

\* A writev that takes n bytes.
LEMMA WritevStep ==
    ASSUME StreamInv, NEW n \in 1 .. MaxIo, Writev(n), ops' = ops
    PROVE  StreamInv'
<1> DEFINE r == Readable(buf)
           w == PendingOf(call)
           d == ConsumeOf(call, buf, n)
           k1 == NextTurn(call, n)
<1>1. /\ BufOK(buf) /\ Rewound(buf) /\ sink \in Seq(Cell) /\ accepted \in Seq(Cell)
      /\ need_mask \subseteq {"READ", "WRITE"} /\ lock \in {0, 1} /\ last_err \in Errors
      /\ r \in Seq(Cell)
  BY Parts
<1>2. InWriteLoop /\ n <= call.towrite /\ n \in Nat \ {0}
  BY DEF Writev
<1>3. LoopShape(call, buf)
  BY <1>2, InLoop DEF StreamInv
<1>4. w = LastIov(call) /\ w \in Seq(Cell)
  BY <1>1, <1>3, PendingFacts
<1>5. \/ Len(call.iov) = 2 /\ Cat(call.iov[1], call.iov[2]) = Cat(r, w)
      \/ Len(call.iov) = 1 /\ call.iov[1] = Cat(r, w)
  <2>1. r = Readable(buf) /\ w = LastIov(call)
    BY <1>4
  <2> HIDE DEF r, w
  <2> QED
    BY <1>1, <1>3, <2>1, LoopFacts, SMTT(30)
<1>6. /\ buf' = d
      /\ sink' = Cat(sink, Before(Cat(r, w), n))
      /\ n = call.towrite => EndWrite(TRUE)
      /\ n # call.towrite => call' = k1 /\ lock' = lock /\ result' = result
      /\ UNCHANGED <<need_mask, last_err, fdopen, moved, inputs, accepted>>
  <2>1. buf' = d
    BY DEF Writev, Consume, ConsumeOf
  <2>2. sink' = Cat(sink, Before(Cat(r, w), n))
    <3> DEFINE all == IF Len(call.iov) = 2 THEN Cat(call.iov[1], call.iov[2]) ELSE call.iov[1]
    <3>1. sink' = Cat(sink, Before(all, n))
      BY DEF Writev, Cat, Before
    <3> HIDE DEF r, w
    <3>2. all = Cat(r, w)
      BY <1>5
    <3> QED
      BY <3>1, <3>2
  <2>3. n # call.towrite => call' = k1 /\ lock' = lock /\ result' = result
    BY DEF Writev, Remaining, NextTurn, RemainingOf
  <2> QED
    BY <2>1, <2>2, <2>3 DEF Writev
<1>7. /\ BufOK(d) /\ Rewound(d)
      /\ n \in 0 .. Len(r) + Len(w)
      /\ n = call.towrite => Readable(d) = <<>> /\ After(Cat(r, w), n) = <<>>
      /\ n # call.towrite => /\ LoopShape(k1, d)
                             /\ Cat(Readable(d), LastIov(k1)) = After(Cat(r, w), n)
  <2>1. r = Readable(buf) /\ w = LastIov(call) /\ d = ConsumeOf(call, buf, n) /\ k1 = NextTurn(call, n)
    BY <1>4
  <2> HIDE DEF r, w, d, k1
  <2> QED
    BY <1>1, <1>2, <1>3, <2>1, WritevFacts
<1>8. ~QuietShape(call) /\ ~ReadShape(call)
  BY <1>3, ShapesDiffer
<1>9. call # Idle
  BY <1>8 DEF QuietShape
<1>10. ~Receives
  BY <1>8, <1>9 DEF StreamInv, ReceiveInv
<1>11. Sends => fdopen /\ Cat(Cat(sink, r), w) = accepted
  BY <1>9, SendParts
<1> HIDE DEF r, w, d, k1
<1>12. Cat(r, w) \in Seq(Cell) /\ n \in 0 .. Len(Cat(r, w))
  BY <1>1, <1>4, <1>7, CatFacts
<1>13. sink' \in Seq(Cell)
  BY <1>1, <1>6, <1>12, CutFacts, CatFacts
<1>14. CASE n = call.towrite
  <2>1. /\ lock' = 0
        /\ call' \in {Idle, Closing, Seeking}
        /\ call' = Closing => Readable(buf') = <<>>
        /\ call' = Idle /\ result'.op = "flush" => (result'.ok <=> Readable(buf') = <<>>)
    BY <1>3, <1>6, <1>7, <1>14, EndWriteFacts
  <2>2. QuietShape(call')
    BY <2>1 DEF QuietShape
  <2>3. PendingOf(call') = <<>> /\ Readable(buf') = <<>>
    BY <1>1, <1>6, <1>7, <1>14, <2>2, PendingFacts
  <2> DEFINE e == <<>>
  <2>4. e \in Seq(Cell) /\ Cat(e, e) = After(Cat(r, w), n)
    <3>1. <<>> \in Seq(Cell)
      OBVIOUS
    <3> QED
      BY <1>7, <1>14, <3>1, CatEmpty
  <2>5. Cat(Cat(sink', e), e) = Cat(Cat(sink, r), w)
    <3> HIDE DEF e
    <3> QED
      BY <1>1, <1>4, <1>6, <1>7, <2>4, SentFacts, SMTT(30)
  <2>6. Sends => Cat(Cat(sink', Readable(buf')), PendingOf(call')) = accepted'
    BY <1>6, <1>11, <2>3, <2>5
  <2> QED
    BY <1>1, <1>6, <1>7, <1>10, <1>11, <1>13, <2>1, <2>2, <2>6, OutputStep
<1>15. CASE n # call.towrite
  <2>1. call' = k1 /\ lock' = lock /\ LoopShape(call', buf')
    BY <1>6, <1>7, <1>15
  <2>2. PendingOf(call') = LastIov(k1) /\ LastIov(k1) \in Seq(Cell) /\ Readable(buf') \in Seq(Cell)
    BY <1>6, <1>7, <1>15, <2>1, PendingFacts, ReadableType
  <2>3. Cat(Cat(sink', Readable(buf')), LastIov(k1)) = Cat(Cat(sink, r), w)
    BY <1>1, <1>4, <1>6, <1>7, <1>15, <2>2, SentFacts
  <2>4. ~QuietShape(call')
    BY <2>1, ShapesDiffer
  <2>5. call' # Idle /\ call' # Closing
    BY <2>4 DEF QuietShape
  <2>6. Sends => Cat(Cat(sink', Readable(buf')), PendingOf(call')) = accepted'
    BY <1>6, <1>11, <2>2, <2>3
  <2> QED
    BY <1>1, <1>6, <1>7, <1>10, <1>11, <1>13, <2>1, <2>4, <2>5, <2>6, OutputStep
<1> QED
  BY <1>14, <1>15

\* close or lseek, after the flush.
LEMMA FdCloseStep ==
    ASSUME StreamInv, NEW ok \in BOOLEAN, FdClose(ok) \/ FdSeek(ok), ops' = ops
    PROVE  StreamInv'
<1> DEFINE r == Readable(buf)
<1>1. /\ BufOK(buf) /\ Rewound(buf) /\ sink \in Seq(Cell) /\ accepted \in Seq(Cell)
      /\ need_mask \subseteq {"READ", "WRITE"} /\ lock \in {0, 1} /\ last_err \in Errors
  BY Parts
<1>2. /\ call \in {Closing, Seeking} /\ call' = Idle /\ result'.op # "flush"
      /\ last_err' \in {last_err, "EIO", "none"}
      /\ UNCHANGED <<buf, need_mask, lock, inputs, outputs>>
      /\ call = Seeking => fdopen' = fdopen
  <2>1. CASE FdClose(ok)
    BY <2>1 DEF FdClose, Returns, Closing, Seeking
  <2>2. CASE FdSeek(ok)
    BY <2>2 DEF FdSeek, Returns, Closing, Seeking
  <2> QED
    BY <2>1, <2>2
<1>3. QuietShape(call) /\ QuietShape(call') /\ call # Idle /\ call' # Closing
  BY <1>2 DEF QuietShape, Idle, Closing, Seeking
<1>4. ~Receives
  BY <1>3, ShapesDiffer DEF StreamInv, ReceiveInv
<1>5. PendingOf(call) = <<>> /\ PendingOf(call') = <<>>
  BY <1>1, <1>3, PendingFacts
<1>6. last_err' \in Errors
  BY <1>1, <1>2 DEF Errors
<1>7. sink' = sink /\ accepted' = accepted /\ Readable(buf') = r
  BY <1>2 DEF outputs
<1>8. "discard" \notin ops => lock' = 0
  BY <1>2, <1>3 DEF StreamInv, Unlocked
<1>9. Sends => /\ Cat(Cat(sink', Readable(buf')), PendingOf(call')) = accepted'
               /\ call = Closing => r = <<>>
               /\ fdopen
  BY <1>3, <1>5, <1>7, SendParts
<1> QED
  BY <1>1, <1>2, <1>3, <1>4, <1>6, <1>7, <1>8, <1>9, OutputStep

\* One turn of stream_printf.
LEMMA StreamPrintfStep ==
    ASSUME StreamInv, NoOverflow, NEW text \in Chunks, NEW ok \in BOOLEAN, StreamPrintf(text, ok),
           ops' = ops
    PROVE  StreamInv'
<1> DEFINE r == Readable(buf)
           p == vprintf_pass(buf, text, ok)
           left == Printed(text)
<1>1. /\ BufOK(buf) /\ Rewound(buf) /\ sink \in Seq(Cell) /\ accepted \in Seq(Cell)
      /\ need_mask \subseteq {"READ", "WRITE"} /\ lock \in {0, 1} /\ last_err \in Errors
      /\ r \in Seq(Cell)
  BY Parts
<1>2. /\ Calls("printf") \/ call = [op |-> "printf"]
      /\ buf' = p.buf
      /\ p.again => call' = [op |-> "printf"] /\ accepted' = accepted
      /\ ~p.again => /\ call' = Idle /\ result' = [op |-> "printf", ok |-> TRUE]
                     /\ accepted' = Cat(accepted, left)
      /\ UNCHANGED <<need_mask, lock, last_err, fdopen, inputs, sink>>
  BY DEF StreamPrintf, Returns, Cat
<1>3. /\ BufOK(p.buf) /\ Rewound(p.buf) /\ p.again \in BOOLEAN
      /\ left \in Seq(Cell)
      /\ p.again => Readable(p.buf) = r
      /\ ~p.again => Readable(p.buf) = Cat(r, left)
  <2>1. text \in Seq(Byte) \ {<<>>} /\ buf.wpos + Len(text) < TwoTo32
    BY StreamAssumption DEF NoOverflow
  <2>2. left = Shown(buf, text)
    BY DEF Printed, Shown
  <2> HIDE DEF p, left
  <2>3. p = vprintf_pass(buf, text, ok)
    BY DEF p
  <2> QED
    BY <1>1, <2>1, <2>2, <2>3, PrintFacts
<1> HIDE DEF p, left
<1>4. QuietShape(call) /\ QuietShape(call') /\ call' # Closing
  BY <1>2, <1>3, Printing, ZenonT(30) DEF Calls
<1>5. PendingOf(call) = <<>> /\ PendingOf(call') = <<>>
  BY <1>1, <1>4, PendingFacts
<1>6. ~Receives
  <2>1. CASE Calls("printf")
    BY <2>1 DEF Calls, Receives
  <2>2. CASE call = [op |-> "printf"]
    <3>1. call # Idle
      BY <2>2, Printing
    <3> QED
      BY <1>4, <3>1, ShapesDiffer DEF StreamInv, ReceiveInv
  <2> QED
    BY <1>2, <2>1, <2>2
<1>7. Sends => fdopen
  <2>1. CASE Calls("printf")
    BY <2>1 DEF Calls
  <2>2. CASE call = [op |-> "printf"]
    <3>1. call # Idle
      BY <2>2, Printing
    <3> QED
      BY <3>1, SendParts
  <2> QED
    BY <1>2, <2>1, <2>2
<1>8. "discard" \notin ops => lock' = 0
  BY <1>2, <1>4 DEF StreamInv, Unlocked
<1>9. Sends => Cat(sink, r) = accepted
  BY <1>1, <1>5, SendParts, CatFacts, CatEmpty
<1>10. CASE p.again
  <2>1. call' = [op |-> "printf"] /\ accepted' = accepted /\ Readable(buf') = r /\ sink' = sink
        /\ BufOK(buf') /\ Rewound(buf')
    BY <1>2, <1>3, <1>10
  <2>2. call' # Idle
    BY <2>1 DEF Idle
  <2>3. Sends => Cat(Cat(sink', Readable(buf')), PendingOf(call')) = accepted'
    BY <1>1, <1>5, <1>9, <2>1, CatEmpty
  <2> QED
    BY <1>1, <1>2, <1>4, <1>6, <1>7, <1>8, <2>1, <2>2, <2>3, OutputStep
<1>11. CASE ~p.again
  <2>1. call' = Idle /\ result'.op # "flush" /\ accepted' = Cat(accepted, left)
        /\ Readable(buf') = Cat(r, left) /\ sink' = sink /\ BufOK(buf') /\ Rewound(buf')
    BY <1>2, <1>3, <1>11
  <2>2. accepted' \in Seq(Cell)
    BY <1>1, <1>3, <2>1, CatFacts
  <2>3. Sends => Cat(sink', Readable(buf')) = accepted'
    BY <1>1, <1>3, <1>9, <2>1, CatAssociative
  <2>4. Sends => Cat(Cat(sink', Readable(buf')), PendingOf(call')) = accepted'
    BY <1>5, <2>2, <2>3, CatEmpty
  <2> QED
    BY <1>1, <1>2, <1>4, <1>6, <1>7, <1>8, <2>1, <2>2, <2>4, OutputStep
<1> QED
  BY <1>3, <1>10, <1>11

-----------------------------------------------------------------------------
\* What a step of an input operation has to keep.
LEMMA InputStep ==
    ASSUME StreamInv, ops' = ops, ~Sends, UNCHANGED <<outputs, fdopen>>,
           BufOK(buf'), Rewound(buf'),
           need_mask' \subseteq {"READ", "WRITE"}, lock' \in {0, 1}, last_err' \in Errors,
           call' = Idle \/ ReadShape(call'),
           "discard" \notin ops /\ call' = Idle => lock' = 0,
           taken' \in Seq(Cell), got' \in Seq(Byte), inq' \in Seq(Byte),
           Receives => result'.op # "flush",
           Receives /\ ~lossy' => call' = Idle /\ Cat(taken', Readable(buf')) = got'
    PROVE  StreamInv'
<1>1. Sends' = Sends /\ Receives' = Receives
  BY DEF Sends, Receives, ForInput
<1>2. QuietShape(call') => call' = Idle
  BY ShapesDiffer DEF QuietShape
<1>3. ops' \in Uses /\ (QuietShape(call') \/ ReadShape(call'))
  BY DEF StreamInv, QuietShape
<1>4. Shape'
  BY <1>3 DEF StreamInv, Shape, StreamOK, outputs
<1>5. "discard" \notin ops => Unlocked'
  BY <1>2 DEF Unlocked
<1>6. Receives => ReceiveInv'
  BY DEF ReceiveInv, StreamInv
<1> QED
  BY <1>1, <1>3, <1>4, <1>5, <1>6 DEF StreamInv

\* stream_fill when readv fails.
LEMMA FillErrorStep ==
    ASSUME StreamInv, NEW err \in Errors, FillError(err), ops' = ops
    PROVE  StreamInv'
<1>1. /\ BufOK(buf) /\ Rewound(buf) /\ taken \in Seq(Cell) /\ got \in Seq(Byte) /\ inq \in Seq(Byte)
      /\ need_mask \subseteq {"READ", "WRITE"} /\ lock \in {0, 1}
  BY Parts
<1>2. /\ "fill" \in ops /\ call = Idle /\ lock = 0 /\ FdError(err, "READ")
      /\ call' = Idle /\ result' = [op |-> "fill", ok |-> FALSE]
      /\ UNCHANGED <<buf, lock, fdopen, inputs, outputs>>
  BY DEF FillError, LockedCall, Calls, ReadvFails, Returns
<1>3. ~Sends
  BY <1>2 DEF Sends
<1>4. need_mask' \subseteq {"READ", "WRITE"} /\ last_err' \in Errors
  BY <1>1, <1>2 DEF FdError
<1>5. taken' = taken /\ got' = got /\ inq' = inq /\ lossy' = lossy /\ buf' = buf
  BY <1>2 DEF inputs
<1>6. Receives /\ ~lossy => Cat(taken, Readable(buf)) = got
  BY DEF StreamInv, ReceiveInv
<1> QED
  BY <1>1, <1>2, <1>3, <1>4, <1>5, <1>6, InputStep

\* stream_fill when readv returns n bytes.
LEMMA FillStep ==
    ASSUME StreamInv, NoOverflow, NEW n \in 1 .. MaxIo, NEW ok \in BOOLEAN, NEW ok2 \in BOOLEAN,
           Fill(n, ok, ok2), ops' = ops
    PROVE  StreamInv'
<1> DEFINE r == Readable(buf)
           s == Before(inq, n)
<1>1. /\ BufOK(buf) /\ Rewound(buf) /\ taken \in Seq(Cell) /\ got \in Seq(Byte) /\ inq \in Seq(Byte)
      /\ need_mask \subseteq {"READ", "WRITE"} /\ lock \in {0, 1} /\ last_err \in Errors
      /\ r \in Seq(Cell)
  BY Parts
<1>2. /\ "fill" \in ops /\ lock = 0 /\ n <= Len(inq) /\ n <= buffer_space(buf) + READALL
      /\ inq' = After(inq, n) /\ got' = Cat(got, s)
      /\ buf' = Filled(buf, s, ok, ok2)
      /\ lossy' = (lossy \/ n > buffer_space(buf))
      /\ call' = Idle /\ result' = [op |-> "fill", ok |-> TRUE]
      /\ UNCHANGED <<need_mask, last_err, lock, fdopen, taken, outputs>>
  BY DEF Fill, LockedCall, ReadvGives, Returns, Calls, Drop, After, Before, Cat
<1>3. ~Sends
  BY <1>2 DEF Sends
<1>4. n \in Nat /\ s \in Seq(Byte) /\ s \in Seq(Cell) /\ Len(s) = n /\ inq' \in Seq(Byte)
  <2>1. n \in 0 .. Len(inq)
    BY <1>2
  <2>2. s \in Seq(Byte) /\ Len(s) = n /\ inq' \in Seq(Byte)
    BY <1>1, <1>2, <2>1 DEF Before, After
  <2> HIDE DEF s
  <2> QED
    BY <2>1, <2>2 DEF Cell
<1> HIDE DEF s
<1>5. got' \in Seq(Byte)
  BY <1>1, <1>2, <1>4 DEF Cat
<1>6. /\ Len(s) <= buffer_space(buf) => Readable(buf') = Cat(r, s)
      /\ BufOK(buf') /\ Rewound(buf')
  <2>1. buf.size + 2 * (Len(s) - buffer_space(buf)) < TwoTo32
    <3> DEFINE sp == buffer_space(buf)
               size == buf.size
    <3>1. sp \in Nat
      <4>1. sp = buf.size - buf.wpos
        BY <1>1, ReadableType
      <4> QED
        BY <1>1, <4>1 DEF BufOK
    <3>2. size \in Nat /\ size + 2 * READALL < TwoTo32 /\ n <= sp + READALL
      BY <1>1, <1>2 DEF BufOK, NoOverflow
    <3> HIDE DEF sp, size
    <3>3. size + 2 * (n - sp) < TwoTo32
      BY <1>4, <3>1, <3>2, StreamAssumption, BufferAssumption
    <3> QED
      BY <1>4, <3>3 DEF sp, size
  <2> QED
    BY <1>1, <1>2, <1>4, <2>1, FillFacts
<1>7. Receives /\ ~lossy' => Cat(taken', Readable(buf')) = got'
  <2> SUFFICES ASSUME Receives, ~lossy' PROVE Cat(taken', Readable(buf')) = got'
    OBVIOUS
  <2>1. Cat(taken, r) = got
    BY <1>2 DEF StreamInv, ReceiveInv
  <2>2. Len(s) <= buffer_space(buf)
    <3>1. buffer_space(buf) = buf.size - buf.wpos /\ ~(n > buffer_space(buf))
      BY <1>1, <1>2, ReadableType, ZenonT(30)
    <3>2. buf.size \in Nat /\ buf.wpos \in Nat
      BY <1>1 DEF BufOK
    <3> QED
      BY <1>4, <3>1, <3>2
  <2> QED
    BY <1>1, <1>2, <1>4, <1>6, <2>1, <2>2, CatAssociative
<1> QED
  BY <1>1, <1>2, <1>3, <1>4, <1>5, <1>6, <1>7, InputStep

\* stream_read, up to its loop.
LEMMA StreamReadStep ==
    ASSUME StreamInv, NEW len \in Lens, NEW null \in BOOLEAN, StreamRead(len, null), ops' = ops
    PROVE  StreamInv'
<1> DEFINE r == Readable(buf)
           nr == NRead(buf, len)
<1>1. /\ BufOK(buf) /\ Rewound(buf) /\ taken \in Seq(Cell) /\ got \in Seq(Byte) /\ inq \in Seq(Byte)
      /\ need_mask \subseteq {"READ", "WRITE"} /\ lock \in {0, 1} /\ last_err \in Errors
      /\ r \in Seq(Cell) /\ Len(r) = buffer_avail(buf)
  BY Parts
<1>2. /\ "read" \in ops /\ lock = 0
      /\ len <= buffer_avail(buf) \/ (IF null THEN "discard" ELSE "short") \in ops
      /\ last_err' = "none" /\ buf' = buffer_read(buf, len)
      /\ taken' = Cat(taken, Before(r, nr))
      /\ lossy' = (lossy \/ (nr < len /\ ~null))
      /\ UNCHANGED <<need_mask, fdopen, inq, got, outputs>>
  BY DEF StreamRead, LockedCall, Calls, Cat, Before
<1>3. \/ /\ nr = len \/ null
         /\ call' = Idle /\ result'.op = "read"
         /\ lock' = IF nr = len THEN lock ELSE 1
      \/ /\ nr # len /\ ~null
         /\ call' = [op |-> "read", len |-> len - nr, ret |-> nr]
         /\ lock' = 1 /\ result' = result
  BY DEF StreamRead, Returns, StreamLock!mtx_lock
<1>4. ~Sends
  BY <1>2 DEF Sends
<1>5. len \in Nat \ {0}
  BY StreamAssumption
<1>6. /\ BufOK(buf') /\ Rewound(buf') /\ nr \in 0 .. Len(r) /\ nr = Min2(len, Len(r))
      /\ Readable(buf') = After(r, nr)
  BY <1>1, <1>2, <1>5, ReadFacts
<1> HIDE DEF nr
<1>7. nr \in Nat /\ nr <= len /\ (nr # len => nr < len /\ ~(len <= buffer_avail(buf)))
  BY <1>1, <1>5, <1>6 DEF Min2
<1>8. Before(r, nr) \in Seq(Cell) /\ After(r, nr) \in Seq(Cell) /\ Cat(Before(r, nr), After(r, nr)) = r
  BY <1>1, <1>6, CutFacts, CutWhole
<1>9. taken' \in Seq(Cell)
  BY <1>1, <1>2, <1>8, CatFacts, ZenonT(30)
<1>10. Cat(taken', Readable(buf')) = Cat(taken, r)
  BY <1>1, <1>2, <1>6, <1>8, CatAssociative, SMTT(30)
<1>11. call' = Idle \/ ReadShape(call')
  <2>1. CASE nr # len
    <3>1. len - nr \in Nat \ {0}
      BY <1>5, <1>7, <2>1
    <3>2. ReadShape([op |-> "read", len |-> len - nr, ret |-> nr])
      BY <1>7, <3>1, StartsReading, ZenonT(30)
    <3> QED
      BY <1>3, <3>2, ZenonT(30)
  <2>2. CASE nr = len
    BY <1>3, <2>2, ZenonT(30)
  <2> QED
    BY <2>1, <2>2
<1>12. "discard" \notin ops /\ call' = Idle => lock' = 0
  <2> SUFFICES ASSUME "discard" \notin ops, call' = Idle PROVE lock' = 0
    OBVIOUS
  <2>1. nr = len \/ null
    BY <1>3 DEF Idle
  <2>2. nr = len
    BY <1>2, <1>7, <2>1
  <2> QED
    BY <1>2, <1>3, <2>2 DEF Idle
<1>13. lock' \in {0, 1} /\ last_err' \in Errors
  BY <1>1, <1>2, <1>3 DEF Errors
<1>14. Receives /\ ~lossy' => call' = Idle /\ Cat(taken', Readable(buf')) = got'
  <2> SUFFICES ASSUME Receives, ~lossy' PROVE call' = Idle /\ Cat(taken', Readable(buf')) = got'
    OBVIOUS
  <2>1. ~lossy /\ ~(nr < len /\ ~null)
    BY <1>2
  <2>2. Cat(taken, r) = got
    BY <2>1 DEF StreamInv, ReceiveInv
  <2> QED
    BY <1>2, <1>3, <1>7, <1>10, <2>1, <2>2
<1>15. Receives => result'.op # "flush"
  <2>1. ASSUME Receives PROVE result.op # "flush"
    BY <2>1 DEF StreamInv, ReceiveInv
  <2> QED
    BY <1>3, <2>1
<1> QED
  BY <1>1, <1>2, <1>4, <1>6, <1>9, <1>11, <1>12, <1>13, <1>14, <1>15, InputStep

\* The loop of stream_read, when readv delivers something: the bytes go past wpos.
LEMMA ReadLoopGivesStep ==
    ASSUME StreamInv, NEW n \in 1 .. MaxIo, ReadLoopGives(n), ops' = ops
    PROVE  StreamInv'
<1> DEFINE r == Readable(buf)
           t == SubSeq(inq, DestLen + 1, n)
<1>1. /\ BufOK(buf) /\ Rewound(buf) /\ taken \in Seq(Cell) /\ got \in Seq(Byte) /\ inq \in Seq(Byte)
      /\ need_mask \subseteq {"READ", "WRITE"} /\ last_err \in Errors
      /\ QuietShape(call) \/ ReadShape(call) \/ LoopShape(call, buf)
  BY Parts
<1>2. /\ call.op = "read" /\ n <= Len(inq)
      /\ inq' = After(inq, n) /\ got' = Cat(got, Before(inq, n))
      /\ call' = Idle /\ result'.op = "read" /\ lock' = 0
      /\ buf' = [buf EXCEPT !.mem = Store(buf.mem, buf.wpos, t)]
      /\ UNCHANGED <<need_mask, last_err, fdopen, taken, lossy, outputs>>
  BY DEF ReadLoopGives, ReadvGives, Returns, StreamLock!mtx_unlock, Drop, After, Before, Cat
<1>3. ReadShape(call) /\ call # Idle
  BY <1>1, <1>2, Reading, ZenonT(30)
<1>4. ~Sends /\ (Receives => lossy)
  BY <1>3 DEF StreamInv, SendInv, ReceiveInv
<1>5. DestLen \in Nat
  BY <1>3 DEF DestLen, ReadShape
<1>6. inq' \in Seq(Byte) /\ Before(inq, n) \in Seq(Byte) /\ t \in Seq(Byte)
  <2>1. n \in Nat /\ n \in 0 .. Len(inq)
    BY <1>2
  <2>2. inq' \in Seq(Byte) /\ Before(inq, n) \in Seq(Byte)
    BY <1>1, <1>2, <2>1 DEF After, Before
  <2>3. DestLen + 1 \in 1 .. DestLen + 1 /\ DestLen + 1 \in Nat /\ DestLen + 1 >= 1
    BY <1>5
  <2> QED
    BY <1>1, <2>1, <2>2, <2>3, SubSeqProperties, SMTT(30)
<1>7. got' \in Seq(Byte)
  BY <1>1, <1>2, <1>6 DEF Cat
<1> HIDE DEF t
<1>8. BufOK(buf') /\ Rewound(buf')
  <2>1. t \in Seq(Cell)
    BY <1>6 DEF Cell
  <2>2. Store(buf.mem, buf.wpos, t) \in [0 .. buf.size - 1 -> Cell]
    BY <1>1, <2>1, StoreType DEF BufOK
  <2> QED
    BY <1>1, <1>2, <2>2 DEF BufOK, Rewound
<1> QED
  BY <1>1, <1>2, <1>4, <1>6, <1>7, <1>8, InputStep

\* The loop of stream_read, when readv fails.
LEMMA ReadLoopErrorStep ==
    ASSUME StreamInv, NEW err \in Errors, NEW cnt \in 0 .. MaxIo, ReadLoopError(err, cnt), ops' = ops
    PROVE  StreamInv'
<1> DEFINE counted == IF cnt > DestLen THEN call.len ELSE cnt
           j == [i \in 1 .. counted |-> Junk]
<1>1. /\ BufOK(buf) /\ Rewound(buf) /\ taken \in Seq(Cell) /\ got \in Seq(Byte) /\ inq \in Seq(Byte)
      /\ need_mask \subseteq {"READ", "WRITE"} /\ lock \in {0, 1}
      /\ QuietShape(call) \/ ReadShape(call) \/ LoopShape(call, buf)
  BY Parts
<1>2. /\ call.op = "read" /\ FdError(err, "READ")
      /\ taken' = Cat(taken, j)
      /\ UNCHANGED <<buf, fdopen, inq, got, lossy, outputs>>
  BY DEF ReadLoopError, ReadvFails, Cat
<1>3. \/ /\ cnt = 0 \/ counted = call.len
         /\ call' = Idle /\ result'.op = "read" /\ lock' = 0
      \/ /\ ~(cnt = 0 \/ counted = call.len)
         /\ call' = [call EXCEPT !.len = @ - counted, !.ret = @ + counted]
         /\ lock' = lock /\ result' = result
  BY DEF ReadLoopError, Returns, StreamLock!mtx_unlock
<1>4. ReadShape(call) /\ call # Idle
  BY <1>1, <1>2, Reading, ZenonT(30)
<1>5. ~Sends /\ (Receives => lossy /\ result.op # "flush")
  BY <1>4 DEF StreamInv, SendInv, ReceiveInv
<1>6. DestLen \in Nat /\ DestLen <= call.len /\ call.len \in Nat /\ call.ret \in Nat /\ cnt \in Nat
  BY <1>4 DEF DestLen, ReadShape
<1>7. counted \in Nat /\ (counted # call.len => counted < call.len)
  BY <1>6
<1>8. taken' \in Seq(Cell)
  <2> HIDE DEF counted
  <2>1. j \in Seq(Cell)
    BY <1>7 DEF Cell
  <2> QED
    BY <1>1, <1>2, <2>1, CatFacts
<1> HIDE DEF counted
<1>9. call' = Idle \/ ReadShape(call')
  <2>1. CASE call' = Idle
    BY <2>1
  <2>2. CASE /\ counted # call.len
             /\ call' = [call EXCEPT !.len = @ - counted, !.ret = @ + counted]
    <3>1. /\ call'.op = "read" /\ call'.len = call.len - counted /\ call'.ret = call.ret + counted
          /\ DOMAIN call' = {"op", "len", "ret"}
      BY <1>4, <2>2 DEF ReadShape
    <3>2. call.len - counted \in Nat \ {0} /\ call.ret + counted \in Nat
      BY <1>6, <1>7, <2>2
    <3> QED
      BY <3>1, <3>2 DEF ReadShape
  <2> QED
    BY <1>3, <2>1, <2>2
<1>10. need_mask' \subseteq {"READ", "WRITE"} /\ last_err' \in Errors
  BY <1>1, <1>2 DEF FdError
<1>11. lock' \in {0, 1} /\ (call' = Idle => lock' = 0)
  <2>1. CASE call' = [call EXCEPT !.len = @ - counted, !.ret = @ + counted] /\ lock' = lock
    <3>1. call'.op = "read"
      BY <1>4, <2>1 DEF ReadShape
    <3>2. call' # Idle
      BY <3>1 DEF Idle
    <3> QED
      BY <1>1, <2>1, <3>2
  <2> QED
    BY <1>3, <2>1
<1>12. Receives => result'.op # "flush"
  BY <1>3, <1>5
<1> QED
  BY <1>1, <1>2, <1>5, <1>8, <1>9, <1>10, <1>11, <1>12, InputStep

\* stream_yield, when the delimiter is found.
LEMMA StreamYieldStep ==
    ASSUME StreamInv, NEW delim \in Delims, StreamYield(delim), ops' = ops
    PROVE  StreamInv'
<1> DEFINE r == Readable(buf)
<1>1. /\ BufOK(buf) /\ Rewound(buf) /\ taken \in Seq(Cell) /\ got \in Seq(Byte) /\ inq \in Seq(Byte)
      /\ need_mask \subseteq {"READ", "WRITE"} /\ lock \in {0, 1} /\ last_err \in Errors
      /\ r \in Seq(Cell)
  BY Parts
<1>2. PICK k \in 0 .. buffer_avail(buf) :
        /\ IsFirst(buf, delim, k)
        /\ taken' = Cat(taken, Before(r, k + Len(delim)))
        /\ buf' = buffer_yield(buf, k + Len(delim))
  BY DEF StreamYield, Cat, Before
<1>3. /\ "yield" \in ops /\ call = Idle
      /\ call' = Idle /\ result' = [op |-> "yield", ok |-> TRUE]
      /\ UNCHANGED <<need_mask, lock, last_err, fdopen, inq, got, lossy, outputs>>
  BY DEF StreamYield, Calls, Returns
<1>4. ~Sends
  BY <1>3 DEF Sends
<1> DEFINE n == k + Len(delim)
<1>5. /\ BufOK(buf') /\ Rewound(buf') /\ n \in 1 .. Len(r)
      /\ Readable(buf') = After(r, n)
  <2>1. delim \in Seq(Byte) \ {<<>>}
    BY StreamAssumption
  <2> QED
    BY <1>1, <1>2, <2>1, YieldFacts
<1>6. taken' = Cat(taken, Before(r, n))
  BY <1>2
<1> HIDE DEF n
<1>7. /\ Before(r, n) \in Seq(Cell) /\ After(r, n) \in Seq(Cell)
      /\ Cat(Before(r, n), After(r, n)) = r
  <2>1. n \in 0 .. Len(r)
    BY <1>5
  <2> QED
    BY <1>1, <2>1, CutFacts, CutWhole
<1>8. taken' \in Seq(Cell) /\ Cat(taken', Readable(buf')) = Cat(taken, r)
  BY <1>1, <1>5, <1>6, <1>7, CatFacts, CatAssociative, SMTT(30)
<1>9. "discard" \notin ops => lock' = 0
  BY <1>3 DEF StreamInv, Unlocked, QuietShape
<1>10. Receives /\ ~lossy => Cat(taken, r) = got
  BY DEF StreamInv, ReceiveInv
<1> QED
  BY <1>1, <1>3, <1>4, <1>5, <1>8, <1>9, <1>10, InputStep

\* stream_set_mask, and steps that leave the stream alone.
LEMMA QuietStep ==
    ASSUME StreamInv, need_mask' \subseteq {"READ", "WRITE"},
           UNCHANGED <<buf, lock, last_err, ops, call, result, fdopen, inputs, outputs>>
    PROVE  StreamInv'
<1>1. /\ Sends' = Sends /\ Receives' = Receives /\ Pending' = Pending
      /\ Closing' = Closing /\ Seeking' = Seeking /\ Idle' = Idle
  BY DEF Sends, Receives, ForInput, Pending, Closing, Seeking, Idle
<1>2. /\ QuietShape(call)' = QuietShape(call) /\ ReadShape(call)' = ReadShape(call)
      /\ LoopShape(call, buf)' = LoopShape(call, buf)
      /\ Readable(buf)' = Readable(buf) /\ BufOK(buf)' = BufOK(buf)
      /\ Rewound(buf)' = Rewound(buf)
  BY ZenonT(30) DEF QuietShape, Closing, Seeking, Idle, ReadShape, LoopShape, Readable, BufOK, Rewound,
         buffer_avail, U32
<1>3. UNCHANGED <<sink, accepted, inq, got, taken, lossy>>
  BY DEF inputs, outputs
<1>4. Shape'
  BY <1>2, <1>3 DEF StreamInv, Shape, StreamOK
<1>5. "discard" \notin ops' => Unlocked'
  BY <1>2 DEF StreamInv, Unlocked
<1>6. Sends' => SendInv'
  BY <1>1, <1>2, <1>3 DEF StreamInv, SendInv
<1>7. Receives' => ReceiveInv'
  BY <1>1, <1>2, <1>3 DEF StreamInv, ReceiveInv
<1> QED
  BY <1>4, <1>5, <1>6, <1>7 DEF StreamInv

\* stream_open_fd and stream_open_file.
LEMMA StreamInit ==
    ASSUME Init
    PROVE  StreamInv
<1>1. PICK size \in BufSizes : buf = buffer_new(size)
  BY DEF Init
<1>2. BufOK(buf) /\ Rewound(buf) /\ Readable(buf) = <<>>
  BY <1>1, NewFacts
<1>3. /\ ops \in Uses /\ need_mask = {} /\ lock = 0 /\ last_err = "none"
      /\ call = Idle /\ result.op = "none" /\ fdopen = TRUE /\ inq = Input
      /\ sink = <<>> /\ accepted = <<>> /\ got = <<>> /\ taken = <<>>
  BY DEF Init, StreamLock!mtx_init
<1>4. <<>> \in Seq(Cell) /\ <<>> \in Seq(Byte) /\ inq \in Seq(Byte)
  BY <1>3, StreamAssumption
<1>5. QuietShape(call) /\ call # Closing
  BY <1>3 DEF QuietShape, Idle, Closing
<1>6. ~ReadShape(call)
  BY <1>5, ShapesDiffer
<1>7. Cat(<<>>, <<>>) = <<>> /\ Pending = <<>>
  BY <1>3, <1>4, CatEmpty DEF Pending, Idle
<1>8. Shape
  BY <1>2, <1>3, <1>4, <1>5 DEF Shape, StreamOK, Errors
<1>9. SendInv
  BY <1>2, <1>3, <1>5, <1>6, <1>7 DEF SendInv
<1>10. ReceiveInv
  BY <1>2, <1>3, <1>7 DEF ReceiveInv
<1> QED
  BY <1>3, <1>8, <1>9, <1>10 DEF StreamInv, Unlocked

LEMMA StreamStep ==
    ASSUME StreamInv, NoOverflow, [Next]_vars
    PROVE  StreamInv'
<1>1. CASE UNCHANGED vars
  <2>1. need_mask \subseteq {"READ", "WRITE"}
    BY Parts
  <2> QED
    BY <1>1, <2>1, QuietStep DEF vars
<1>2. CASE Begin /\ UNCHANGED ops
  <2>1. CASE \E data \in Chunks : StreamWrite(data)
    BY <1>2, <2>1, StreamWriteStep
  <2>2. CASE \E op \in {"flush", "close", "seek"} : StreamFlush(op)
    BY <1>2, <2>2, StreamFlushStep
  <2>3. CASE \E text \in Chunks, ok \in BOOLEAN : StreamPrintf(text, ok)
    BY <1>2, <2>3, StreamPrintfStep
  <2>4. CASE \E err \in Errors : FillError(err)
    BY <1>2, <2>4, FillErrorStep
  <2>5. CASE \E n \in 1 .. MaxIo, ok, ok2 \in BOOLEAN : Fill(n, ok, ok2)
    BY <1>2, <2>5, FillStep
  <2>6. CASE \E len \in Lens, null \in BOOLEAN : StreamRead(len, null)
    BY <1>2, <2>6, StreamReadStep
  <2>7. CASE \E delim \in Delims : StreamYield(delim)
    BY <1>2, <2>7, StreamYieldStep
  <2>8. CASE SetMask
    BY <1>2, <2>8, QuietStep DEF SetMask
  <2> QED
    BY <1>2, <2>1, <2>2, <2>3, <2>4, <2>5, <2>6, <2>7, <2>8 DEF Begin
<1>3. CASE Continue /\ UNCHANGED ops
  <2>1. CASE \E err \in Errors : WritevError(err)
    BY <1>3, <2>1, WritevErrorStep
  <2>2. CASE \E n \in 1 .. MaxIo : Writev(n)
    BY <1>3, <2>2, WritevStep
  <2>3. CASE \E ok \in BOOLEAN : FdClose(ok) \/ FdSeek(ok)
    BY <1>3, <2>3, FdCloseStep
  <2>4. CASE \E n \in 1 .. MaxIo : ReadLoopGives(n)
    BY <1>3, <2>4, ReadLoopGivesStep
  <2>5. CASE \E err \in Errors, cnt \in 0 .. MaxIo : ReadLoopError(err, cnt)
    BY <1>3, <2>5, ReadLoopErrorStep
  <2> QED
    BY <1>3, <2>1, <2>2, <2>3, <2>4, <2>5 DEF Continue
<1> QED
  BY <1>1, <1>2, <1>3 DEF Next

-----------------------------------------------------------------------------
\* The invariant of the stream, whatever a caller uses it for, as long as no
\* position of its buffer comes near 2^32.
THEOREM StreamInvariance == Spec /\ []NoOverflow => []StreamInv
<1>1. Init => StreamInv
  BY StreamInit
<1>2. StreamInv /\ NoOverflow /\ [Next]_vars => StreamInv'
  BY StreamStep
<1> QED
  BY <1>1, <1>2, PTL DEF Spec

\* The buffer keeps the picture of buffer.h under every operation of a stream,
\* mixed in any way, with the lock taken or left taken (stream.c:27-365).
THEOREM StreamSafety == Spec /\ []NoOverflow => []StreamOK
<1>1. StreamInv => StreamOK
  BY DEF StreamInv, Shape
<1> QED
  BY <1>1, StreamInvariance, PTL

\* Between two calls the lock is free, for callers that do not read more than is
\* buffered into no destination (stream.c:169-176, 214-265).
THEOREM LockFree ==
    ASSUME \A u \in Uses : "discard" \notin u
    PROVE  Spec /\ []NoOverflow => []LockFreeWhenIdle
<1>1. StreamInv => LockFreeWhenIdle
  BY DEF StreamInv, Unlocked, QuietShape, LockFreeWhenIdle
<1> QED
  BY <1>1, StreamInvariance, PTL

\* What is written to a stream used for output reaches the descriptor in order,
\* without gap or repetition, however the writev calls split it and wherever
\* they fail (stream.c:268-331).
THEOREM OutputReaches ==
    ASSUME Separated
    PROVE  Spec /\ []NoOverflow => []OutputIntact
<1>1. ASSUME StreamInv, ForOutput
      PROVE  sink \o Readable(buf) \o (IF InWriteLoop THEN Pending ELSE <<>>) = accepted
  <2>1. Sends
    BY <1>1 DEF StreamInv, Separated, Sends, ForOutput, ForInput
  <2>2. Shape /\ SendInv
    BY <1>1, <2>1 DEF StreamInv
  <2>3. (IF InWriteLoop THEN Pending ELSE <<>>) = Pending
    <3>1. CASE InWriteLoop
      BY <3>1
    <3>2. CASE ~InWriteLoop
      <4>1. QuietShape(call) \/ ReadShape(call)
        BY <2>2, <3>2, InLoop DEF Shape
      <4>2. call.op # "write"
        BY <4>1, NotWriting, ZenonT(30)
      <4> QED
        BY <3>2, <4>2 DEF Pending
    <3> QED
      BY <3>1, <3>2
  <2> QED
    BY <2>2, <2>3 DEF SendInv, Cat
<1>2. StreamInv => OutputIntact
  BY <1>1 DEF OutputIntact
<1> QED
  BY <1>2, StreamInvariance, PTL

\* What was sent is everything that was accepted when, and only when, nothing is
\* buffered and nothing is left of the call.
LEMMA AllSent ==
    ASSUME StreamInv, Sends, call = Idle
    PROVE  Len(sink) = Len(accepted) <=> Readable(buf) = <<>>
<1> DEFINE r == Readable(buf)
<1>1. sink \in Seq(Cell) /\ r \in Seq(Cell)
  BY Parts
<1>2. Cat(Cat(sink, r), PendingOf(call)) = accepted
  BY SendParts
<1>3. PendingOf(call) = <<>>
  BY DEF PendingOf, Idle
<1>4. Cat(sink, r) \in Seq(Cell) /\ Len(Cat(sink, r)) = Len(sink) + Len(r)
  BY <1>1, CatFacts
<1>5. Cat(Cat(sink, r), <<>>) = Cat(sink, r)
  BY <1>4, CatEmpty
<1>6. Len(accepted) = Len(sink) + Len(r)
  BY <1>2, <1>3, <1>4, <1>5
<1>7. Len(sink) \in Nat /\ Len(r) \in Nat /\ (Len(r) = 0 <=> r = <<>>)
  BY <1>1, EmptySeq
<1> QED
  BY <1>6, <1>7

\* A flush that returned 0 has written everything, one that returned -1 has not
\* (stream.c:334-346).
THEOREM FlushTellsTheTruth ==
    ASSUME Separated
    PROVE  Spec /\ []NoOverflow => []FlushHonest
<1>1. ASSUME StreamInv, call = Idle, result.op = "flush"
      PROVE  result.ok <=> Len(sink) = Len(accepted)
  <2>1. Sends \/ Receives
    BY <1>1 DEF StreamInv, Separated, Sends, Receives, ForInput
  <2>2. Sends
    BY <1>1, <2>1 DEF StreamInv, ReceiveInv
  <2>3. result.ok <=> Readable(buf) = <<>>
    BY <1>1, <2>2 DEF StreamInv, SendInv
  <2> QED
    BY <1>1, <2>2, <2>3, AllSent
<1>2. StreamInv => FlushHonest
  BY <1>1 DEF FlushHonest
<1> QED
  BY <1>2, StreamInvariance, PTL

\* A stream is closed only after everything is written (stream.c:54-62).
THEOREM CloseAfterDrain ==
    ASSUME Separated
    PROVE  Spec /\ []NoOverflow => []CloseDrains
<1>1. ASSUME StreamInv, ~fdopen
      PROVE  Len(sink) = Len(accepted)
  <2>1. Sends \/ Receives
    BY <1>1 DEF StreamInv, Separated, Sends, Receives, ForInput
  <2>2. Sends
    BY <1>1, <2>1 DEF StreamInv, ReceiveInv
  <2>3. call = Idle /\ Readable(buf) = <<>>
    BY <1>1, <2>2 DEF StreamInv, SendInv
  <2> QED
    BY <1>1, <2>2, <2>3, AllSent
<1>2. StreamInv => CloseDrains
  BY <1>1 DEF CloseDrains
<1> QED
  BY <1>2, StreamInvariance, PTL

\* What callers of a stream used for input took, and what its buffer holds, is what
\* the descriptor delivered, as long as no readv returned more than the free
\* space and no read went on to readv (stream.c:184-265).
THEOREM InputArrives ==
    ASSUME Separated
    PROVE  Spec /\ []NoOverflow => []InputIntact
<1>1. ASSUME StreamInv, ForInput, ~lossy
      PROVE  taken \o Readable(buf) = got
  <2>1. Receives
    BY <1>1 DEF StreamInv, Separated, Receives, ForInput
  <2> QED
    BY <1>1, <2>1 DEF StreamInv, ReceiveInv, Cat
<1>2. StreamInv => InputIntact
  BY <1>1 DEF InputIntact
<1> QED
  BY <1>2, StreamInvariance, PTL
=============================================================================
