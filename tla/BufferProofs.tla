---------------------------- MODULE BufferProofs ----------------------------
(***************************************************************************)
(* For every byte set, every word size and every choice of operations: the *)
(* positions of a buffer keep their order and its copies stay inside the   *)
(* block, a drained buffer is rewound, and, when memory is written only to *)
(* an empty buffer, what goes in comes out in order.                       *)
(***************************************************************************)
EXTENDS BufferSpec, SequenceTheorems, TLAPS

\* Storing a string of cells leaves the block a block of cells.
LEMMA StoreType ==
    ASSUME NEW n \in Nat, NEW mem \in [0 .. n - 1 -> Cell], NEW at \in Nat,
           NEW s \in Seq(Cell)
    PROVE  /\ Store(mem, at, s) \in [0 .. n - 1 -> Cell]
           /\ \A i \in 0 .. n - 1 :
                Store(mem, at, s)[i] =
                    IF at <= i /\ i < at + Len(s) THEN s[i - at + 1] ELSE mem[i]
BY DEF Store

\* realloc keeps the bytes both blocks have.
LEMMA ReallocType ==
    ASSUME NEW n \in Nat, NEW mem \in [0 .. n - 1 -> Cell], NEW m \in Nat
    PROVE  /\ Realloc(mem, m) \in [0 .. m - 1 -> Cell]
           /\ \A i \in 0 .. m - 1 : i < n => Realloc(mem, m)[i] = mem[i]
BY DEF Realloc, Cell

\* What is readable, for a buffer in order.
LEMMA ReadableType ==
    ASSUME NEW c, BufOK(c)
    PROVE  /\ buffer_avail(c) = c.wpos - c.rpos
           /\ buffer_space(c) = c.size - c.wpos
           /\ Readable(c) \in Seq(Cell)
           /\ Len(Readable(c)) = c.wpos - c.rpos
           /\ \A i \in 1 .. c.wpos - c.rpos : Readable(c)[i] = c.mem[c.rpos + i - 1]
<1>1. /\ buffer_avail(c) = c.wpos - c.rpos
      /\ buffer_space(c) = c.size - c.wpos
  BY BufferAssumption DEF BufOK, buffer_avail, buffer_space, U32
<1> DEFINE n == c.wpos - c.rpos
<1>2. n \in Nat
  BY DEF BufOK
<1>3. Readable(c) = [i \in 1 .. n |-> c.mem[c.rpos + i - 1]]
  BY <1>1 DEF Readable
<1>4. \A i \in 1 .. n : c.mem[c.rpos + i - 1] \in Cell
  BY DEF BufOK
<1> HIDE DEF n
<1>5. Readable(c) \in Seq(Cell) /\ Len(Readable(c)) = n
  BY <1>2, <1>3, <1>4
<1> QED
  BY <1>1, <1>2, <1>3, <1>5 DEF n

\* Compacting moves the readable bytes to the start and keeps them.
LEMMA CompactFacts ==
    ASSUME NEW c, BufOK(c)
    PROVE  /\ BufOK(Compact(c))
           /\ Compact(c).rpos = 0
           /\ Compact(c).wpos = c.wpos - c.rpos
           /\ Compact(c).size = c.size
           /\ \A i \in 0 .. c.wpos - c.rpos - 1 : Compact(c).mem[i] = c.mem[c.rpos + i]
<1>1. U32(c.wpos - c.rpos) = c.wpos - c.rpos
  BY BufferAssumption DEF BufOK, U32
<1> DEFINE m == Store(c.mem, 0, Readable(c))
<1>2. m \in [0 .. c.size - 1 -> Cell]
  BY ReadableType, StoreType DEF BufOK
<1>3. \A i \in 0 .. c.wpos - c.rpos - 1 : m[i] = c.mem[c.rpos + i]
  <2> SUFFICES ASSUME NEW i \in 0 .. c.wpos - c.rpos - 1 PROVE m[i] = c.mem[c.rpos + i]
    OBVIOUS
  <2> DEFINE r == Readable(c)
  <2>1. r \in Seq(Cell) /\ Len(r) = c.wpos - c.rpos /\ r[i + 1] = c.mem[c.rpos + i]
    <3>1. i + 1 \in 1 .. c.wpos - c.rpos /\ c.rpos + (i + 1) - 1 = c.rpos + i
      BY DEF BufOK
    <3> QED
      BY <3>1, ReadableType
  <2>2. i \in 0 .. c.size - 1 /\ i >= 0 /\ i < Len(r)
    BY <2>1 DEF BufOK
  <2> HIDE DEF r
  <2>3. Store(c.mem, 0, r)[i] = r[i + 1]
    <3>1. c.size \in Nat /\ c.mem \in [0 .. c.size - 1 -> Cell]
      BY DEF BufOK
    <3>2. Store(c.mem, 0, r)[i] = IF 0 <= i /\ i < 0 + Len(r) THEN r[i - 0 + 1] ELSE c.mem[i]
      BY <2>2, <3>1 DEF Store
    <3>3. i - 0 + 1 = i + 1 /\ 0 <= i /\ i < 0 + Len(r)
      BY <2>1, <2>2
    <3> QED
      BY <3>2, <3>3
  <2> QED
    BY <2>1, <2>3 DEF r
<1> HIDE DEF m
<1>4. Compact(c) = [c EXCEPT !.mem = m, !.wpos = c.wpos - c.rpos, !.rpos = 0]
  BY <1>1 DEF Compact, m
<1> QED
  BY <1>2, <1>3, <1>4 DEF BufOK

\* buffer_extend keeps the buffer in order and its readable bytes; when it
\* succeeds there is room for len more.
LEMMA ExtendFacts ==
    ASSUME NEW c, BufOK(c), NEW len \in Nat, c.wpos + len < TwoTo32, NEW ok \in BOOLEAN
    PROVE  LET e == buffer_extend(c, len, ok)
           IN  /\ BufOK(e.buf)
               /\ e.buf.rpos = 0
               /\ e.buf.wpos = c.wpos - c.rpos
               /\ \A i \in 0 .. c.wpos - c.rpos - 1 : e.buf.mem[i] = c.mem[c.rpos + i]
               /\ e.success => e.buf.wpos + len <= e.buf.size
               /\ e.success \in BOOLEAN
<1> DEFINE d == IF c.rpos > 0 THEN Compact(c) ELSE c
<1>1. /\ BufOK(d) /\ d.rpos = 0 /\ d.wpos = c.wpos - c.rpos
      /\ \A i \in 0 .. c.wpos - c.rpos - 1 : d.mem[i] = c.mem[c.rpos + i]
  BY CompactFacts DEF BufOK
<1> HIDE DEF d
<1> DEFINE n == d.wpos + len
<1>2. n \in Nat /\ n < TwoTo32 /\ U32(n) = n
  BY <1>1, BufferAssumption, SMTT(30) DEF BufOK, U32
<1>3. buffer_extend(c, len, ok) =
        IF c.rpos > 0 /\ n <= d.size THEN [buf |-> d, success |-> TRUE]
        ELSE IF ok
        THEN [buf |-> [d EXCEPT !.mem = Realloc(d.mem, n), !.size = n], success |-> TRUE]
        ELSE [buf |-> d, success |-> FALSE]
  BY <1>2 DEF buffer_extend, d
<1> DEFINE g == [d EXCEPT !.mem = Realloc(d.mem, n), !.size = n]
<1>4. Realloc(d.mem, n) \in [0 .. n - 1 -> Cell]
  BY <1>1, <1>2, ReallocType DEF BufOK
<1>5. \A i \in 0 .. c.wpos - c.rpos - 1 : Realloc(d.mem, n)[i] = c.mem[c.rpos + i]
  <2> SUFFICES ASSUME NEW i \in 0 .. c.wpos - c.rpos - 1
               PROVE  Realloc(d.mem, n)[i] = c.mem[c.rpos + i]
    OBVIOUS
  <2>1. i \in 0 .. n - 1 /\ i < d.size
    BY <1>1, <1>2, SMTT(30) DEF BufOK
  <2>2. Realloc(d.mem, n)[i] = d.mem[i]
    <3>1. d.size \in Nat /\ d.mem \in [0 .. d.size - 1 -> Cell]
      BY <1>1 DEF BufOK
    <3> HIDE DEF n
    <3> QED
      BY <1>2, <2>1, <3>1, ReallocType
  <2> QED
    BY <1>1, <2>2
<1>6. /\ BufOK(g) /\ g.rpos = 0 /\ g.wpos = c.wpos - c.rpos
      /\ \A i \in 0 .. c.wpos - c.rpos - 1 : g.mem[i] = c.mem[c.rpos + i]
      /\ g.wpos + len <= g.size
  <2> HIDE DEF n
  <2>1. d.wpos <= n
    BY <1>1 DEF BufOK, n
  <2> QED
    BY <1>1, <1>2, <1>4, <1>5, <2>1, SMTT(30) DEF BufOK, n
<1> HIDE DEF g
<1>7. buffer_extend(c, len, ok) =
        IF c.rpos > 0 /\ n <= d.size THEN [buf |-> d, success |-> TRUE]
        ELSE IF ok THEN [buf |-> g, success |-> TRUE]
        ELSE [buf |-> d, success |-> FALSE]
  BY <1>3 DEF g
<1> QED
  BY <1>1, <1>6, <1>7

\* Consuming n of the readable bytes.
LEMMA AdvanceFacts ==
    ASSUME NEW c, BufOK(c), NEW n \in 1 .. c.wpos - c.rpos
    PROVE  /\ BufOK(Advance(c, n))
           /\ Advance(c, n).mem = c.mem
           /\ n < c.wpos - c.rpos => Advance(c, n).rpos = c.rpos + n /\ Advance(c, n).wpos = c.wpos
           /\ n = c.wpos - c.rpos => Advance(c, n).rpos = 0 /\ Advance(c, n).wpos = 0
           /\ Advance(c, n).rpos = Advance(c, n).wpos => Advance(c, n).rpos = 0
BY BufferAssumption DEF BufOK, Advance, U32

\* d has the readable bytes of c.
Same(c, d) ==
    /\ d.wpos - d.rpos = c.wpos - c.rpos
    /\ \A j \in 0 .. c.wpos - c.rpos - 1 : d.mem[d.rpos + j] = c.mem[c.rpos + j]

\* d has the readable bytes of c and then those of s, a NUL here and there.
Appended(c, d, s) ==
    /\ d.wpos - d.rpos = c.wpos - c.rpos + Len(s)
    /\ \A j \in 0 .. c.wpos - c.rpos - 1 : d.mem[d.rpos + j] = c.mem[c.rpos + j]
    /\ \A k \in 1 .. Len(s) :
         d.mem[d.rpos + (c.wpos - c.rpos) + k - 1] \in {s[k], NUL}

Rewound(c) == c.rpos = c.wpos => c.rpos = 0

\* Room made for len more bytes.
LEMMA RoomFacts ==
    ASSUME NEW c, BufOK(c), Rewound(c), NEW len \in Nat, c.wpos + len < TwoTo32, NEW ok \in BOOLEAN
    PROVE  LET r == MakeRoom(c, len, ok)
           IN  /\ BufOK(r.buf)
               /\ Rewound(r.buf)
               /\ Same(c, r.buf)
               /\ r.buf.wpos + len < TwoTo32
               /\ r.success \in BOOLEAN
               /\ r.success => r.buf.wpos + len <= r.buf.size
<1>1. U32(c.wpos + len) = c.wpos + len
  BY BufferAssumption DEF BufOK, U32
<1>2. CASE c.wpos + len > c.size
  <2> DEFINE e == buffer_extend(c, len, ok)
  <2>1. MakeRoom(c, len, ok) = e
    BY <1>1, <1>2 DEF MakeRoom
  <2>2. /\ BufOK(e.buf)
        /\ e.buf.rpos = 0
        /\ e.buf.wpos = c.wpos - c.rpos
        /\ \A i \in 0 .. c.wpos - c.rpos - 1 : e.buf.mem[i] = c.mem[c.rpos + i]
        /\ e.success => e.buf.wpos + len <= e.buf.size
        /\ e.success \in BOOLEAN
    BY ExtendFacts
  <2> HIDE DEF e
  <2>3. Same(c, e.buf)
    BY <2>2 DEF Same, BufOK
  <2>4. e.buf.wpos + len < TwoTo32
    BY <2>2, BufferAssumption DEF BufOK
  <2> QED
    BY <2>1, <2>2, <2>3, <2>4 DEF Rewound
<1>3. CASE ~(c.wpos + len > c.size)
  <2>1. MakeRoom(c, len, ok) = [buf |-> c, success |-> TRUE]
    BY <1>1, <1>3 DEF MakeRoom
  <2>2. Same(c, c)
    BY DEF Same
  <2> QED
    BY <1>3, <2>1, <2>2 DEF BufOK
<1> QED
  BY <1>2, <1>3

\* Storing s, whole or cut short by a NUL, at the write position and moving it.
LEMMA AppendFacts ==
    ASSUME NEW c, BufOK(c), Rewound(c), NEW s \in Seq(Cell), NEW t \in Seq(Cell),
           c.wpos + Len(s) <= c.size, Len(s) <= Len(t),
           \A k \in 1 .. Len(s) : t[k] \in {s[k], NUL},
           NEW d, d = [c EXCEPT !.mem = Store(c.mem, c.wpos, t), !.wpos = c.wpos + Len(s)]
    PROVE  BufOK(d) /\ Rewound(d) /\ Appended(c, d, s)
<1> DEFINE m == Store(c.mem, c.wpos, t)
<1>1. c.size \in Nat /\ c.wpos \in Nat /\ c.rpos \in Nat /\ c.rpos <= c.wpos
      /\ c.wpos <= c.size /\ c.mem \in [0 .. c.size - 1 -> Cell] /\ Len(s) \in Nat /\ Len(t) \in Nat
  BY DEF BufOK
<1>2. m \in [0 .. c.size - 1 -> Cell]
  BY <1>1, StoreType
<1>3. \A i \in 0 .. c.size - 1 :
        m[i] = IF c.wpos <= i /\ i < c.wpos + Len(t) THEN t[i - c.wpos + 1] ELSE c.mem[i]
  BY <1>1 DEF Store
<1>0. d = [c EXCEPT !.mem = m, !.wpos = c.wpos + Len(s)]
  OBVIOUS
<1> HIDE DEF m
<1>4. d.rpos = c.rpos /\ d.wpos = c.wpos + Len(s) /\ d.size = c.size /\ d.mem = m
      /\ DOMAIN d = DOMAIN c
  BY <1>0 DEF BufOK
<1>5. BufOK(d) /\ Rewound(d)
  BY <1>1, <1>2, <1>4 DEF BufOK, Rewound
<1>6. ASSUME NEW j \in 0 .. c.wpos - c.rpos - 1 PROVE m[c.rpos + j] = c.mem[c.rpos + j]
  <2>1. c.rpos + j \in 0 .. c.size - 1 /\ ~(c.wpos <= c.rpos + j)
    BY <1>1, SMTT(30)
  <2> QED
    BY <1>3, <2>1
<1>7. ASSUME NEW k \in 1 .. Len(s) PROVE m[c.wpos + k - 1] \in {s[k], NUL}
  <2>1. c.wpos + k - 1 \in 0 .. c.size - 1 /\ (c.wpos + k - 1) - c.wpos + 1 = k
        /\ c.wpos <= c.wpos + k - 1 /\ c.wpos + k - 1 < c.wpos + Len(t)
    BY <1>1
  <2>2. m[c.wpos + k - 1] = t[k]
    BY <1>3, <2>1
  <2> QED
    BY <2>2
<1>8. \A k \in 1 .. Len(s) : c.rpos + (c.wpos - c.rpos) + k - 1 = c.wpos + k - 1
  BY <1>1
<1>9. Appended(c, d, s)
  <2>1. d.wpos - d.rpos = c.wpos - c.rpos + Len(s)
    BY <1>1, <1>4
  <2>2. \A j \in 0 .. c.wpos - c.rpos - 1 : d.mem[d.rpos + j] = c.mem[c.rpos + j]
    BY <1>4, <1>6
  <2>3. \A k \in 1 .. Len(s) : d.mem[d.rpos + (c.wpos - c.rpos) + k - 1] \in {s[k], NUL}
    BY <1>4, <1>7, <1>8
  <2> QED
    BY <2>1, <2>2, <2>3 DEF Appended
<1> QED
  BY <1>5, <1>9

\* What vsnprintf stores lies after the readable bytes.
LEMMA FormattedFacts ==
    ASSUME NEW c, BufOK(c), Rewound(c), NEW text \in Seq(Byte), NEW f, f = Formatted(c, text)
    PROVE  BufOK(f) /\ Rewound(f) /\ Same(c, f) /\ f.wpos = c.wpos /\ f.size = c.size
<1>1. buffer_space(c) = c.size - c.wpos
  BY ReadableType
<1> DEFINE n == Min2(Len(text), (c.size - c.wpos) - 1)
           t == Append(SubSeq(text, 1, n), NUL)
<1>2. CASE c.size = c.wpos
  <2>1. f = c
    BY <1>1, <1>2 DEF Formatted, BufOK
  <2> QED
    BY <2>1 DEF Same, BufOK
<1>3. CASE c.size # c.wpos
  <2>1. n \in 0 .. Len(text) /\ t \in Seq(Cell)
    <3>1. n \in 0 .. Len(text)
      BY <1>3 DEF BufOK, Min2
    <3> HIDE DEF n
    <3>2. text \in Seq(Cell) /\ NUL \in Cell
      BY DEF Cell
    <3>3. SubSeq(text, 1, n) \in Seq(Cell)
      BY <3>1, <3>2
    <3> QED
      BY <3>1, <3>2, <3>3
  <2> HIDE DEF n, t
  <2>2. f = [c EXCEPT !.mem = Store(c.mem, c.wpos, t)]
    BY <1>1, <1>3 DEF Formatted, n, t, BufOK
  <2> DEFINE m == Store(c.mem, c.wpos, t)
             d == [c EXCEPT !.mem = m, !.wpos = c.wpos + Len(<<>>)]
  <2>3. m \in [0 .. c.size - 1 -> Cell]
    BY <2>1, StoreType DEF BufOK
  <2>4. \A k \in 1 .. Len(<<>>) : t[k] \in {<<>>[k], NUL}
    OBVIOUS
  <2>5. BufOK(d) /\ Rewound(d) /\ Appended(c, d, <<>>)
    <3>1. <<>> \in Seq(Cell) /\ Len(<<>>) = 0 /\ Len(<<>>) <= Len(t) /\ c.wpos + Len(<<>>) <= c.size
      BY <2>1 DEF BufOK
    <3> QED
      BY <2>1, <2>4, <3>1, AppendFacts
  <2>6. d.wpos = c.wpos /\ d.rpos = c.rpos /\ d.size = c.size /\ d.mem = m /\ c.wpos + Len(<<>>) = c.wpos
    BY DEF BufOK
  <2> HIDE DEF m
  <2>7. f.wpos = c.wpos /\ f.rpos = c.rpos /\ f.size = c.size /\ f.mem = m /\ DOMAIN f = DOMAIN c
    BY <2>2 DEF BufOK, m
  <2> HIDE DEF d
  <2>8. Same(c, f)
    BY <2>5, <2>6, <2>7 DEF Appended, Same
  <2> QED
    BY <2>3, <2>7, <2>8 DEF BufOK, Rewound, m
<1> QED
  BY <1>2, <1>3

\* One turn of buffer_vprintf: another turn is due and nothing readable has
\* changed, or the text is appended.
LEMMA VprintfFacts ==
    ASSUME NEW c, BufOK(c), Rewound(c), NEW text \in Seq(Byte),
           c.wpos + Len(text) < TwoTo32, NEW ok \in BOOLEAN,
           NEW p, p = vprintf_pass(c, text, ok)
    PROVE  /\ BufOK(p.buf) /\ Rewound(p.buf)
           /\ p.again \in BOOLEAN
           /\ p.again => Same(c, p.buf)
           /\ ~p.again => Appended(c, p.buf, text)
<1> DEFINE f == Formatted(c, text)
<1>1. BufOK(f) /\ Rewound(f) /\ Same(c, f) /\ f.wpos = c.wpos /\ f.size = c.size
  BY FormattedFacts
<1>2. buffer_space(c) = c.size - c.wpos /\ Len(text) \in Nat
  BY ReadableType
<1>3. CASE Len(text) = 0
  <2>1. p = [buf |-> f, again |-> FALSE]
    BY <1>3 DEF vprintf_pass
  <2> HIDE DEF f
  <2>2. Appended(c, f, text)
    BY <1>1, <1>3 DEF Same, Appended, BufOK
  <2> QED
    BY <1>1, <2>1, <2>2
<1>4. CASE Len(text) # 0 /\ Len(text) <= c.size - c.wpos
  <2> DEFINE n == Min2(Len(text), (c.size - c.wpos) - 1)
             t == Append(SubSeq(text, 1, n), NUL)
             d == [c EXCEPT !.mem = Store(c.mem, c.wpos, t), !.wpos = c.wpos + Len(text)]
  <2>1. /\ n \in Nat /\ n <= Len(text) /\ Len(text) <= n + 1
    BY <1>2, <1>4 DEF BufOK, Min2
  <2>2. f = [c EXCEPT !.mem = Store(c.mem, c.wpos, t)]
    BY <1>2, <1>4 DEF Formatted, BufOK
  <2>3. U32(f.wpos + Len(text)) = c.wpos + Len(text)
    BY <1>1, <1>2, BufferAssumption DEF U32, BufOK
  <2>4. p = [buf |-> [f EXCEPT !.wpos = c.wpos + Len(text)], again |-> FALSE]
    BY <1>2, <1>4, <2>3 DEF vprintf_pass
  <2>5. [f EXCEPT !.wpos = c.wpos + Len(text)] = d
    BY <2>2 DEF BufOK
  <2> HIDE DEF n
  <2>6. /\ t \in Seq(Cell) /\ Len(t) = n + 1
        /\ \A k \in 1 .. n : t[k] = text[k]
        /\ t[n + 1] = NUL
    <3>1. text \in Seq(Cell) /\ NUL \in Cell
      BY DEF Cell
    <3>2. SubSeq(text, 1, n) \in Seq(Cell) /\ Len(SubSeq(text, 1, n)) = n
          /\ \A k \in 1 .. n : SubSeq(text, 1, n)[k] = text[k]
      BY <2>1, <3>1
    <3> QED
      BY <2>1, <3>1, <3>2
  <2> HIDE DEF t
  <2>7. \A k \in 1 .. Len(text) : t[k] \in {text[k], NUL}
    BY <1>2, <2>1, <2>6
  <2>8. text \in Seq(Cell) /\ c.wpos + Len(text) <= c.size /\ Len(text) <= Len(t)
    BY <1>2, <1>4, <2>1, <2>6 DEF Cell, BufOK
  <2>9. BufOK(d) /\ Rewound(d) /\ Appended(c, d, text)
    BY <2>6, <2>7, <2>8, AppendFacts
  <2> HIDE DEF d
  <2> QED
    BY <2>4, <2>5, <2>9
<1>5. CASE Len(text) # 0 /\ ~(Len(text) <= c.size - c.wpos)
  <2> DEFINE e == buffer_extend(f, Len(text), ok)
  <2>1. p = [buf |-> e.buf, again |-> TRUE]
    BY <1>2, <1>5 DEF vprintf_pass
  <2> HIDE DEF f
  <2>2. /\ BufOK(e.buf) /\ e.buf.rpos = 0 /\ e.buf.wpos = f.wpos - f.rpos
        /\ \A i \in 0 .. f.wpos - f.rpos - 1 : e.buf.mem[i] = f.mem[f.rpos + i]
    BY <1>1, <1>2, ExtendFacts
  <2> HIDE DEF e
  <2>3. Same(f, e.buf)
    BY <2>2, <1>1, SMTT(30) DEF Same, BufOK
  <2>4. Same(c, e.buf)
    BY <1>1, <2>3 DEF Same
  <2> QED
    BY <2>1, <2>2, <2>4 DEF Rewound
<1> QED
  BY <1>2, <1>3, <1>4, <1>5

-----------------------------------------------------------------------------
\* d is c with the first n readable bytes consumed.
Consumed(c, d, n) ==
    /\ d.wpos - d.rpos = c.wpos - c.rpos - n
    /\ \A j \in 0 .. c.wpos - c.rpos - n - 1 : d.mem[d.rpos + j] = c.mem[c.rpos + n + j]

\* The bytes p stored against the bytes t drawn and those readable in c.
Linked(c, p, t) ==
    /\ Len(p) = Len(t) + (c.wpos - c.rpos)
    /\ \A i \in 1 .. Len(t) : t[i] \in {p[i], NUL}
    /\ \A j \in 0 .. c.wpos - c.rpos - 1 : c.mem[c.rpos + j] \in {p[Len(t) + j + 1], NUL}

IInv ==
    /\ BufferOK
    /\ EmptyIsRewound
    /\ put \in Seq(Byte)
    /\ drawn \in Seq(Cell)
    /\ "overlap" \notin Ops => Linked(b, put, drawn)

\* What every step does to the buffer and to the histories.
Effect ==
    \/ Same(b, b') /\ UNCHANGED <<put, drawn>>
    \/ \E s \in Seq(Byte) : Appended(b, b', s) /\ put' = put \o s /\ UNCHANGED drawn
    \/ \E n \in 1 .. b.wpos - b.rpos :
         Consumed(b, b', n) /\ drawn' = drawn \o SubSeq(Readable(b), 1, n) /\ UNCHANGED put

Good == BufOK(b') /\ Rewound(b') /\ printing' \in BOOLEAN

\* Consuming n bytes, as buffer_read and buffer_yield do.
LEMMA ConsumeFacts ==
    ASSUME NEW c, BufOK(c), NEW n \in 1 .. c.wpos - c.rpos, NEW d, d = Advance(c, n)
    PROVE  BufOK(d) /\ Rewound(d) /\ Consumed(c, d, n)
<1>1. /\ BufOK(d) /\ Rewound(d) /\ d.mem = c.mem
      /\ n < c.wpos - c.rpos => d.rpos = c.rpos + n /\ d.wpos = c.wpos
      /\ n = c.wpos - c.rpos => d.rpos = 0 /\ d.wpos = 0
  BY AdvanceFacts DEF Rewound
<1>2. c.wpos \in Nat /\ c.rpos \in Nat
  BY DEF BufOK
<1>3. d.wpos - d.rpos = c.wpos - c.rpos - n
  BY <1>1, <1>2
<1>4. ASSUME NEW j \in 0 .. c.wpos - c.rpos - n - 1 PROVE d.mem[d.rpos + j] = c.mem[c.rpos + n + j]
  <2>1. n < c.wpos - c.rpos
    BY <1>2
  <2> QED
    BY <1>1, <2>1
<1> QED
  BY <1>1, <1>3, <1>4 DEF Consumed

LEMMA ReadStep ==
    ASSUME IInv, NEW len \in Counts, Read(len) PROVE Good /\ Effect
<1>1. BufOK(b) /\ Rewound(b) /\ printing \in BOOLEAN /\ drawn \in Seq(Cell)
  BY DEF IInv, BufferOK, EmptyIsRewound, Rewound
<1>2. buffer_avail(b) = b.wpos - b.rpos /\ Readable(b) \in Seq(Cell)
  BY <1>1, ReadableType
<1> DEFINE n == NRead(b, len)
<1>3. n \in 0 .. b.wpos - b.rpos
  BY <1>1, <1>2, UseAssumption, BufferAssumption DEF NRead, Min2, BufOK
<1>4. CASE n = 0
  <2>1. b' = b /\ drawn' = drawn /\ UNCHANGED <<printing, put>>
    BY <1>1, <1>2, <1>4 DEF Read, buffer_read
  <2> QED
    BY <1>1, <2>1 DEF Good, Effect, Same
<1>5. CASE n # 0
  <2>1. b' = Advance(b, n) /\ drawn' = drawn \o SubSeq(Readable(b), 1, n) /\ UNCHANGED <<printing, put>>
    BY <1>5 DEF Read, buffer_read
  <2> HIDE DEF n
  <2>2. n \in 1 .. b.wpos - b.rpos
    BY <1>3, <1>5
  <2>3. BufOK(b') /\ Rewound(b') /\ Consumed(b, b', n)
    BY <1>1, <2>1, <2>2, ConsumeFacts
  <2> QED
    BY <1>1, <2>1, <2>2, <2>3 DEF Good, Effect
<1> QED
  BY <1>4, <1>5

LEMMA YieldStep ==
    ASSUME IInv, NEW delim \in Marks, Yield(delim) PROVE Good /\ Effect
<1>1. BufOK(b) /\ Rewound(b) /\ printing \in BOOLEAN
  BY DEF IInv, BufferOK, EmptyIsRewound, Rewound
<1>2. buffer_avail(b) = b.wpos - b.rpos /\ Len(Readable(b)) = b.wpos - b.rpos
  BY <1>1, ReadableType
<1>3. PICK k \in 0 .. buffer_avail(b) :
        /\ IsFirst(b, delim, k)
        /\ drawn' = drawn \o SubSeq(Readable(b), 1, k + Len(delim))
        /\ b' = Advance(b, k + Len(delim))
  BY DEF Yield, buffer_yield
<1>4. k \in 0 .. Len(Readable(b)) - Len(delim)
  BY <1>3 DEF IsFirst, Occurrences
<1>5. Len(delim) \in Nat /\ Len(delim) # 0
  BY UseAssumption
<1> DEFINE n == k + Len(delim)
<1>6. n \in 1 .. b.wpos - b.rpos
  BY <1>1, <1>2, <1>4, <1>5 DEF BufOK
<1>7. b' = Advance(b, n) /\ drawn' = drawn \o SubSeq(Readable(b), 1, n) /\ UNCHANGED <<printing, put>>
  BY <1>3 DEF Yield
<1> HIDE DEF n
<1>8. BufOK(b') /\ Rewound(b') /\ Consumed(b, b', n)
  BY <1>1, <1>6, <1>7, ConsumeFacts
<1> QED
  BY <1>1, <1>6, <1>7, <1>8 DEF Good, Effect

\* The bytes are stored and fit, so committing them only moves wpos.
LEMMA CommitFacts ==
    ASSUME NEW c, BufOK(c), NEW s \in Seq(Cell), c.wpos + Len(s) <= c.size, NEW ok \in BOOLEAN
    PROVE  buffer_commit([c EXCEPT !.mem = Store(c.mem, c.wpos, s)], Len(s), ok)
             = [c EXCEPT !.mem = Store(c.mem, c.wpos, s), !.wpos = c.wpos + Len(s)]
<1> DEFINE m == Store(c.mem, c.wpos, s)
           len == Len(s)
<1>1. len \in Nat /\ c.wpos + len <= c.size /\ U32(c.wpos + len) = c.wpos + len
  BY BufferAssumption DEF U32, BufOK
<1> HIDE DEF m, len
<1> SUFFICES ASSUME NEW f, f = [c EXCEPT !.mem = m]
             PROVE  buffer_commit(f, len, ok) = [c EXCEPT !.mem = m, !.wpos = c.wpos + len]
  BY DEF m, len
<1>2. f.wpos = c.wpos /\ f.size = c.size /\ c.size \in Nat /\ c.wpos \in Nat
  BY DEF BufOK
<1>3. [f EXCEPT !.wpos = c.wpos + len] = [c EXCEPT !.mem = m, !.wpos = c.wpos + len]
  BY DEF BufOK
<1>4. ~(U32(f.wpos + len) > f.size) /\ U32(f.wpos + len) = c.wpos + len
  BY <1>1, <1>2
<1>5. MakeRoom(f, len, ok) = [buf |-> f, success |-> TRUE]
  BY <1>4 DEF MakeRoom
<1> DEFINE room == MakeRoom(f, len, ok)
<1>6. buffer_commit(f, len, ok) = [f EXCEPT !.wpos = U32(f.wpos + len)]
  <2>1. room.buf = f /\ room.success
    BY <1>5
  <2>2. buffer_commit(f, len, ok) =
          IF ~room.success THEN room.buf
          ELSE [room.buf EXCEPT !.wpos = U32(room.buf.wpos + len)]
    BY DEF buffer_commit
  <2> HIDE DEF room
  <2> QED
    BY <2>1, <2>2
<1> QED
  BY <1>3, <1>4, <1>6

LEMMA CommitStep ==
    ASSUME IInv, NEW s \in Strings, NEW ok \in BOOLEAN, Commit(s, ok) PROVE Good /\ Effect
<1>1. BufOK(b) /\ Rewound(b) /\ printing \in BOOLEAN /\ s \in Seq(Byte) /\ s \in Seq(Cell)
  BY UseAssumption DEF IInv, BufferOK, EmptyIsRewound, Rewound, Cell
<1>2. Len(s) \in Nat /\ b.wpos + Len(s) <= b.size /\ Len(s) <= Len(s)
  <2>1. buffer_space(b) = b.size - b.wpos
    BY <1>1, ReadableType
  <2>2. Len(s) <= buffer_space(b)
    BY DEF Commit
  <2> QED
    BY <1>1, <2>1, <2>2 DEF BufOK
<1> DEFINE d == [b EXCEPT !.mem = Store(b.mem, b.wpos, s), !.wpos = b.wpos + Len(s)]
<1>8. b' = d /\ put' = put \o s /\ UNCHANGED <<printing, drawn>>
  BY <1>1, <1>2, CommitFacts, ZenonT(30) DEF Commit
<1>9. BufOK(d) /\ Rewound(d) /\ Appended(b, d, s)
  BY <1>1, <1>2, AppendFacts
<1> HIDE DEF d
<1> QED
  BY <1>1, <1>8, <1>9 DEF Good, Effect

LEMMA ExtendStep ==
    ASSUME IInv, NEW len \in Counts, NEW ok \in BOOLEAN, Extend(len, ok) PROVE Good /\ Effect
<1>1. BufOK(b) /\ Rewound(b) /\ printing \in BOOLEAN
  BY DEF IInv, BufferOK, EmptyIsRewound, Rewound
<1>2. len \in Nat /\ b.wpos + len < TwoTo32
  BY UseAssumption, BufferAssumption DEF Extend, NoWrap
<1>3. /\ BufOK(b') /\ b'.rpos = 0 /\ b'.wpos = b.wpos - b.rpos
      /\ \A i \in 0 .. b.wpos - b.rpos - 1 : b'.mem[i] = b.mem[b.rpos + i]
  BY <1>1, <1>2, ExtendFacts DEF Extend
<1>4. Same(b, b') /\ Rewound(b')
  BY <1>1, <1>3 DEF Same, BufOK, Rewound
<1> QED
  BY <1>1, <1>3, <1>4 DEF Good, Effect, Extend

LEMMA VprintfStep ==
    ASSUME IInv, NEW s \in Strings, NEW ok \in BOOLEAN, Vprintf(s, ok) PROVE Good /\ Effect
<1>1. BufOK(b) /\ Rewound(b) /\ s \in Seq(Byte) /\ b.wpos + Len(s) < TwoTo32
  BY UseAssumption DEF IInv, BufferOK, EmptyIsRewound, Rewound, Vprintf, CanPut, NoWrap
<1> DEFINE p == vprintf_pass(b, s, ok)
<1>2. /\ BufOK(p.buf) /\ Rewound(p.buf)
      /\ p.again \in BOOLEAN
      /\ p.again => Same(b, p.buf)
      /\ ~p.again => Appended(b, p.buf, s)
  BY <1>1, VprintfFacts
<1>3. /\ b' = p.buf /\ printing' = p.again /\ UNCHANGED drawn
      /\ put' = IF p.again THEN put ELSE put \o s
  BY DEF Vprintf
<1> HIDE DEF p
<1> QED
  BY <1>1, <1>2, <1>3 DEF Good, Effect

\* buffer_write keeps the buffer in order.  Its bytes go to rpos, which is the write
\* position when the buffer is empty: then they are appended.
LEMMA WriteStep ==
    ASSUME IInv, NEW s \in Strings, NEW ok \in BOOLEAN, Write(s, ok)
    PROVE  /\ Good /\ put' \in Seq(Byte) /\ drawn' = drawn
           /\ "overlap" \notin Ops => Effect
<1>1. BufOK(b) /\ Rewound(b) /\ printing \in BOOLEAN /\ put \in Seq(Byte)
      /\ s \in Seq(Byte) /\ s \in Seq(Cell) /\ b.wpos + Len(s) < TwoTo32 /\ Len(s) \in Nat
  BY UseAssumption DEF IInv, BufferOK, EmptyIsRewound, Rewound, Write, CanPut, NoWrap, Cell
<1> DEFINE r == MakeRoom(b, Len(s), ok)
           c == r.buf
           w == buffer_write(b, s, ok)
<1>2. /\ BufOK(c) /\ Rewound(c) /\ Same(b, c)
      /\ c.wpos + Len(s) < TwoTo32 /\ r.success \in BOOLEAN
      /\ r.success => c.wpos + Len(s) <= c.size
  BY <1>1, RoomFacts
<1>3. U32(c.wpos + Len(s)) = c.wpos + Len(s)
  BY <1>1, <1>2, BufferAssumption DEF U32, BufOK
<1> DEFINE d == [c EXCEPT !.mem = Store(c.mem, c.rpos, s), !.wpos = c.wpos + Len(s)]
<1>4. w = IF r.success THEN [buf |-> d, nwrote |-> Len(s)] ELSE [buf |-> c, nwrote |-> 0]
  BY <1>2, <1>3 DEF buffer_write
<1> HIDE DEF r
<1>5. r.success => BufOK(d) /\ Rewound(d)
  <2> SUFFICES ASSUME r.success PROVE BufOK(d) /\ Rewound(d)
    OBVIOUS
  <2> DEFINE m == Store(c.mem, c.rpos, s)
  <2>1. m \in [0 .. c.size - 1 -> Cell]
    BY <1>1, <1>2, StoreType DEF BufOK
  <2> HIDE DEF m
  <2>2. d = [c EXCEPT !.mem = m, !.wpos = c.wpos + Len(s)]
    BY DEF m
  <2>3. /\ c.size \in Nat /\ c.wpos \in Nat /\ c.rpos \in Nat /\ c.rpos <= c.wpos
        /\ c.size < TwoTo32 /\ DOMAIN c = {"mem", "size", "rpos", "wpos"}
        /\ c.wpos + Len(s) <= c.size /\ (c.rpos = c.wpos => c.rpos = 0)
    BY <1>2 DEF BufOK, Rewound
  <2> HIDE DEF d, c
  <2>4. d.rpos = c.rpos /\ d.wpos = c.wpos + Len(s) /\ d.size = c.size /\ d.mem = m
        /\ DOMAIN d = DOMAIN c
    BY <2>2, <2>3
  <2>5. /\ d.rpos <= d.wpos /\ d.wpos \in Nat
        /\ d.rpos = d.wpos => d.rpos = 0
    BY <1>1, <2>3, <2>4
  <2> QED
    BY <2>1, <2>3, <2>4, <2>5 DEF BufOK, Rewound
<1>6. SubSeq(s, 1, Len(s)) \in Seq(Byte) /\ SubSeq(s, 1, 0) \in Seq(Byte)
  BY <1>1
<1>7. b' = w.buf /\ put' = put \o SubSeq(s, 1, w.nwrote) /\ UNCHANGED <<printing, drawn>>
  BY DEF Write
<1>9. ASSUME "overlap" \notin Ops PROVE b.wpos = b.rpos /\ c.wpos = c.rpos
  <2>1. buffer_avail(b) = 0 /\ buffer_avail(b) = b.wpos - b.rpos
    BY <1>1, <1>9, ReadableType DEF Write
  <2> QED
    BY <1>1, <1>2, <2>1 DEF BufOK, Same
<1>10. ASSUME "overlap" \notin Ops, r.success PROVE Appended(b, d, s)
  <2>1. c.rpos = c.wpos
    BY <1>9, <1>10 DEF BufOK
  <2>2. d = [c EXCEPT !.mem = Store(c.mem, c.wpos, s), !.wpos = c.wpos + Len(s)]
    BY <2>1
  <2> HIDE DEF d
  <2>3. Len(s) <= Len(s) /\ \A k \in 1 .. Len(s) : s[k] \in {s[k], NUL}
    BY <1>1
  <2>4. Appended(c, d, s)
    BY <1>1, <1>2, <1>10, <2>2, <2>3, AppendFacts
  <2> HIDE DEF c
  <2> QED
    BY <1>1, <1>2, <1>9, <1>10, <2>4 DEF Appended, BufOK
<1> HIDE DEF w, d
<1>8. put' \in Seq(Byte)
  <2>1. SubSeq(s, 1, w.nwrote) \in Seq(Byte)
    BY <1>2, <1>4, <1>6
  <2> QED
    BY <1>1, <1>7, <2>1
<1>11. Good
  BY <1>1, <1>2, <1>4, <1>5, <1>7 DEF Good
<1>12. ASSUME "overlap" \notin Ops PROVE Effect
  <2>1. CASE r.success
    <3>1. b' = d /\ put' = put \o SubSeq(s, 1, Len(s))
      BY <1>4, <1>7, <2>1
    <3>2. SubSeq(s, 1, Len(s)) = s
      BY <1>1
    <3> QED
      BY <1>1, <1>7, <1>10, <1>12, <2>1, <3>1, <3>2 DEF Effect
  <2>2. CASE ~r.success
    <3>1. b' = c /\ put' = put \o SubSeq(s, 1, 0)
      BY <1>4, <1>7, <2>2
    <3>2. SubSeq(s, 1, 0) = <<>> /\ put \o <<>> = put
      BY <1>1
    <3> QED
      BY <1>2, <1>7, <3>1, <3>2 DEF Effect
  <2> QED
    BY <2>1, <2>2
<1> QED
  BY <1>7, <1>8, <1>11, <1>12

-----------------------------------------------------------------------------
\* Each kind of step keeps the histories and the buffer in agreement.
LEMMA LinkedSame ==
    ASSUME NEW c, NEW d, NEW p, NEW t, Linked(c, p, t), Same(c, d)
    PROVE  Linked(d, p, t)
BY DEF Linked, Same

LEMMA LinkedAppend ==
    ASSUME NEW c, NEW d, BufOK(c), BufOK(d), NEW p \in Seq(Byte), NEW t \in Seq(Cell),
           NEW s \in Seq(Byte), Linked(c, p, t), Appended(c, d, s)
    PROVE  Linked(d, p \o s, t)
<1> DEFINE a == c.wpos - c.rpos
           q == p \o s
<1>1. /\ a \in Nat /\ Len(t) \in Nat /\ Len(s) \in Nat
      /\ Len(p) = Len(t) + a
      /\ Len(q) = Len(p) + Len(s)
      /\ \A i \in 1 .. Len(p) : q[i] = p[i]
      /\ \A k \in 1 .. Len(s) : q[Len(p) + k] = s[k]
  <2>1. /\ Len(q) = Len(p) + Len(s)
        /\ \A i \in 1 .. Len(p) : q[i] = p[i]
        /\ \A k \in 1 .. Len(s) : q[Len(p) + k] = s[k]
    <3>1. p \in Seq(Byte) /\ s \in Seq(Byte) /\ Len(p) \in Nat /\ Len(s) \in Nat
      OBVIOUS
    <3> QED
      BY <3>1
  <2> HIDE DEF q
  <2> QED
    BY <2>1 DEF Linked, BufOK
<1>2. /\ d.rpos \in Nat
      /\ d.wpos - d.rpos = a + Len(s)
      /\ \A j \in 0 .. a - 1 : d.mem[d.rpos + j] = c.mem[c.rpos + j]
      /\ \A k \in 1 .. Len(s) : d.mem[d.rpos + a + k - 1] \in {s[k], NUL}
  BY DEF Appended, BufOK
<1>3. /\ \A i \in 1 .. Len(t) : t[i] \in {p[i], NUL}
      /\ \A j \in 0 .. a - 1 : c.mem[c.rpos + j] \in {p[Len(t) + j + 1], NUL}
  BY DEF Linked
<1> HIDE DEF a, q
<1>4. \A i \in 1 .. Len(t) : t[i] \in {q[i], NUL}
  BY <1>1, <1>3
<1>5. ASSUME NEW j \in 0 .. (a + Len(s)) - 1
      PROVE  d.mem[d.rpos + j] \in {q[Len(t) + j + 1], NUL}
  <2>1. CASE j < a
    <3>1. j \in 0 .. a - 1 /\ Len(t) + j + 1 \in 1 .. Len(p)
      BY <1>1, <2>1
    <3> QED
      BY <1>1, <1>2, <1>3, <3>1
  <2>2. CASE ~(j < a)
    <3>1. PICK k \in 1 .. Len(s) : k = j - a + 1
      BY <1>1, <2>2
    <3>2. Len(t) + j + 1 = Len(p) + k /\ d.rpos + a + k - 1 = d.rpos + j
      BY <1>1, <1>2, <3>1
    <3>3. d.mem[d.rpos + a + k - 1] \in {s[k], NUL} /\ q[Len(p) + k] = s[k]
      BY <1>1, <1>2
    <3> QED
      BY <3>2, <3>3
  <2> QED
    BY <2>1, <2>2
<1>6. Len(q) = Len(t) + (d.wpos - d.rpos)
  BY <1>1, <1>2
<1>7. Linked(d, q, t)
  BY <1>2, <1>4, <1>5, <1>6 DEF Linked
<1> QED
  BY <1>7 DEF q

LEMMA LinkedConsume ==
    ASSUME NEW c, NEW d, BufOK(c), BufOK(d), NEW p \in Seq(Byte), NEW t \in Seq(Cell),
           NEW n \in 1 .. c.wpos - c.rpos, Linked(c, p, t), Consumed(c, d, n)
    PROVE  Linked(d, p, t \o SubSeq(Readable(c), 1, n))
<1> DEFINE a == c.wpos - c.rpos
           r == Readable(c)
           u == SubSeq(r, 1, n)
           w == t \o u
<1>1. /\ r \in Seq(Cell) /\ Len(r) = a /\ a \in Nat
      /\ \A i \in 1 .. a : r[i] = c.mem[c.rpos + i - 1]
  <2>1. a \in Nat
    BY DEF BufOK
  <2> QED
    BY <2>1, ReadableType
<1>2. /\ c.rpos \in Nat /\ Len(t) \in Nat /\ Len(p) = Len(t) + a /\ n \in 1 .. a
      /\ \A i \in 1 .. Len(t) : t[i] \in {p[i], NUL}
      /\ \A j \in 0 .. a - 1 : c.mem[c.rpos + j] \in {p[Len(t) + j + 1], NUL}
  BY DEF Linked, BufOK
<1>3. /\ d.wpos - d.rpos = a - n
      /\ \A j \in 0 .. a - n - 1 : d.mem[d.rpos + j] = c.mem[c.rpos + n + j]
  BY DEF Consumed
<1> HIDE DEF a, r
<1>4. /\ u \in Seq(Cell) /\ Len(u) = n
      /\ \A i \in 1 .. n : u[i] = r[i]
  BY <1>1, <1>2
<1> HIDE DEF u
<1>5. /\ Len(w) = Len(t) + n
      /\ \A i \in 1 .. Len(t) : w[i] = t[i]
      /\ \A i \in 1 .. n : w[Len(t) + i] = u[i]
  <2>1. t \in Seq(Cell) /\ u \in Seq(Cell) /\ Len(t) \in Nat /\ Len(u) = n /\ n \in Nat
    BY <1>2, <1>4
  <2>2. \A i \in 1 .. n : Len(t) + i \in 1 .. Len(t) + n /\ ~(Len(t) + i <= Len(t))
                            /\ (Len(t) + i) - Len(t) = i
    BY <2>1
  <2> QED
    BY <2>1, <2>2, SMTT(30)
<1> HIDE DEF w
<1>6. ASSUME NEW i \in 1 .. Len(w) PROVE w[i] \in {p[i], NUL}
  <2>1. CASE i <= Len(t)
    BY <1>2, <1>5, <2>1
  <2>2. CASE ~(i <= Len(t))
    <3>1. PICK k \in 1 .. n : i = Len(t) + k
      <4>1. i - Len(t) \in 1 .. n /\ i = Len(t) + (i - Len(t))
        BY <1>2, <1>5, <2>2
      <4> QED
        BY <4>1
    <3>2. w[i] = c.mem[c.rpos + k - 1]
      <4>1. w[Len(t) + k] = u[k] /\ u[k] = r[k] /\ k \in 1 .. a
        BY <1>1, <1>2, <1>4, <1>5
      <4> QED
        BY <1>1, <3>1, <4>1
    <3>3. k - 1 \in 0 .. a - 1 /\ c.rpos + (k - 1) = c.rpos + k - 1 /\ Len(t) + (k - 1) + 1 = i
      BY <1>1, <1>2, <3>1
    <3> QED
      BY <1>2, <3>2, <3>3
  <2> QED
    BY <2>1, <2>2
<1>7. ASSUME NEW j \in 0 .. a - n - 1 PROVE d.mem[d.rpos + j] \in {p[Len(w) + j + 1], NUL}
  <2>1. n + j \in 0 .. a - 1 /\ c.rpos + (n + j) = c.rpos + n + j
        /\ Len(t) + (n + j) + 1 = Len(w) + j + 1
    BY <1>1, <1>2, <1>5
  <2> QED
    BY <1>2, <1>3, <2>1, SMTT(20)
<1>8. Len(p) = Len(w) + (d.wpos - d.rpos)
  BY <1>1, <1>2, <1>3, <1>5
<1>9. Linked(d, p, w)
  BY <1>3, <1>6, <1>7, <1>8 DEF Linked
<1> QED
  BY <1>9 DEF w, u, r

-----------------------------------------------------------------------------
LEMMA InitIInv == BufInit => IInv
<1> SUFFICES ASSUME BufInit PROVE IInv
  OBVIOUS
<1>1. PICK size \in NewSizes : b = buffer_new(size)
  BY DEF BufInit
<1> DEFINE n == IF size = 0 THEN DefaultSize ELSE 0
<1>2. n \in Nat /\ n < TwoTo32 /\ 0 < TwoTo32
  BY BufferAssumption
<1>3. b = [mem |-> [i \in 0 .. n - 1 |-> NUL], size |-> n, rpos |-> 0, wpos |-> 0]
  BY <1>1 DEF buffer_new
<1> HIDE DEF n
<1>4. BufOK(b)
  BY <1>2, <1>3 DEF BufOK, Cell
<1>5. put = <<>> /\ drawn = <<>> /\ printing = FALSE
  BY DEF BufInit
<1>6. Linked(b, put, drawn)
  BY <1>3, <1>5 DEF Linked
<1>7. put \in Seq(Byte) /\ drawn \in Seq(Cell)
  BY <1>5
<1>8. EmptyIsRewound
  BY <1>3 DEF EmptyIsRewound
<1>9. printing \in BOOLEAN
  BY <1>5
<1> QED
  BY <1>4, <1>6, <1>7, <1>8, <1>9 DEF IInv, BufferOK

LEMMA StepIInv == IInv /\ [BufNext]_bufVars => IInv'
<1> SUFFICES ASSUME IInv, [BufNext]_bufVars PROVE IInv'
  OBVIOUS
<1>1. /\ BufOK(b) /\ put \in Seq(Byte) /\ drawn \in Seq(Cell)
      /\ "overlap" \notin Ops => Linked(b, put, drawn)
  BY DEF IInv, BufferOK
<1>2. ASSUME Good, Effect PROVE IInv'
  <2>1. BufOK(b') /\ Rewound(b') /\ printing' \in BOOLEAN
    BY <1>2 DEF Good
  <2>2. CASE Same(b, b') /\ UNCHANGED <<put, drawn>>
    BY <1>1, <2>1, <2>2, LinkedSame DEF IInv, BufferOK, EmptyIsRewound, Rewound
  <2>3. ASSUME NEW s \in Seq(Byte), Appended(b, b', s), put' = put \o s, UNCHANGED drawn
        PROVE  IInv'
    <3>1. "overlap" \notin Ops => Linked(b', put', drawn')
      BY <1>1, <2>1, <2>3, LinkedAppend
    <3>2. put' \in Seq(Byte) /\ drawn' \in Seq(Cell)
      BY <1>1, <2>3
    <3> QED
      BY <2>1, <3>1, <3>2 DEF IInv, BufferOK, EmptyIsRewound, Rewound
  <2>4. ASSUME NEW n \in 1 .. b.wpos - b.rpos, Consumed(b, b', n),
               drawn' = drawn \o SubSeq(Readable(b), 1, n), UNCHANGED put
        PROVE  IInv'
    <3>1. "overlap" \notin Ops => Linked(b', put', drawn')
      BY <1>1, <2>1, <2>4, LinkedConsume
    <3>2. SubSeq(Readable(b), 1, n) \in Seq(Cell)
      <4>1. Readable(b) \in Seq(Cell) /\ n \in 1 .. Len(Readable(b))
        BY <1>1, ReadableType
      <4> QED
        BY <4>1
    <3>3. put' \in Seq(Byte) /\ drawn' \in Seq(Cell)
      BY <1>1, <2>4, <3>2
    <3> QED
      BY <2>1, <3>1, <3>3 DEF IInv, BufferOK, EmptyIsRewound, Rewound
  <2> QED
    BY <1>2, <2>2, <2>3, <2>4 DEF Effect
<1>3. ASSUME NEW len \in Counts, Read(len) PROVE IInv'
  BY <1>2, <1>3, ReadStep
<1>4. ASSUME NEW delim \in Marks, Yield(delim) PROVE IInv'
  BY <1>2, <1>4, YieldStep
<1>5. ASSUME NEW s \in Strings, NEW ok \in BOOLEAN, Commit(s, ok) PROVE IInv'
  BY <1>2, <1>5, CommitStep
<1>6. ASSUME NEW s \in Strings, NEW ok \in BOOLEAN, Vprintf(s, ok) PROVE IInv'
  BY <1>2, <1>6, VprintfStep
<1>7. ASSUME NEW len \in Counts, NEW ok \in BOOLEAN, Extend(len, ok) PROVE IInv'
  BY <1>2, <1>7, ExtendStep
<1>8. ASSUME NEW s \in Strings, NEW ok \in BOOLEAN, Write(s, ok) PROVE IInv'
  <2>1. Good /\ put' \in Seq(Byte) /\ drawn' = drawn
    BY <1>8, WriteStep
  <2>2. CASE "overlap" \in Ops
    BY <1>1, <2>1, <2>2 DEF Good, IInv, BufferOK, EmptyIsRewound, Rewound
  <2>3. CASE "overlap" \notin Ops
    BY <1>2, <1>8, <2>1, <2>3, WriteStep
  <2> QED
    BY <2>2, <2>3
<1>9. CASE UNCHANGED bufVars
  BY <1>9 DEF bufVars, IInv, BufferOK, EmptyIsRewound
<1> QED
  BY <1>3, <1>4, <1>5, <1>6, <1>7, <1>8, <1>9 DEF BufNext

\* The inductive invariant of a buffer and its owner.
THEOREM Invariance == BufSpec => []IInv
BY InitIInv, StepIInv, PTL DEF BufSpec

\* The positions of the buffer keep the order of the picture in buffer.h and
\* stay within the block, whatever is called and whenever allocation fails.
THEOREM PositionsInOrder == BufSpec => []BufferOK
<1>1. IInv => BufferOK
  BY DEF IInv
<1> QED
  BY <1>1, Invariance, PTL

\* A buffer that has been read to its end is rewound.
THEOREM DrainedIsRewound == BufSpec => []EmptyIsRewound
<1>1. IInv => EmptyIsRewound
  BY DEF IInv
<1> QED
  BY <1>1, Invariance, PTL

\* If memory is written only to an empty buffer, what comes out is what went in, in order, except that
\* buffer_vprintf may have put a NUL in the place of a byte.
THEOREM InOrderDelivery == ASSUME "overlap" \notin Ops PROVE BufSpec => []Delivered
<1>1. IInv => Delivered
  <2> SUFFICES ASSUME IInv PROVE Delivered
    OBVIOUS
  <2> DEFINE r == Readable(b)
             got == drawn \o r
  <2>1. /\ BufOK(b) /\ put \in Seq(Byte) /\ drawn \in Seq(Cell) /\ Linked(b, put, drawn)
    BY DEF IInv, BufferOK
  <2>2. /\ r \in Seq(Cell) /\ Len(r) = b.wpos - b.rpos
        /\ \A i \in 1 .. b.wpos - b.rpos : r[i] = b.mem[b.rpos + i - 1]
    BY <2>1, ReadableType
  <2> HIDE DEF r
  <2>3. /\ Len(got) = Len(drawn) + Len(r)
        /\ \A i \in 1 .. Len(drawn) : got[i] = drawn[i]
        /\ \A i \in 1 .. Len(r) : got[Len(drawn) + i] = r[i]
    <3>1. drawn \in Seq(Cell) /\ r \in Seq(Cell) /\ Len(drawn) \in Nat /\ Len(r) \in Nat
      BY <2>1, <2>2
    <3> QED
      BY <3>1
  <2> HIDE DEF got
  <2>4. b.rpos \in Nat /\ b.wpos \in Nat /\ Len(drawn) \in Nat /\ Len(put) = Len(drawn) + Len(r)
    BY <2>1, <2>2 DEF BufOK, Linked
  <2>5. ASSUME NEW i \in 1 .. Len(put) PROVE got[i] \in {put[i], NUL}
    <3>1. CASE i <= Len(drawn)
      BY <2>1, <2>3, <2>4, <3>1 DEF Linked
    <3>2. CASE ~(i <= Len(drawn))
      <4> DEFINE k == i - Len(drawn)
      <4>1. k \in 1 .. Len(r) /\ i = Len(drawn) + k /\ k - 1 \in 0 .. b.wpos - b.rpos - 1
            /\ b.rpos + (k - 1) = b.rpos + k - 1 /\ Len(drawn) + (k - 1) + 1 = i
        BY <2>2, <2>4, <3>2
      <4> HIDE DEF k
      <4>2. got[i] = b.mem[b.rpos + (k - 1)]
        BY <2>2, <2>3, <4>1
      <4>3. b.mem[b.rpos + (k - 1)] \in {put[Len(drawn) + (k - 1) + 1], NUL}
        BY <2>1, <4>1 DEF Linked
      <4> QED
        BY <4>1, <4>2, <4>3
    <3> QED
      BY <3>1, <3>2
  <2> QED
    BY <2>3, <2>4, <2>5 DEF Delivered, got, r
<1> QED
  BY <1>1, Invariance, PTL

-----------------------------------------------------------------------------
(* The operations as equations between sequences of bytes *)

Cat(s, t) == s \o t
Before(q, n) == SubSeq(q, 1, n)
After(q, n) == SubSeq(q, n + 1, Len(q))

\* Two strings of the same length and the same cells are the same.
LEMMA SameSeq ==
    ASSUME NEW s \in Seq(Cell), NEW t \in Seq(Cell), Len(s) = Len(t),
           \A i \in 1 .. Len(s) : s[i] = t[i]
    PROVE  s = t
BY SeqEqual

\* One string and then another.
LEMMA CatFacts ==
    ASSUME NEW s \in Seq(Cell), NEW t \in Seq(Cell)
    PROVE  /\ Cat(s, t) \in Seq(Cell)
           /\ Len(Cat(s, t)) = Len(s) + Len(t)
           /\ \A i \in 1 .. Len(s) : Cat(s, t)[i] = s[i]
           /\ \A i \in 1 .. Len(t) : Cat(s, t)[Len(s) + i] = t[i]
<1>1. Len(s) \in Nat /\ Len(t) \in Nat
  OBVIOUS
<1>2. Cat(s, t) \in Seq(Cell) /\ Len(Cat(s, t)) = Len(s) + Len(t)
  BY ConcatProperties DEF Cat
<1>3. \A i \in 1 .. Len(s) + Len(t) :
        Cat(s, t)[i] = IF i <= Len(s) THEN s[i] ELSE t[i - Len(s)]
  BY ConcatProperties DEF Cat
<1>4. \A i \in 1 .. Len(t) : Len(s) + i \in 1 .. Len(s) + Len(t) /\ ~(Len(s) + i <= Len(s))
                               /\ (Len(s) + i) - Len(s) = i
  BY <1>1
<1>5. \A i \in 1 .. Len(s) : i \in 1 .. Len(s) + Len(t) /\ i <= Len(s)
  BY <1>1
<1> HIDE DEF Cat
<1> QED
  BY <1>2, <1>3, <1>4, <1>5

LEMMA CatAssociative ==
    ASSUME NEW s \in Seq(Cell), NEW t \in Seq(Cell), NEW u \in Seq(Cell)
    PROVE  Cat(Cat(s, t), u) = Cat(s, Cat(t, u))
BY ConcatAssociative DEF Cat

LEMMA CatEmpty ==
    ASSUME NEW s \in Seq(Cell)
    PROVE  /\ Cat(s, <<>>) = s
           /\ Cat(<<>>, s) = s
BY ConcatEmptySeq DEF Cat

\* The first n cells of a string, and the others.
LEMMA CutFacts ==
    ASSUME NEW q \in Seq(Cell), NEW n \in 0 .. Len(q)
    PROVE  /\ Before(q, n) \in Seq(Cell)
           /\ Len(Before(q, n)) = n
           /\ \A i \in 1 .. n : Before(q, n)[i] = q[i]
           /\ After(q, n) \in Seq(Cell)
           /\ Len(After(q, n)) = Len(q) - n
           /\ \A i \in 1 .. Len(q) - n : After(q, n)[i] = q[n + i]
<1>1. Len(q) \in Nat /\ n \in Nat /\ n <= Len(q)
  OBVIOUS
<1>2. /\ Before(q, n) \in Seq(Cell)
      /\ Len(Before(q, n)) = n
      /\ \A i \in 1 .. n : Before(q, n)[i] = q[i]
  BY <1>1 DEF Before
<1>3. /\ After(q, n) \in Seq(Cell)
      /\ Len(After(q, n)) = Len(q) - n
  BY <1>1 DEF After
<1>4. \A i \in 1 .. Len(q) - n : After(q, n)[i] = q[n + i]
  <2>1. \A i \in 1 .. Len(q) - n : After(q, n)[i] = q[(n + 1) + i - 1]
    BY <1>1 DEF After
  <2>2. \A i \in 1 .. Len(q) - n : (n + 1) + i - 1 = n + i
    BY <1>1
  <2> QED
    BY <2>1, <2>2
<1> QED
  BY <1>2, <1>3, <1>4

\* Cut in two and put together again.
LEMMA CutWhole ==
    ASSUME NEW q \in Seq(Cell), NEW n \in 0 .. Len(q)
    PROVE  /\ Cat(Before(q, n), After(q, n)) = q
           /\ n = 0 => Before(q, n) = <<>> /\ After(q, n) = q
           /\ n = Len(q) => Before(q, n) = q /\ After(q, n) = <<>>
<1> DEFINE h == Before(q, n)
           r == After(q, n)
           w == Cat(h, r)
<1>1. Len(q) \in Nat /\ n \in Nat /\ n <= Len(q)
  OBVIOUS
<1>2. /\ h \in Seq(Cell) /\ Len(h) = n /\ \A i \in 1 .. n : h[i] = q[i]
      /\ r \in Seq(Cell) /\ Len(r) = Len(q) - n /\ \A i \in 1 .. Len(q) - n : r[i] = q[n + i]
  BY CutFacts
<1> HIDE DEF h, r
<1>3. /\ w \in Seq(Cell) /\ Len(w) = Len(h) + Len(r)
      /\ \A i \in 1 .. Len(h) : w[i] = h[i]
      /\ \A i \in 1 .. Len(r) : w[Len(h) + i] = r[i]
  BY <1>2, CatFacts
<1> HIDE DEF w
<1>4. ASSUME NEW i \in 1 .. Len(q) PROVE w[i] = q[i]
  <2>1. CASE i <= n
    BY <1>1, <1>2, <1>3, <2>1
  <2>2. CASE ~(i <= n)
    <3>1. i - n \in 1 .. Len(q) - n /\ n + (i - n) = i
      BY <1>1, <2>2
    <3>2. w[n + (i - n)] = r[i - n] /\ r[i - n] = q[n + (i - n)]
      BY <1>2, <1>3, <3>1
    <3> QED
      BY <3>1, <3>2
  <2> QED
    BY <2>1, <2>2
<1>5. w = q
  BY <1>1, <1>2, <1>3, <1>4, SameSeq
<1>6. n = 0 => h = <<>> /\ r = q
  <2> SUFFICES ASSUME n = 0 PROVE h = <<>> /\ r = q
    OBVIOUS
  <2>1. h = <<>>
    BY <1>2, EmptySeq
  <2>2. w = r
    BY <1>2, <2>1, CatEmpty DEF w
  <2> QED
    BY <1>5, <2>1, <2>2
<1>7. n = Len(q) => h = q /\ r = <<>>
  <2> SUFFICES ASSUME n = Len(q) PROVE h = q /\ r = <<>>
    OBVIOUS
  <2>1. r = <<>>
    BY <1>1, <1>2, EmptySeq
  <2>2. w = h
    BY <1>2, <2>1, CatEmpty DEF w
  <2> QED
    BY <1>5, <2>1, <2>2
<1> QED
  BY <1>5, <1>6, <1>7 DEF h, r, w

\* A cut of two strings put together falls into the first or into the second one.
LEMMA CutCat ==
    ASSUME NEW s \in Seq(Cell), NEW t \in Seq(Cell)
    PROVE  /\ \A n \in 0 .. Len(s) : /\ Before(Cat(s, t), n) = Before(s, n)
                                     /\ After(Cat(s, t), n) = Cat(After(s, n), t)
           /\ \A n \in 0 .. Len(t) : /\ Before(Cat(s, t), Len(s) + n) = Cat(s, Before(t, n))
                                     /\ After(Cat(s, t), Len(s) + n) = After(t, n)
<1> DEFINE w == Cat(s, t)
<1>1. /\ w \in Seq(Cell) /\ Len(w) = Len(s) + Len(t) /\ Len(s) \in Nat /\ Len(t) \in Nat
      /\ \A i \in 1 .. Len(s) : w[i] = s[i]
      /\ \A i \in 1 .. Len(t) : w[Len(s) + i] = t[i]
  <2>1. Len(s) \in Nat /\ Len(t) \in Nat
    OBVIOUS
  <2> QED
    BY <2>1, CatFacts
<1> HIDE DEF w
<1>2. ASSUME NEW n \in 0 .. Len(s)
      PROVE  Before(w, n) = Before(s, n) /\ After(w, n) = Cat(After(s, n), t)
  <2>1. n \in 0 .. Len(w) /\ Len(w) - n = (Len(s) - n) + Len(t)
    BY <1>1
  <2>2. /\ Before(w, n) \in Seq(Cell) /\ Len(Before(w, n)) = n
        /\ \A i \in 1 .. n : Before(w, n)[i] = w[i]
        /\ After(w, n) \in Seq(Cell) /\ Len(After(w, n)) = Len(w) - n
        /\ \A i \in 1 .. Len(w) - n : After(w, n)[i] = w[n + i]
    BY <1>1, <2>1, CutFacts
  <2>3. /\ Before(s, n) \in Seq(Cell) /\ Len(Before(s, n)) = n
        /\ \A i \in 1 .. n : Before(s, n)[i] = s[i]
        /\ After(s, n) \in Seq(Cell) /\ Len(After(s, n)) = Len(s) - n
        /\ \A i \in 1 .. Len(s) - n : After(s, n)[i] = s[n + i]
    BY CutFacts
  <2>4. Before(w, n) = Before(s, n)
    <3>1. ASSUME NEW i \in 1 .. n PROVE Before(w, n)[i] = Before(s, n)[i]
      <4>1. i \in 1 .. Len(s)
        BY <1>1
      <4> QED
        BY <1>1, <2>2, <2>3, <4>1
    <3> QED
      BY <2>2, <2>3, <3>1, SameSeq
  <2> DEFINE a == After(s, n)
             u == Cat(a, t)
             z == After(w, n)
  <2>5. /\ u \in Seq(Cell) /\ Len(u) = Len(a) + Len(t)
        /\ \A i \in 1 .. Len(a) : u[i] = a[i]
        /\ \A i \in 1 .. Len(t) : u[Len(a) + i] = t[i]
    BY <2>3, CatFacts
  <2>6. z \in Seq(Cell) /\ Len(z) = Len(w) - n /\ \A i \in 1 .. Len(w) - n : z[i] = w[n + i]
    BY <2>2
  <2>7. Len(a) = Len(s) - n /\ \A i \in 1 .. Len(s) - n : a[i] = s[n + i]
    BY <2>3
  <2> HIDE DEF a, u, z
  <2>8. ASSUME NEW i \in 1 .. Len(z) PROVE z[i] = u[i]
    <3>1. CASE i <= Len(s) - n
      <4>1. i \in 1 .. Len(s) - n /\ n + i \in 1 .. Len(s) /\ i \in 1 .. Len(w) - n
        BY <1>1, <2>1, <2>6, <3>1
      <4> QED
        BY <1>1, <2>5, <2>6, <2>7, <4>1
    <3>2. CASE ~(i <= Len(s) - n)
      <4> DEFINE j == i - (Len(s) - n)
      <4>1. j \in 1 .. Len(t) /\ i \in 1 .. Len(w) - n /\ n + i = Len(s) + j /\ i = Len(a) + j
        BY <1>1, <2>1, <2>6, <2>7, <3>2
      <4> HIDE DEF j
      <4>2. z[i] = t[j]
        BY <1>1, <2>6, <4>1
      <4>3. u[i] = t[j]
        BY <2>5, <4>1
      <4> QED
        BY <4>2, <4>3
    <3> QED
      BY <3>1, <3>2
  <2>9. Len(z) = Len(u)
    BY <2>1, <2>5, <2>6, <2>7
  <2>10. z = u
    BY <2>5, <2>6, <2>8, <2>9, SameSeq
  <2> QED
    BY <2>4, <2>10 DEF a, u, z
<1>3. ASSUME NEW n \in 0 .. Len(t)
      PROVE  Before(w, Len(s) + n) = Cat(s, Before(t, n)) /\ After(w, Len(s) + n) = After(t, n)
  <2> DEFINE m == Len(s) + n
             h == Before(w, m)
             z == After(w, m)
             k == Before(t, n)
             a == After(t, n)
             u == Cat(s, k)
  <2>1. m \in 0 .. Len(w) /\ Len(w) - m = Len(t) - n /\ m = Len(s) + n /\ n \in Nat
    BY <1>1
  <2> HIDE DEF m
  <2>2. /\ h \in Seq(Cell) /\ Len(h) = m /\ \A i \in 1 .. m : h[i] = w[i]
        /\ z \in Seq(Cell) /\ Len(z) = Len(w) - m
        /\ \A i \in 1 .. Len(w) - m : z[i] = w[m + i]
    BY <1>1, <2>1, CutFacts
  <2>3. /\ k \in Seq(Cell) /\ Len(k) = n /\ \A i \in 1 .. n : k[i] = t[i]
        /\ a \in Seq(Cell) /\ Len(a) = Len(t) - n /\ \A i \in 1 .. Len(t) - n : a[i] = t[n + i]
    BY CutFacts
  <2> HIDE DEF h, z, k, a
  <2>4. /\ u \in Seq(Cell) /\ Len(u) = Len(s) + Len(k)
        /\ \A i \in 1 .. Len(s) : u[i] = s[i]
        /\ \A i \in 1 .. Len(k) : u[Len(s) + i] = k[i]
    BY <2>3, CatFacts
  <2> HIDE DEF u
  <2>5. ASSUME NEW i \in 1 .. Len(h) PROVE h[i] = u[i]
    <3>1. CASE i <= Len(s)
      <4>1. i \in 1 .. Len(s) /\ i \in 1 .. m
        BY <1>1, <2>1, <2>2, <3>1
      <4> QED
        BY <1>1, <2>2, <2>4, <4>1
    <3>2. CASE ~(i <= Len(s))
      <4> DEFINE j == i - Len(s)
      <4>1. j \in 1 .. n /\ j \in 1 .. Len(t) /\ i \in 1 .. m /\ i = Len(s) + j
        BY <1>1, <2>1, <2>2, <3>2
      <4> HIDE DEF j
      <4> QED
        BY <1>1, <2>2, <2>3, <2>4, <4>1
    <3> QED
      BY <3>1, <3>2
  <2>6. h = u
    BY <1>1, <2>1, <2>2, <2>3, <2>4, <2>5, SameSeq
  <2>7. ASSUME NEW i \in 1 .. Len(z) PROVE z[i] = a[i]
    <3>1. i \in 1 .. Len(w) - m /\ i \in 1 .. Len(t) - n /\ n + i \in 1 .. Len(t) /\ m + i = Len(s) + (n + i)
      BY <1>1, <2>1, <2>2
    <3>2. z[i] = w[Len(s) + (n + i)] /\ a[i] = t[n + i]
      BY <2>2, <2>3, <3>1
    <3> QED
      BY <1>1, <3>1, <3>2
  <2>8. z = a
    BY <2>1, <2>2, <2>3, <2>7, SameSeq
  <2> QED
    BY <2>6, <2>8 DEF h, z, k, a, u, m
<1> QED
  BY <1>2, <1>3 DEF w

\* The readable bytes of two buffers, compared.
LEMMA ReadableSame ==
    ASSUME NEW c, NEW d, BufOK(c), BufOK(d), Same(c, d)
    PROVE  Readable(d) = Readable(c)
<1> DEFINE n == c.wpos - c.rpos
           q == Readable(c)
           r == Readable(d)
<1>1. n \in Nat /\ d.wpos - d.rpos = n /\ c.rpos \in Nat /\ d.rpos \in Nat
      /\ \A j \in 0 .. n - 1 : d.mem[d.rpos + j] = c.mem[c.rpos + j]
  BY DEF BufOK, Same
<1>2. /\ q \in Seq(Cell) /\ Len(q) = n /\ \A i \in 1 .. n : q[i] = c.mem[c.rpos + i - 1]
      /\ r \in Seq(Cell) /\ Len(r) = n /\ \A i \in 1 .. n : r[i] = d.mem[d.rpos + i - 1]
  BY <1>1, ReadableType
<1> HIDE DEF n, q, r
<1>3. ASSUME NEW i \in 1 .. n PROVE r[i] = q[i]
  <2>1. i - 1 \in 0 .. n - 1 /\ c.rpos + (i - 1) = c.rpos + i - 1 /\ d.rpos + (i - 1) = d.rpos + i - 1
    BY <1>1
  <2> QED
    BY <1>1, <1>2, <2>1
<1> QED
  BY <1>2, <1>3, SameSeq DEF q, r

\* What is left once the first m of them are consumed.
LEMMA ReadableConsumed ==
    ASSUME NEW c, NEW d, BufOK(c), BufOK(d), NEW m \in 0 .. c.wpos - c.rpos, Consumed(c, d, m)
    PROVE  Readable(d) = After(Readable(c), m)
<1> DEFINE n == c.wpos - c.rpos
           q == Readable(c)
           r == Readable(d)
           z == After(q, m)
<1>1. n \in Nat /\ d.wpos - d.rpos = n - m /\ c.rpos \in Nat /\ d.rpos \in Nat /\ m \in 0 .. n
      /\ \A j \in 0 .. n - m - 1 : d.mem[d.rpos + j] = c.mem[c.rpos + m + j]
  BY DEF BufOK, Consumed
<1>2. /\ q \in Seq(Cell) /\ Len(q) = n /\ \A i \in 1 .. n : q[i] = c.mem[c.rpos + i - 1]
      /\ r \in Seq(Cell) /\ Len(r) = n - m /\ \A i \in 1 .. n - m : r[i] = d.mem[d.rpos + i - 1]
  BY <1>1, ReadableType
<1> HIDE DEF n, q, r
<1>3. z \in Seq(Cell) /\ Len(z) = n - m /\ \A i \in 1 .. n - m : z[i] = q[m + i]
  BY <1>1, <1>2, CutFacts
<1> HIDE DEF z
<1>4. ASSUME NEW i \in 1 .. n - m PROVE r[i] = z[i]
  <2>1. /\ i - 1 \in 0 .. n - m - 1 /\ m + i \in 1 .. n
        /\ c.rpos + (m + i) - 1 = c.rpos + m + (i - 1) /\ d.rpos + (i - 1) = d.rpos + i - 1
    BY <1>1
  <2>2. q[m + i] = c.mem[c.rpos + m + (i - 1)]
    BY <1>2, <2>1
  <2>3. r[i] = d.mem[d.rpos + (i - 1)]
    BY <1>2, <2>1
  <2> QED
    BY <1>1, <1>3, <2>1, <2>2, <2>3
<1> QED
  BY <1>2, <1>3, <1>4, SameSeq DEF q, r, z

\* The first n bytes of t stored after what is readable.
LEMMA ReadableStored ==
    ASSUME NEW c, BufOK(c), Rewound(c), NEW t \in Seq(Cell), NEW n \in 0 .. Len(t),
           c.wpos + n <= c.size,
           NEW d, d = [c EXCEPT !.mem = Store(c.mem, c.wpos, t), !.wpos = c.wpos + n]
    PROVE  BufOK(d) /\ Rewound(d) /\ Readable(d) = Cat(Readable(c), Before(t, n))
<1> DEFINE s == Before(t, n)
           a == c.wpos - c.rpos
           q == Readable(c)
           r == Readable(d)
           w == Cat(q, s)
           m == Store(c.mem, c.wpos, t)
<1>1. s \in Seq(Cell) /\ Len(s) = n /\ \A i \in 1 .. n : s[i] = t[i]
  BY CutFacts
<1>2. c.size \in Nat /\ c.wpos \in Nat /\ c.rpos \in Nat /\ c.rpos <= c.wpos /\ a \in Nat
      /\ c.wpos = c.rpos + a
      /\ c.wpos <= c.size /\ c.mem \in [0 .. c.size - 1 -> Cell] /\ n \in Nat /\ Len(t) \in Nat
      /\ n <= Len(t)
  BY DEF BufOK
<1>3. \A i \in 0 .. c.size - 1 :
        m[i] = IF c.wpos <= i /\ i < c.wpos + Len(t) THEN t[i - c.wpos + 1] ELSE c.mem[i]
  BY <1>2 DEF Store
<1>4. d.rpos = c.rpos /\ d.wpos = c.wpos + n /\ d.mem = m
  BY DEF BufOK
<1>5. BufOK(d) /\ Rewound(d)
  <2>1. \A k \in 1 .. Len(s) : t[k] \in {s[k], NUL}
    BY <1>1
  <2>2. Len(s) = n /\ s \in Seq(Cell) /\ c.wpos + Len(s) <= c.size /\ Len(s) <= Len(t)
    BY <1>1, <1>2
  <2> HIDE DEF s
  <2>3. d = [c EXCEPT !.mem = Store(c.mem, c.wpos, t), !.wpos = c.wpos + Len(s)]
    BY <2>2
  <2> QED
    BY <2>1, <2>2, <2>3, AppendFacts
<1> HIDE DEF m, s
<1>6. /\ q \in Seq(Cell) /\ Len(q) = a /\ \A i \in 1 .. a : q[i] = c.mem[c.rpos + i - 1]
      /\ r \in Seq(Cell) /\ Len(r) = a + n /\ \A i \in 1 .. a + n : r[i] = m[c.rpos + i - 1]
  <2>1. d.wpos - d.rpos = a + n
    BY <1>2, <1>4
  <2>2. /\ r \in Seq(Cell) /\ Len(r) = d.wpos - d.rpos
        /\ \A i \in 1 .. d.wpos - d.rpos : r[i] = d.mem[d.rpos + i - 1]
    BY <1>5, ReadableType, ZenonT(30)
  <2>3. q \in Seq(Cell) /\ Len(q) = a /\ \A i \in 1 .. a : q[i] = c.mem[c.rpos + i - 1]
    BY ReadableType
  <2> HIDE DEF a, q, r
  <2> QED
    BY <1>4, <2>1, <2>2, <2>3
<1> HIDE DEF a, q, r
<1> DEFINE R == c.rpos
           W == c.wpos
           S == c.size
           L == Len(t)
<1>10. R \in Nat /\ W \in Nat /\ S \in Nat /\ W = R + a /\ a \in Nat /\ W + n <= S /\ n \in Nat
      /\ L \in Nat /\ n <= L
  BY <1>2
<1> HIDE DEF R, W, S, L
<1>7. /\ w \in Seq(Cell) /\ Len(w) = a + n
      /\ \A i \in 1 .. a : w[i] = q[i]
      /\ \A i \in 1 .. n : w[a + i] = s[i]
  BY <1>1, <1>6, CatFacts, ZenonT(30)
<1> HIDE DEF w
<1>8. ASSUME NEW i \in 1 .. a + n PROVE r[i] = w[i]
  <2>1. CASE i <= a
    <3>1. R + i - 1 \in 0 .. S - 1 /\ ~(W <= R + i - 1) /\ i \in 1 .. a
      BY <1>10, <2>1
    <3> QED
      BY <1>3, <1>6, <1>7, <3>1 DEF R, W, S
  <2>2. CASE ~(i <= a)
    <3> DEFINE j == i - a
    <3>1. j \in 1 .. n /\ i = a + j /\ R + i - 1 = W + j - 1
      BY <1>10, <2>2
    <3> HIDE DEF j
    <3>2. /\ W + j - 1 \in 0 .. S - 1 /\ W <= W + j - 1
          /\ W + j - 1 < W + L /\ (W + j - 1) - W + 1 = j
      <4>1. j \in Nat /\ 1 <= j /\ j <= n
        BY <1>10, <3>1
      <4>2. W \in Nat /\ S \in Nat /\ L \in Nat /\ n \in Nat /\ W + n <= S /\ n <= L
        BY <1>10
      <4>3. W + j - 1 \in Int /\ 0 <= W + j - 1 /\ W <= W + j - 1
        BY <4>1, <4>2
      <4>4. W + j - 1 <= S - 1
        BY <4>1, <4>2
      <4>5. W + j - 1 < W + L
        BY <4>1, <4>2
      <4>6. (W + j - 1) - W + 1 = j
        BY <4>1, <4>2
      <4> QED
        BY <4>2, <4>3, <4>4, <4>5, <4>6
    <3>3. r[i] = t[j]
      <4>1. r[i] = m[W + j - 1]
        BY <1>6, <3>1 DEF R
      <4> QED
        BY <1>3, <3>2, <4>1 DEF W, S, L
    <3>4. w[i] = t[j]
      BY <1>1, <1>7, <3>1
    <3> QED
      BY <3>3, <3>4
  <2> QED
    BY <2>1, <2>2
<1>9. r = w
  BY <1>6, <1>7, <1>8, SameSeq
<1> QED
  BY <1>5, <1>9 DEF q, r, s, w

-----------------------------------------------------------------------------
(* The operations as a stream uses them *)

\* A new buffer is empty.
LEMMA NewFacts ==
    ASSUME NEW size, NEW c, c = buffer_new(size)
    PROVE  /\ BufOK(c) /\ Rewound(c) /\ Readable(c) = <<>>
           /\ c.rpos = 0 /\ c.wpos = 0 /\ c.size = IF size = 0 THEN DefaultSize ELSE 0
<1> DEFINE n == IF size = 0 THEN DefaultSize ELSE 0
<1>1. n \in Nat /\ n < TwoTo32
  BY BufferAssumption
<1>2. c = [mem |-> [i \in 0 .. n - 1 |-> NUL], size |-> n, rpos |-> 0, wpos |-> 0]
  BY DEF buffer_new
<1>3. c.rpos = 0 /\ c.wpos = 0 /\ c.size = n
  BY <1>2
<1> HIDE DEF n
<1>4. BufOK(c)
  BY <1>1, <1>2 DEF BufOK, Cell
<1>5. Readable(c) \in Seq(Cell) /\ Len(Readable(c)) = 0
  BY <1>3, <1>4, ReadableType
<1>6. Readable(c) = <<>>
  BY <1>5, EmptySeq
<1> QED
  BY <1>3, <1>4, <1>6 DEF Rewound, n

\* buffer_read takes the first bytes, as many as it is asked for and there are.
LEMMA ReadFacts ==
    ASSUME NEW c, BufOK(c), Rewound(c), NEW len \in Nat, NEW d, d = buffer_read(c, len),
           NEW n, n = NRead(c, len)
    PROVE  /\ BufOK(d) /\ Rewound(d)
           /\ n \in 0 .. Len(Readable(c))
           /\ n = Min2(len, Len(Readable(c)))
           /\ Readable(d) = After(Readable(c), n)
<1>1. /\ buffer_avail(c) = c.wpos - c.rpos /\ Readable(c) \in Seq(Cell)
      /\ Len(Readable(c)) = c.wpos - c.rpos
  BY ReadableType
<1>2. n \in 0 .. c.wpos - c.rpos
  BY <1>1 DEF NRead, Min2, BufOK
<1>3. CASE n = 0
  <2>1. d = c
    BY <1>3 DEF buffer_read
  <2> QED
    BY <1>1, <1>2, <1>3, <2>1, CutWhole DEF NRead
<1>4. CASE n # 0
  <2>1. d = Advance(c, n)
    BY <1>4 DEF buffer_read
  <2>2. BufOK(d) /\ Rewound(d) /\ Consumed(c, d, n)
    BY <1>2, <1>4, <2>1, ConsumeFacts
  <2>3. Readable(d) = After(Readable(c), n)
    BY <1>2, <2>2, ReadableConsumed
  <2> QED
    BY <1>1, <1>2, <2>2, <2>3 DEF NRead
<1> QED
  BY <1>3, <1>4

\* buffer_yield takes a record: the bytes up to a delimiter and the delimiter.
LEMMA YieldFacts ==
    ASSUME NEW c, BufOK(c), NEW delim \in Seq(Byte) \ {<<>>}, NEW k, IsFirst(c, delim, k),
           NEW n, n = k + Len(delim), NEW d, d = buffer_yield(c, n)
    PROVE  /\ BufOK(d) /\ Rewound(d)
           /\ n \in 1 .. Len(Readable(c))
           /\ Readable(d) = After(Readable(c), n)
<1>1. Len(Readable(c)) = c.wpos - c.rpos
  BY ReadableType
<1>2. k \in 0 .. Len(Readable(c)) - Len(delim)
  BY DEF IsFirst, Occurrences
<1>3. Len(delim) \in Nat /\ Len(delim) # 0
  OBVIOUS
<1>4. n \in 1 .. c.wpos - c.rpos
  BY <1>1, <1>2, <1>3 DEF BufOK
<1>5. BufOK(d) /\ Rewound(d) /\ Consumed(c, d, n)
  BY <1>4, ConsumeFacts DEF buffer_yield
<1>6. Readable(d) = After(Readable(c), n)
  BY <1>4, <1>5, ReadableConsumed
<1> QED
  BY <1>1, <1>4, <1>5, <1>6

\* buffer_write keeps a buffer in order; into an empty one with room it appends.
LEMMA WriteFacts ==
    ASSUME NEW c, BufOK(c), Rewound(c), NEW s \in Seq(Cell), c.wpos + Len(s) < TwoTo32,
           NEW ok \in BOOLEAN, NEW w, w = buffer_write(c, s, ok)
    PROVE  /\ BufOK(w.buf) /\ Rewound(w.buf)
           /\ Readable(c) = <<>> /\ c.wpos + Len(s) <= c.size => Readable(w.buf) = s
<1> DEFINE r == MakeRoom(c, Len(s), ok)
           e == r.buf
           d == [e EXCEPT !.mem = Store(e.mem, e.rpos, s), !.wpos = e.wpos + Len(s)]
<1>0. Len(s) \in Nat
  OBVIOUS
<1>1. /\ BufOK(e) /\ Rewound(e) /\ e.wpos + Len(s) < TwoTo32 /\ r.success \in BOOLEAN
      /\ r.success => e.wpos + Len(s) <= e.size
  BY <1>0, RoomFacts
<1>2. U32(e.wpos + Len(s)) = e.wpos + Len(s)
  BY <1>0, <1>1, BufferAssumption DEF U32, BufOK
<1>3. w = IF r.success THEN [buf |-> d, nwrote |-> Len(s)] ELSE [buf |-> e, nwrote |-> 0]
  BY <1>1, <1>2 DEF buffer_write
<1>4. c.wpos + Len(s) <= c.size => r = [buf |-> c, success |-> TRUE]
  <2>1. U32(c.wpos + Len(s)) = c.wpos + Len(s)
    BY <1>0, BufferAssumption DEF U32, BufOK
  <2> QED
    BY <1>0, <2>1 DEF MakeRoom, BufOK
<1> HIDE DEF r
<1>5. r.success => BufOK(d) /\ Rewound(d)
  <2> SUFFICES ASSUME r.success PROVE BufOK(d) /\ Rewound(d)
    OBVIOUS
  <2> DEFINE m == Store(e.mem, e.rpos, s)
  <2>1. m \in [0 .. e.size - 1 -> Cell]
    BY <1>1, StoreType DEF BufOK
  <2> HIDE DEF m
  <2>2. d = [e EXCEPT !.mem = m, !.wpos = e.wpos + Len(s)]
    BY DEF m
  <2>3. /\ e.size \in Nat /\ e.wpos \in Nat /\ e.rpos \in Nat /\ e.rpos <= e.wpos
        /\ e.size < TwoTo32 /\ DOMAIN e = {"mem", "size", "rpos", "wpos"}
        /\ e.wpos + Len(s) <= e.size /\ (e.rpos = e.wpos => e.rpos = 0)
    BY <1>1 DEF BufOK, Rewound
  <2> HIDE DEF d, e
  <2>4. d.rpos = e.rpos /\ d.wpos = e.wpos + Len(s) /\ d.size = e.size /\ d.mem = m
        /\ DOMAIN d = DOMAIN e
    BY <2>2, <2>3
  <2>5. /\ d.rpos <= d.wpos /\ d.wpos \in Nat
        /\ d.rpos = d.wpos => d.rpos = 0
    BY <1>0, <2>3, <2>4
  <2> QED
    BY <2>1, <2>3, <2>4, <2>5 DEF BufOK, Rewound
<1>6. ASSUME Readable(c) = <<>>, c.wpos + Len(s) <= c.size PROVE Readable(w.buf) = s
  <2>1. r.success /\ e = c
    BY <1>4, <1>6
  <2>2. c.rpos = c.wpos
    <3>1. Len(Readable(c)) = c.wpos - c.rpos
      BY ReadableType
    <3> QED
      BY <1>6, <3>1 DEF BufOK
  <2>3. w.buf = [c EXCEPT !.mem = Store(c.mem, c.wpos, s), !.wpos = c.wpos + Len(s)]
    BY <1>3, <2>1, <2>2
  <2>4. Readable(w.buf) = Cat(Readable(c), Before(s, Len(s)))
    <3> DEFINE x == w.buf
               n == Len(s)
    <3>1. /\ n \in 0 .. Len(s) /\ c.wpos + n <= c.size
          /\ x = [c EXCEPT !.mem = Store(c.mem, c.wpos, s), !.wpos = c.wpos + n]
      BY <1>0, <1>6, <2>3
    <3> HIDE DEF x, n
    <3>2. Readable(x) = Cat(Readable(c), Before(s, n))
      BY <3>1, ReadableStored
    <3> QED
      BY <3>2 DEF x, n
  <2>5. Before(s, Len(s)) = s
    BY <1>0, CutWhole
  <2> QED
    BY <1>6, <2>4, <2>5, CatEmpty
<1> HIDE DEF d
<1>7. BufOK(w.buf) /\ Rewound(w.buf)
  BY <1>1, <1>3, <1>5
<1> QED
  BY <1>6, <1>7

\* Making room moves the readable bytes towards the start, if at all.
LEMMA RoomBehind ==
    ASSUME NEW c, BufOK(c), NEW len \in Nat, c.wpos + len < TwoTo32, NEW ok \in BOOLEAN
    PROVE  MakeRoom(c, len, ok).buf.wpos <= c.wpos
<1> DEFINE e == buffer_extend(c, len, ok)
<1>1. e.buf.wpos = c.wpos - c.rpos
  BY ExtendFacts
<1>2. MakeRoom(c, len, ok) = e \/ MakeRoom(c, len, ok) = [buf |-> c, success |-> TRUE]
  BY DEF MakeRoom
<1> HIDE DEF e
<1> QED
  BY <1>1, <1>2 DEF BufOK

\* stream_fill: what fits is appended; in any case the buffer stays in order.
LEMMA FillFacts ==
    ASSUME NEW c, BufOK(c), Rewound(c), NEW s \in Seq(Cell), NEW ok \in BOOLEAN, NEW ok2 \in BOOLEAN,
           NEW d, d = Filled(c, s, ok, ok2)
    PROVE  /\ Len(s) <= buffer_space(c) =>
                /\ BufOK(d) /\ Rewound(d) /\ Readable(d) = Cat(Readable(c), s)
                /\ d.size = c.size /\ d.rpos = c.rpos
           /\ c.size + 2 * (Len(s) - buffer_space(c)) < TwoTo32 => BufOK(d) /\ Rewound(d)
<1> DEFINE n == Len(s)
           sp == c.size - c.wpos
<1>0. n \in Nat /\ sp \in Nat /\ buffer_space(c) = sp /\ n <= n
  BY ReadableType DEF BufOK
<1>1. ASSUME n <= sp
      PROVE  /\ BufOK(d) /\ Rewound(d) /\ Readable(d) = Cat(Readable(c), s)
             /\ d.size = c.size /\ d.rpos = c.rpos
  <2>1. Min2(n, sp) = n /\ SubSeq(s, 1, n) = s
    BY <1>0, <1>1 DEF Min2
  <2>2. d = buffer_commit([c EXCEPT !.mem = Store(c.mem, c.wpos, s)], n, ok)
    BY <1>0, <1>1, <2>1 DEF Filled, Committed
  <2>3. n \in 0 .. Len(s) /\ c.wpos + n <= c.size
    BY <1>0, <1>1 DEF BufOK
  <2>4. d = [c EXCEPT !.mem = Store(c.mem, c.wpos, s), !.wpos = c.wpos + n]
    BY <2>2, <2>3, CommitFacts, ZenonT(30)
  <2> HIDE DEF n
  <2>5. BufOK(d) /\ Rewound(d) /\ Readable(d) = Cat(Readable(c), Before(s, n))
    BY <2>3, <2>4, ReadableStored, ZenonT(30)
  <2>6. Before(s, n) = s
    BY <2>3, CutWhole DEF n
  <2>7. d.size = c.size /\ d.rpos = c.rpos
    BY <2>4 DEF BufOK
  <2> QED
    BY <2>5, <2>6, <2>7
<1>2. ASSUME ~(n <= sp), c.size + 2 * (n - sp) < TwoTo32
      PROVE  BufOK(d) /\ Rewound(d)
  <2> DEFINE stored == SubSeq(s, 1, sp)
             rest == SubSeq(s, sp + 1, n)
             m == Store(c.mem, c.wpos, stored)
             f == [c EXCEPT !.mem = m]
             r == MakeRoom(f, n, ok)
             e == r.buf
             g == buffer_commit(f, n, ok)
  <2>1. Min2(n, sp) = sp /\ stored \in Seq(Cell) /\ rest \in Seq(Cell) /\ Len(rest) = n - sp
    BY <1>0, <1>2 DEF Min2
  <2>2. d = buffer_write(g, rest, ok2).buf
    BY <1>0, <1>2, <2>1 DEF Filled, Committed
  <2>3. m \in [0 .. c.size - 1 -> Cell]
    BY <2>1, StoreType DEF BufOK
  <2> HIDE DEF n, sp, stored, rest, m
  <2>4. f.rpos = c.rpos /\ f.wpos = c.wpos /\ f.size = c.size /\ BufOK(f) /\ Rewound(f)
    BY <2>3 DEF BufOK, Rewound
  <2> HIDE DEF f
  <2>5. c.wpos \in Nat /\ c.wpos + sp = c.size /\ c.wpos + n + (n - sp) < TwoTo32 /\ c.wpos + n < TwoTo32
    <3>1. c.wpos \in Nat /\ c.size \in Nat /\ c.wpos + sp = c.size
      BY DEF BufOK, sp
    <3> QED
      BY <1>0, <1>2, <3>1, BufferAssumption
  <2>6. /\ BufOK(e) /\ Rewound(e) /\ r.success \in BOOLEAN /\ e.wpos + n < TwoTo32
        /\ r.success => e.wpos + n <= e.size
        /\ e.wpos <= c.wpos
    BY <1>0, <2>4, <2>5, RoomFacts, RoomBehind
  <2>7. U32(e.wpos + n) = e.wpos + n
    BY <1>0, <2>6, BufferAssumption, SMTT(30) DEF BufOK, U32
  <2>8. g = IF ~r.success THEN e ELSE [e EXCEPT !.wpos = e.wpos + n]
    BY <2>7 DEF buffer_commit
  <2> HIDE DEF r, g
  <2>9. BufOK(g) /\ Rewound(g) /\ g.wpos <= c.wpos + n
    <3>1. CASE ~r.success
      <4>1. g = e
        BY <2>8, <3>1
      <4>2. e.wpos \in Nat
        BY <2>6 DEF BufOK
      <4>3. e.wpos <= c.wpos + n
        <5>1. n \in Nat /\ c.wpos \in Nat /\ e.wpos <= c.wpos
          BY <1>0, <2>5, <2>6
        <5> QED
          BY <4>2, <5>1
      <4> QED
        BY <2>6, <4>1, <4>3
    <3>2. CASE r.success
      <4>1. g.wpos = e.wpos + n /\ g.rpos = e.rpos /\ g.size = e.size /\ g.mem = e.mem
            /\ DOMAIN g = DOMAIN e
        BY <2>6, <2>8, <3>2 DEF BufOK
      <4>2. n > 0 /\ e.rpos <= e.wpos /\ e.wpos \in Nat /\ e.rpos \in Nat /\ e.wpos + n <= e.size
        BY <1>0, <1>2, <2>6, <3>2 DEF BufOK
      <4> HIDE DEF e
      <4>3. BufOK(g)
        BY <1>0, <2>6, <4>1, <4>2 DEF BufOK
      <4> QED
        BY <1>0, <2>5, <2>6, <4>1, <4>2, <4>3 DEF Rewound
    <3> QED
      BY <2>6, <3>1, <3>2
  <2>10. g.wpos + Len(rest) < TwoTo32
    <3> DEFINE W == c.wpos
               V == g.wpos
    <3>1. W \in Nat /\ V \in Nat /\ V <= W + n /\ W + n + (n - sp) < TwoTo32
      BY <2>5, <2>9 DEF BufOK
    <3>2. Len(rest) = n - sp /\ ~(n <= sp)
      BY <1>2, <2>1
    <3> HIDE DEF V, W
    <3>3. V + (n - sp) < TwoTo32
      BY <1>0, <3>1, <3>2, BufferAssumption
    <3> QED
      BY <3>2, <3>3 DEF V
  <2> QED
    BY <2>1, <2>2, <2>9, <2>10, WriteFacts
<1> HIDE DEF n
<1> QED
  BY <1>0, <1>1, <1>2 DEF n

\* What a text that fits leaves in the buffer c.
Shown(c, text) ==
    IF Len(text) = buffer_space(c) THEN [text EXCEPT ![Len(text)] = NUL] ELSE text

\* One turn of buffer_vprintf: what is readable is as it was, or the text is
\* appended, its last byte replaced by NUL when it takes all the free space.
LEMMA PrintFacts ==
    ASSUME NEW c, BufOK(c), Rewound(c), NEW text \in Seq(Byte) \ {<<>>},
           c.wpos + Len(text) < TwoTo32, NEW ok \in BOOLEAN, NEW p, p = vprintf_pass(c, text, ok),
           NEW left, left = Shown(c, text)
    PROVE  /\ BufOK(p.buf) /\ Rewound(p.buf) /\ p.again \in BOOLEAN
           /\ left \in Seq(Cell) /\ Len(left) = Len(text)
           /\ p.again => Readable(p.buf) = Readable(c)
           /\ ~p.again => Readable(p.buf) = Cat(Readable(c), left)
<1> DEFINE len == Len(text)
           sp == c.size - c.wpos
           f == Formatted(c, text)
<1>1. /\ BufOK(p.buf) /\ Rewound(p.buf) /\ p.again \in BOOLEAN
      /\ p.again => Same(c, p.buf)
  BY VprintfFacts
<1>2. buffer_space(c) = sp /\ len \in Nat /\ len >= 1 /\ sp \in Nat
  <2>1. buffer_space(c) = sp
    BY ReadableType
  <2>2. sp \in Nat
    BY DEF BufOK
  <2> HIDE DEF sp
  <2> QED
    BY <2>1, <2>2
<1>3. text \in Seq(Cell) /\ NUL \in Cell
  BY DEF Cell
<1>4. left \in Seq(Cell) /\ Len(left) = len
      /\ \A k \in 1 .. len : left[k] = IF len = sp /\ k = len THEN NUL ELSE text[k]
  BY <1>2, <1>3 DEF Shown
<1>5. p.again => Readable(p.buf) = Readable(c)
  BY <1>1, ReadableSame
<1>6. ASSUME ~p.again PROVE Readable(p.buf) = Cat(Readable(c), left)
  <2> DEFINE n == Min2(len, sp - 1)
             t == Append(SubSeq(text, 1, n), NUL)
             d == [c EXCEPT !.mem = Store(c.mem, c.wpos, t), !.wpos = c.wpos + len]
  <2>1. len <= sp
    BY <1>2, <1>6 DEF vprintf_pass
  <2>2. /\ n \in Nat /\ n <= len /\ len <= n + 1 /\ (len = n + 1 <=> len = sp)
    BY <1>2, <2>1 DEF Min2
  <2>3. f = [c EXCEPT !.mem = Store(c.mem, c.wpos, t)]
    BY <1>2, <2>1 DEF Formatted
  <2>4. f.wpos = c.wpos
    BY <2>3 DEF BufOK
  <2>5. U32(f.wpos + len) = c.wpos + len
    BY <1>2, <2>4, BufferAssumption DEF U32, BufOK
  <2>6. p.buf = [f EXCEPT !.wpos = c.wpos + len]
    BY <1>2, <2>1, <2>5 DEF vprintf_pass
  <2>7. p.buf = d
    BY <2>3, <2>6 DEF BufOK
  <2> HIDE DEF n, f
  <2>8. /\ t \in Seq(Cell) /\ Len(t) = n + 1
        /\ \A k \in 1 .. n : t[k] = text[k]
        /\ t[n + 1] = NUL
    <3>2. SubSeq(text, 1, n) \in Seq(Cell) /\ Len(SubSeq(text, 1, n)) = n
          /\ \A k \in 1 .. n : SubSeq(text, 1, n)[k] = text[k]
      BY <1>3, <2>2
    <3> QED
      BY <1>3, <2>2, <3>2
  <2> HIDE DEF t
  <2>9. len \in 0 .. Len(t) /\ c.wpos + len <= c.size
    <3>1. c.wpos \in Nat /\ c.size \in Nat
      BY DEF BufOK
    <3> QED
      BY <1>2, <2>1, <2>2, <2>8, <3>1
  <2> HIDE DEF len, sp
  <2>10. Readable(d) = Cat(Readable(c), Before(t, len))
    BY <2>8, <2>9, ReadableStored, ZenonT(30)
  <2>11. Before(t, len) = left
    <3> DEFINE z == Before(t, len)
    <3>1. z \in Seq(Cell) /\ Len(z) = len /\ \A i \in 1 .. len : z[i] = t[i]
      BY <2>8, <2>9, CutFacts
    <3> HIDE DEF z
    <3>2. ASSUME NEW i \in 1 .. len PROVE z[i] = left[i]
      <4>1. CASE i <= n
        BY <1>2, <1>4, <2>2, <2>8, <3>1, <4>1
      <4>2. CASE ~(i <= n)
        <5>1. i = n + 1 /\ i = len /\ len = sp
          BY <1>2, <2>2, <4>2
        <5> QED
          BY <1>4, <2>8, <3>1, <5>1
      <4> QED
        BY <4>1, <4>2
    <3> QED
      BY <1>4, <3>1, <3>2, SameSeq DEF z
  <2> QED
    BY <2>7, <2>10, <2>11
<1> QED
  BY <1>1, <1>4, <1>5, <1>6
=============================================================================
