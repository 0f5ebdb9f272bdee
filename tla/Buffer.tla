------------------------------- MODULE Buffer -------------------------------
(***************************************************************************)
(* The growable byte buffer (buffer.c) as operators on a record            *)
(*     [mem, size, rpos, wpos]                                             *)
(* where mem maps the offsets of the allocated block to bytes.  A byte the *)
(* program has not stored is Junk after realloc and NUL after calloc.      *)
(***************************************************************************)
EXTENDS Integers, Sequences

CONSTANTS
    Byte,          \* the bytes callers store
    NUL, Junk,     \* '\0', and a byte nobody has stored
    TwoTo32,       \* 2^32: positions and lengths are uint32_t
    DefaultSize    \* 1 << BUF_SIZE_P

ASSUME BufferAssumption ==
    /\ TwoTo32 \in Nat
    /\ DefaultSize \in 1 .. TwoTo32 - 1
    /\ NUL \notin Byte

\* The picture of buffer.h: 0 <= rpos <= wpos <= size, and size is what the
\* allocator gave.
Cell == Byte \union {NUL, Junk}
BufOK(b) ==
    /\ DOMAIN b = {"mem", "size", "rpos", "wpos"}
    /\ b.rpos \in Nat /\ b.wpos \in Nat /\ b.size \in Nat
    /\ b.rpos <= b.wpos
    /\ b.wpos <= b.size
    /\ b.size < TwoTo32
    /\ b.mem \in [0 .. b.size - 1 -> Cell]

\* The value of a uint32_t assigned the sum or the difference of two of them.
U32(x) == IF x < 0 THEN x + TwoTo32 ELSE IF x >= TwoTo32 THEN x - TwoTo32 ELSE x

Min2(x, y) == IF x <= y THEN x ELSE y

\* memmove(b->buf + at, s, strlen(s)); and realloc(b->buf, n).
Store(mem, at, s) ==
    [i \in DOMAIN mem |-> IF at <= i /\ i < at + Len(s) THEN s[i - at + 1] ELSE mem[i]]
Realloc(mem, n) ==
    [i \in 0 .. n - 1 |-> IF i \in DOMAIN mem THEN mem[i] ELSE Junk]

\* The size argument only selects the default: with another one, buf->size keeps
\* the 0 that calloc gave it, and the block has no bytes.
buffer_new(size) ==
    LET n == IF size = 0 THEN DefaultSize ELSE 0
    IN  [mem |-> [i \in 0 .. n - 1 |-> NUL], size |-> n, rpos |-> 0, wpos |-> 0]

buffer_avail(b) == U32(b.wpos - b.rpos)
buffer_space(b) == U32(b.size - b.wpos)

\* The bytes from rpos up to wpos.
Readable(b) == [i \in 1 .. buffer_avail(b) |-> b.mem[b.rpos + i - 1]]

\* Seeded fault: the positions are moved and the bytes are not.
CompactKeepsBytes(b) ==
    [b EXCEPT !.wpos = U32(b.wpos - b.rpos), !.rpos = 0]

\* buffer_extend's memmove of the readable bytes to the start of the block.
Compact(b) ==
    [b EXCEPT !.mem = Store(b.mem, 0, Readable(b)),
              !.wpos = U32(b.wpos - b.rpos), !.rpos = 0]

\* buffer_extend, ok telling whether realloc succeeds: the buffer after it, and
\* whether it returns 0.
buffer_extend(b, len, ok) ==
    LET c == IF b.rpos > 0 THEN Compact(b) ELSE b
        newlen == U32(c.wpos + len)
    IN  IF b.rpos > 0 /\ newlen <= c.size
        THEN [buf |-> c, success |-> TRUE]
        ELSE IF ok
        THEN [buf |-> [c EXCEPT !.mem = Realloc(c.mem, newlen), !.size = newlen],
              success |-> TRUE]
        ELSE [buf |-> c, success |-> FALSE]

\* Seeded fault: a buffer read to its end is not rewound.
AdvanceNoRewind(b, n) ==
    LET r == U32(b.rpos + n)
    IN  IF r > b.wpos THEN [b EXCEPT !.rpos = 0, !.wpos = 0]
        ELSE [b EXCEPT !.rpos = r]

\* The advance of rpos that buffer_read and buffer_yield share, with the reset
\* of both positions once everything is read.
Advance(b, n) ==
    LET r == U32(b.rpos + n)
    IN  IF r >= b.wpos THEN [b EXCEPT !.rpos = 0, !.wpos = 0]
        ELSE [b EXCEPT !.rpos = r]

\* buffer_read: the number of bytes read, and the buffer after it.
NRead(b, len) == Min2(len, buffer_avail(b))
buffer_read(b, len) ==
    LET n == NRead(b, len) IN IF n = 0 THEN b ELSE Advance(b, n)

\* Seeded fault: one byte too many is taken to fit.
MakeRoomOffByOne(b, len, ok) ==
    IF U32(b.wpos + len) > b.size + 1 THEN buffer_extend(b, len, ok)
    ELSE [buf |-> b, success |-> TRUE]

\* The part of buffer_write before the copy: make room if there is none.
MakeRoom(b, len, ok) ==
    IF U32(b.wpos + len) > b.size THEN buffer_extend(b, len, ok)
    ELSE [buf |-> b, success |-> TRUE]

\* buffer_write(b, s, Len(s)).  The bytes go to rpos; wpos is what moves.
buffer_write(b, s, ok) ==
    LET room == MakeRoom(b, Len(s), ok)
        c == room.buf
    IN  IF ~room.success THEN [buf |-> c, nwrote |-> 0]
        ELSE [buf |-> [c EXCEPT !.mem = Store(c.mem, c.rpos, s),
                                !.wpos = U32(c.wpos + Len(s))],
              nwrote |-> Len(s)]

\* buffer_write(b, NULL, len): the bytes are there already, wpos moves.
buffer_commit(b, len, ok) ==
    LET room == MakeRoom(b, len, ok)
        c == room.buf
    IN  IF ~room.success THEN c ELSE [c EXCEPT !.wpos = U32(c.wpos + len)]

\* memmem: the offsets at which the delimiter occurs in what is readable.
Occurrences(b, delim) ==
    LET r == Readable(b)
    IN  {k \in 0 .. Len(r) - Len(delim) :
            \A j \in 1 .. Len(delim) : r[k + j] = delim[j]}

\* memmem finds the first of them; k + Len(delim) bytes make up the record.
IsFirst(b, delim, k) ==
    /\ k \in Occurrences(b, delim)
    /\ \A j \in Occurrences(b, delim) : k <= j

\* buffer_yield once the record is found; otherwise it changes nothing.
buffer_yield(b, off) == Advance(b, off)

\* vsnprintf(p, avail, ...) of a text: what fits, less one byte for the NUL.
Formatted(b, text) ==
    LET avail == buffer_space(b)
        n == Min2(Len(text), avail - 1)
    IN  IF avail = 0 THEN b
        ELSE [b EXCEPT !.mem = Store(b.mem, b.wpos, Append(SubSeq(text, 1, n), NUL))]

\* One turn of buffer_vprintf's loop: the buffer after it, and whether the loop
\* goes round again.  The result of buffer_extend is not looked at.
vprintf_pass(b, text, ok) ==
    LET f == Formatted(b, text)
        ret == Len(text)
    IN  IF ret = 0 THEN [buf |-> f, again |-> FALSE]
        ELSE IF ret <= buffer_space(b)
        THEN [buf |-> [f EXCEPT !.wpos = U32(f.wpos + ret)], again |-> FALSE]
        ELSE [buf |-> buffer_extend(f, ret, ok).buf, again |-> TRUE]

-----------------------------------------------------------------------------
(* What stream_fill does to its buffer *)

\* Seeded fault: the buffer is told of the free space, not of the bytes read.
CommittedSpace(b, s, ok) ==
    buffer_commit([b EXCEPT !.mem = Store(b.mem, b.wpos, s)], buffer_space(b), ok)

\* readv has put what fits of s at wpos; buffer.write(buf, 0, cnt) counts all of it.
Committed(b, s, ok) ==
    LET stored == SubSeq(s, 1, Min2(Len(s), buffer_space(b)))
    IN  buffer_commit([b EXCEPT !.mem = Store(b.mem, b.wpos, stored)], Len(s), ok)

\* The second buffer.write is for what readv put into tmp.
Filled(b, s, ok, ok2) ==
    LET space == buffer_space(b)
    IN  IF Len(s) <= space THEN Committed(b, s, ok)
        ELSE buffer_write(Committed(b, s, ok), SubSeq(s, space + 1, Len(s)), ok2).buf
=============================================================================
