----------------------------- MODULE BufferSpec -----------------------------
(***************************************************************************)
(* One owner calling the operations of a buffer in any order, with         *)
(* allocation failing whenever it likes.                                   *)
(***************************************************************************)
EXTENDS Buffer

CONSTANTS
    NewSizes,   \* the sizes the buffer may be created with
    Strings,    \* the byte strings callers store, as sequences
    Counts,     \* the lengths callers read or extend by
    Marks,      \* the delimiters callers look for
    Ops,        \* the operations this owner uses
    MaxPut      \* bound: how many bytes are stored in all

ASSUME UseAssumption ==
    /\ NewSizes \subseteq Nat
    /\ Strings \subseteq Seq(Byte)
    /\ Counts \subseteq 1 .. TwoTo32 - 1
    /\ Marks \subseteq Seq(Byte) \ {<<>>}
    /\ MaxPut \in Nat

VARIABLES
    b,         \* the buffer
    printing,  \* whether the owner is inside buffer_vprintf's loop
    put,       \* history: the bytes stored so far
    drawn      \* history: the bytes read so far

bufVars == <<b, printing, put, drawn>>

BufInit ==
    /\ \E size \in NewSizes : b = buffer_new(size)
    /\ printing = FALSE
    /\ put = <<>> /\ drawn = <<>>

\* No uint32_t sum of buffer.c wraps.
NoWrap(len) == b.wpos + len < TwoTo32
CanPut(s) == Len(put) + Len(s) <= MaxPut /\ NoWrap(Len(s))
OwnerCalls(op) == op \in Ops /\ ~printing

Read(len) ==
    /\ OwnerCalls("read")
    /\ drawn' = drawn \o SubSeq(Readable(b), 1, NRead(b, len))
    /\ b' = buffer_read(b, len)
    /\ UNCHANGED <<printing, put>>

Yield(delim) ==
    /\ OwnerCalls("yield")
    /\ \E k \in 0 .. buffer_avail(b) :
         /\ IsFirst(b, delim, k)
         /\ drawn' = drawn \o SubSeq(Readable(b), 1, k + Len(delim))
         /\ b' = buffer_yield(b, k + Len(delim))
    /\ UNCHANGED <<printing, put>>

\* "overlap" in Ops lets the owner write to a buffer that holds bytes.
Write(s, ok) ==
    LET w == buffer_write(b, s, ok)
    IN  /\ OwnerCalls("write")
        /\ "overlap" \in Ops \/ buffer_avail(b) = 0
        /\ CanPut(s)
        /\ b' = w.buf
        /\ put' = put \o SubSeq(s, 1, w.nwrote)
        /\ UNCHANGED <<printing, drawn>>

\* readv stores into the free space at buffer.wpos, then buffer.write(b, 0, n).
Commit(s, ok) ==
    LET filled == [b EXCEPT !.mem = Store(b.mem, b.wpos, s)]
    IN  /\ OwnerCalls("commit")
        /\ CanPut(s)
        /\ Len(s) <= buffer_space(b)
        /\ b' = buffer_commit(filled, Len(s), ok)
        /\ put' = put \o s
        /\ UNCHANGED <<printing, drawn>>

Extend(len, ok) ==
    /\ OwnerCalls("extend")
    /\ NoWrap(len)
    /\ b' = buffer_extend(b, len, ok).buf
    /\ UNCHANGED <<printing, put, drawn>>

\* One turn of buffer_vprintf.  Its va_list is used up by the first turn, so a
\* later turn may format any text.
Vprintf(text, ok) ==
    LET p == vprintf_pass(b, text, ok)
    IN  /\ "printf" \in Ops
        /\ CanPut(text)
        /\ b' = p.buf
        /\ printing' = p.again
        /\ put' = IF p.again THEN put ELSE put \o text
        /\ UNCHANGED drawn

BufNext ==
    \/ \E len \in Counts : Read(len)
    \/ \E delim \in Marks : Yield(delim)
    \/ \E s \in Strings, ok \in BOOLEAN : Write(s, ok) \/ Commit(s, ok) \/ Vprintf(s, ok)
    \/ \E len \in Counts, ok \in BOOLEAN : Extend(len, ok)

BufSpec == BufInit /\ [][BufNext]_bufVars

-----------------------------------------------------------------------------
(* Properties *)

\* The picture of buffer.h holds after every operation and in the middle of
\* buffer_vprintf, so that every copy of buffer.c stays inside the block
\* (buffer.c:42, 64, 82, 143).
BufferOK == BufOK(b) /\ printing \in BOOLEAN

\* A drained buffer is rewound: its whole block is free again, and a
\* buffer_write that finds it empty stores at the place it will be read from
\* (buffer.c:67-69, 118-120).
EmptyIsRewound == b.rpos = b.wpos => b.rpos = 0

\* What is read, and then what is readable, is what was stored, in order; the
\* last byte of a text that fills the block exactly may have become NUL
\* (buffer.c:41-48 and 60-72 move and consume without loss; 143-148).
Delivered ==
    LET got == drawn \o Readable(b)
    IN  /\ Len(got) = Len(put)
        /\ \A i \in 1 .. Len(put) : got[i] \in {put[i], NUL}

\* What is read, and then what is readable, is exactly what was stored.
Exact == drawn \o Readable(b) = put

\* A buffer created with a size has that size (buffer.c:12-31).
\* Checked before the first operation.
NewHasSize == \E size \in NewSizes \ {0} : b.size = size

\* buffer_extend never leaves less room than there was (buffer.c:40-57).
ExtendGivesRoom ==
    [][\A len \in Counts, ok \in BOOLEAN :
         Extend(len, ok) => buffer_space(b') >= buffer_space(b)]_bufVars
=============================================================================
