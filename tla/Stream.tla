------------------------------- MODULE Stream -------------------------------
(***************************************************************************)
(* A stream (stream.c): a buffer in front of a descriptor, and one thread  *)
(* calling its operations.  Every readv, writev, lseek and close is a step *)
(* of its own, with the outcomes the descriptor allows: fewer bytes than   *)
(* asked for, EAGAIN, another error, end of file.                          *)
(*                                                                         *)
(* The in-memory part of an operation runs with stm->lock held and is      *)
(* folded into the step of its system call.                                *)
(***************************************************************************)
EXTENDS Buffer

CONSTANTS
    BufSizes,   \* the bufsize arguments the stream may be created with
    Chunks,     \* what callers write or print
    Lens,       \* how much callers read
    Delims,     \* the delimiters callers look for
    Input,      \* what the other end sends, as one sequence
    READALL,    \* STM_READALL_LEN
    Uses,       \* what a stream is used for: sets of the operations its caller uses
    MaxOut,     \* bound: how many bytes callers write or print in all
    MaxIn       \* bound: how many bytes callers read in all

ASSUME StreamAssumption ==
    /\ BufSizes \subseteq Nat
    /\ Chunks \subseteq Seq(Byte) \ {<<>>}
    /\ Lens \subseteq Nat \ {0}
    /\ Delims \subseteq Seq(Byte) \ {<<>>}
    /\ Input \in Seq(Byte)
    /\ READALL \in Nat

VARIABLES
    buf, need_mask, lock, last_err,   \* the fields of stream_t
    ops,       \* the operations the caller of this stream uses
    call,      \* the operation in progress and its locals
    result,    \* the last operation that returned, and whether with 0
    fdopen,    \* whether the descriptor is open
    moved,     \* whether the last lseek moved the file position
    inq, sink, \* what is still to be read from the descriptor, what was written
    accepted,  \* history: what callers wrote or printed
    got,       \* history: what readv returned
    taken,     \* history: what callers read or yielded
    lossy      \* history: whether a readv returned more than the free space, or a
               \* read went on to readv

StreamLock == INSTANCE SpinLock WITH word <- lock

inputs == <<inq, got, taken, lossy>>
outputs == <<sink, accepted>>
vars == <<buf, need_mask, lock, last_err, ops, call, result, fdopen, moved, inputs,
          outputs>>

Idle == [op |-> "none"]

\* stream.open_fd, or stream.open_file, which passes 1 << STM_BUF_SIZE_P.
Init ==
    /\ \E size \in BufSizes : buf = buffer_new(size)
    /\ ops \in Uses
    /\ need_mask = {} /\ StreamLock!mtx_init /\ last_err = "none"
    /\ call = Idle /\ result = [op |-> "none", ok |-> TRUE]
    /\ fdopen = TRUE /\ moved = FALSE
    /\ inq = Input /\ sink = <<>>
    /\ accepted = <<>> /\ got = <<>> /\ taken = <<>> /\ lossy = FALSE

Calls(op) == op \in ops /\ call = Idle /\ fdopen
LockedCall(op) == Calls(op) /\ lock = 0
Returns(op, ok) == call' = Idle /\ result' = [op |-> op, ok |-> ok]

Drop(s, n) == SubSeq(s, n + 1, Len(s))

-----------------------------------------------------------------------------
(* fd_readv and fd_writev *)

\* -1 with errno, or 0 bytes; err is "none" in the second case.
Errors == {"EAGAIN", "EIO", "none"}
FdError(err, mask) ==
    /\ last_err' = err
    /\ need_mask' = IF err = "EAGAIN" THEN need_mask \union {mask} ELSE need_mask

\* readv returns 0 at the end of the input only.
ReadvFails(err) ==
    /\ err = "none" => inq = <<>>
    /\ FdError(err, "READ")

\* readv returns the next n bytes.
ReadvGives(n, room) ==
    /\ n <= Len(inq) /\ n <= room
    /\ inq' = Drop(inq, n)
    /\ got' = got \o SubSeq(inq, 1, n)
    /\ UNCHANGED <<last_err, need_mask>>

-----------------------------------------------------------------------------
(* _stream_write, under stream_write, stream_flush, stream_close and stream_seek *)

\* The call of _stream_write for data that is not simply buffered: a first iovec
\* with what the buffer holds, a second one with the data.
WriteLoop(op, data) ==
    [op |-> op, iov |-> <<Readable(buf), data>>, ravail |-> buffer_avail(buf),
     towrite |-> buffer_avail(buf) + Len(data)]

\* stream_write.  "overlap" in ops lets callers write what fits into a buffer that
\* holds output already, which buffer_write overwrites.
StreamWrite(data) ==
    /\ LockedCall("write")
    /\ "overlap" \in ops \/ buffer_avail(buf) = 0 \/ Len(data) >= buffer_space(buf)
    /\ Len(accepted) + Len(data) <= MaxOut
    /\ accepted' = accepted \o data
    /\ IF Len(data) < buffer_space(buf)
       THEN /\ buf' = buffer_write(buf, data, TRUE).buf
            /\ Returns("write", TRUE)
            /\ UNCHANGED lock
       ELSE /\ call' = WriteLoop("write", data)
            /\ StreamLock!mtx_lock
            /\ UNCHANGED <<buf, result>>
    /\ UNCHANGED <<need_mask, last_err, fdopen, moved, inputs, sink>>

\* Seeded fault: stream_close does not look at the result of its flush.
AfterFlushIgnored(op, flushed) ==
    IF op = "close" \/ (op = "seek" /\ ~flushed)
    THEN call' = [op |-> op, iov |-> <<>>] /\ UNCHANGED result
    ELSE Returns(op, op = "flush" /\ flushed)

\* What stream_close and stream_seek do with the result of stream_flush.
\* stream_seek goes on when the flush has failed.
AfterFlush(op, flushed) ==
    IF (op = "close" /\ flushed) \/ (op = "seek" /\ ~flushed)
    THEN call' = [op |-> op, iov |-> <<>>] /\ UNCHANGED result
    ELSE Returns(op, op = "flush" /\ flushed)

StreamFlush(op) ==
    /\ LockedCall(op)
    /\ moved' = IF op = "seek" THEN FALSE ELSE moved
    /\ IF buffer_avail(buf) = 0
       THEN AfterFlush(op, TRUE) /\ UNCHANGED lock
       ELSE /\ call' = WriteLoop(op, <<>>)
            /\ StreamLock!mtx_lock
            /\ UNCHANGED result
    /\ UNCHANGED <<buf, need_mask, last_err, fdopen, inputs, outputs>>

\* The part of the caller's data that is still to be sent.
Pending ==
    IF call.op = "write" THEN call.iov[Len(call.iov)] ELSE <<>>

InWriteLoop == call # Idle /\ call.op # "printf" /\ call.op # "read" /\ call.iov # <<>>

\* Seeded fault: an early return on the error path, without the unlock.
EndWriteKeepsLock(ok) ==
    /\ lock' = IF ok THEN 0 ELSE lock
    /\ IF call.op = "write" THEN Returns("write", ok)
       ELSE AfterFlush(call.op, buffer_avail(buf') = 0)

\* The end of _stream_write and of the operation that called it.
EndWrite(ok) ==
    /\ StreamLock!mtx_unlock
    /\ IF call.op = "write" THEN Returns("write", ok)
       ELSE AfterFlush(call.op, buffer_avail(buf') = 0)

\* Seeded fault: a writev that fails is tried again.
WritevRetries(err) ==
    /\ InWriteLoop
    /\ FdError(err, "WRITE")
    /\ UNCHANGED <<buf, lock, call, result, fdopen, moved, inputs, outputs>>

\* writev fails: what it did not send of the caller's data is not accepted.
WritevError(err) ==
    /\ InWriteLoop
    /\ FdError(err, "WRITE")
    /\ accepted' = SubSeq(accepted, 1, Len(accepted) - Len(Pending))
    /\ buf' = buf
    /\ EndWrite(FALSE)
    /\ UNCHANGED <<fdopen, moved, inputs, sink>>

\* Seeded fault: a partial write of the buffer is not taken out of it.
ConsumeSkipped(n) == buf

\* What the loop takes out of the buffer when n bytes were sent: all of it once
\* the first iovec is done, what was sent before that.
Consume(n) ==
    IF n = call.towrite \/ n > Len(call.iov[1]) THEN buffer_read(buf, call.ravail)
    ELSE IF Len(call.iov) = 2 THEN buffer_read(buf, n)
    ELSE buf

\* The iovecs that remain, iov++ having dropped the first one when it is done.
Remaining(n) ==
    LET v == call.iov[1]
    IN  IF n > Len(v) THEN <<Drop(call.iov[2], n - Len(v))>>
        ELSE [call.iov EXCEPT ![1] = Drop(v, n)]

Writev(n) ==
    LET all == IF Len(call.iov) = 2 THEN call.iov[1] \o call.iov[2] ELSE call.iov[1]
    IN  /\ InWriteLoop
        /\ n <= call.towrite
        /\ sink' = sink \o SubSeq(all, 1, n)
        /\ buf' = Consume(n)
        /\ IF n = call.towrite
           THEN EndWrite(TRUE)
           ELSE /\ call' = [call EXCEPT !.towrite = @ - n, !.iov = Remaining(n)]
                /\ UNCHANGED <<lock, result>>
        /\ UNCHANGED <<need_mask, last_err, fdopen, moved, inputs, accepted>>

-----------------------------------------------------------------------------
(* stream_close and stream_seek after their flush *)

FdClose(ok) ==
    /\ call = [op |-> "close", iov |-> <<>>]
    /\ fdopen' = ~ok
    /\ last_err' = IF ok THEN last_err ELSE "EIO"
    /\ Returns("close", ok)
    /\ UNCHANGED <<buf, need_mask, lock, moved, inputs, outputs>>

\* The test of funcs->seek is inverted: -1 when lseek has succeeded.
FdSeek(ok) ==
    /\ call = [op |-> "seek", iov |-> <<>>]
    /\ moved' = ok
    /\ last_err' = IF ok THEN "none" ELSE "EIO"
    /\ Returns("seek", ~ok)
    /\ UNCHANGED <<buf, need_mask, lock, fdopen, inputs, outputs>>

-----------------------------------------------------------------------------
(* stream_printf: one turn of buffer_vprintf, without the lock *)

\* What a text that was printed leaves: the NUL takes the place of the last byte of
\* one that fills the free space exactly.
Printed(text) ==
    IF Len(text) = buffer_space(buf) THEN [text EXCEPT ![Len(text)] = NUL] ELSE text

StreamPrintf(text, ok) ==
    LET p == vprintf_pass(buf, text, ok)
    IN  /\ Calls("printf") \/ call = [op |-> "printf"]
        /\ Len(accepted) + Len(text) <= MaxOut
        /\ buf' = p.buf
        /\ IF p.again THEN call' = [op |-> "printf"] /\ UNCHANGED <<result, accepted>>
           ELSE Returns("printf", TRUE) /\ accepted' = accepted \o Printed(text)
        /\ UNCHANGED <<need_mask, lock, last_err, fdopen, moved, inputs, sink>>

-----------------------------------------------------------------------------
(* stream_fill, stream_read, stream_yield *)

FillError(err) ==
    /\ LockedCall("fill")
    /\ ReadvFails(err)
    /\ Returns("fill", FALSE)
    /\ UNCHANGED <<buf, lock, fdopen, moved, inputs, outputs>>

\* ok and ok2 tell whether the two buffer.write of Filled find memory.
Fill(n, ok, ok2) ==
    /\ LockedCall("fill")
    /\ ReadvGives(n, buffer_space(buf) + READALL)
    /\ buf' = Filled(buf, SubSeq(inq, 1, n), ok, ok2)
    /\ lossy' = (lossy \/ n > buffer_space(buf))
    /\ Returns("fill", TRUE)
    /\ UNCHANGED <<lock, fdopen, moved, taken, outputs>>

\* stream_read up to its loop; null tells whether the bytes go nowhere (buf is 0).
\* "short" in ops lets callers ask for more than the buffer holds, "discard" lets
\* them do so with null, which returns without the unlock.
StreamRead(len, null) ==
    LET nr == NRead(buf, len)
    IN  /\ LockedCall("read")
        /\ Len(taken) + len <= MaxIn
        /\ len <= buffer_avail(buf) \/ (IF null THEN "discard" ELSE "short") \in ops
        /\ last_err' = "none"
        /\ buf' = buffer_read(buf, len)
        /\ taken' = taken \o SubSeq(Readable(buf), 1, nr)
        /\ IF nr = len THEN Returns("read", TRUE) /\ UNCHANGED lock
           ELSE IF null THEN Returns("read", FALSE) /\ StreamLock!mtx_lock
           ELSE /\ call' = [op |-> "read", len |-> len - nr, ret |-> nr]
                /\ StreamLock!mtx_lock
                /\ UNCHANGED result
        /\ lossy' = (lossy \/ (nr < len /\ ~null))
        /\ UNCHANGED <<need_mask, fdopen, moved, inq, got, outputs>>

\* The first iovec of the read loop, which leaves a byte for the buffer's space.
DestLen == call.len - (IF buffer_space(buf) > 0 THEN 1 ELSE 0)

\* readv returns 0, which the test takes for a failure: the loop is left, and
\* the bytes are neither counted nor committed to the buffer.
ReadLoopGives(n) ==
    /\ call.op = "read"
    /\ ReadvGives(n, DestLen + buffer_space(buf))
    /\ Returns("read", call.ret > 0)
    /\ StreamLock!mtx_unlock
    /\ buf' = [buf EXCEPT !.mem = Store(buf.mem, buf.wpos, SubSeq(inq, DestLen + 1, n))]
    /\ UNCHANGED <<fdopen, moved, taken, lossy, outputs>>

\* Seeded fault: a readv that returns nothing is tried again.
ReadLoopRetries(err, cnt) ==
    /\ call.op = "read"
    /\ ReadvFails(err)
    /\ cnt = 0
    /\ UNCHANGED <<buf, lock, call, result, fdopen, moved, inputs, outputs>>

\* readv returns -1 and leaves cnt as it was: uninitialised.
ReadLoopError(err, cnt) ==
    LET counted == IF cnt > DestLen THEN call.len ELSE cnt
    IN  /\ call.op = "read"
        /\ ReadvFails(err)
        /\ taken' = taken \o [i \in 1 .. counted |-> Junk]
        /\ IF cnt = 0 \/ counted = call.len
           THEN Returns("read", call.ret + counted > 0) /\ StreamLock!mtx_unlock
           ELSE /\ call' = [call EXCEPT !.len = @ - counted, !.ret = @ + counted]
                /\ UNCHANGED <<lock, result>>
        /\ UNCHANGED <<buf, fdopen, moved, inq, got, lossy, outputs>>

StreamYield(delim) ==
    /\ Calls("yield")
    /\ \E k \in 0 .. buffer_avail(buf) :
         /\ IsFirst(buf, delim, k)
         /\ taken' = taken \o SubSeq(Readable(buf), 1, k + Len(delim))
         /\ buf' = buffer_yield(buf, k + Len(delim))
    /\ Returns("yield", TRUE)
    /\ UNCHANGED <<need_mask, lock, last_err, fdopen, moved, inq, got, lossy, outputs>>

SetMask ==
    /\ Calls("set_mask")
    /\ need_mask' = {}
    /\ UNCHANGED <<buf, lock, last_err, call, result, fdopen, moved, inputs, outputs>>

-----------------------------------------------------------------------------
MaxIo == MaxOut + Len(Input)

\* The next step of an operation that has begun.
Continue ==
    \/ \E err \in Errors : WritevError(err)
    \/ \E n \in 1 .. MaxIo : Writev(n)
    \/ \E ok \in BOOLEAN : FdClose(ok) \/ FdSeek(ok)
    \/ \E n \in 1 .. MaxIo : ReadLoopGives(n)
    \/ \E err \in Errors, cnt \in 0 .. MaxIo : ReadLoopError(err, cnt)

Begin ==
    \/ \E data \in Chunks : StreamWrite(data)
    \/ \E op \in {"flush", "close", "seek"} : StreamFlush(op)
    \/ \E text \in Chunks, ok \in BOOLEAN : StreamPrintf(text, ok)
    \/ \E err \in Errors : FillError(err)
    \/ \E n \in 1 .. MaxIo, ok, ok2 \in BOOLEAN : Fill(n, ok, ok2)
    \/ \E len \in Lens, null \in BOOLEAN : StreamRead(len, null)
    \/ \E delim \in Delims : StreamYield(delim)
    \/ SetMask

Next == (Begin \/ Continue) /\ UNCHANGED ops

Spec == Init /\ [][Next]_vars

\* A system call that is made returns; a caller need not make one.
FairSpec == Spec /\ WF_vars(Continue /\ UNCHANGED ops)

-----------------------------------------------------------------------------
(* Properties *)

ForInput == ops \intersect {"fill", "read"} # {}
ForOutput == ~ForInput

StreamOK ==
    /\ BufOK(buf)
    /\ need_mask \subseteq {"READ", "WRITE"}
    /\ lock \in {0, 1}
    /\ last_err \in Errors

\* What has been written to the descriptor, then what the buffer holds, then
\* what the call in progress has still to send, is what callers wrote or
\* printed, in order and without gap or repetition, whatever writev accepts each
\* time and wherever it fails (stream.c:284-313).
OutputIntact ==
    ForOutput =>
        sink \o Readable(buf) \o (IF InWriteLoop THEN Pending ELSE <<>>) = accepted

\* A flush that returned 0 has written everything; one that returned -1 has not
\* (stream.c:334-346).
FlushHonest ==
    call = Idle /\ result.op = "flush" =>
        (result.ok <=> Len(sink) = Len(accepted))

\* A stream is closed only after everything is written (stream.c:54-62).
CloseDrains == ~fdopen => Len(sink) = Len(accepted)

\* Between two calls the lock is free (stream.c:169-176 and its callers).
LockFreeWhenIdle == call = Idle => lock = 0

\* As long as no readv returned more than the free space and no read asked for more
\* than was buffered, what callers took and what the buffer holds is what the
\* descriptor delivered (stream.c:184-211, 214-234).
InputIntact == ForInput /\ ~lossy => taken \o Readable(buf) = got

\* The same without the reservations.
FillIntact == ForInput => taken \o Readable(buf) = got

\* stream_seek returns 0 when the position was moved and -1 when it was not
\* (stream.c:349-365).
SeekHonest ==
    call = Idle /\ result.op = "seek" => (result.ok <=> moved)

\* Every operation but stream_printf, which goes on for as long as memory is short,
\* returns once begun (the loops of stream.c:238-262 and
\* 290-313 end).
CallsReturn == (call # Idle /\ call.op # "printf") ~> call = Idle
=============================================================================
