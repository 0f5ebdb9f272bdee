# A TLA+ model of lib_

lib_ is a C library for event-driven network programs: an epoll event loop,
sockets with buffered streams, listeners and connectors, the threads and locks
they use, and helpers for descriptors. This directory models it, checks it with
TLC and proves its safety properties with TLAPS. File and line references are to `src/`.

## The system

| Part | State | Operations | What is hard | Correctness |
|---|---|---|---|---|
| Locks (lock.c) | a word; `read`, `write` | mtx_*, rlock, runlock, wlock, wunlock | interleaved atomics, back-off | exclusion, exact counts, progress |
| Events, epoll (event.c, epoll.c) | `event_t`, epoll lists, eventfd | apply, wakeup, poll | edge triggering, stale batches, `last_mask` | what is enabled is registered |
| Loop (eventloop.c) | `running`, pending list and its lock | init, apply, loop, exit | other threads hand over events | no lost wakeup, list drains |
| Socket (socket.c) | event, two streams, `enabled` | new, free, enable, dispatch | enable from any thread | enable/disable take effect |
| Buffer (buffer.c) | block, `size`, `rpos`, `wpos` | new, read, yield, write, extend, printf | compaction, growth, failing allocation | positions in order, FIFO |
| Stream (stream.c) | buffer, lock, masks, descriptor | read, write, fill, flush, seek, close, printf, yield | partial and failing system calls | no byte lost or repeated, honest results |
| Listener (listener.c) | event, backlog, flags, address | bind, set_backlog, enable, accept | one accept per edge, failures | connections accounted for and served |
| Connector (connector.c) | one event, address, callback | bind, connect, dispatch | event reused, descriptor shared with the socket | one honest callback per connect |
| Threads (thread.c) | `thread_t` per thread, boot argument | new, self, join | shared stack frame, freed objects | own object, join waits |
| Net helpers (net.c) | descriptor table | servers, connects, accepts, readn, writen | partial, interrupted, failing calls | nothing leaks, exact transfers |
| Utilities (util.c) | descriptor limit, `_term_cb`, `_ud` | fd_limit, tempfd, handle_term | unsigned wrap, signals | honest limit, datum fits callback |
| Echo program (test.c) | two sockets on a loop | acceptor, connected, ecprocessor | edges, cuts, broken connections | the record goes round |
| hmap, sockaddr, log, timer | | | | not modelled, see below |

Callers enable a socket, which applies its event to the loop: directly in the
loop's thread, through the pending list and the eventfd in another one. The loop
polls epoll and calls back sockets, listeners and connectors; these make sockets
of new descriptors. A socket reads and writes through two streams, each a buffer
in front of the descriptor.

## Modules

| Module | Models | Notes |
|---|---|---|
| RWLockAbs | the promise of a readers-writer lock | abstract specification |
| RWLock | lock.c, rwlock | one action per atomic builtin or load |
| SpinLock | lock.c, mtx | instantiated by EventLoop and Stream |
| EventPoll | epoll.c, event.c and the kernel's lists | masks are sets of flags |
| EventLoop | eventloop.c, socket_enable | loop thread and other threads |
| Buffer, BufferSpec | buffer.c | operators; one owner using them |
| Stream | stream.c | one caller; one step per system call |
| Listener | listener.c over EventPoll | kernel's queue of connections |
| Connector | connector.c | kernel state per descriptor |
| Echo | socket.c and the callbacks of test.c over EventPoll and Buffer | both ends of a connection on one loop |
| Thread | thread.c | one thread creates and joins the others |
| Descriptors | the table of descriptors (external) | what net.c and util.c share |
| Net, Util, Process | net.c; util.c; both in one process | one thread, signals at any time |
| *Proofs | | theorems, see Proofs |
| MC* | | small sets for the configurations |

Operators marked "Seeded fault" are deliberate errors, used in place of the
definition that follows them to see that a property notices. They are in no
specification.

## Runs that pass

| Run (configuration) | Shows |
|---|---|
| rwlock (RWLock) | four threads: exclusion, exact counts, writers and readers get in; implements RWLockAbs |
| loop (Loop) | two events, one other thread: list guarded and drained, no lost wakeup, exit during a callback ends the loop |
| buffer (Buffer) | positions in order, a drained buffer is rewound, bytes come out in order |
| stream (Stream) | output in order and complete; honest flush and close; input in order up to the reservations below; positions in order; calls return with the lock free |
| listener (Listener) | with failures: connections accounted for, none accepted while disabled, each edge leads to an accept |
| connector (Connector) | one callback per connect, and it comes |
| echo (Echo) | however the record is cut, one whole record is under way and both ends keep echoing it; a broken connection ends the loop, which knows no freed socket |
| thread (Thread) | three threads, memory short at will: objects are owned, thread.new finds the new thread's and returns, join waits |
| process (Process) | descriptors open and accounted for; readn and writen exact; fd_limit honest and never lowering; the signal's datum fits its callback; calls end |

### What they assume of callers

Several properties hold only for callers that stay away from behaviour shown
below to go wrong.

- Buffer: memory is written to an empty buffer only (no "overlap" in `Ops`), and
  no `uint32_t` sum wraps (`NoWrap`). Nothing is shown about callers whose sizes
  do. `Delivered` lets printf turn a byte into NUL.
- Stream: no write that fits into a buffer holding output ("overlap"). A stream
  is used for input or for output, as socket.c does (`Uses`).
- `InputIntact` says nothing after a readv that returned more than the free
  space or a read of more than was buffered (`lossy`); both lose or corrupt input.
- No run reads into a null buffer ("discard"), which leaves the lock taken
  (stream.c:235). `CallsReturn` leaves out printf, which goes round for ever while
  memory is short.
- Loop: `ExitStops` is about an exit that meets a running callback. An exit from
  another thread while the loop sleeps is not followed by a wakeup. With one other
  thread, the exclusion of two callers is not exercised by TLC; the theorem
  PandingsGuarded has it for any number.
- Connector: `Careful` callers enable each socket at once and have one connect
  under way, as test.c does, and `ShortOfMemory = FALSE`: if socket_.new fails,
  the event stays registered and `CalledOnce` fails.
- Echo: the record fits into the buffer with a byte to spare, and the kernel has
  room for it (`SndBuf`); two of the supplementary configurations drop these. Memory is available.
  The program is followed from the point where both sockets exist.
- Thread: one thread creates the others. `NewReturns` leaves out a failed
  pthread_create and a new thread without memory for its object, after which
  thread.new spins for ever.
- Process: descriptor 0 is open (`Std`), handle_term is given one callback
  (`Terms`), and among the values fd_limit tries is one the hard limit allows or
  one below the old limit. readn and writen are asked for a byte at least. After a
  transfer that failed half-way (`torn`) nothing is claimed of the bytes; -1 does
  not tell how many were moved.

## Disagreements between code and documentation

In these runs TLC violates one property, which states what the quoted line of
PROJECT.json says.

| Run (configuration) | What happens |
|---|---|
| loop_lost_pending (LoopLostPending) | a list of one counts as empty; an event is lost (eventloop.c:43) |
| loop_lost_disable (LoopLostDisable) | the reported mask overwrites another thread's disable (epoll.c:164) |
| buffer_write (BufferWrite) | the copy goes to `rpos` (buffer.c:82) |

## Supplementary configurations

Not among the runs of PROJECT.json. A name alone is a file, which
`tlc -config X.cfg MC...` repeats; "X with ..." is X.cfg with that constant changed
and the property in the place of its own, "X\*" only the latter.

| Configuration | Property | Result |
|---|---|---|
| LoopOwn | DisabledIsOff, NoCallbackWhenDisabled | hold if callbacks switch only their own event and there are no other threads |
| LoopOneEvent | EnableTakesEffect | holds for one event used once |
| LoopReenable | EnabledIsOn | violated: DEL leaves `last_mask` (epoll.c:114) |
| LoopStaleBatch | NoCallbackWhenDisabled | violated: the batch is dispatched to its end (epoll.c:148) |
| BufferPrintf | Exact | violated: a text that fills the space loses its last byte (buffer.c:148) |
| BufferNew | NewHasSize | violated: a given size is not stored (buffer.c:19) |
| BufferExtend | ExtendGivesRoom | violated: the block may shrink (buffer.c:49) |
| StreamFill | FillIntact | violated: excess of a readv counted twice (stream.c:204) |
| StreamShort | FillIntact | violated: success of readv taken for failure (stream.c:246) |
| StreamSeek | SeekHonest | violated: both tests inverted (stream.c:358), where stream.h:69 has "The return value is 0 on success, -1 on error." |
| Connector\* | HonestCallback | violated: the error of a failed connect is dropped (connector.c:53, 80); test.c:63 tests it |
| ListenerLive | ConnectionsServed | holds for connections that arrive one at a time |
| ListenerBurst | ConnectionsServed | violated: one accept per edge (listener.c:42) |
| ListenerUnix | BindRemembered | violated: address not stored after the second bind (listener.c:155) |
| Echo with `SndBuf = 3` | EchoGoesOn | violated, the record being longer: what met EAGAIN is not flushed again (stream.c:105) |
| Echo with `DefaultSize = 4` | OneRecord | violated, the record being as long: readv's excess and printf's last byte (stream.c:204, buffer.c:148) |
| Thread\* | RunsItsOwn | violated: `runable` is read from a frame that may be gone (thread.c:81) |
| Thread\* | NamesItsOwn | violated: the name is written to an object that may be freed (thread.c:95) |
| Thread\* | JoinsItsOwn | violated: `tid` is read from an object that may be another thread's (thread.c:101) |
| Process\* | NothingLost | violated: "fd == socket(...)" (net.c:38, 90) |
| Process with `InitialLimits <- SmallLimit` | CallsEnd | violated: the subtraction wraps and the loop does not end (util.c:66) |
| Process\* | HardLimitKept | violated: rlim_max is set to the value asked for (util.c:64) |
| Process with `Std = {}` | DescriptorsAccounted | violated: tempfd takes 0 for a failure (util.c:119) |
| Process with `Terms = {1, 2}` | TermPaired | violated: a signal between the assignments (util.c:199-200) |

listener.h:60-61 contradicts ListenerBurst only if it is read as a promise for
every connection that reaches an enabled listener; of the accept(2) calls that are
made, it is true.

## Bounds

Two events and another thread give every pairing of loop, callback and caller;
`MaxUses = 2` lets each event be switched on and off. Four threads let a reader
back off while another holds the lock and a writer waits. Buffers of a few bytes
with strings of a few bytes reach full, compacted and grown blocks;
`TwoTo32 = 64` stands for 2^32.
`MaxOut`, `MaxIn`, `MaxPut`, `MaxConns`, `MaxWaiting` and `MaxFds` end otherwise
endless use. In Echo a record of four bytes and a kernel buffer of four give every
cut of it; three threads let one thread be joined while a second reuses its object
and a third is started. In Process five descriptors, limits of 2 to 7 and
`FdStep = 4` of `RlimWidth = 16` give a full table, a limit in the way and a wrap;
`SomeUses` splits the callers so that transfers, descriptors and signals are each
explored in full. Most configurations disable the deadlock check, since callers may
stop and these bounds end behaviours; RWLock keeps it.

## Fairness

- RWLock: a thread inside a call, or holding the lock, keeps running (the
  scheduler runs every thread, holders release). No one must call.
- EventLoop: the loop's and callers' threads run. epoll_wait need not fail,
  descriptors need not become ready. Taking a spin lock is only weakly fair.
- Stream: a call in progress keeps running.
- Listener: the loop's thread runs; clients need not connect.
- Connector: the loop runs, callbacks return, and the kernel ends every connect.
  The last is an assumption about TCP: the code has no timeout of its own.
- Echo: the loop's thread runs, the listener and connector call back once each, and
  what was sent arrives. Connections need not break.
- Thread: a thread inside thread_boot or thread_new runs; runables need not end.
- Process: a system call that was made returns. Interruptions are bounded
  (`MaxIntr`); nobody must call and no signal must come.

## Proofs

For every value of the constants that meets the named assumptions:

- ThreadingProofs, the lock (`ThreadsAssumption`: finitely many threads). `IInv` is
  TypeOK, CountsAreExact and Exclusion. Exclusion alone is not inductive: it does
  not say why a writer that sees `read = 0` has no reader behind it; the counts do.
  Theorems: Invariance, TypeCorrect, MutualExclusion, ExactCounts, Refinement (to
  RWLockAbs).
- ThreadingProofs, the threads (`ThreadAssumption`). `ThreadInv` relates each
  thread's place to its object, to the boot argument while thread.new waits, and to
  the handle that was returned: a handle's object is the thread's until the thread
  ends. Theorems: ThreadInvariance, ThreadTypeCorrect, ObjectsOwned,
  NewFindsTheNewThread, JoinWaits.
- EventPollProofs: lemmas on eventpoll_apply that the next ones share.
- EventLoopProofs (`EventsAssumption`, `LoopAssumption`). `IInv` adds who holds
  the lock and that a non-empty list is announced from the moment the loop lets
  go of the lock until it polls. Theorems: Invariance, TypeCorrect,
  PandingsGuarded, WakeupNotLost.
- BufferProofs (`BufferAssumption`, `UseAssumption`, and the guard `NoWrap`).
  `IInv` links the histories to the cells of the block. Theorems: Invariance,
  PositionsInOrder, DrainedIsRewound, InOrderDelivery (if "overlap" is not in `Ops`).
  The second half states what each operation does to the readable string
  (`NewFacts`, `ReadFacts`, `YieldFacts`, `WriteFacts`, `FillFacts`, `PrintFacts`)
  and how strings are cut and joined; Stream and Echo are proved from these lemmas.
- StreamProofs (`BufferAssumption`, `StreamAssumption`). `StreamInv` says what the
  locals of a call are between two of its system calls: in _stream_write, two iovecs
  of which the first is what the buffer holds, or one and an empty buffer. With that
  it links the histories: for output, what was sent, what is buffered and what the
  call has left make up what was accepted; for input, what was taken and what is
  buffered make up what was delivered. The results need it too: a flush that
  succeeded leaves an empty buffer, and a close gets past its flush only with one.
  Theorems: StreamInvariance, StreamSafety, LockFree (no "discard" in `Uses`),
  and, if each stream is used for input or for output (`Separated`), OutputReaches,
  FlushTellsTheTruth, CloseAfterDrain, InputArrives. All are about behaviours in
  which no position of the buffer comes near 2^32 (`[]NoOverflow`), which a buffer
  does only after 4 GB of unread data; in the stream run every state satisfies it.
- EndpointProofs, the listener (`ListenerAssumption`). The invariant adds that a
  disabled listener is neither registered, queued nor in the batch. Theorems:
  TypeCorrect, NoConnectionLost, NoneWhenDisabled.
- EndpointProofs, the connector (`ConnectorAssumption`). The invariant adds that
  the event is registered for one descriptor at most. Theorems:
  ConnectorTypeCorrect, OneCallback (for `Careful` callers, not `ShortOfMemory`).
- EchoProofs (`EventsAssumption`, `BufferAssumption`, `EchoAssumption`). `LoopInv`:
  the socket whose callback runs is in use and out of the batch; one that is not in
  use is not registered; what is queued is registered. It gives SocketForgotten.
  `DataInv`: the buffers keep their first size, since the record always fits; an
  input buffer starts at 0; before connected nothing is on its way, and afterwards
  the record is on its way to one socket and nothing to the other. It gives
  RecordWhole, for records of one line (`OneLine`): the record ends in CR LF,
  contains no other, and leaves a byte of the buffer free, as the line that test.c:74
  prints does. A delimiter is then found only when the whole record is in the input
  buffer, so that ecprocessor finds the output buffer empty.
- ProcessProofs (`TableAssumption`, `NetAssumption`, `UtilAssumption`,
  `ProcessAssumption`). `IInv` gives each operation in progress the types of its
  locals; says that tcp_server's descriptor is a socket nobody else has, that the
  limit does not move under fd_limit, and that `done` stays within the chunk. The
  transfers are proved by regrouping concatenations. Theorems: OwnedOpen,
  NoneLeftBehind (if 0 is in `Std`), ReadnDelivers, WritenDelivers, LimitReturned,
  LimitOnlyRaised, OneCallbackPaired (for one callback).

Every safety property of the runs that pass is proved. Only model-checked: all
liveness (the prover has no fairness or ENABLED): WriterGetsIn, ReaderGetsIn,
QueueDrains, ExitStops, CallsReturn, EdgeAccepted, CallbackComes, EchoGoesOn,
BreakEndsLoop, NewReturns and CallsEnd. Where TypeCorrect is proved, no run repeats
TypeOK.

## Not modelled

- hmap.c: not in the build, and it includes khlist.h, which does not exist.
- sockaddr.c, log.c, timer.c: parsing, formatting and clock reading.
- util.c: the pid file (one read, one write, one remove, with no protocol around
  them), crash traces, cpu and memory figures. net.c: socket options, resolve,
  peer and local, each a system call or two.
- test.c's main, which sets up the parts and exercises the crash handler.
- The branch of _sock_dispatch for EVMASK_WRITE, which no code enables; freeing of
  loops, listeners and connectors; failing sockname; errors of epoll_ctl other than
  EEXIST and ENOENT; a stream used by two threads; pointers into a buffer's block
  held by callers; formatting errors of vsnprintf.

## Plan

1. A second thread on a stream (printf and yield take no lock).
2. Freeing of loops and listeners with events still registered.
