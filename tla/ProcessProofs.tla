--------------------------- MODULE ProcessProofs ----------------------------
(***************************************************************************)
(* The helpers of net.c and util.c for any table of descriptors, any       *)
(* limits and any input.                                                   *)
(***************************************************************************)
EXTENDS Process, SequenceTheorems, TLAPS

\* The locals of each operation.
ServerCall == [op : {"tcp_server"}, left : Int, fd : Fds \union {-1}]
AcceptCall == [op : {"accept"}, intr : Nat]
ReadCall == [op : {"readn"}, sz : Nat, buf : Seq(Byte), intr : Nat]
WriteCall == [op : {"writen"}, s : Seq(Byte), done : Nat, intr : Nat]
LimitCall == [op : {"fd_limit"}, f : Nat, oldlimit : Nat]
TempCall == [op : {"tempfd"}, retries : Int]
TermCall == [op : {"handle_term"}, ud : Terms]

CallOK ==
    \/ call = Idle
    \/ call \in ServerCall \/ call \in AcceptCall \/ call \in ReadCall
    \/ call \in WriteCall \/ call \in LimitCall \/ call \in TempCall
    \/ call \in TermCall

Types == CallOK /\ inq \in Seq(Byte) /\ rlim \in [cur : Nat, max : Nat]

-----------------------------------------------------------------------------
\* Each operation in progress has its own locals.
LEMMA CallCases ==
    ASSUME CallOK
    PROVE  /\ InCall("tcp_server") => call \in ServerCall
           /\ InCall("accept") => call \in AcceptCall
           /\ InCall("readn") => call \in ReadCall
           /\ InCall("writen") => call \in WriteCall
           /\ InCall("fd_limit") => call \in LimitCall
           /\ InCall("tempfd") => call \in TempCall
           /\ InCall("handle_term") => call \in TermCall
BY DEF CallOK, InCall, Idle, ServerCall, AcceptCall, ReadCall, WriteCall, LimitCall, TempCall,
       TermCall

\* A step of the operation in progress goes on with it or returns.
GoesOn(op, Locals) ==
    call.op = op /\ call \in Locals /\ (call' = Idle \/ call' \in Locals)

LEMMA ServerGoesOn ==
    ASSUME CallOK,
           \/ ServerSocketFails \/ ListenFails \/ Listens
           \/ \E fd \in Fds : ServerSocket(fd)
    PROVE  GoesOn("tcp_server", ServerCall)
<1>1. InCall("tcp_server") /\ call \in ServerCall
  BY CallCases DEF ServerSocketFails, ListenFails, Listens, ServerSocket
<1>2. [call EXCEPT !.left = @ - 1] \in ServerCall
  BY <1>1 DEF ServerCall
<1>3. \A fd \in Fds : [call EXCEPT !.fd = fd] \in ServerCall
  BY <1>1 DEF ServerCall
<1> QED
  BY <1>1, <1>2, <1>3 DEF GoesOn, InCall, ServerSocketFails, ListenFails, Listens, ServerSocket,
     Returns, Hands

LEMMA AcceptGoesOn ==
    ASSUME CallOK,
           AcceptFails \/ (\E fd \in Fds : Accepts(fd)) \/ (Interrupted /\ InCall("accept"))
    PROVE  GoesOn("accept", AcceptCall)
<1>1. InCall("accept") /\ call \in AcceptCall
  BY CallCases DEF AcceptFails, Accepts
<1>2. [call EXCEPT !.intr = @ + 1] \in AcceptCall
  BY <1>1 DEF AcceptCall
<1> QED
  BY <1>1, <1>2 DEF GoesOn, InCall, AcceptFails, Accepts, Interrupted, Returns, Hands

LEMMA ReadGoesOn ==
    ASSUME Types,
           \/ ReadEof \/ ReadFails \/ (Interrupted /\ InCall("readn"))
           \/ \E n \in 1 .. Len(Input) : Read(n)
    PROVE  GoesOn("readn", ReadCall)
<1>1. InCall("readn") /\ call \in ReadCall
  BY CallCases DEF Types, ReadEof, ReadFails, Read
<1>2. [call EXCEPT !.intr = @ + 1] \in ReadCall
  BY <1>1 DEF ReadCall
<1>3. ASSUME NEW n \in 1 .. Len(Input), Read(n) PROVE call' = Idle \/ call' \in ReadCall
  <2>1. call.buf \o SubSeq(inq, 1, n) \in Seq(Byte)
    <3>1. inq \in Seq(Byte) /\ n \in 1 .. Len(inq)
      BY <1>3, NetAssumption DEF Types, Read
    <3>2. call.buf \in Seq(Byte) /\ SubSeq(inq, 1, n) \in Seq(Byte)
      BY <1>1, <3>1, SubSeqProperties DEF ReadCall
    <3> QED BY <3>2
  <2>2. [call EXCEPT !.buf = call.buf \o SubSeq(inq, 1, n)] \in ReadCall
    BY <1>1, <2>1 DEF ReadCall
  <2> QED BY <1>3, <2>2 DEF Read, ReadnReturns, Returns
<1> QED
  BY <1>1, <1>2, <1>3 DEF GoesOn, InCall, ReadEof, ReadFails, Interrupted, ReadnReturns, Returns

LEMMA WriteGoesOn ==
    ASSUME CallOK,
           WriteFails \/ (Interrupted /\ InCall("writen")) \/ \E n \in 1 .. MaxSink : Write(n)
    PROVE  GoesOn("writen", WriteCall)
<1>1. InCall("writen") /\ call \in WriteCall
  BY CallCases DEF WriteFails, Write
<1>2. [call EXCEPT !.intr = @ + 1] \in WriteCall
  BY <1>1 DEF WriteCall
<1>3. \A n \in 1 .. MaxSink : [call EXCEPT !.done = @ + n] \in WriteCall
  BY <1>1, NetAssumption DEF WriteCall
<1> QED
  BY <1>1, <1>2, <1>3 DEF GoesOn, InCall, WriteFails, Interrupted, Write, Returns

LEMMA LimitGoesOn ==
    ASSUME CallOK, SetLimit \/ LimitUnreached
    PROVE  GoesOn("fd_limit", LimitCall)
<1>1. InCall("fd_limit") /\ call \in LimitCall
  BY CallCases DEF SetLimit, LimitUnreached
<1>2. (call.f - FdStep) % RlimWidth \in Nat
  <2>1. call.f \in Nat
    BY <1>1 DEF LimitCall
  <2>2. RlimWidth \in Nat \ {0} /\ FdStep \in Nat
    BY UtilAssumption
  <2> QED BY <2>1, <2>2
<1>3. [call EXCEPT !.f = (@ - FdStep) % RlimWidth] \in LimitCall
  BY <1>1, <1>2 DEF LimitCall
<1> QED
  BY <1>1, <1>3 DEF GoesOn, InCall, SetLimit, LimitUnreached, Returns

LEMMA TempGoesOn ==
    ASSUME CallOK, TempExists \/ TempFails \/ \E fd \in Fds : TempOpens(fd)
    PROVE  GoesOn("tempfd", TempCall)
<1>1. InCall("tempfd") /\ call \in TempCall
  BY CallCases DEF TempExists, TempFails, TempOpens
<1>2. [call EXCEPT !.retries = @ - 1] \in TempCall
  BY <1>1 DEF TempCall
<1> QED
  BY <1>1, <1>2 DEF GoesOn, InCall, TempExists, TempFails, TempOpens, TempRetry, Returns, Hands

LEMMA TermGoesOn ==
    ASSUME CallOK, HandleTermInstalls
    PROVE  GoesOn("handle_term", TermCall)
BY CallCases DEF HandleTermInstalls, GoesOn, InCall, Returns
\* An operation is called: its locals are set up, or it returns at once.
LEMMA Called ==
    ASSUME Types, NetCall \/ UtilCall
    PROVE  call = Idle /\ CallOK'
<1> USE NetAssumption, TableAssumption, UtilAssumption DEF Types, MayCall, Begins
<1>1. call' = Idle => CallOK'
  BY DEF CallOK
<1>2. ASSUME NEW n \in 0 .. MaxAddrs, tcp_server(n) PROVE call = Idle /\ CallOK'
  BY <1>2 DEF tcp_server, CallOK, ServerCall
<1>3. ASSUME NEW op, ConnectHelper(op) PROVE call = Idle /\ CallOK'
  BY <1>1, <1>3 DEF ConnectHelper, Returns
<1>4. ASSUME NEW fd \in Fds, accept(fd) PROVE call = Idle /\ CallOK'
  BY <1>4 DEF accept, CallOK, AcceptCall
<1>5. ASSUME NEW sz \in Sizes, readn(sz) PROVE call = Idle /\ CallOK'
  BY <1>5 DEF readn, CallOK, ReadCall
<1>6. ASSUME NEW s \in Chunks, writen(s) PROVE call = Idle /\ CallOK'
  BY <1>6 DEF writen, CallOK, WriteCall
<1>7. ASSUME NEW n \in Limits, fd_limit(n) PROVE call = Idle /\ CallOK'
  <2>1. n \in Nat /\ rlim.cur \in Nat
    BY DEF Types
  <2> QED BY <1>1, <1>7, <2>1 DEF fd_limit, Returns, CallOK, LimitCall
<1>8. ASSUME NEW template \in BOOLEAN, tempfd(template) PROVE call = Idle /\ CallOK'
  BY <1>1, <1>8 DEF tempfd, Returns, CallOK, TempCall
<1>9. ASSUME NEW k \in Terms, handle_term(k) PROVE call = Idle /\ CallOK'
  BY <1>9 DEF handle_term, CallOK, TermCall
<1> QED
  BY <1>2, <1>3, <1>4, <1>5, <1>6, <1>7, <1>8, <1>9 DEF NetCall, UtilCall

\* The kinds of steps, for the case distinctions below.
ServerStep == ServerSocketFails \/ ListenFails \/ Listens \/ \E fd \in Fds : ServerSocket(fd)
AcceptStep == AcceptFails \/ \E fd \in Fds : Accepts(fd)
ReadStep == ReadEof \/ ReadFails \/ \E n \in 1 .. Len(Input) : Read(n)
WriteStep == WriteFails \/ \E n \in 1 .. MaxSink : Write(n)
LimitStep == SetLimit \/ LimitUnreached
TempStep == TempExists \/ TempFails \/ \E fd \in Fds : TempOpens(fd)

LEMMA Steps ==
    /\ NetStep <=> ServerStep \/ AcceptStep \/ ReadStep \/ WriteStep \/ Interrupted
    /\ UtilStep <=> LimitStep \/ TempStep \/ HandleTermInstalls
BY DEF NetStep, UtilStep, ServerStep, AcceptStep, ReadStep, WriteStep, LimitStep, TempStep

\* What each kind of step does to the operation in progress.
LEMMA StepCall ==
    ASSUME Types
    PROVE  /\ ServerStep => GoesOn("tcp_server", ServerCall)
           /\ AcceptStep => GoesOn("accept", AcceptCall)
           /\ ReadStep => GoesOn("readn", ReadCall)
           /\ WriteStep => GoesOn("writen", WriteCall)
           /\ LimitStep => GoesOn("fd_limit", LimitCall)
           /\ TempStep => GoesOn("tempfd", TempCall)
           /\ HandleTermInstalls => GoesOn("handle_term", TermCall)
           /\ Interrupted => \/ GoesOn("accept", AcceptCall)
                             \/ GoesOn("readn", ReadCall)
                             \/ GoesOn("writen", WriteCall)
BY ServerGoesOn, AcceptGoesOn, ReadGoesOn, WriteGoesOn, LimitGoesOn, TempGoesOn, TermGoesOn
   DEF Types, ServerStep, AcceptStep, ReadStep, WriteStep, LimitStep, TempStep, Interrupted, InCall

LEMMA InitTypes == Init => Types
BY NetAssumption, ProcessAssumption DEF Init, NetInit, Types, CallOK

LEMMA NextTypes == Types /\ [Next]_vars => Types'
<1> SUFFICES ASSUME Types, [Next]_vars PROVE Types'
  OBVIOUS
<1>1. CallOK'
  <2>1. CASE NetStep \/ UtilStep
    BY <2>1, Steps, StepCall DEF GoesOn, CallOK
  <2>2. CASE NetCall \/ UtilCall
    BY <2>2, Called
  <2>3. CASE call' = call
    BY <2>3 DEF Types, CallOK
  <2> QED
    BY <2>1, <2>2, <2>3 DEF Next, Begin, Continue, sig_term_handler, UserClose, vars
<1>2. inq' \in Seq(Byte)
  <2>1. ASSUME NEW n \in 1 .. Len(Input), Read(n) PROVE inq' \in Seq(Byte)
    <3>1. inq \in Seq(Byte) /\ n \in 1 .. Len(inq) /\ inq' = SubSeq(inq, n + 1, Len(inq))
      BY <2>1, NetAssumption DEF Types, Read
    <3> QED BY <3>1
  <2>2. CASE inq' = inq
    BY <2>2 DEF Types
  <2>3. NetStep \/ NetCall => inq' = inq \/ \E n \in 1 .. Len(Input) : Read(n)
    BY DEF NetStep, NetCall, data, ServerSocketFails, ListenFails, Listens, AcceptFails,
       ServerSocket, Accepts, Interrupted, ReadEof, ReadFails, WriteFails, Write,
       tcp_server, ConnectHelper, accept, readn, writen
  <2> QED
    BY <2>1, <2>2, <2>3 DEF Next, Begin, Continue, data, vars
<1>3. rlim' \in [cur : Nat, max : Nat]
  <2>1. CASE SetLimit
    <3>1. call.f \in Nat
      BY <2>1, CallCases DEF Types, SetLimit, LimitCall
    <3> QED BY <2>1, <3>1 DEF Types, SetLimit
  <2>2. CASE rlim' = rlim
    BY <2>2 DEF Types
  <2>3. NetStep \/ NetCall => rlim' = rlim
    BY DEF NetStep, NetCall, ServerSocketFails, ListenFails, Listens, AcceptFails,
       ServerSocket, Accepts, Interrupted, ReadEof, ReadFails, WriteFails, Read, Write,
       tcp_server, ConnectHelper, accept, readn, writen
  <2>4. UtilStep \/ UtilCall => SetLimit \/ rlim' = rlim
    BY DEF UtilStep, UtilCall, LimitUnreached, TempExists, TempFails, TempOpens,
       HandleTermInstalls, fd_limit, tempfd, handle_term
  <2> QED
    BY <2>1, <2>2, <2>3, <2>4 DEF Next, Begin, Continue, sig_term_handler, UserClose, vars
<1> QED
  BY <1>1, <1>2, <1>3 DEF Types
-----------------------------------------------------------------------------
(* The table of descriptors *)

\* The descriptor of a tcp_server in progress.
ServerFd == IF InCall("tcp_server") THEN call.fd ELSE -1

\* That descriptor is a socket that nobody else has.
TableInv ==
    /\ kind \in [Fds -> {"free", "std", "socket", "listen", "conn", "file"}]
    /\ owned \subseteq Fds
    /\ \A fd \in owned : kind[fd] \in {"listen", "conn", "file"}
    /\ \A fd \in Std : kind[fd] = "std"
    /\ ServerFd = -1 \/ (ServerFd \in Fds /\ kind[ServerFd] = "socket")
    /\ 0 \in Std => \A fd \in Fds :
          kind[fd] = "free" \/ fd \in Std \union owned \union lost \/ fd = ServerFd

\* A step that leaves the table alone.
LEMMA TableUntouched ==
    ASSUME TableInv, UNCHANGED <<kind, owned, lost>>, ServerFd' = ServerFd
    PROVE  TableInv'
<1> HIDE DEF ServerFd
<1> QED BY DEF TableInv

\* A descriptor is opened for tcp_server, or for the caller; tcp_server hands its own
\* over, or closes it.
LEMMA ServerOpens ==
    ASSUME TableInv, ServerFd = -1, ServerFd' \in Fds, kind[ServerFd'] = "free",
           kind' = [kind EXCEPT ![ServerFd'] = "socket"], owned' = owned, lost' = lost
    PROVE  TableInv'
<1> DEFINE n == ServerFd'
<1>1. n \in Fds /\ kind[n] = "free" /\ kind' = [kind EXCEPT ![n] = "socket"]
  OBVIOUS
<1> HIDE DEF n, ServerFd
<1>2. /\ kind' \in [Fds -> {"free", "std", "socket", "listen", "conn", "file"}]
      /\ owned' \subseteq Fds
      /\ \A fd \in owned' : kind'[fd] \in {"listen", "conn", "file"}
      /\ \A fd \in Std : kind'[fd] = "std"
  BY <1>1, TableAssumption DEF TableInv
<1>3. n \in Fds /\ kind'[n] = "socket"
  BY <1>1 DEF TableInv
<1>4. 0 \in Std => \A fd \in Fds :
          kind'[fd] = "free" \/ fd \in Std \union owned' \union lost' \/ fd = n
  BY <1>1 DEF TableInv, Fds
<1> QED
  BY <1>2, <1>3, <1>4 DEF TableInv, n

LEMMA CallerOpens ==
    ASSUME TableInv, ServerFd = -1, ServerFd' = -1, NEW fd \in Fds, kind[fd] = "free",
           NEW as \in {"conn", "file"}, kind' = [kind EXCEPT ![fd] = as],
           owned' = owned \union {fd}, lost' = lost
    PROVE  TableInv'
<1> HIDE DEF ServerFd
<1> QED BY TableAssumption DEF TableInv, Fds

LEMMA ServerReturns ==
    ASSUME TableInv, ServerFd \in Fds, kind[ServerFd] = "socket", ServerFd' = -1, lost' = lost,
           \/ kind' = [kind EXCEPT ![ServerFd] = "free"] /\ owned' = owned
           \/ kind' = [kind EXCEPT ![ServerFd] = "listen"] /\ owned' = owned \union {ServerFd}
    PROVE  TableInv'
<1> HIDE DEF ServerFd
<1> QED BY TableAssumption DEF TableInv, Fds

LEMMA ServerTable ==
    ASSUME Types, TableInv, ServerStep PROVE TableInv'
<1>1. InCall("tcp_server") /\ call \in ServerCall /\ ServerFd = call.fd
  BY StepCall DEF GoesOn, InCall, ServerFd
<1>2. CASE ServerSocketFails
  <2>1. call.fd = -1 /\ (call' = Idle \/ call' = [call EXCEPT !.left = @ - 1])
    BY <1>2 DEF ServerSocketFails, Returns
  <2>2. [call EXCEPT !.left = @ - 1].fd = call.fd
    BY <1>1 DEF ServerCall
  <2>3. UNCHANGED <<kind, owned, lost>>
    BY <1>2 DEF ServerSocketFails, table
  <2>4. call' = Idle \/ call'.fd = -1
    BY <2>1, <2>2
  <2>5. ServerFd' = -1
    BY <2>4 DEF ServerFd, InCall, Idle
  <2> QED
    BY <1>1, <2>1, <2>3, <2>5, TableUntouched
<1>3. ASSUME NEW fd \in Fds, ServerSocket(fd) PROVE TableInv'
  <2>1. call.fd = -1 /\ call'.fd = fd /\ call'.op = "tcp_server"
    BY <1>1, <1>3 DEF ServerSocket, ServerCall
  <2>2. /\ kind[fd] = "free" /\ kind' = [kind EXCEPT ![fd] = "socket"]
        /\ owned' = owned /\ lost' = lost
    BY <1>3 DEF ServerSocket, Opens, Free
  <2>3. ServerFd' = fd
    BY <2>1 DEF ServerFd, InCall
  <2> QED
    BY <1>1, <2>1, <2>2, <2>3, ServerOpens
<1>4. CASE ListenFails \/ Listens
  <2>1. call.fd \in Fds /\ kind[call.fd] = "socket"
    BY <1>1, <1>4 DEF ListenFails, Listens, ServerCall, TableInv
  <2>2. call' = Idle /\ lost' = lost
    BY <1>4 DEF ListenFails, Listens, Returns, Hands
  <2>3. \/ kind' = [kind EXCEPT ![call.fd] = "free"] /\ owned' = owned
        \/ kind' = [kind EXCEPT ![call.fd] = "listen"] /\ owned' = owned \union {call.fd}
    BY <1>4 DEF ListenFails, Listens, Returns, Hands
  <2>4. ServerFd' = -1
    BY <2>2 DEF ServerFd, InCall, Idle
  <2> QED
    BY <1>1, <2>1, <2>2, <2>3, <2>4, ServerReturns
<1> QED
  BY <1>2, <1>3, <1>4 DEF ServerStep

\* A descriptor is opened and dropped: a connecting helper records it as lost, tempfd
\* can only drop 0.
LEMMA Drops ==
    ASSUME TableInv, ServerFd = -1, ServerFd' = -1, NEW fd \in Fds, kind[fd] = "free",
           NEW as \in {"socket", "file"}, kind' = [kind EXCEPT ![fd] = as], owned' = owned,
           lost' = lost \union {fd} \/ (lost' = lost /\ fd = 0)
    PROVE  TableInv'
<1> HIDE DEF ServerFd
<1> QED BY TableAssumption DEF TableInv, Fds

LEMMA CallerCloses ==
    ASSUME TableInv, ServerFd = -1, ServerFd' = -1, NEW fd \in owned,
           kind' = [kind EXCEPT ![fd] = "free"], owned' = owned \ {fd}, lost' = lost
    PROVE  TableInv'
<1> HIDE DEF ServerFd
<1> QED BY TableAssumption DEF TableInv, Fds

\* Only tcp_server has a descriptor of its own.
LEMMA NoServerFd ==
    ASSUME Types
    PROVE  /\ call = Idle => ServerFd = -1
           /\ AcceptStep \/ ReadStep \/ WriteStep \/ Interrupted => ServerFd = -1 /\ ServerFd' = -1
           /\ UtilStep => ServerFd = -1 /\ ServerFd' = -1
           /\ NetCall \/ UtilCall => ServerFd' = -1
<1>1. call = Idle => ServerFd = -1
  BY DEF ServerFd, InCall, Idle
<1>2. call' = Idle => ServerFd' = -1
  BY DEF ServerFd, InCall, Idle
<1>3. /\ GoesOn("accept", AcceptCall) => ServerFd = -1 /\ ServerFd' = -1
      /\ GoesOn("readn", ReadCall) => ServerFd = -1 /\ ServerFd' = -1
      /\ GoesOn("writen", WriteCall) => ServerFd = -1 /\ ServerFd' = -1
  BY <1>2 DEF GoesOn, ServerFd, InCall, AcceptCall, ReadCall, WriteCall
<1>4. /\ GoesOn("fd_limit", LimitCall) => ServerFd = -1 /\ ServerFd' = -1
      /\ GoesOn("tempfd", TempCall) => ServerFd = -1 /\ ServerFd' = -1
      /\ GoesOn("handle_term", TermCall) => ServerFd = -1 /\ ServerFd' = -1
  BY <1>2 DEF GoesOn, ServerFd, InCall, LimitCall, TempCall, TermCall
<1>5. NetCall => ServerFd' = -1
  BY <1>2 DEF NetCall, tcp_server, ConnectHelper, accept, readn, writen, Begins, Returns,
     ServerFd, InCall
<1>6. UtilCall => ServerFd' = -1
  BY <1>2 DEF UtilCall, fd_limit, tempfd, handle_term, Begins, Returns, ServerFd, InCall
<1> HIDE DEF ServerFd, GoesOn
<1> QED BY <1>1, <1>3, <1>4, <1>5, <1>6, StepCall, Steps

LEMMA StepTable ==
    ASSUME Types, TableInv, NetStep \/ UtilStep PROVE TableInv'
<1>1. CASE ServerStep
  BY <1>1, ServerTable
<1>2. ASSUME NEW fd \in Fds, Accepts(fd) PROVE TableInv'
  <2>1. ServerFd = -1 /\ ServerFd' = -1
    BY <1>2, NoServerFd DEF AcceptStep
  <2>2. /\ kind[fd] = "free" /\ kind' = [kind EXCEPT ![fd] = "conn"]
        /\ owned' = owned \union {fd} /\ lost' = lost
    BY <1>2 DEF Accepts, Opens, Free, Hands
  <2> QED
    BY <2>1, <2>2, CallerOpens
<1>3. ASSUME NEW fd \in Fds, TempOpens(fd) PROVE TableInv'
  <2>1. ServerFd = -1 /\ ServerFd' = -1
    BY <1>3, NoServerFd, Steps DEF TempStep
  <2>2. kind[fd] = "free" /\ kind' = [kind EXCEPT ![fd] = "file"] /\ lost' = lost
    BY <1>3 DEF TempOpens, Opens, Free
  <2>3. CASE owned' = owned \union {fd}
    BY <2>1, <2>2, <2>3, CallerOpens
  <2>4. CASE owned' = owned /\ fd = 0
    BY <2>1, <2>2, <2>4, Drops
  <2> QED
    BY <1>3, <2>3, <2>4 DEF TempOpens, Hands
<1>4. CASE AcceptFails \/ ReadStep \/ WriteStep \/ Interrupted
  <2>1. ServerFd = -1 /\ ServerFd' = -1
    BY <1>4, NoServerFd DEF AcceptStep
  <2>2. UNCHANGED <<kind, owned, lost>>
    BY <1>4 DEF AcceptFails, ReadStep, ReadEof, ReadFails, Read, WriteStep, WriteFails, Write,
       Interrupted, table
  <2> QED
    BY <2>1, <2>2, TableUntouched
<1>5. CASE LimitStep \/ TempExists \/ TempFails \/ HandleTermInstalls
  <2>1. ServerFd = -1 /\ ServerFd' = -1
    BY <1>5, NoServerFd, Steps DEF TempStep
  <2>2. UNCHANGED <<kind, owned, lost>>
    BY <1>5 DEF LimitStep, SetLimit, LimitUnreached, TempExists, TempFails, HandleTermInstalls,
       table
  <2> QED
    BY <2>1, <2>2, TableUntouched
<1> QED
  BY <1>1, <1>2, <1>3, <1>4, <1>5, Steps DEF AcceptStep, TempStep

LEMMA CallTable ==
    ASSUME Types, TableInv, NetCall \/ UtilCall PROVE TableInv'
<1>1. ServerFd = -1 /\ ServerFd' = -1
  BY NoServerFd, Called
<1>2. ASSUME NEW op, ConnectHelper(op) PROVE TableInv'
  <2>1. CASE UNCHANGED <<kind, lost>>
    BY <1>1, <1>2, <2>1, TableUntouched DEF ConnectHelper
  <2>2. ASSUME NEW fd \in Fds, Opens(fd, "socket"), lost' = lost \union {fd} PROVE TableInv'
    BY <1>1, <1>2, <2>2, Drops DEF ConnectHelper, Opens, Free
  <2> QED
    BY <1>2, <2>1, <2>2 DEF ConnectHelper
<1>3. CASE UNCHANGED <<kind, owned, lost>>
  BY <1>1, <1>3, TableUntouched
<1> QED
  BY <1>2, <1>3 DEF NetCall, UtilCall, tcp_server, accept, readn, writen, fd_limit, tempfd,
     handle_term, table

LEMMA InitTable == Init => TableInv
<1> SUFFICES ASSUME Init PROVE TableInv
  OBVIOUS
<1>1. ServerFd = -1
  BY DEF Init, ServerFd, InCall, Idle
<1>2. kind = [fd \in Fds |-> IF fd \in Std THEN "std" ELSE "free"] /\ owned = {} /\ lost = {}
  BY DEF Init
<1>3. Std \subseteq Fds
  BY TableAssumption DEF Fds
<1> HIDE DEF ServerFd
<1> QED BY <1>1, <1>2, <1>3 DEF TableInv

LEMMA NextTable == Types /\ TableInv /\ [Next]_vars => TableInv'
<1> SUFFICES ASSUME Types, TableInv, [Next]_vars PROVE TableInv'
  OBVIOUS
<1>1. CASE NetStep \/ UtilStep
  BY <1>1, StepTable
<1>2. CASE NetCall \/ UtilCall
  BY <1>2, CallTable
<1>3. ASSUME NEW fd \in Fds, UserClose(fd) PROVE TableInv'
  <2>1. call = Idle /\ call' = Idle
    BY <1>3 DEF UserClose
  <2>2. ServerFd = -1 /\ ServerFd' = -1
    BY <2>1 DEF ServerFd, InCall, Idle
  <2> QED
    BY <1>3, <2>2, CallerCloses DEF UserClose
<1>4. CASE UNCHANGED <<kind, owned, lost, call>>
  BY <1>4, TableUntouched DEF ServerFd, InCall
<1> QED
  BY <1>1, <1>2, <1>3, <1>4 DEF Next, Begin, Continue, sig_term_handler, vars, table

-----------------------------------------------------------------------------
(* The limit *)

\* The limit does not move under a call of fd_limit.
LimitInv == InCall("fd_limit") => call.oldlimit = rlim.cur

LEMMA NextLimit ==
    ASSUME Types, LimitInv, [Next]_vars
    PROVE  /\ LimitInv'
           /\ rlim'.cur >= rlim.cur
           /\ InCall("fd_limit") /\ call' = Idle => result' = rlim'.cur
<1>1. CASE SetLimit
  <2>1. call \in LimitCall /\ call.oldlimit = rlim.cur /\ call.f > call.oldlimit
    BY <1>1, CallCases DEF Types, LimitInv, SetLimit
  <2>2. rlim.cur \in Nat /\ call.f \in Nat
    BY <2>1 DEF Types, LimitCall
  <2>3. CASE call.f <= rlim.max
    BY <1>1, <2>1, <2>2, <2>3 DEF SetLimit, Returns, LimitInv, InCall, Idle
  <2>4. CASE ~(call.f <= rlim.max)
    <3>1. rlim' = rlim /\ call' = [call EXCEPT !.f = (@ - FdStep) % RlimWidth]
      BY <1>1, <2>4 DEF SetLimit
    <3>2. call'.oldlimit = call.oldlimit /\ call'.op = "fd_limit"
      BY <2>1, <3>1 DEF LimitCall
    <3> QED BY <2>1, <2>2, <3>1, <3>2 DEF LimitInv, Idle
  <2> QED BY <2>3, <2>4
<1>2. CASE LimitUnreached
  <2>1. call.oldlimit = rlim.cur /\ rlim.cur \in Nat
    BY <1>2 DEF LimitUnreached, LimitInv, Types
  <2> QED BY <1>2, <2>1 DEF LimitUnreached, Returns, LimitInv, InCall, Idle
<1>3. rlim.cur \in Nat
  BY DEF Types
<1>4. ASSUME NEW n \in Limits, fd_limit(n)
      PROVE  rlim' = rlim /\ LimitInv' /\ ~InCall("fd_limit")
  BY <1>4 DEF fd_limit, MayCall, Begins, Returns, LimitInv, InCall, Idle
<1>5. ASSUME rlim' = rlim, ~InCall("fd_limit"), call' = Idle \/ call'.op # "fd_limit"
      PROVE  LimitInv' /\ ~InCall("fd_limit")
  BY <1>5 DEF LimitInv, InCall, Idle
<1>6. CASE ServerStep \/ AcceptStep \/ ReadStep \/ WriteStep \/ Interrupted \/ TempStep
           \/ HandleTermInstalls
  <2>1. rlim' = rlim
    BY <1>6 DEF ServerStep, AcceptStep, ReadStep, WriteStep, TempStep, ServerSocketFails,
       ListenFails, Listens, AcceptFails, ServerSocket, Accepts, Interrupted, ReadEof, ReadFails,
       WriteFails, Read, Write, TempExists, TempFails, TempOpens, HandleTermInstalls
  <2>2. ~InCall("fd_limit") /\ (call' = Idle \/ call'.op # "fd_limit")
    BY <1>6, StepCall DEF GoesOn, InCall, ServerCall, AcceptCall, ReadCall, WriteCall, TempCall,
       TermCall
  <2> QED BY <1>3, <1>5, <2>1, <2>2
<1>7. CASE NetCall \/ \E template \in BOOLEAN : tempfd(template)
  BY <1>3, <1>5, <1>7 DEF NetCall, tcp_server, ConnectHelper, accept, readn, writen, tempfd,
     MayCall, Begins, Returns, InCall, Idle
<1>8. ASSUME NEW k \in Terms, handle_term(k)
      PROVE  rlim' = rlim /\ LimitInv' /\ ~InCall("fd_limit")
  BY <1>5, <1>8 DEF handle_term, MayCall, Begins, InCall, Idle
<1>9. CASE UNCHANGED <<rlim, call>>
  BY <1>3, <1>9 DEF LimitInv, InCall, Idle
<1> QED
  BY <1>1, <1>2, <1>3, <1>4, <1>6, <1>7, <1>8, <1>9, Steps
  DEF Next, Begin, Continue, UtilCall, LimitStep, sig_term_handler, UserClose, vars

-----------------------------------------------------------------------------
(* The callback for signals *)

\* With one callback, the handler is installed after both the callback and its datum
\* are stored.
TermInv ==
    /\ term \in [cb : Terms \union {NULL}, ud : Terms \union {NULL}, installed : BOOLEAN]
    /\ term.installed => term.cb \in Terms /\ term.ud \in Terms
    /\ InCall("handle_term") => term.cb \in Terms
    /\ TermPaired

LEMMA InitTerm == Init => TermInv
BY DEF Init, UtilInit, TermInv, TermPaired, InCall, Idle

LEMMA NextTerm ==
    ASSUME \A j, k \in Terms : j = k, Types, TermInv, [Next]_vars
    PROVE  TermInv'
<1>1. ASSUME NEW k \in Terms, handle_term(k) PROVE TermInv'
  <2>1. [term EXCEPT !.cb = k] \in
            [cb : Terms \union {NULL}, ud : Terms \union {NULL}, installed : BOOLEAN]
    BY DEF TermInv
  <2>2. term' = [term EXCEPT !.cb = k] /\ signalled' = signalled
    BY <1>1 DEF handle_term
  <2>3. term'.cb = k /\ term'.ud = term.ud /\ term'.installed = term.installed
    BY <2>2 DEF TermInv
  <2> QED BY <2>1, <2>2, <2>3 DEF TermInv, TermPaired
<1>2. CASE HandleTermInstalls
  <2>1. call.ud \in Terms /\ term.cb \in Terms
    BY <1>2, CallCases DEF HandleTermInstalls, Types, TermCall, TermInv
  <2>2. [term EXCEPT !.ud = call.ud, !.installed = TRUE] \in
            [cb : Terms \union {NULL}, ud : Terms \union {NULL}, installed : BOOLEAN]
    BY <2>1 DEF TermInv
  <2>3. term' = [term EXCEPT !.ud = call.ud, !.installed = TRUE] /\ signalled' = signalled
    BY <1>2 DEF HandleTermInstalls
  <2>4. term'.cb = term.cb /\ term'.ud = call.ud
    BY <2>3 DEF TermInv
  <2> QED BY <2>1, <2>2, <2>3, <2>4 DEF TermInv, TermPaired
<1>3. CASE sig_term_handler
  <2>1. term.cb \in Terms /\ term.ud \in Terms
    BY <1>3 DEF sig_term_handler, TermInv
  <2> QED BY <1>3, <2>1 DEF sig_term_handler, TermInv, TermPaired, InCall
<1>4. ASSUME UNCHANGED utilVars, call'.op # "handle_term" \/ call' = call PROVE TermInv'
  BY <1>4 DEF TermInv, TermPaired, InCall, utilVars
<1>5. CASE NetStep /\ UNCHANGED utilVars
  <2>1. call'.op # "handle_term"
    BY <1>5, Steps, StepCall DEF GoesOn, Idle, ServerCall, AcceptCall, ReadCall, WriteCall
  <2> QED BY <1>4, <1>5, <2>1
<1>6. CASE LimitStep \/ TempStep
  <2>1. call'.op # "handle_term"
    BY <1>6, StepCall DEF GoesOn, Idle, LimitCall, TempCall
  <2>2. UNCHANGED utilVars
    BY <1>6 DEF LimitStep, TempStep, SetLimit, LimitUnreached, TempExists, TempFails, TempOpens
  <2> QED BY <1>4, <2>1, <2>2
<1>7. CASE NetCall /\ UNCHANGED utilVars
  <2>1. call'.op # "handle_term"
    BY <1>7 DEF NetCall, tcp_server, ConnectHelper, accept, readn, writen, Begins, Returns, Idle
  <2> QED BY <1>4, <1>7, <2>1
<1>8. CASE (\E n \in Limits : fd_limit(n)) \/ \E template \in BOOLEAN : tempfd(template)
  <2>1. call'.op # "handle_term" /\ UNCHANGED utilVars
    BY <1>8 DEF fd_limit, tempfd, Begins, Returns, Idle
  <2> QED BY <1>4, <2>1
<1>9. CASE UNCHANGED <<utilVars, call>>
  BY <1>4, <1>9
<1> QED
  BY <1>1, <1>2, <1>3, <1>5, <1>6, <1>7, <1>8, <1>9, Steps
  DEF Next, Begin, Continue, UtilCall, UserClose, vars

-----------------------------------------------------------------------------
(* readn *)

InProgress == IF InCall("readn") THEN call.buf ELSE <<>>

ReadInv == taken \in Seq(Byte) /\ ReadnExact

\* Concatenation under a name, so that the facts about it can be instantiated.
Cat(s, t) == s \o t
Before(q, n) == SubSeq(q, 1, n)
After(q, n) == SubSeq(q, n + 1, Len(q))

LEMMA CatType ==
    ASSUME NEW s \in Seq(Byte), NEW t \in Seq(Byte)
    PROVE  Cat(s, t) \in Seq(Byte)
BY DEF Cat

LEMMA CatAssociative ==
    ASSUME NEW s \in Seq(Byte), NEW t \in Seq(Byte), NEW u \in Seq(Byte)
    PROVE  Cat(Cat(s, t), u) = Cat(s, Cat(t, u))
<1> DEFINE x == (s \o t) \o u
           y == s \o (t \o u)
<1>1. x \in Seq(Byte) /\ y \in Seq(Byte) /\ Len(x) = Len(y)
  OBVIOUS
<1>2. ASSUME NEW i \in 1 .. Len(x) PROVE x[i] = y[i]
  OBVIOUS
<1> HIDE DEF x, y
<1>3. x = y
  BY <1>1, <1>2, SeqEqual
<1> QED BY <1>3 DEF x, y, Cat

LEMMA CatParts ==
    ASSUME NEW q \in Seq(Byte), NEW n \in 1 .. Len(q)
    PROVE  /\ Before(q, n) \in Seq(Byte) /\ After(q, n) \in Seq(Byte)
           /\ Cat(Before(q, n), After(q, n)) = q
<1> DEFINE h == SubSeq(q, 1, n)
           r == SubSeq(q, n + 1, Len(q))
<1>1. h \in Seq(Byte) /\ r \in Seq(Byte)
  OBVIOUS
<1>2. /\ Len(h) = n /\ \A i \in 1 .. n : h[i] = q[i]
      /\ Len(r) = Len(q) - n /\ \A i \in 1 .. Len(q) - n : r[i] = q[n + i]
  OBVIOUS
<1>3. Len(h \o r) = Len(q) /\ h \o r \in Seq(Byte)
  BY <1>1, <1>2
<1>4. \A i \in 1 .. Len(q) : (h \o r)[i] = q[i]
  BY <1>1, <1>2
<1>5. h \o r = q
  BY <1>3, <1>4, SeqEqual
<1> QED BY <1>1, <1>5 DEF Cat, Before, After

\* Bytes that move from the front of the input to the end of what was read.
LEMMA Moves ==
    ASSUME NEW t \in Seq(Byte), NEW b \in Seq(Byte), NEW q \in Seq(Byte),
           NEW n \in 1 .. Len(q)
    PROVE  /\ Cat(b, Before(q, n)) \in Seq(Byte)
           /\ Cat(Cat(t, Cat(b, Before(q, n))), After(q, n)) = Cat(Cat(t, b), q)
<1> DEFINE h == Before(q, n)
           r == After(q, n)
<1>1. h \in Seq(Byte) /\ r \in Seq(Byte) /\ Cat(h, r) = q
  BY CatParts
<1> HIDE DEF h, r
<1>2. Cat(b, h) \in Seq(Byte) /\ Cat(t, b) \in Seq(Byte)
  BY <1>1, CatType
<1>3. Cat(t, Cat(b, h)) = Cat(Cat(t, b), h)
  BY <1>1, CatAssociative
<1>4. Cat(Cat(Cat(t, b), h), r) = Cat(Cat(t, b), Cat(h, r))
  BY <1>1, <1>2, CatAssociative
<1> QED BY <1>1, <1>2, <1>3, <1>4 DEF h, r

LEMMA NextRead ==
    ASSUME Types, ReadInv, [Next]_vars
    PROVE  ReadInv'
<1>1. ASSUME NEW n \in 1 .. Len(Input), Read(n) PROVE ReadInv'
  <2>1. call \in ReadCall /\ call.op = "readn"
    BY <1>1, CallCases DEF Types, Read, InCall
  <2>2. inq \in Seq(Byte) /\ n \in 1 .. Len(inq) /\ call.buf \in Seq(Byte) /\ taken \in Seq(Byte)
    BY <1>1, <2>1, NetAssumption DEF Types, Read, ReadCall, ReadInv
  <2> DEFINE buf == Cat(call.buf, Before(inq, n))
             rest == After(inq, n)
  <2>3. inq' = rest /\ torn' = torn
    BY <1>1 DEF Read, After
  <2>4. buf \in Seq(Byte) /\ Cat(Cat(taken, buf), rest) = Cat(Cat(taken, call.buf), inq)
    BY <2>2, Moves
  <2> HIDE DEF buf, rest
  <2>5. taken \o buf \o rest = taken \o call.buf \o inq
    BY <2>4 DEF Cat
  <2>6. buf \in Seq(Byte) /\ taken \o buf \in Seq(Byte)
    BY <2>2, <2>4
  <2>7. "readn" \notin torn => taken \o buf \o rest = Input
    BY <2>1, <2>5 DEF ReadInv, ReadnExact, InCall
  <2>8. CASE call' = Idle /\ taken' = taken \o buf
    <3>1. (taken \o buf) \o <<>> = taken \o buf
      BY <2>6, ConcatEmptySeq
    <3> QED BY <2>3, <2>6, <2>7, <2>8, <3>1 DEF ReadInv, ReadnExact, InCall, Idle
  <2>9. CASE call' = [call EXCEPT !.buf = buf] /\ taken' = taken
    <3>1. call'.buf = buf /\ call'.op = "readn"
      BY <2>1, <2>9 DEF ReadCall
    <3> QED BY <2>2, <2>3, <2>7, <2>9, <3>1 DEF ReadInv, ReadnExact, InCall
  <2> QED BY <1>1, <2>8, <2>9 DEF Read, ReadnReturns, Returns, buf, Cat, Before
<1>2. CASE ReadEof
  <2>1. call \in ReadCall /\ call.op = "readn"
    BY <1>2, CallCases DEF Types, ReadEof, InCall
  <2>2. call.buf \in Seq(Byte) /\ taken \in Seq(Byte)
    BY <2>1 DEF ReadCall, ReadInv
  <2>3. /\ call' = Idle /\ taken' = taken \o call.buf /\ inq' = inq /\ torn' = torn
    BY <1>2 DEF ReadEof, ReadnReturns, Returns
  <2>4. taken \o call.buf \in Seq(Byte) /\ (taken \o call.buf) \o <<>> = taken \o call.buf
    BY <2>2, ConcatEmptySeq
  <2> QED BY <2>1, <2>3, <2>4 DEF ReadInv, ReadnExact, InCall, Idle
<1>3. CASE ReadFails
  <2>1. call.buf = <<>> \/ "readn" \in torn'
    BY <1>3 DEF ReadFails
  <2>2. call' = Idle /\ taken' = taken /\ inq' = inq
    BY <1>3 DEF ReadFails, Returns
  <2>3. call.op = "readn" /\ ("readn" \in torn => "readn" \in torn')
    BY <1>3 DEF ReadFails, InCall
  <2> QED BY <2>1, <2>2, <2>3 DEF ReadInv, ReadnExact, InCall, Idle
<1>4. ASSUME taken' = taken, inq' = inq, "readn" \in torn => "readn" \in torn', 
             InProgress' = InProgress
      PROVE  ReadInv'
  BY <1>4 DEF ReadInv, ReadnExact, InProgress
<1>5. CASE Interrupted
  <2>1. call.op = "readn" => call \in ReadCall
    BY CallCases DEF Types, InCall
  <2>2. call.op = "readn" => call'.op = "readn" /\ call'.buf = call.buf
    BY <1>5, <2>1 DEF Interrupted, ReadCall
  <2>3. call.op # "readn" => call'.op # "readn"
    BY <1>5, StepCall DEF GoesOn, AcceptCall, WriteCall, Idle
  <2> QED BY <1>4, <1>5, <2>2, <2>3 DEF Interrupted, data, InProgress, InCall
<1>6. ASSUME NEW sz \in Sizes, readn(sz) PROVE ReadInv'
  <2>1. InProgress = <<>> /\ InProgress' = <<>>
    BY <1>6 DEF InProgress, InCall, readn, MayCall, Begins, Idle
  <2> QED BY <1>4, <1>6, <2>1 DEF readn, data
<1>7. CASE ServerStep \/ AcceptStep \/ WriteStep
  <2>1. call.op # "readn" /\ call'.op # "readn"
    BY <1>7, StepCall DEF GoesOn, ServerCall, AcceptCall, WriteCall, Idle
  <2>2. taken' = taken /\ inq' = inq /\ ("readn" \in torn => "readn" \in torn')
    BY <1>7 DEF ServerStep, AcceptStep, WriteStep, ServerSocketFails, ListenFails, Listens,
       ServerSocket, AcceptFails, Accepts, WriteFails, Write, data
  <2> QED BY <1>4, <2>1, <2>2 DEF InProgress, InCall
<1>8. CASE UtilStep /\ UNCHANGED data
  <2>1. call.op # "readn" /\ call'.op # "readn"
    BY <1>8, Steps, StepCall DEF GoesOn, LimitCall, TempCall, TermCall, Idle
  <2> QED BY <1>4, <1>8, <2>1 DEF InProgress, InCall, data
<1>9. CASE UtilCall /\ UNCHANGED data
  <2>1. call.op # "readn" /\ call'.op # "readn"
    BY <1>9 DEF UtilCall, fd_limit, tempfd, handle_term, MayCall, Begins, Returns, Idle
  <2> QED BY <1>4, <1>9, <2>1 DEF InProgress, InCall, data
<1>10. CASE \/ \E n \in 0 .. MaxAddrs : tcp_server(n)
            \/ \E op \in {"tcp_connect", "unix_connect", "unix_server"} : ConnectHelper(op)
            \/ \E fd \in Fds : accept(fd)
            \/ \E s \in Chunks : writen(s)
  <2>1. call.op # "readn" /\ call'.op # "readn" /\ UNCHANGED data
    BY <1>10 DEF tcp_server, ConnectHelper, accept, writen, MayCall, Begins, Returns, Idle
  <2> QED BY <1>4, <2>1 DEF InProgress, InCall, data
<1>11. CASE UNCHANGED <<data, call>>
  BY <1>4, <1>11 DEF InProgress, InCall, data
<1> QED
  BY <1>1, <1>2, <1>3, <1>5, <1>6, <1>7, <1>8, <1>9, <1>10, <1>11, Steps
  DEF Next, Begin, Continue, NetCall, ReadStep, UserClose, sig_term_handler, vars

LEMMA InitRead == Init => ReadInv
<1> SUFFICES ASSUME Init PROVE ReadInv
  OBVIOUS
<1>1. Input \in Seq(Byte) /\ taken = <<>> /\ inq = Input /\ InProgress = <<>>
  BY NetAssumption DEF Init, NetInit, InProgress, InCall, Idle
<1>2. (<<>> \o <<>>) \o Input = Input
  BY <1>1, ConcatEmptySeq
<1> QED BY <1>1, <1>2 DEF ReadInv, ReadnExact, InProgress

-----------------------------------------------------------------------------
(* writen *)

Sent == IF InCall("writen") THEN Before(call.s, call.done) ELSE <<>>

WriteInv ==
    /\ written \in Seq(Byte) /\ sink \in Seq(Byte)
    /\ InCall("writen") => call.done <= Len(call.s)
    /\ "writen" \notin torn => sink = Cat(written, Sent)

Slice(s, d, n) == SubSeq(s, d + 1, d + n)

\* The next n bytes after the d that were sent.
LEMMA Grows ==
    ASSUME NEW s \in Seq(Byte), NEW d \in 0 .. Len(s), NEW n \in 1 .. Len(s) - d
    PROVE  /\ Before(s, d) \in Seq(Byte) /\ Slice(s, d, n) \in Seq(Byte)
           /\ Cat(Before(s, d), Slice(s, d, n)) = Before(s, d + n)
<1> DEFINE h == SubSeq(s, 1, d)
           r == SubSeq(s, d + 1, d + n)
           w == SubSeq(s, 1, d + n)
<1>0. d \in Nat /\ n \in Nat
  OBVIOUS
<1>1. h \in Seq(Byte) /\ r \in Seq(Byte) /\ w \in Seq(Byte)
  OBVIOUS
<1>2. /\ Len(h) = d /\ \A i \in 1 .. d : h[i] = s[i]
      /\ Len(r) = n /\ \A i \in 1 .. n : r[i] = s[d + i]
      /\ Len(w) = d + n /\ \A i \in 1 .. d + n : w[i] = s[i]
  OBVIOUS
<1> HIDE DEF h, r, w
<1>3. Len(h \o r) = Len(w) /\ h \o r \in Seq(Byte)
  BY <1>1, <1>2
<1>4. ASSUME NEW i \in 1 .. Len(h \o r) PROVE (h \o r)[i] = w[i]
  <2>1. i \in 1 .. d + n /\ i \in Nat
    BY <1>0, <1>2, <1>3
  <2>2. w[i] = s[i]
    BY <1>2, <2>1
  <2>3. CASE i <= d
    <3>1. i \in 1 .. d
      BY <1>0, <2>1, <2>3
    <3>2. (h \o r)[i] = h[i]
      BY <1>1, <1>2, <3>1
    <3> QED BY <1>2, <2>2, <3>1, <3>2
  <2>4. CASE i > d
    <3>1. i - d \in 1 .. n /\ d + (i - d) = i
      BY <1>0, <2>1, <2>4
    <3>2. (h \o r)[i] = r[i - d]
      <4>1. i \in (Len(h) + 1) .. (Len(h) + Len(r))
        BY <1>0, <1>2, <2>1, <2>4
      <4>2. (h \o r)[i] = IF i <= Len(h) THEN h[i] ELSE r[i - Len(h)]
        BY <1>1, <4>1, <2>1, ConcatProperties
      <4> QED BY <1>0, <1>2, <2>1, <2>4, <4>2
    <3>3. r[i - d] = s[d + (i - d)]
      BY <1>2, <3>1
    <3> QED BY <2>2, <3>1, <3>2, <3>3
  <2> QED BY <1>0, <2>1, <2>3, <2>4
<1>5. h \o r = w
  BY <1>1, <1>3, <1>4, SeqEqual
<1> QED BY <1>1, <1>5 DEF Cat, Before, Slice, h, r, w

LEMMA BeforeEnds ==
    ASSUME NEW s \in Seq(Byte)
    PROVE  Before(s, 0) = <<>> /\ Before(s, Len(s)) = s
BY SubSeqFull, SubSeqEmpty DEF Before

LEMMA CatEmpty ==
    ASSUME NEW s \in Seq(Byte)
    PROVE  Cat(s, <<>>) = s
BY ConcatEmptySeq DEF Cat

LEMMA InitWrite == Init => WriteInv
<1> SUFFICES ASSUME Init PROVE WriteInv
  OBVIOUS
<1>1. written = <<>> /\ sink = <<>> /\ Sent = <<>> /\ ~InCall("writen")
  BY DEF Init, NetInit, Sent, InCall, Idle
<1>2. <<>> \in Seq(Byte)
  OBVIOUS
<1>3. Cat(written, <<>>) = written
  BY <1>1, <1>2, CatEmpty, Zenon
<1> QED BY <1>1, <1>2, <1>3 DEF WriteInv

LEMMA NextWrite ==
    ASSUME Types, WriteInv, [Next]_vars
    PROVE  WriteInv'
<1>1. ASSUME NEW n \in 1 .. MaxSink, Write(n) PROVE WriteInv'
  <2>1. call \in WriteCall /\ call.op = "writen"
    BY <1>1, CallCases DEF Types, Write, InCall
  <2> DEFINE s == call.s
             d == call.done
  <2>2. /\ s \in Seq(Byte) /\ d \in 0 .. Len(s) /\ n \in 1 .. Len(s) - d
        /\ written \in Seq(Byte) /\ sink \in Seq(Byte)
    BY <1>1, <2>1, NetAssumption DEF WriteCall, WriteInv, Write, InCall
  <2>3. sink' = Cat(sink, Slice(s, d, n)) /\ torn' = torn
    BY <1>1 DEF Write, Cat, Slice
  <2>4. "writen" \notin torn => sink = Cat(written, Before(s, d))
    BY <2>1 DEF WriteInv, Sent, InCall
  <2>5. \/ call' = Idle /\ written' = Cat(written, s) /\ n = Len(s) - d
        \/ call' = [call EXCEPT !.done = @ + n] /\ written' = written
    BY <1>1 DEF Write, Returns, Cat
  <2>6. /\ Before(s, d) \in Seq(Byte) /\ Slice(s, d, n) \in Seq(Byte)
        /\ Cat(Before(s, d), Slice(s, d, n)) = Before(s, d + n)
    BY <2>2, Grows
  <2>7. sink' \in Seq(Byte) /\ Cat(written, s) \in Seq(Byte)
    BY <2>2, <2>3, <2>6, CatType
  <2>8. "writen" \notin torn => sink' = Cat(written, Before(s, d + n))
    BY <2>2, <2>3, <2>4, <2>6, CatAssociative
  <2>9. CASE call' = Idle /\ written' = Cat(written, s) /\ n = Len(s) - d
    <3>1. Before(s, d + n) = s
      BY <2>2, <2>9, BeforeEnds
    <3>2. Cat(written', <<>>) = written'
      BY <2>7, <2>9, CatEmpty
    <3>3. ~InCall("writen")' /\ Sent' = <<>>
      BY <2>9 DEF InCall, Idle, Sent
    <3> QED BY <2>3, <2>7, <2>8, <2>9, <3>1, <3>2, <3>3 DEF WriteInv
  <2>10. CASE call' = [call EXCEPT !.done = @ + n] /\ written' = written
    <3>1. call'.op = "writen" /\ call'.s = s /\ call'.done = d + n
      BY <2>1, <2>10 DEF WriteCall
    <3>2. Sent' = Before(s, d + n)
      BY <3>1 DEF Sent, InCall
    <3>3. call'.done <= Len(call'.s)
      BY <2>2, <3>1
    <3> QED BY <2>2, <2>3, <2>7, <2>8, <2>10, <3>2, <3>3 DEF WriteInv
  <2> QED BY <2>5, <2>9, <2>10
<1>2. ASSUME UNCHANGED <<written, sink>>, "writen" \in torn => "writen" \in torn',
             Sent' = Sent \/ "writen" \in torn',
             call'.op # "writen" \/ (call'.s = call.s /\ call'.done = call.done /\ call.op = "writen")
      PROVE  WriteInv'
  BY <1>2 DEF WriteInv, InCall
<1>3. CASE WriteFails
  <2>1. call \in WriteCall /\ call.op = "writen" /\ call'.op # "writen"
    BY <1>3, CallCases DEF Types, WriteFails, InCall, Returns, Idle
  <2>2. call.done = 0 => Sent = <<>>
    BY <2>1, BeforeEnds DEF Sent, InCall, WriteCall
  <2>3. Sent' = <<>>
    BY <2>1 DEF Sent, InCall
  <2>4. /\ UNCHANGED <<written, sink>> /\ ("writen" \in torn => "writen" \in torn')
        /\ call.done = 0 \/ "writen" \in torn'
    BY <1>3 DEF WriteFails
  <2> QED BY <1>2, <2>1, <2>2, <2>3, <2>4
<1>4. CASE Interrupted
  <2>1. call.op = "writen" => call \in WriteCall
    BY CallCases DEF Types, InCall
  <2>2. call.op = "writen" => call'.op = "writen" /\ call'.s = call.s /\ call'.done = call.done
    BY <1>4, <2>1 DEF Interrupted, WriteCall
  <2>3. call.op # "writen" => call'.op # "writen"
    BY <1>4, StepCall DEF GoesOn, AcceptCall, ReadCall, Idle
  <2>4. Sent' = Sent
    BY <2>2, <2>3 DEF Sent, InCall
  <2> QED BY <1>2, <1>4, <2>2, <2>3, <2>4 DEF Interrupted, data
<1>5. ASSUME NEW s \in Chunks, writen(s) PROVE WriteInv'
  <2>1. s \in Seq(Byte)
    BY NetAssumption
  <2>2. call.op # "writen" /\ call'.op = "writen" /\ call'.s = s /\ call'.done = 0
    BY <1>5 DEF writen, MayCall, Begins, Idle
  <2>3. Sent = <<>> /\ Sent' = <<>>
    BY <2>1, <2>2, BeforeEnds DEF Sent, InCall
  <2>4. call'.done <= Len(call'.s)
    BY <2>1, <2>2
  <2> QED BY <1>5, <2>3, <2>4 DEF writen, data, WriteInv
<1>6. ASSUME UNCHANGED <<written, sink>>, "writen" \in torn => "writen" \in torn',
             call.op # "writen", call'.op # "writen"
      PROVE  WriteInv'
  BY <1>2, <1>6 DEF Sent, InCall
<1>7. CASE ServerStep \/ AcceptStep \/ ReadStep
  <2>1. call.op # "writen" /\ call'.op # "writen"
    BY <1>7, StepCall DEF GoesOn, ServerCall, AcceptCall, ReadCall, Idle
  <2>2. UNCHANGED <<written, sink>> /\ ("writen" \in torn => "writen" \in torn')
    BY <1>7 DEF ServerStep, AcceptStep, ReadStep, ServerSocketFails, ListenFails, Listens,
       ServerSocket, AcceptFails, Accepts, ReadEof, ReadFails, Read, data
  <2> QED BY <1>6, <2>1, <2>2
<1>8. CASE UtilStep /\ UNCHANGED data
  <2>1. call.op # "writen" /\ call'.op # "writen"
    BY <1>8, Steps, StepCall DEF GoesOn, LimitCall, TempCall, TermCall, Idle
  <2> QED BY <1>6, <1>8, <2>1 DEF data
<1>9. CASE UtilCall /\ UNCHANGED data
  <2>1. call.op # "writen" /\ call'.op # "writen"
    BY <1>9 DEF UtilCall, fd_limit, tempfd, handle_term, MayCall, Begins, Returns, Idle
  <2> QED BY <1>6, <1>9, <2>1 DEF data
<1>10. CASE \/ \E n \in 0 .. MaxAddrs : tcp_server(n)
            \/ \E op \in {"tcp_connect", "unix_connect", "unix_server"} : ConnectHelper(op)
            \/ \E fd \in Fds : accept(fd)
            \/ \E sz \in Sizes : readn(sz)
  <2>1. call.op # "writen" /\ call'.op # "writen" /\ UNCHANGED data
    BY <1>10 DEF tcp_server, ConnectHelper, accept, readn, MayCall, Begins, Returns, Idle
  <2> QED BY <1>6, <2>1 DEF data
<1>11. CASE UNCHANGED <<data, call>>
  BY <1>11 DEF WriteInv, Sent, InCall, data
<1> QED
  BY <1>1, <1>3, <1>4, <1>5, <1>7, <1>8, <1>9, <1>10, <1>11, Steps
  DEF Next, Begin, Continue, NetCall, WriteStep, UserClose, sig_term_handler, vars

-----------------------------------------------------------------------------
IInv == Types /\ TableInv /\ LimitInv /\ ReadInv /\ WriteInv

LEMMA Invariance == Spec => []IInv
<1>1. Init => IInv
  BY InitTypes, InitTable, InitRead, InitWrite DEF IInv, Init, LimitInv, InCall, Idle
<1>2. IInv /\ [Next]_vars => IInv'
  BY NextTypes, NextTable, NextLimit, NextRead, NextWrite DEF IInv
<1> HIDE DEF IInv, Init, Next
<1> QED
  BY <1>1, <1>2, PTL DEF Spec

\* Whatever fails, a descriptor the caller was given stays open on what it was given
\* for until the caller closes it (net.c:62-74, 190-206, 223-232, util.c:116-126).
THEOREM OwnedOpen == Spec => []OwnedIsOpen
<1>1. IInv => OwnedIsOpen
  BY DEF IInv, TableInv, OwnedIsOpen
<1> HIDE DEF IInv
<1> QED
  BY <1>1, Invariance, PTL

\* With descriptor 0 open from the start, no error path of tcp_server, accept or tempfd
\* leaves a descriptor behind (net.c:62-74, 190-206, util.c:116-126).
THEOREM NoneLeftBehind ==
    ASSUME 0 \in Std
    PROVE  Spec => []DescriptorsAccounted
<1>1. IInv => DescriptorsAccounted
  BY TableAssumption DEF IInv, TableInv, DescriptorsAccounted, ServerFd, Fds
<1> HIDE DEF IInv
<1> QED
  BY <1>1, Invariance, PTL

\* readn loses, repeats and reorders no byte, for any input and any way read cuts it
\* (net.c:130-142).
THEOREM ReadnDelivers == Spec => []ReadnExact
<1>1. IInv => ReadnExact
  BY DEF IInv, ReadInv
<1> HIDE DEF IInv
<1> QED
  BY <1>1, Invariance, PTL

\* writen sends every byte once and in order, for any way write cuts it (net.c:144-156).
THEOREM WritenDelivers == Spec => []WritenExact
<1>1. IInv => WritenExact
  BY DEF IInv, WriteInv, WritenExact, Cat, Sent, Before
<1> HIDE DEF IInv
<1> QED
  BY <1>1, Invariance, PTL

\* fd_limit returns the soft limit in force, for any limits and any word size, whether
\* or not its subtraction wraps (util.c:61-71).
THEOREM LimitReturned == Spec => LimitHonest
<1>1. IInv /\ [Next]_vars =>
          [InCall("fd_limit") /\ call' = Idle => result' = rlim'.cur]_<<call, result, rlim>>
  BY NextLimit DEF IInv
<1> HIDE DEF IInv, Next, vars
<1> QED
  BY <1>1, Invariance, PTL DEF Spec, LimitHonest

\* fd_limit lowers the soft limit in no case (util.c:62-65).
THEOREM LimitOnlyRaised == Spec => LimitNotLowered
<1>1. IInv /\ [Next]_vars => [rlim'.cur >= rlim.cur]_rlim
  BY NextLimit DEF IInv
<1> HIDE DEF IInv, Next, vars
<1> QED
  BY <1>1, Invariance, PTL DEF Spec, LimitNotLowered

\* A process that gives handle_term one callback gets its own datum back with every
\* signal, also with one between the two assignments (util.c:193-206).
THEOREM OneCallbackPaired ==
    ASSUME \A j, k \in Terms : j = k
    PROVE  Spec => []TermPaired
<1>1. Init => Types /\ TermInv
  BY InitTypes, InitTerm
<1>2. Types /\ TermInv /\ [Next]_vars => Types' /\ TermInv'
  BY NextTypes, NextTerm
<1>3. TermInv => TermPaired
  BY DEF TermInv
<1> HIDE DEF Init, Types, TermInv, Next, TermPaired
<1> QED
  BY <1>1, <1>2, <1>3, PTL DEF Spec
=============================================================================
