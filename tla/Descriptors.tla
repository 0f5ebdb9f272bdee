---------------------------- MODULE Descriptors -----------------------------
(***************************************************************************)
(* The descriptor table of the process, and the call of net.c or util.c    *)
(* that its one caller is in.  A descriptor is opened at the lowest free   *)
(* number below the soft limit.  Histories record which descriptors were   *)
(* handed to the caller and which were dropped without being closed.       *)
(***************************************************************************)
EXTENDS Integers, Sequences

CONSTANTS
    MaxFd,   \* bound: the largest descriptor
    Std,     \* the standard descriptors that are open from the start
    Uses     \* the sets of operations that callers may keep to

ASSUME TableAssumption == MaxFd \in Nat /\ Std \subseteq 0 .. MaxFd

VARIABLES
    kind,    \* what each descriptor is open on, "free" if it is not open
    rlim,    \* RLIMIT_NOFILE: the soft limit cur and the hard limit max
    ops,     \* the operations this caller keeps to
    call,    \* the operation in progress and its locals
    result,  \* what the last operation returned, until another is called
    owned,   \* history: the descriptors returned to the caller and not closed by it
    lost     \* history: the descriptors a connecting helper opened and dropped

table == <<kind, owned, lost>>

Fds == 0 .. MaxFd
Idle == [op |-> "none"]

InCall(op) == call.op = op
MayCall(op) == call = Idle /\ op \in ops
Begins(c) == call' = c /\ result' = 0
Returns(ret) == call' = Idle /\ result' = ret
Hands(fd) == owned' = owned \union {fd} /\ Returns(fd)

Free == {fd \in Fds : kind[fd] = "free"}
Opens(fd, as) ==
    /\ fd \in Free /\ fd < rlim.cur /\ \A g \in Free : fd <= g
    /\ kind' = [kind EXCEPT ![fd] = as]

\* The caller closes a descriptor it was given.
UserClose(fd) ==
    /\ call = Idle
    /\ fd \in owned
    /\ kind' = [kind EXCEPT ![fd] = "free"]
    /\ owned' = owned \ {fd}
    /\ UNCHANGED <<rlim, call, result, lost>>
=============================================================================
