-------------------------------- MODULE Util --------------------------------
(***************************************************************************)
(* fd_limit, tempfd and handle_term of util.c.  rlim_t is unsigned: its    *)
(* arithmetic wraps at RlimWidth.  setrlimit by an unprivileged process    *)
(* cannot raise the hard limit.                                            *)
(***************************************************************************)
EXTENDS Descriptors

CONSTANTS
    Limits,     \* the limits callers ask fd_limit for
    FdStep,     \* the 128 of fd_limit, which divides RlimWidth
    RlimWidth,  \* 2 ^ 64
    Retries,    \* the 100 of tempfd
    Terms,      \* the callbacks given to handle_term; each has a user datum of its own
    NULL

ASSUME UtilAssumption ==
    /\ FdStep \in Nat \ {0} /\ RlimWidth \in Nat \ {0} /\ RlimWidth % FdStep = 0
    /\ Limits \subseteq 1 .. RlimWidth - 1
    /\ Retries \in Nat
    /\ NULL \notin Terms

VARIABLES
    term,     \* _term_cb, the owner of _ud, and whether the handler is installed
    signalled \* history: the callback last called by a signal, and its user datum's owner

utilVars == <<term, signalled>>

UtilInit ==
    /\ term = [cb |-> NULL, ud |-> NULL, installed |-> FALSE]
    /\ signalled = [cb |-> NULL, ud |-> NULL]

-----------------------------------------------------------------------------
(* fd_limit *)

fd_limit(n) ==
    /\ MayCall("fd_limit")
    /\ IF rlim.cur < n
       THEN Begins([op |-> "fd_limit", f |-> n, oldlimit |-> rlim.cur])
       ELSE Returns(n)
    /\ UNCHANGED <<table, rlim, utilVars>>

\* Seeded fault: the loop goes on down past the old limit.
SetLimitBelow ==
    /\ InCall("fd_limit")
    /\ IF call.f <= rlim.max
       THEN rlim' = [cur |-> call.f, max |-> call.f] /\ Returns(call.f)
       ELSE /\ call' = [call EXCEPT !.f = (@ - FdStep) % RlimWidth]
            /\ UNCHANGED <<rlim, result>>
    /\ UNCHANGED <<table, utilVars>>

\* Seeded fault: the value that failed is tried again.
SetLimitAgain ==
    /\ InCall("fd_limit") /\ call.f > call.oldlimit
    /\ IF call.f <= rlim.max
       THEN rlim' = [cur |-> call.f, max |-> call.f] /\ Returns(call.f)
       ELSE UNCHANGED <<rlim, call, result>>
    /\ UNCHANGED <<table, utilVars>>

\* setrlimit to f for both limits; a smaller f is tried when it fails.
SetLimit ==
    /\ InCall("fd_limit") /\ call.f > call.oldlimit
    /\ IF call.f <= rlim.max
       THEN /\ rlim' = [cur |-> call.f, max |-> call.f]
            /\ Returns(call.f)
       ELSE /\ call' = [call EXCEPT !.f = (@ - FdStep) % RlimWidth]
            /\ UNCHANGED <<rlim, result>>
    /\ UNCHANGED <<table, utilVars>>

\* Seeded fault: the value that was tried last is returned.
LimitUnreachedReturnsF ==
    /\ InCall("fd_limit") /\ call.f <= call.oldlimit
    /\ Returns(call.f)
    /\ UNCHANGED <<table, rlim, utilVars>>

LimitUnreached ==
    /\ InCall("fd_limit") /\ call.f <= call.oldlimit
    /\ Returns(call.oldlimit)
    /\ UNCHANGED <<table, rlim, utilVars>>

-----------------------------------------------------------------------------
(* tempfd *)

\* template tells whether an X stands before the suffix.
tempfd(template) ==
    /\ MayCall("tempfd")
    /\ IF template THEN Begins([op |-> "tempfd", retries |-> Retries])
       ELSE Returns(-1)
    /\ UNCHANGED <<table, rlim, utilVars>>

TempRetry ==
    IF call.retries > 1 THEN call' = [call EXCEPT !.retries = @ - 1] /\ UNCHANGED result
    ELSE Returns(-1)

TempExists ==
    /\ InCall("tempfd")
    /\ TempRetry
    /\ UNCHANGED <<table, rlim, utilVars>>

TempFails ==
    /\ InCall("tempfd")
    /\ Returns(-1)
    /\ UNCHANGED <<table, rlim, utilVars>>

\* Descriptor 0 is taken for a failure; errno is what an earlier call left.
TempOpens(fd) ==
    /\ InCall("tempfd")
    /\ Opens(fd, "file")
    /\ \/ fd > 0 /\ Hands(fd)
       \/ fd = 0 /\ (TempRetry \/ Returns(-1)) /\ UNCHANGED owned
    /\ UNCHANGED <<lost, rlim, utilVars>>

-----------------------------------------------------------------------------
(* handle_term, and the handler it installs *)

\* Seeded fault: the handler is installed first.
HandleTermEarly(k) ==
    /\ MayCall("handle_term")
    /\ Begins([op |-> "handle_term", ud |-> k])
    /\ term' = [cb |-> k, ud |-> term.ud, installed |-> TRUE]
    /\ UNCHANGED <<table, rlim, signalled>>

handle_term(k) ==
    /\ MayCall("handle_term")
    /\ Begins([op |-> "handle_term", ud |-> k])
    /\ term' = [term EXCEPT !.cb = k]
    /\ UNCHANGED <<table, rlim, signalled>>

HandleTermInstalls ==
    /\ InCall("handle_term")
    /\ term' = [term EXCEPT !.ud = call.ud, !.installed = TRUE]
    /\ Returns(0)
    /\ UNCHANGED <<table, rlim, signalled>>

\* SIGTERM, SIGINT or SIGQUIT arrives, in the middle of a call too.
sig_term_handler ==
    /\ term.installed
    /\ signalled' = [cb |-> term.cb, ud |-> term.ud]
    /\ UNCHANGED <<table, rlim, call, result, term>>

-----------------------------------------------------------------------------
UtilCall ==
    \/ \E n \in Limits : fd_limit(n)
    \/ \E template \in BOOLEAN : tempfd(template)
    \/ \E k \in Terms : handle_term(k)

UtilStep ==
    \/ SetLimit \/ LimitUnreached
    \/ TempExists \/ TempFails \/ \E fd \in Fds : TempOpens(fd)
    \/ HandleTermInstalls

-----------------------------------------------------------------------------
(* Properties *)

\* When fd_limit has had to change the limit, what it returns is the soft limit then
\* in force, whether or not setrlimit let it have one (util.c:61-71).
LimitHonest == [][InCall("fd_limit") /\ call' = Idle => result' = rlim'.cur]_<<call, result, rlim>>

\* No call lowers the soft limit (util.c:62-65).
LimitNotLowered == [][rlim'.cur >= rlim.cur]_rlim

\* The callback of handle_term is called with the user datum that was given with it,
\* whenever the signal arrives (util.c:193-206).
TermPaired == signalled.cb = signalled.ud

\* No call lowers the hard limit, which cannot be raised again (util.c:64).
HardLimitKept == [][rlim'.max >= rlim.max]_rlim
=============================================================================
