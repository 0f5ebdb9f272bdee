------------------------------ MODULE Process -------------------------------
(***************************************************************************)
(* A process whose one thread calls the helpers of net.c and util.c in any *)
(* order, over one descriptor table and one limit on it.                   *)
(***************************************************************************)
EXTENDS Net, Util

CONSTANT InitialLimits  \* the limits the process may be started with

ASSUME ProcessAssumption == InitialLimits \subseteq [cur : Nat, max : Nat]

vars == <<table, rlim, ops, call, result, data, utilVars>>

Init ==
    /\ kind = [fd \in Fds |-> IF fd \in Std THEN "std" ELSE "free"]
    /\ rlim \in InitialLimits
    /\ ops \in Uses /\ call = Idle /\ result = 0
    /\ owned = {} /\ lost = {}
    /\ NetInit /\ UtilInit

Continue ==
    /\ \/ NetStep /\ UNCHANGED utilVars
       \/ UtilStep /\ UNCHANGED data
    /\ UNCHANGED ops

Begin ==
    /\ \/ NetCall /\ UNCHANGED utilVars
       \/ (UtilCall \/ sig_term_handler) /\ UNCHANGED data
       \/ (\E fd \in Fds : UserClose(fd)) /\ UNCHANGED <<data, utilVars>>
    /\ UNCHANGED ops

Next == Begin \/ Continue

Spec == Init /\ [][Next]_vars

\* A system call that is made returns; callers need not call, signals need not come.
FairSpec == Spec /\ WF_vars(Continue)

-----------------------------------------------------------------------------
(* Properties *)

\* A descriptor that was returned to the caller is open on what it was returned for
\* until the caller closes it: no error path returns a closed or half-made one, or
\* closes one of the caller's (net.c:62-74, 190-206, 223-232, util.c:116-126).
OwnedIsOpen == \A fd \in owned : kind[fd] \in {"listen", "conn", "file"}

\* Every open descriptor is a standard one, the caller's, that of a tcp_server in
\* progress, or one of those the connecting helpers drop: the error paths of
\* tcp_server, accept and tempfd leave none behind (net.c:62-74, 190-206).
DescriptorsAccounted ==
    \A fd \in Fds : kind[fd] # "free" =>
        fd \in Std \union owned \union lost \/ (InCall("tcp_server") /\ call.fd = fd)

\* No descriptor is dropped without being closed (net.c:36-47, 89-99).
NothingLost == lost = {}

\* Every call returns: the loops over addresses, transfers, limits and names end
\* (net.c:89, 133, 147, 190, 223, util.c:62, 116).
CallsEnd == call # Idle ~> call = Idle
=============================================================================
