----------------------------- MODULE RWLockAbs -----------------------------
(***************************************************************************)
(* What a readers-writer lock promises its callers: the set of threads     *)
(* that hold it for reading and the set that hold it for writing, changed  *)
(* by atomic acquisitions and releases.                                    *)
(***************************************************************************)
CONSTANT Threads

VARIABLES readers, writers

absVars == <<readers, writers>>

AbsInit == readers = {} /\ writers = {}

AcquireRead(t) ==
    /\ t \notin readers \union writers
    /\ writers = {}
    /\ readers' = readers \union {t}
    /\ UNCHANGED writers

ReleaseRead(t) ==
    /\ t \in readers
    /\ readers' = readers \ {t}
    /\ UNCHANGED writers

AcquireWrite(t) ==
    /\ readers = {} /\ writers = {}
    /\ writers' = {t}
    /\ UNCHANGED readers

ReleaseWrite(t) ==
    /\ writers = {t}
    /\ writers' = {}
    /\ UNCHANGED readers

AbsNext ==
    \E t \in Threads :
        AcquireRead(t) \/ ReleaseRead(t) \/ AcquireWrite(t) \/ ReleaseWrite(t)

AbsSpec == AbsInit /\ [][AbsNext]_absVars
=============================================================================
