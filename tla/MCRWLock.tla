------------------------------ MODULE MCRWLock ------------------------------
(***************************************************************************)
(* RWLock with a fixed set of threads.                                     *)
(***************************************************************************)
EXTENDS RWLock, TLC

CONSTANTS t1, t2, t3, t4

ThreeThreads == {t1, t2, t3}
FourThreads == {t1, t2, t3, t4}

Interchangeable == Permutations(Threads)
=============================================================================
