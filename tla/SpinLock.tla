------------------------------ MODULE SpinLock ------------------------------
(***************************************************************************)
(* The test-and-set lock of lock.c, as two actions on its word.  A turn of *)
(* mtx_lock's loop that finds the word set stores 1 over 1: a stuttering   *)
(* step, so only the turn that succeeds is written.                        *)
(***************************************************************************)
EXTENDS Naturals

VARIABLE word

mtx_init == word = 0

\* while (__sync_lock_test_and_set(v, 1)) {}
mtx_lock == word = 0 /\ word' = 1

\* __sync_lock_release(v)
mtx_unlock == word' = 0
=============================================================================
