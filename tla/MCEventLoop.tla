---------------------------- MODULE MCEventLoop -----------------------------
(* Small instances of the event loop. *)
EXTENDS EventLoop, TLC

CONSTANTS a, b, t1, t2

OneEvent == {a}
TwoEvents == {a, b}
NoThread == {}
OneThread == {t1}
TwoThreads == {t1, t2}

\* Events and threads are interchangeable; used for invariants only.
Interchangeable == Permutations(Events) \union Permutations(Foreign)
=============================================================================
