------------------------------ MODULE MCThread ------------------------------
(* Small instances of the threads. *)
EXTENDS Thread

CONSTANTS c1, c2, c3, o1, o2, o3

ThreeChildren == {c1, c2, c3}
ThreeObjects == {o1, o2, o3}
=============================================================================
