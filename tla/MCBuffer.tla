------------------------------ MODULE MCBuffer ------------------------------
(* Small instances of the buffer. *)
EXTENDS BufferSpec

CONSTANTS x, y

Bytes == {x, y}
\* One delimiter byte y, and chunks that end with it, contain it or lack it.
SmallChunks == {<<>>, <<x>>, <<x, y>>, <<y, x, x>>}
AnyDelim == {<<y>>, <<x, y>>}
=============================================================================
