------------------------------ MODULE MCStream ------------------------------
(* Small instances of the stream. *)
EXTENDS Stream

CONSTANTS x, y

Bytes == {x, y}
SmallChunks == {<<x>>, <<x, y>>, <<y, x, x>>}
TwoChunks == {<<x>>, <<y, x>>}
OneByteDelim == {<<y>>}
NoInput == <<>>
OneByte == <<y>>
TwoRecords == <<x, y, x, x, y, x>>
=============================================================================
