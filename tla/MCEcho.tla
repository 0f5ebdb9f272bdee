------------------------------- MODULE MCEcho -------------------------------
(* Small instances of the echo program. *)
EXTENDS Echo

CONSTANTS client, accepted, x, y

Sockets == {client, accepted}
Bytes == {x, y, CR, LF}
Record == <<x, y, CR, LF>>
=============================================================================
