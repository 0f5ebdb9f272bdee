----------------------------- MODULE MCListener -----------------------------
(* Small instances of the listener. *)
EXTENDS Listener

CONSTANTS tcp, ux

OnlyListener == {L}
BothFamilies == {tcp, ux}
OnlyTcp == {tcp}
OnlyUnix == {ux}
NoAddr == {}
=============================================================================
