----------------------------- MODULE MCProcess ------------------------------
(* Small instances of a process that uses the helpers. *)
EXTENDS Process

CONSTANTS x, y

Bytes == {x, y}
ThreeBytes == <<x, y, x>>
TwoChunks == {<<x>>, <<y, x>>}

\* Soft limits that leave one descriptor or several, and hard limits at and above them.
SomeLimits == {[cur |-> 2, max |-> 3], [cur |-> 3, max |-> 7], [cur |-> 4, max |-> 4]}
\* A server that reads and writes; a caller that opens descriptors in every way, under
\* a limit that it moves; one that is signalled.
SomeUses == {{"tcp_server", "accept", "readn", "writen"},
             {"tcp_server", "tcp_connect", "unix_connect", "unix_server",
              "accept", "fd_limit", "tempfd"},
             {"handle_term", "fd_limit", "tempfd"}}
SmallLimit == {[cur |-> 2, max |-> 2]}
=============================================================================
