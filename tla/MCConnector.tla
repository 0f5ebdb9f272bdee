---------------------------- MODULE MCConnector ----------------------------
(* Small instances of the connector. *)
EXTENDS Connector
=============================================================================
