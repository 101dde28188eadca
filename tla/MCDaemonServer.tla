--------------------------- MODULE MCDaemonServer ---------------------------
(* An instance of DaemonServer for TLC. *)
EXTENDS DaemonServer
=============================================================================
