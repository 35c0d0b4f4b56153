------------------------------ MODULE MCDaemon ------------------------------
(* Small instances of Daemon: two daemons, their starts, a stop and a request. *)
EXTENDS Daemon, TLC

=============================================================================
