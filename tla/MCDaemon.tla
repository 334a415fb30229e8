------------------------------ MODULE MCDaemon ------------------------------
(* A small instance of Daemon.  Five events are two captures, each started *)
(* and stopped, with a spare one, in every order with signals and failures.*)
EXTENDS Daemon
=============================================================================
