------------------------------ MODULE MCDaemon ------------------------------
(* Small instances of Daemon for TLC.                                      *)
EXTENDS Daemon

CONSTANTS p1, p2, writer, printer

MCProviders == <<p1, p2>>
MCConsumers == <<printer, writer>>
=============================================================================
