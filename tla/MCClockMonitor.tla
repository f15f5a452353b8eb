--------------------------- MODULE MCClockMonitor ---------------------------
(* A small instance of ClockMonitor: one resume at a time.                   *)
EXTENDS ClockMonitor

CONSTANTS server, periodic, resume
=============================================================================
