------------------------- MODULE MCTerminalMonitor -------------------------
(* A small instance of TerminalMonitor for TLC. *)
EXTENDS TerminalMonitor, TLC

MCSymmetry == Permutations(Files)
=============================================================================
