--------------------------- MODULE MCCriticalEvents ---------------------------
(* Small instances of CriticalEvents for TLC.                               *)
EXTENDS CriticalEvents
=============================================================================
