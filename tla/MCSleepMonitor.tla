--------------------------- MODULE MCSleepMonitor ---------------------------
(* A channel of two signals, and enough signals to fill it twice. *)
EXTENDS SleepMonitor
=============================================================================
