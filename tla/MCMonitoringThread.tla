------------------------- MODULE MCMonitoringThread -------------------------
(* Instances of MonitoringThread for TLC. *)
EXTENDS MonitoringThread
=============================================================================
