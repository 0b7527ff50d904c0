--------------------------- MODULE MCHealthMonitor ----------------------------
(* Small instances of the health monitor.  In the main run a tick is five    *)
(* seconds: tresholds of 30 and 60, a pass every 10 and a heartbeat every 5. *)
EXTENDS HealthMonitor
===============================================================================
