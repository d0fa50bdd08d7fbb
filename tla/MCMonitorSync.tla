--------------------------- MODULE MCMonitorSync ---------------------------
(* Instances of MonitorSync for TLC: scheduler instances, requests and      *)
(* configurations are model values given in the .cfg files.                 *)
EXTENDS MonitorSync
=============================================================================
