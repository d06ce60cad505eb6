-------------------------- MODULE MCMonitoringApi --------------------------
(* Small instances of MonitoringApi for TLC. *)
EXTENDS MonitoringApi, TLC

CONSTANTS e1, l1, p1, p2, f1, g1

MCTarget == [p \in {p1, p2} |-> e1]

\* One sets both columns, the other one of them; and p2 may set what was posted.
MCSets == p1 :> [status |-> "running"] @@ p2 :> [status |-> "posted", result |-> "done"]

MCWorkloads == {{e1, p1, p2}, {e1, f1, g1}, {l1, f1}}
=============================================================================
