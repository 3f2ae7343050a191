------------------------------- MODULE MCAlerts -------------------------------
(* Model-checking instances of Alerts. *)
EXTENDS Alerts

\* The disk with two readings over the threshold, whose failing read raises a message,
\* and the newest deployment of one application, whose failing read raises none.
DiskAndDeployment == <<{"disk 91", "disk 92"}, {"failed"}>>
DiskOnly == <<"disk unknown", "fine">>

=============================================================================
