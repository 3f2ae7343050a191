----------------------------- MODULE MCBlueGreen -----------------------------
(* Model-checking instance of BlueGreen: bad releases and crashes alone, a   *)
(* failing and restarting Caddy, and everything but a restart of Caddy.      *)
EXTENDS BlueGreen

SwitchScenarios ==
    [origin : {"fresh", "switched"}, faults : {{}}, crashes : {2}]
    \cup [origin : {"fresh", "switched"}, faults : {{"caddy", "reload"}}, crashes : {0}]
    \cup [origin : {"fresh", "legacy", "interrupted", "switched"},
          faults : {{"cancel", "docker", "caddy"}}, crashes : {1}]
=============================================================================
