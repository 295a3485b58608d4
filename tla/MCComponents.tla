------------------------------ MODULE MCComponents ------------------------------
(* The parts for TLC, each as small as its hazards allow. *)
EXTENDS Components

MCParts == {"sessions", "devices", "traffic", "auth", "metrics", "status", "health",
            "udp", "websocket", "server", "routing", "proxy", "system"}
\* Two overlapping patterns and the one that covers everything.
MCCovers == [narrow |-> {"near"}, wide |-> {"near", "far"}, final |-> {"near", "far"}]
MCTargets == {"near", "far"}
MCPriorities == {1}
===============================================================================
