--------------------------- MODULE MCPodLifecycle ---------------------------
(* Instances of PodLifecycle for TLC: two containers, so that the second   *)
(* can fail or be interrupted while the first runs, and one delete request.*)
EXTENDS PodLifecycle

CONSTANTS d1
=============================================================================
