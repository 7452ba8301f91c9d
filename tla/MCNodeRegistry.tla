--------------------------- MODULE MCNodeRegistry ---------------------------
(***************************************************************************)
(* NodeRegistry for one worker process with the code's own numbers: a tick *)
(* is 15 seconds, so heartbeats and checks come every 2 ticks and a node   *)
(* is stale after 6.                                                       *)
(***************************************************************************)
EXTENDS NodeRegistry

CONSTANT w1

OneWorker == {w1}
=============================================================================
