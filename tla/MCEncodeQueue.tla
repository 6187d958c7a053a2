--------------------------- MODULE MCEncodeQueue ---------------------------
(* Two jobs of one worker with a primary GPU class, for TLC. *)
EXTENDS EncodeQueue, TLC

CONSTANTS j1, j2

MCJobs  == {j1, j2}
MCPairs == {Pair(1, 0)}
=============================================================================
