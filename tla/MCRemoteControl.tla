-------------------------- MODULE MCRemoteControl --------------------------
(* A worker with a primary GPU class and few settings, for TLC. *)
EXTENDS RemoteControl

\* A single limit, a pair of the same sum, as desired settings.
MCSaved == {Single(1), Both(Pair(1, 0))}
=============================================================================
