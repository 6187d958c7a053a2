----------------------------- MODULE MCJobEvents ----------------------------
(***************************************************************************)
(* Instances of JobEvents for TLC: pipelines of one and two phases, and    *)
(* the sets of flags and disturbances of the runs.                         *)
(***************************************************************************)
EXTENDS JobEvents, TLC

CONSTANTS w1, w2, j1, j2, encode, download

\* One phase, the encode; or a download before it.
OneStep  == [s \in {encode} |-> {}]
TwoSteps == (download :> {encode}) @@ (encode :> {})

NoFlags     == {{}}
ForceFailed == {{}, {"failed"}}
ForceCompleted == {{}, {"completed"}}
ForceEach   == {{}, {"completed"}, {"failed", "canceled"}, {"assigned"}}

WorkerSymmetry == Permutations(Workers)

=============================================================================
