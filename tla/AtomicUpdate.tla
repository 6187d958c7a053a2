---------------------------- MODULE AtomicUpdate ----------------------------
(***************************************************************************)
(* What the mandatory update of a Windows worker promises: whatever stops  *)
(* in between, the installation that will be there in the end changes in   *)
(* one step, to a newer complete release, and while no work is accepted.   *)
(***************************************************************************)
EXTENDS Naturals

CONSTANT Versions

VARIABLES
    installed,      \* the complete release that is there, or will be restored
    work            \* whether jobs are accepted

Init == installed \in Versions /\ work = FALSE

Install ==
    /\ ~work
    /\ installed' \in {v \in Versions : v > installed}
    /\ UNCHANGED work

Work ==
    /\ work' = ~work
    /\ UNCHANGED installed

Next == Install \/ Work

Spec == Init /\ [][Next]_<<installed, work>>
=============================================================================
