------------------------------ MODULE JobLease ------------------------------
(***************************************************************************)
(* What the event log promises of a job, without ids, messages or mutexes: *)
(* at most one worker holds it at a time, only that worker reports it or   *)
(* ends it, and the server may take it back at any moment.                 *)
(***************************************************************************)
CONSTANTS
    Jobs,
    Workers,
    NoWorker    \* who holds a job that nobody holds, outside Workers

VARIABLES
    holder,     \* holder[j]: the worker whose reports the log accepts
    status      \* status[j]: "none" before the job exists

vars == <<holder, status>>

\* What the server may make of a job.
Unheld == {"queued", "failed", "canceled"}

Init ==
    /\ holder = [j \in Jobs |-> NoWorker]
    /\ status = [j \in Jobs |-> "none"]

\* The server writes: whoever held the job has lost it.
Take(j, s) ==
    /\ status[j] = "none" => s = "queued"
    /\ holder' = [holder EXCEPT ![j] = NoWorker]
    /\ status' = [status EXCEPT ![j] = s]

\* The job goes to a worker; nobody else holds it.
Grant(j, w) ==
    /\ status[j] \in Unheld
    /\ holder[j] = NoWorker
    /\ holder' = [holder EXCEPT ![j] = w]
    /\ status' = [status EXCEPT ![j] = "assigned"]

\* The holder, and nobody else, reports a phase.
Report(j, w) ==
    /\ holder[j] = w
    /\ status' = [status EXCEPT ![j] = "working"]
    /\ UNCHANGED holder

\* The holder, and nobody else, ends the job.
Finish(j, w, s) ==
    /\ holder[j] = w
    /\ holder' = [holder EXCEPT ![j] = NoWorker]
    /\ status' = [status EXCEPT ![j] = s]

Next ==
    \E j \in Jobs :
        \/ \E s \in Unheld : Take(j, s)
        \/ \E w \in Workers :
              \/ Grant(j, w) \/ Report(j, w)
              \/ \E s \in {"completed", "failed"} : Finish(j, w, s)

Spec == Init /\ [][Next]_vars

-----------------------------------------------------------------------------

\* A job has a holder exactly while it is assigned or worked on.
HeldByHolder ==
    \A j \in Jobs : status[j] \in {"assigned", "working"} <=> holder[j] # NoWorker

\* A job never passes from one worker straight to another: the server takes it
\* back in between, or its holder ends it.
NoHandOver ==
    [][\A j \in Jobs : holder'[j] \in {holder[j], NoWorker} \/ holder[j] = NoWorker]_vars

=============================================================================
