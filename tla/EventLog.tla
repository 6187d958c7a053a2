------------------------------ MODULE EventLog ------------------------------
(***************************************************************************)
(* The event log of one job: the rows of table job_events, in the order in *)
(* which they were inserted, and the questions the server asks of them.    *)
(* A row keeps its own job_event_id, so that a log with a gap or with two  *)
(* rows of one id is a value of this model and not excluded by its shape.  *)
(***************************************************************************)
EXTENDS Integers, Sequences, FiniteSets

CONSTANTS
    Workers,        \* the names the workers report under
    Server,         \* the empty worker name of the rows the server writes
    Steps           \* the phases of the worker's pipeline

ASSUME ServerAssumption == Server \notin Workers
ASSUME StepsAssumption  == "Job" \notin Steps

\* Notification types, the statuses of a row, and those a worker reports.
Types         == Steps \union {"Job"}
JobStatuses   == {"queued", "assigned", "started", "completed", "failed", "canceled"}
PhaseStatuses == {"started", "completed", "failed"}

\* "retry" stands for the message of a failure: whether it is a recoverable one.
Row == [id : Nat, type : Types, status : JobStatuses, retry : BOOLEAN,
        by : Workers \union {Server}]

ServerRow(id, status) ==
    [id |-> id, type |-> "Job", status |-> status, retry |-> FALSE, by |-> Server]

AssignedRow(id, w) ==
    [id |-> id, type |-> "Job", status |-> "assigned", retry |-> FALSE, by |-> w]

IsCompleted(r) == r.type = "Job" /\ r.status = "completed"

\* No row follows such a report from the worker that made it.
IsTerminal(r) == r.type = "Job" /\ r.status \in {"completed", "failed"}

-----------------------------------------------------------------------------

\* A wrong variant of the next definition: the greatest id itself, -1 for no rows.
FaultyNextId(log) ==
    IF log = <<>> THEN -1
    ELSE CHOOSE n \in {log[k].id : k \in DOMAIN log} :
             \A k \in DOMAIN log : log[k].id <= n

\* The id AddEvent gives the next event: one more than the greatest one.
NextId(log) ==
    IF log = <<>> THEN 0
    ELSE 1 + (CHOOSE n \in {log[k].id : k \in DOMAIN log} :
                  \A k \in DOMAIN log : log[k].id <= n)

\* The primary key (job_id, job_event_id) of the table.
HasId(log, id) == \E k \in DOMAIN log : log[k].id = id

\* The latest "Job" event: its status is the status of the job.
JobRow(log) ==
    CHOOSE r \in {log[k] : k \in DOMAIN log} :
        /\ r.type = "Job"
        /\ \A k \in DOMAIN log : log[k].type = "Job" => log[k].id <= r.id

\* The row of job_status: a trigger overwrites it on every insert, so that it
\* shows the row inserted last, whatever that row's id is.
HasStatus(log, status) ==
    /\ log # <<>>
    /\ log[Len(log)].type = "Job"
    /\ log[Len(log)].status = status

\* verifyFailureMessage of the message the status row shows.
RecommendsRetry(log) == log[Len(log)].retry

Failures(log) ==
    Cardinality({k \in DOMAIN log : log[k].type = "Job" /\ log[k].status = "failed"})

=============================================================================
