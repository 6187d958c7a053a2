------------------------------ MODULE JobEvents -----------------------------
(***************************************************************************)
(* The life of the jobs: the server's event log, the handlers of the       *)
(* scheduler that append to it, and the workers that report their phases.  *)
(*                                                                         *)
(* The scheduler holds a mutex per kind of handler (jobRequestMu,          *)
(* handleEventMu, jobIntakeMu) and none around CancelJob; maintenance is   *)
(* one goroutine.  A handler in flight is the element of a set that is     *)
(* empty when the mutex is free, and what it read before it writes is in   *)
(* that element.  A handler checks its event's id against the greatest     *)
(* recorded one and then inserts; rows are only ever added, so checking at *)
(* the time of the read and meeting the primary key at the insert succeeds *)
(* and fails in the same cases.                                            *)
(***************************************************************************)
EXTENDS EventLog

CONSTANTS
    Jobs,           \* the source files; each has at most one job
    FirstStep,      \* the download
    EncodeStep,     \* the phase that needs a pinned encoder profile
    After,          \* After[s]: the phases that may follow s, {} after the upload
    FailureBudget,  \* failures after which maintenance cancels (10)
    AcceptLimit,    \* contexts a worker holds before it stops asking
    DeleteSource,   \* scheduler option deleteOnComplete
    UserFlags,      \* the sets of force flags users send
    Disturbances,   \* what happens besides intake and work, see below
    MaxEvents       \* bound: an insert beyond it fails like a database error

AllDisturbances == {
    "maintenance",  \* the maintenance ticker fires
    "cancel",       \* users cancel jobs
    "timeout",      \* jobs outlive jobTimeout
    "missing",      \* source files disappear and come back
    "database",     \* an insert fails
    "remove",       \* os.Remove of a source fails
    "lost",         \* a reply does not reach the worker, which sends again
    "late",         \* a copy of an answered notification is still on its way
    "refused",      \* a notification is answered 4xx: logged, not retried
    "workspace",    \* a worker cannot prepare the directory of a job
    "crash",        \* a worker stops and starts again
    "restart"}      \* the server stops and starts again

\* POST /api/v1/job carries three of the flags; the reviewed intake the other pair.
AllFlags == SUBSET {"completed", "failed", "assigned"}
                \union SUBSET {"failed", "canceled"}

ASSUME PipelineAssumption ==
    /\ FirstStep \in Steps
    /\ EncodeStep \in Steps
    /\ After \in [Steps -> SUBSET Steps]

ASSUME ParameterAssumption ==
    /\ FailureBudget \in Nat
    /\ AcceptLimit \in Nat
    /\ MaxEvents \in Nat
    /\ DeleteSource \in BOOLEAN
    /\ UserFlags \subseteq AllFlags
    /\ Disturbances \subseteq AllDisturbances

VARIABLES
    events,         \* events[j]: the rows of job j
    older,          \* <<i, j>>: the status row of i is older than that of j
    expired,        \* jobs whose latest "Job" row is older than jobTimeout
    source,         \* source[j]: the source file in the library
    published,      \* jobs for which completeJob published an output
    request,        \* RequestJob under jobRequestMu
    handling,       \* HandleWorkerEvent under handleEventMu
    cancels,        \* CancelJob calls between their read and their insert
    intake,         \* scheduleJobRequest under jobIntakeMu
    pass,           \* the maintenance pass
    asking,         \* workers waiting for the reply to RequestJob
    ctx,            \* the job contexts the workers hold in memory
    publishing,     \* notifications a worker waits for, under its mutex e.mu
    net,            \* notifications with a copy on its way to the server
    disk            \* the context files in the workers' directories

serverVars == <<request, handling, cancels, intake, pass>>
workerVars == <<asking, ctx, publishing, net, disk>>
logVars    == <<events, older, expired>>
vars       == <<logVars, source, published, serverVars, workerVars>>

\* What a worker reports is a row of its own, never an assignment.
Message == [job : Jobs,
            row : [id : Nat, type : Types, status : PhaseStatuses,
                   retry : BOOLEAN, by : Workers]]

\* Where a worker stands with a job: the last event it published, or the phase a
\* restart queued.
Context == {c \in [worker : Workers, job : Jobs, id : Nat, type : Types,
                   status : PhaseStatuses \union {"assigned", "resumed"}] :
               c.type = "Job" => c.status \in {"assigned", "started"}}

TypeOK ==
    /\ events \in [Jobs -> Seq(Row)]
    /\ older \subseteq Jobs \X Jobs
    /\ expired \subseteq Jobs
    /\ source \in [Jobs -> {"present", "missing", "removed"}]
    /\ published \subseteq Jobs
    /\ request \subseteq [worker : Workers, job : Jobs, event : Nat,
                          read : BOOLEAN, id : Nat, waiting : BOOLEAN]
    /\ handling \subseteq [msg : Message,
                           pc : {"finalized", "insert", "remove", "answer"}]
    /\ cancels \subseteq [job : Jobs, id : Nat]
    /\ intake \subseteq [job : Jobs, id : Nat, revokes : BOOLEAN,
                         by : {"user", "maintenance"}]
    /\ pass \subseteq [stage : {"queued", "failed", "timeout"},
                       listed : SUBSET Jobs,
                       todo : SUBSET [job : Jobs, id : Nat, tired : BOOLEAN]]
    /\ asking \subseteq Workers
    /\ ctx \subseteq Context
    /\ publishing \subseteq Message
    /\ net \subseteq Message
    /\ disk \subseteq Context

Init ==
    /\ events = [j \in Jobs |-> <<>>]
    /\ older = {}
    /\ expired = {}
    /\ source = [j \in Jobs |-> "present"]
    /\ published = {}
    /\ request = {} /\ handling = {} /\ cancels = {} /\ intake = {} /\ pass = {}
    /\ asking = {} /\ ctx = {} /\ publishing = {} /\ net = {} /\ disk = {}

-----------------------------------------------------------------------------
(* Appending to the log *)

Last(log) == log[Len(log)]

(* An operator named Faulty... is a wrong variant of the next definition: the    *)
(* check puts it in the definition's place and looks for a violated property.    *)

FaultyCanInsert(j, id, n) == Len(events[j]) + n <= MaxEvents

\* The n rows from id on meet neither the primary key nor the bound.
CanInsert(j, id, n) ==
    /\ ~HasId(events[j], id)
    /\ Len(events[j]) + n <= MaxEvents

\* The insert is refused: a row has that id, or the database fails.
InsertFails(j, id, n) == ~CanInsert(j, id, n) \/ "database" \in Disturbances

\* The insert of some rows of job j; the trigger makes its status row the newest.
Insert(j, rows) ==
    /\ events' = [events EXCEPT ![j] = @ \o rows]
    /\ older' = {p \in older : p[1] # j} \union {<<i, j>> : i \in Jobs \ {j}}
    /\ expired' = IF \E k \in DOMAIN rows : rows[k].type = "Job"
                  THEN expired \ {j} ELSE expired

-----------------------------------------------------------------------------
(* RequestJob: a worker asks for work *)

\* The coordinator asks when it has a free slot and no reply to wait for.
Ask(w) ==
    /\ w \notin asking
    /\ \A c \in ctx : c.worker = w => c.status # "assigned"
    /\ Cardinality({c \in ctx : c.worker = w}) < AcceptLimit
    /\ asking' = asking \union {w}
    /\ UNCHANGED <<logVars, source, published, serverVars, ctx, publishing, net, disk>>

Queued == {j \in Jobs : HasStatus(events[j], "queued")}

\* The query yields a job and the id of its status row, which nobody looks at again.
Selected(w, j) == [worker |-> w, job |-> j, event |-> Last(events[j]).id,
                   read |-> FALSE, id |-> 0, waiting |-> TRUE]

\* Without jobRequestMu.
FaultyRequestSelect(w) ==
    /\ w \in asking
    /\ \E j \in Queued : request' = request \union {Selected(w, j)}
    /\ UNCHANGED <<logVars, source, published, handling, cancels, intake, pass, workerVars>>

\* The newest job first, as the dashboard lists them.
FaultyOrderSelect(w) ==
    /\ request = {}
    /\ w \in asking
    /\ \E j \in Queued :
          /\ \A i \in Queued : <<j, i>> \notin older
          /\ request' = request \union {Selected(w, j)}
    /\ UNCHANGED <<logVars, source, published, handling, cancels, intake, pass, workerVars>>

\* The query on job_status: the queued job whose status row is the oldest.
RequestSelect(w) ==
    /\ request = {}
    /\ w \in asking
    /\ \E j \in Queued :
          /\ \A i \in Queued : <<i, j>> \notin older
          /\ request' = request \union {Selected(w, j)}
    /\ UNCHANGED <<logVars, source, published, handling, cancels, intake, pass, workerVars>>

\* Nothing is queued: 204, the coordinator asks again later.
RequestNone(w) ==
    /\ request = {}
    /\ w \in asking
    /\ Queued = {}
    /\ asking' = asking \ {w}
    /\ UNCHANGED <<logVars, source, published, serverVars, ctx, publishing, net, disk>>

\* getJob, in the same call but another query, reads the events of the job.
RequestRead ==
    \E q \in request :
        /\ ~q.read
        /\ request' = (request \ {q}) \union {[q EXCEPT !.read = TRUE, !.id = NextId(events[q.job])]}
        /\ UNCHANGED <<logVars, source, published, handling, cancels, intake, pass, workerVars>>

\* The assignment is recorded; the worker gets the reply unless it was lost, or
\* the worker stopped waiting.
RequestInsert ==
    \E q \in request :
        /\ q.read
        /\ CanInsert(q.job, q.id, 1)
        /\ Insert(q.job, <<AssignedRow(q.id, q.worker)>>)
        /\ request' = request \ {q}
        /\ \/ /\ q.waiting
              /\ asking' = asking \ {q.worker}
              /\ ctx' = ctx \union {[worker |-> q.worker, job |-> q.job, id |-> q.id,
                                     type |-> "Job", status |-> "assigned"]}
           \/ /\ ~q.waiting \/ "lost" \in Disturbances
              /\ UNCHANGED <<asking, ctx>>
        /\ UNCHANGED <<source, published, handling, cancels, intake, pass,
                       publishing, net, disk>>

\* The assignment is not recorded: 500, and the worker's client sends again.
RequestFail ==
    \E q \in request :
        /\ q.read
        /\ InsertFails(q.job, q.id, 1)
        /\ request' = request \ {q}
        /\ UNCHANGED <<logVars, source, published, handling, cancels, intake, pass, workerVars>>

-----------------------------------------------------------------------------
(* The workers: reports, crashes and restarts *)

Reports(type, statuses) == [type : {type}, status : statuses, retry : {FALSE}]
Failure(type)           == [type : {type}, status : {"failed"}, retry : BOOLEAN]

\* A phase starts, except that an encode whose profile cannot be pinned fails the job.
Starts(s) ==
    Reports(s, {"started"}) \union (IF s = EncodeStep THEN Failure("Job") ELSE {})

\* What the worker may report next about the job of c.
NextReports(c) ==
    CASE c.status = "assigned"  -> Reports("Job", {"started"})
      [] c.status = "resumed"   -> Starts(c.type)
      [] c.status = "failed"    -> Failure("Job")
      [] c.status = "started"   -> IF c.type = "Job" THEN Starts(FirstStep)
                                   ELSE Reports(c.type, {"completed", "failed"})
      [] c.status = "completed" -> IF After[c.type] = {} THEN Reports("Job", {"completed"})
                                   ELSE UNION {Starts(s) : s \in After[c.type]}

Notification(c, r) ==
    [job |-> c.job,
     row |-> [id |-> c.id + 1, type |-> r.type, status |-> r.status,
              retry |-> r.retry, by |-> c.worker]]

\* m is the next notification of context c.
Follows(c, m) == c.worker = m.row.by /\ c.job = m.job /\ c.id + 1 = m.row.id

\* The context written to its file before the event is sent.
FaultyPublish(c) ==
    /\ c \in ctx
    /\ \A m \in publishing : m.row.by # c.worker
    /\ \E r \in NextReports(c) :
          /\ publishing' = publishing \union {Notification(c, r)}
          /\ net' = net \union {Notification(c, r)}
          /\ disk' = disk \union {[c EXCEPT !.id = c.id + 1]}
    /\ UNCHANGED <<logVars, source, published, serverVars, asking, ctx>>

\* publishTaskEvent takes the worker's mutex and sends; the client repeats the
\* call until a reply arrives, so that a copy stays on its way until then.
Publish(c) ==
    /\ c \in ctx
    /\ \A m \in publishing : m.row.by # c.worker
    /\ \E r \in NextReports(c) :
          /\ publishing' = publishing \union {Notification(c, r)}
          /\ net' = net \union {Notification(c, r)}
    /\ UNCHANGED <<logVars, source, published, serverVars, asking, ctx, disk>>

\* ExecuteReservedJob fails before its first report: an error is logged and the
\* assignment, which the server keeps, is nobody's any more.
GiveUp(c) ==
    /\ "workspace" \in Disturbances
    /\ c \in ctx
    /\ c.status = "assigned"
    /\ \A m \in publishing : ~Follows(c, m)
    /\ ctx' = ctx \ {c}
    /\ UNCHANGED <<logVars, source, published, serverVars, asking, publishing, net, disk>>

WithoutFile(w, j) == {d \in disk : ~(d.worker = w /\ d.job = j)}

\* publishTaskEvent returns: the context moves on and is written to its file.  The
\* file is truncated first, and another attempt at the same job may have removed
\* the directory, so that the file may be lost.  A terminal event ends the
\* context and CleanJob removes its directory.
Advance(c, m) ==
    LET next == [worker |-> c.worker, job |-> c.job, id |-> m.row.id,
                 type |-> m.row.type, status |-> m.row.status]
    IN  IF IsTerminal(m.row)
        THEN /\ ctx' = ctx \ {c}
             /\ disk' = WithoutFile(c.worker, c.job)
        ELSE /\ ctx' = (ctx \ {c}) \union {next}
             /\ disk' \in {WithoutFile(c.worker, c.job),
                           WithoutFile(c.worker, c.job) \union {next}}

\* A 4xx answer is not retried: the error is logged and the context moves on.
Refuse(c) ==
    /\ "refused" \in Disturbances
    /\ c \in ctx
    /\ \E m \in publishing :
          /\ Follows(c, m)
          /\ Advance(c, m)
          /\ publishing' = publishing \ {m}
          /\ net' = net \ {m}
    /\ UNCHANGED <<logVars, source, published, serverVars, asking>>

\* resumeJobs queues a context at the phase its last event names; a job that was
\* assigned or started and no further is queued at the download.
Resumed(d) == [d EXCEPT !.type = IF d.type = "Job" THEN FirstStep ELSE d.type,
                        !.status = "resumed"]

\* The worker stops anywhere and starts again from its files.  What it sent may
\* still reach the server.
Crash(w) ==
    /\ "crash" \in Disturbances
    /\ ctx' = {c \in ctx : c.worker # w}
                \union {Resumed(d) : d \in {d \in disk : d.worker = w}}
    /\ publishing' = {m \in publishing : m.row.by # w}
    /\ asking' = asking \ {w}
    /\ request' = {[q EXCEPT !.waiting = @ /\ q.worker # w] : q \in request}
    /\ UNCHANGED <<logVars, source, published, handling, cancels, intake, pass, net, disk>>

-----------------------------------------------------------------------------
(* HandleWorkerEvent: the server records a notification *)

\* Any id is recorded.
FaultyEventCheck(m) ==
    /\ handling = {}
    /\ m \in net
    /\ ~IsCompleted(m.row)
    /\ handling' = {[msg |-> m, pc |-> "insert"]}
    /\ UNCHANGED <<logVars, source, published, request, cancels, intake, pass, workerVars>>

\* processEvent checks the id against the log.  Otherwise it answers 500, nothing
\* changes and the client sends again.
EventCheck(m) ==
    /\ handling = {}
    /\ m \in net
    /\ ~IsCompleted(m.row)
    /\ m.row.id = NextId(events[m.job])
    /\ handling' = {[msg |-> m, pc |-> "insert"]}
    /\ UNCHANGED <<logVars, source, published, request, cancels, intake, pass, workerVars>>

\* The source is removed as soon as the output is published.
FaultyCompleteJob(m) ==
    /\ handling = {}
    /\ m \in net
    /\ IsCompleted(m.row)
    /\ published' = published \union {m.job}
    /\ handling' = {[msg |-> m, pc |-> "remove"]}
    /\ UNCHANGED <<logVars, source, request, cancels, intake, pass, workerVars>>

\* A Job/completed is finalized first: the output is published, or the call fails
\* and nothing else happens.
CompleteJob(m) ==
    /\ handling = {}
    /\ m \in net
    /\ IsCompleted(m.row)
    /\ published' = published \union {m.job}
    /\ handling' = {[msg |-> m, pc |-> "finalized"]}
    /\ UNCHANGED <<logVars, source, request, cancels, intake, pass, workerVars>>

\* What remains after the row is there.
Afterwards(m) ==
    [msg |-> m, pc |-> IF IsCompleted(m.row) /\ DeleteSource THEN "remove" ELSE "answer"]

AlreadyRecorded(m) ==
    \E k \in DOMAIN events[m.job] :
        events[m.job][k].id = m.row.id /\ IsCompleted(events[m.job][k])

\* The id of a Job/completed is looked at only now.
EventCheckFinalized ==
    \E h \in handling :
        /\ h.pc = "finalized"
        /\ handling' = IF AlreadyRecorded(h.msg) THEN {Afterwards(h.msg)}
                       ELSE IF h.msg.row.id = NextId(events[h.msg.job])
                            THEN {[h EXCEPT !.pc = "insert"]}
                            ELSE {}
        /\ UNCHANGED <<logVars, source, published, request, cancels, intake, pass, workerVars>>

EventInsert ==
    \E h \in handling :
        /\ h.pc = "insert"
        /\ CanInsert(h.msg.job, h.msg.row.id, 1)
        /\ Insert(h.msg.job, <<h.msg.row>>)
        /\ handling' = {Afterwards(h.msg)}
        /\ UNCHANGED <<source, published, request, cancels, intake, pass, workerVars>>

EventFail ==
    \E h \in handling :
        /\ h.pc = "insert"
        /\ InsertFails(h.msg.job, h.msg.row.id, 1)
        /\ handling' = {}
        /\ UNCHANGED <<logVars, source, published, request, cancels, intake, pass, workerVars>>

\* A source that is not there is not an error.
RemoveSource ==
    \E h \in handling :
        /\ h.pc = "remove"
        /\ source' = [source EXCEPT ![h.msg.job] = IF @ = "present" THEN "removed" ELSE @]
        /\ handling' = {[h EXCEPT !.pc = "answer"]}
        /\ UNCHANGED <<logVars, published, request, cancels, intake, pass, workerVars>>

\* 500, and the row stays: the client's next copy finds it already recorded.
RemoveSourceFails ==
    /\ "remove" \in Disturbances
    /\ \E h \in handling : h.pc = "remove"
    /\ handling' = {}
    /\ UNCHANGED <<logVars, source, published, request, cancels, intake, pass, workerVars>>

\* 200 reaches the worker that waits for it, if one does.
EventAnswer ==
    \E h \in handling :
        /\ h.pc = "answer"
        /\ handling' = {}
        /\ \/ /\ h.msg \in publishing
              /\ \E c \in ctx : Follows(c, h.msg) /\ Advance(c, h.msg)
              /\ publishing' = publishing \ {h.msg}
              /\ net' \in {net \ {h.msg}}
                            \union (IF "late" \in Disturbances THEN {net} ELSE {})
           \/ /\ h.msg \notin publishing \/ "lost" \in Disturbances
              /\ UNCHANGED <<ctx, disk, publishing, net>>
        /\ UNCHANGED <<logVars, source, published, request, cancels, intake, pass, asking>>

-----------------------------------------------------------------------------
(* CancelJob, which no mutex covers *)

JobStatus(j) == JobRow(events[j]).status

\* A job that is neither assigned nor started is refused without an event.
CancelRead(j) ==
    /\ "cancel" \in Disturbances
    /\ events[j] # <<>>
    /\ JobStatus(j) \in {"assigned", "started"}
    /\ cancels' = cancels \union {[job |-> j, id |-> NextId(events[j])]}
    /\ UNCHANGED <<logVars, source, published, request, handling, intake, pass, workerVars>>

\* The event is appended, although the switch then falls through to an error.
CancelInsert(c) ==
    /\ c \in cancels
    /\ CanInsert(c.job, c.id, 1)
    /\ Insert(c.job, <<ServerRow(c.id, "canceled")>>)
    /\ cancels' = cancels \ {c}
    /\ UNCHANGED <<source, published, request, handling, intake, pass, workerVars>>

CancelFail(c) ==
    /\ c \in cancels
    /\ InsertFails(c.job, c.id, 1)
    /\ cancels' = cancels \ {c}
    /\ UNCHANGED <<logVars, source, published, request, handling, intake, pass, workerVars>>

-----------------------------------------------------------------------------
(* scheduleJobRequest: a new job, or an old one queued again *)

\* Only an assigned job counts as expired, not a started one.
FaultyRevokes(j, flags) == events[j] # <<>> /\ "assigned" \in flags
                             /\ JobStatus(j) = "assigned"

\* updateJobByRequest: the request cancels the assignment first, or it queues a
\* finished job, or the job cannot be rescheduled.
Revokes(j, flags)  == events[j] # <<>> /\ "assigned" \in flags
                        /\ JobStatus(j) \in {"assigned", "started"}
Requeues(j, flags) == events[j] # <<>>
                        /\ JobStatus(j) \in flags \intersect {"completed", "failed", "canceled"}
Schedulable(j, flags) == events[j] = <<>> \/ Revokes(j, flags) \/ Requeues(j, flags)

\* The transaction has read the job and computed its events.
Scheduling(j, flags, by) ==
    {[job |-> j, id |-> NextId(events[j]), revokes |-> Revokes(j, flags), by |-> by]}

\* ScheduleJobRequests and QueueMediaFile; the source file must be there.
UserSchedules(j) ==
    /\ intake = {}
    /\ source[j] = "present"
    /\ \E flags \in UserFlags :
          /\ Schedulable(j, flags)
          /\ intake' = Scheduling(j, flags, "user")
    /\ UNCHANGED <<logVars, source, published, request, handling, cancels, pass, workerVars>>

IntakeRows(i) ==
    IF i.revokes THEN <<ServerRow(i.id, "canceled"), ServerRow(i.id + 1, "queued")>>
    ELSE <<ServerRow(i.id, "queued")>>

\* All rows of the transaction are committed.
IntakeCommit ==
    \E i \in intake :
        /\ CanInsert(i.job, i.id, Len(IntakeRows(i)))
        /\ Insert(i.job, IntakeRows(i))
        /\ intake' = {}
        /\ UNCHANGED <<source, published, request, handling, cancels, pass, workerVars>>

\* Or none is; an error ends the maintenance pass that scheduled the job.
IntakeAbort ==
    \E i \in intake :
        /\ InsertFails(i.job, i.id, Len(IntakeRows(i)))
        /\ intake' = {}
        /\ pass' = IF i.by = "maintenance" THEN {} ELSE pass
        /\ UNCHANGED <<logVars, source, published, request, handling, cancels, workerVars>>

-----------------------------------------------------------------------------
(* jobMaintenance: missing sources, failed jobs, expired assignments *)

NextStage == [queued |-> "failed", failed |-> "timeout"]

\* A job of the listing: its next id and whether it failed too often, as read.
Reading(j) == [job |-> j, id |-> NextId(events[j]),
               tired |-> Failures(events[j]) > FailureBudget]

\* GetJobsByStatus selects the status rows first.  The message that decides on a
\* retry is read here, and failures it does not recommend to retry are skipped.
\* GetTimeoutJobs is one query, and the jobs are read again when they are queued.
Listing(stage) ==
    CASE stage = "queued"  -> Queued
      [] stage = "failed"  -> {j \in Jobs : /\ HasStatus(events[j], "failed")
                                            /\ RecommendsRetry(events[j])}
      [] stage = "timeout" -> {}

Stage(stage) ==
    {[stage |-> stage, listed |-> Listing(stage),
      todo |-> IF stage = "timeout" THEN {Reading(j) : j \in expired} ELSE {}]}

PassStart ==
    /\ "maintenance" \in Disturbances
    /\ pass = {}
    /\ pass' = Stage("queued")
    /\ UNCHANGED <<logVars, source, published, request, handling, cancels, intake, workerVars>>

\* GetJobsByStatus then reads the events of each listed job.
PassRead(j) ==
    \E p \in pass :
        /\ j \in p.listed
        /\ pass' = {[p EXCEPT !.listed = @ \ {j}, !.todo = @ \union {Reading(j)}]}
        /\ UNCHANGED <<logVars, source, published, request, handling, cancels, intake, workerVars>>

\* The pass takes up t once everything is read and its last request is done.
TakesUp(p, t, stage) ==
    /\ p.stage = stage
    /\ p.listed = {}
    /\ t \in p.todo
    /\ \A i \in intake : i.by # "maintenance"

Done(p, t) == {[p EXCEPT !.todo = @ \ {t}]}

\* Maintenance appends a row itself; an error ends the pass.
PassAppends(p, t, row) ==
    \/ /\ CanInsert(t.job, t.id, 1)
       /\ Insert(t.job, <<row>>)
       /\ pass' = Done(p, t)
    \/ /\ InsertFails(t.job, t.id, 1)
       /\ pass' = {}
       /\ UNCHANGED logVars

\* Maintenance schedules the job; a job that is no longer eligible ends the pass.
PassSchedules(p, t, flag) ==
    /\ intake = {}
    /\ \/ /\ Schedulable(t.job, {flag})
          /\ intake' = Scheduling(t.job, {flag}, "maintenance")
          /\ pass' = Done(p, t)
       \/ /\ ~Schedulable(t.job, {flag})
          /\ pass' = {}
          /\ UNCHANGED intake

\* queuedJobMaintenance: the job fails if its source is not there.
PassQueued ==
    \E p \in pass : \E t \in p.todo :
        /\ TakesUp(p, t, "queued")
        /\ \/ source[t.job] = "present" /\ pass' = Done(p, t) /\ UNCHANGED logVars
           \/ source[t.job] # "present" /\ PassAppends(p, t, ServerRow(t.id, "failed"))
        /\ UNCHANGED <<source, published, request, handling, cancels, intake, workerVars>>

\* failedJobMaintenance: a job that failed too often is canceled ...
PassCancels ==
    \E p \in pass : \E t \in p.todo :
        /\ TakesUp(p, t, "failed")
        /\ t.tired
        /\ PassAppends(p, t, ServerRow(t.id, "canceled"))
        /\ UNCHANGED <<source, published, request, handling, cancels, intake, workerVars>>

\* ... and another one is queued again.
PassRetries ==
    \E p \in pass : \E t \in p.todo :
        /\ TakesUp(p, t, "failed")
        /\ ~t.tired
        /\ PassSchedules(p, t, "failed")
        /\ UNCHANGED <<logVars, source, published, request, handling, cancels, workerVars>>

\* assignedJobMaintenance
PassTimesOut ==
    \E p \in pass : \E t \in p.todo :
        /\ TakesUp(p, t, "timeout")
        /\ PassSchedules(p, t, "assigned")
        /\ UNCHANGED <<logVars, source, published, request, handling, cancels, workerVars>>

\* Nothing is left of a stage: the next one, or the pass is over.
PassNext ==
    \E p \in pass :
        /\ p.listed = {} /\ p.todo = {}
        /\ \A i \in intake : i.by # "maintenance"
        /\ pass' = IF p.stage = "timeout" THEN {} ELSE Stage(NextStage[p.stage])
        /\ UNCHANGED <<logVars, source, published, request, handling, cancels, intake, workerVars>>

-----------------------------------------------------------------------------
(* The environment *)

\* jobTimeout passes over the latest "Job" row of an assigned job.
Expire(j) ==
    /\ "timeout" \in Disturbances
    /\ events[j] # <<>>
    /\ JobStatus(j) \in {"assigned", "started"}
    /\ expired' = expired \union {j}
    /\ UNCHANGED <<events, older, source, published, serverVars, workerVars>>

\* Somebody takes the source file out of the library.
SourceDisappears(j) ==
    /\ "missing" \in Disturbances
    /\ source[j] = "present"
    /\ source' = [source EXCEPT ![j] = "missing"]
    /\ UNCHANGED <<logVars, published, serverVars, workerVars>>

SourceReturns(j) ==
    /\ "missing" \in Disturbances
    /\ source[j] = "missing"
    /\ source' = [source EXCEPT ![j] = "present"]
    /\ UNCHANGED <<logVars, published, serverVars, workerVars>>

\* The server stops: what its handlers had read is gone; the clients send again.
Restart ==
    /\ "restart" \in Disturbances
    /\ request' = {} /\ handling' = {} /\ cancels' = {} /\ intake' = {} /\ pass' = {}
    /\ UNCHANGED <<logVars, source, published, workerVars>>

-----------------------------------------------------------------------------

DispatchStep ==
    \/ \E w \in Workers : Ask(w) \/ RequestSelect(w) \/ RequestNone(w)
    \/ RequestRead \/ RequestInsert \/ RequestFail

WorkerStep ==
    \/ \E c \in ctx : Publish(c) \/ Refuse(c) \/ GiveUp(c)
    \/ \E w \in Workers : Crash(w)

EventStep ==
    \/ \E m \in net : EventCheck(m) \/ CompleteJob(m)
    \/ EventCheckFinalized \/ EventInsert \/ EventFail
    \/ RemoveSource \/ RemoveSourceFails \/ EventAnswer

CancelStep ==
    \/ \E j \in Jobs : CancelRead(j)
    \/ \E c \in cancels : CancelInsert(c) \/ CancelFail(c)

IntakeStep ==
    \/ \E j \in Jobs : UserSchedules(j)
    \/ IntakeCommit \/ IntakeAbort

PassStep ==
    \/ \E j \in Jobs : PassRead(j)
    \/ PassStart \/ PassQueued \/ PassCancels \/ PassRetries \/ PassTimesOut \/ PassNext

EnvironmentStep ==
    \/ \E j \in Jobs : Expire(j) \/ SourceDisappears(j) \/ SourceReturns(j)
    \/ Restart

Next ==
    \/ DispatchStep \/ WorkerStep \/ EventStep \/ CancelStep
    \/ IntakeStep \/ PassStep \/ EnvironmentStep

Spec == Init /\ [][Next]_vars

-----------------------------------------------------------------------------
(* Safety *)

\* The ids of a job's rows are 0, 1, 2, ... in the order of insertion: whatever
\* handlers race, addNewTaskEvent and the primary key leave no gap, no duplicate.
Gapless ==
    \A j \in Jobs : \A k \in DOMAIN events[j] : events[j][k].id = k - 1

\* The log fences workers: between a worker's assignment and any later report of
\* it stand only its own rows, none of them terminal.  So once the server has
\* written a row, the worker that held the job gets nothing into the log any more.
Fenced ==
    \A j \in Jobs : \A k \in DOMAIN events[j] :
        LET r == events[j][k]
        IN  r.by \in Workers /\ r.status # "assigned" =>
                /\ k > 1
                /\ events[j][k - 1].by = r.by
                /\ ~IsTerminal(events[j][k - 1])

\* jobRequestMu: a job is assigned again only after it was queued again.
NoDoubleAssignment ==
    \A j \in Jobs : \A k, n \in DOMAIN events[j] :
        k < n /\ events[j][k].status = "assigned" /\ events[j][n].status = "assigned"
            => \E q \in (k + 1)..(n - 1) : events[j][q].status = "queued"

\* A worker's context, in memory or on disk, stands at a row the worker has in
\* the log: no crash, lost reply or resumption takes it ahead of the log.
ContextsRecorded ==
    \A c \in ctx \union disk :
        /\ c.id + 1 \in DOMAIN events[c.job]
        /\ events[c.job][c.id + 1].by = c.worker

\* A source is removed only when an output was published and the completion of
\* the job is in the log, however often the notification is repeated.
SourceSafe ==
    \A j \in Jobs : source[j] = "removed" =>
        /\ j \in published
        /\ \E k \in DOMAIN events[j] : IsCompleted(events[j][k])

-----------------------------------------------------------------------------
(* What a step may do to a log *)

Grows(j) == events'[j] # events[j]

\* Of the queued jobs the one queued first is assigned, although the handler
\* selects it long before it records the assignment.  Only a job that failed and
\* was queued again in between may overtake.
OldestFirst ==
    [][\A q \in request :
          LET j == q.job
          IN  /\ j \in Queued /\ Last(events[j]).id = q.event
              /\ Grows(j) /\ Last(events'[j]).status = "assigned"
              => \A i \in Queued : <<i, j>> \notin older]_vars

\* Claim of the dispatch specification: what is assigned is a queued job.
AssignsQueued ==
    [][\A j \in Jobs :
          Grows(j) /\ Last(events'[j]).status = "assigned"
              => HasStatus(events[j], "queued")]_vars

-----------------------------------------------------------------------------
(* The lease a log stands for *)

\* The worker that wrote the last row holds the job, until it ends it.
Holder(log) ==
    IF log # <<>> /\ Last(log).by \in Workers /\ ~IsTerminal(Last(log))
    THEN Last(log).by ELSE Server

LeaseStatus(log) ==
    IF log = <<>> THEN "none"
    ELSE IF Holder(log) \in Workers /\ Last(log).status # "assigned" THEN "working"
    ELSE Last(log).status

\* The log implements the lease: assignments, reports, cancellations, timeouts and
\* retries, in whatever order they race, are steps of JobLease.
Lease == INSTANCE JobLease WITH
    NoWorker <- Server,
    holder   <- [j \in Jobs |-> Holder(events[j])],
    status   <- [j \in Jobs |-> LeaseStatus(events[j])]

LeaseSpec == Lease!Spec

-----------------------------------------------------------------------------
(* Progress *)

Reporting(w) == \E m \in publishing : m.row.by = w /\ (EventCheck(m) \/ CompleteJob(m))

\* The goroutines run, and Go's mutexes starve nobody: a handler that waits for
\* one again and again gets it.  Nothing obliges a user, a fault or a timeout.
Fairness ==
    /\ \A w \in Workers :
          /\ WF_vars(Ask(w))
          /\ SF_vars(RequestSelect(w) \/ RequestNone(w))
          /\ WF_vars(\E c \in ctx : c.worker = w /\ Publish(c))
          /\ SF_vars(Reporting(w))
    /\ WF_vars(RequestRead) /\ WF_vars(RequestInsert \/ RequestFail)
    /\ WF_vars(EventCheckFinalized) /\ WF_vars(EventInsert \/ EventFail)
    /\ WF_vars(RemoveSource) /\ WF_vars(EventAnswer)
    /\ WF_vars(IntakeCommit \/ IntakeAbort)
    /\ WF_vars(PassStart) /\ \A j \in Jobs : WF_vars(PassRead(j))
    /\ WF_vars(PassQueued) /\ WF_vars(PassCancels) /\ WF_vars(PassNext)
    /\ SF_vars(PassRetries) /\ SF_vars(PassTimesOut)

FairSpec == Spec /\ Fairness

\* An assignment that outlived jobTimeout is taken back, whatever else goes on, as
\* long as the bound leaves room for the two rows: a pass ends where one is refused.
ExpiredRecovered ==
    \A j \in Jobs :
        j \in expired ~> (j \notin expired \/ \E i \in Jobs : Len(events[i]) + 2 > MaxEvents)

\* Claim of the dispatch specification: a worker that accepts work, having fewer
\* jobs than it may hold, asks for a job again and again.
KeepsAsking ==
    \A w \in Workers :
        []<>(w \in asking \/ Cardinality({c \in ctx : c.worker = w}) >= AcceptLimit)

=============================================================================
