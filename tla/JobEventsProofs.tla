--------------------------- MODULE JobEventsProofs --------------------------
(***************************************************************************)
(* Proofs about JobEvents, for any jobs, workers, pipeline and             *)
(* disturbances: the ids of a log, who may write it, the lease it          *)
(* implements, when a source is removed and which job is assigned first.   *)
(***************************************************************************)
EXTENDS JobEvents, TLAPS

\* What a handler has read and not yet written is no longer than the log: rows
\* are only added, and an id read is one past the greatest id of its time.
InFlightBounded ==
    /\ \A q \in request : q.id <= Len(events[q.job])
    /\ \A h \in handling : h.pc = "insert" => h.msg.row.id <= Len(events[h.msg.job])
    /\ \A c \in cancels : c.id <= Len(events[c.job])
    /\ \A i \in intake : i.id <= Len(events[i.job])
    /\ \A p \in pass : \A t \in p.todo : t.id <= Len(events[t.job])

LogInv == TypeOK /\ Gapless /\ InFlightBounded

-----------------------------------------------------------------------------
(* Logs without gaps *)

\* A log without gaps continues with its length: NextId is what AddEvent computes.
LEMMA NextIdIsLen ==
    ASSUME NEW log \in Seq(Row), \A k \in DOMAIN log : log[k].id = k - 1
    PROVE  NextId(log) = Len(log)
<1>1. CASE log = <<>>
  BY <1>1 DEF NextId
<1>2. CASE log # <<>>
  <2> DEFINE IsGreatest(n) == \A k \in DOMAIN log : log[k].id <= n
             m == CHOOSE n \in {log[k].id : k \in DOMAIN log} : IsGreatest(n)
  <2>1. DOMAIN log = 1..Len(log) /\ Len(log) \in Nat \ {0}
    BY <1>2
  <2>2. Len(log) - 1 \in {log[k].id : k \in DOMAIN log} /\ IsGreatest(Len(log) - 1)
    BY <2>1
  <2>3. m \in {log[k].id : k \in DOMAIN log} /\ IsGreatest(m)
    BY <2>2
  <2>4. m = Len(log) - 1
    BY <2>1, <2>2, <2>3
  <2>5. NextId(log) = 1 + m
    BY <1>2 DEF NextId
  <2> HIDE DEF m
  <2> QED BY <2>1, <2>4, <2>5
<1> QED BY <1>1, <1>2

\* In a log without gaps an id that is free and was possible when it was read is the next.
LEMMA FreeIdIsNext ==
    ASSUME NEW log \in Seq(Row), \A k \in DOMAIN log : log[k].id = k - 1,
           NEW id \in Nat, id <= Len(log), ~HasId(log, id)
    PROVE  id = Len(log)
<1>1. SUFFICES ASSUME id < Len(log) PROVE FALSE
  OBVIOUS
<1>2. id + 1 \in DOMAIN log /\ log[id + 1].id = id
  BY <1>1
<1> QED BY <1>2 DEF HasId

\* Rows numbered on from the end of a log without gaps leave none.
LEMMA NumberedOn ==
    ASSUME NEW log \in Seq(Row), \A k \in DOMAIN log : log[k].id = k - 1,
           NEW rows \in Seq(Row), \A k \in DOMAIN rows : rows[k].id = Len(log) + k - 1
    PROVE  \A k \in DOMAIN (log \o rows) : (log \o rows)[k].id = k - 1
<1>1. SUFFICES ASSUME NEW k \in 1..(Len(log) + Len(rows))
               PROVE  (log \o rows)[k].id = k - 1
  OBVIOUS
<1>2. CASE k <= Len(log)
  BY <1>2
<1>3. CASE k > Len(log)
  <2>1. k - Len(log) \in DOMAIN rows /\ (log \o rows)[k] = rows[k - Len(log)]
    BY <1>3
  <2> QED BY <2>1
<1> QED BY <1>2, <1>3

\* Inserting rows numbered from a free id on keeps the log typed and without gaps,
\* and makes it longer.
LEMMA InsertKeepsLog ==
    ASSUME TypeOK, Gapless, NEW j \in Jobs, NEW rows \in Seq(Row), NEW id \in Nat,
           id <= Len(events[j]), ~HasId(events[j], id),
           \A k \in DOMAIN rows : rows[k].id = id + k - 1,
           Insert(j, rows)
    PROVE  /\ events' \in [Jobs -> Seq(Row)]
           /\ older' \subseteq Jobs \X Jobs
           /\ expired' \subseteq Jobs
           /\ Gapless'
           /\ \A i \in Jobs : Len(events[i]) <= Len(events'[i])
           /\ id = Len(events[j])
<1>1. events[j] \in Seq(Row) /\ id = Len(events[j])
  BY FreeIdIsNext DEF TypeOK, Gapless
<1>2. events' = [events EXCEPT ![j] = @ \o rows]
  BY DEF Insert
<1>3. events' \in [Jobs -> Seq(Row)] /\ \A i \in Jobs : Len(events[i]) <= Len(events'[i])
  BY <1>1, <1>2 DEF TypeOK
<1>4. \A k \in DOMAIN events'[j] : events'[j][k].id = k - 1
  <2>1. events'[j] = events[j] \o rows
    BY <1>2 DEF TypeOK
  <2> QED BY <1>1, <2>1, NumberedOn DEF Gapless
<1>5. Gapless'
  BY <1>2, <1>4 DEF TypeOK, Gapless
<1>6. older' \subseteq Jobs \X Jobs /\ expired' \subseteq Jobs
  BY DEF Insert, TypeOK
<1> QED BY <1>1, <1>3, <1>5, <1>6

\* In a reachable log the id read for the next event is the log's length.
LEMMA NextIdOfJob ==
    ASSUME LogInv, NEW j \in Jobs
    PROVE  NextId(events[j]) = Len(events[j]) /\ NextId(events[j]) \in Nat
  BY NextIdIsLen DEF LogInv, TypeOK, Gapless

-----------------------------------------------------------------------------
(* Types, ids and what is in flight: every step keeps LogInv *)

\* The steps of a request for work keep the types and the ids.
LEMMA DispatchKeepsLogInv ==
    ASSUME LogInv, DispatchStep
    PROVE  LogInv'
<1> USE DEF LogInv
<1>1. ASSUME NEW w \in Workers, Ask(w) PROVE LogInv'
  BY <1>1 DEF Ask, TypeOK, Gapless, InFlightBounded, logVars, serverVars
<1>2. ASSUME NEW w \in Workers, RequestSelect(w) PROVE LogInv'
  <2>1. PICK j \in Queued : request' = request \union {Selected(w, j)}
    BY <1>2 DEF RequestSelect
  <2>2. j \in Jobs /\ events[j] \in Seq(Row) /\ events[j] # <<>>
    BY DEF Queued, HasStatus, TypeOK
  <2>3. Last(events[j]).id \in Nat
    <3>1. Len(events[j]) \in DOMAIN events[j]
      BY <2>2
    <3>2. events[j][Len(events[j])] \in Row
      BY <2>2, <3>1
    <3> QED BY <3>2 DEF Last, Row
  <2>4. /\ Selected(w, j) \in [worker : Workers, job : Jobs, event : Nat,
                               read : BOOLEAN, id : Nat, waiting : BOOLEAN]
        /\ Selected(w, j).job = j /\ Selected(w, j).id = 0
    BY <2>2, <2>3 DEF Selected
  <2> HIDE DEF Selected
  <2>5. InFlightBounded'
    BY <1>2, <2>1, <2>2, <2>4 DEF RequestSelect, InFlightBounded, logVars
  <2> QED BY <1>2, <2>1, <2>4, <2>5
          DEF RequestSelect, TypeOK, Gapless, logVars, workerVars
<1>3. ASSUME NEW w \in Workers, RequestNone(w) PROVE LogInv'
  BY <1>3 DEF RequestNone, TypeOK, Gapless, InFlightBounded, logVars, serverVars
<1>4. CASE RequestRead
  <2>1. PICK q \in request : RequestRead!(q)
    BY <1>4 DEF RequestRead
  <2>2. q.job \in Jobs /\ NextId(events[q.job]) \in Nat
        /\ NextId(events[q.job]) = Len(events[q.job])
    BY NextIdOfJob DEF TypeOK
  <2>3. TypeOK'
    BY <2>1, <2>2 DEF TypeOK, logVars, workerVars
  <2>4. \A r \in request' : r \in request \/ (r.job = q.job /\ r.id = Len(events[q.job]))
    BY <2>1, <2>2 DEF TypeOK
  <2>5. InFlightBounded'
    BY <2>1, <2>2, <2>4 DEF InFlightBounded, logVars
  <2> QED BY <2>1, <2>3, <2>5 DEF Gapless, logVars
<1>5. CASE RequestInsert
  <2>1. PICK q \in request : RequestInsert!(q)
    BY <1>5 DEF RequestInsert
  <2> DEFINE rows == <<AssignedRow(q.id, q.worker)>>
  <2>2. /\ q.job \in Jobs /\ q.worker \in Workers /\ q.id \in Nat
        /\ q.id <= Len(events[q.job])
    BY DEF TypeOK, InFlightBounded
  <2>3. rows \in Seq(Row) /\ \A k \in DOMAIN rows : rows[k].id = q.id + k - 1
    BY <2>2 DEF AssignedRow, Row, Types, JobStatuses
  <2>4. ~HasId(events[q.job], q.id) /\ Insert(q.job, rows)
    BY <2>1 DEF CanInsert
  <2>5. /\ events' \in [Jobs -> Seq(Row)] /\ older' \subseteq Jobs \X Jobs
        /\ expired' \subseteq Jobs /\ Gapless'
        /\ \A i \in Jobs : Len(events[i]) <= Len(events'[i])
    BY <2>2, <2>3, <2>4, InsertKeepsLog
  <2>6. TypeOK'
    <3>1. [worker |-> q.worker, job |-> q.job, id |-> q.id,
           type |-> "Job", status |-> "assigned"] \in Context
      BY <2>2 DEF Context, Types
    <3>2. ctx' \subseteq Context /\ asking' \subseteq Workers
      BY <2>1, <3>1 DEF TypeOK
    <3> QED BY <2>1, <2>5, <3>2 DEF TypeOK
  <2>7. InFlightBounded'
    BY <2>1, <2>5 DEF InFlightBounded, TypeOK, Message, Row
  <2> QED BY <2>5, <2>6, <2>7
<1>6. CASE RequestFail
  BY <1>6 DEF RequestFail, TypeOK, Gapless, InFlightBounded, logVars, workerVars
<1> QED BY <1>1, <1>2, <1>3, <1>4, <1>5, <1>6 DEF DispatchStep

\* What a worker reports next is something a worker may report.
LEMMA NextReportsType ==
    ASSUME NEW c \in Context, NEW r \in NextReports(c)
    PROVE  r \in [type : Types, status : PhaseStatuses, retry : BOOLEAN]
<1> DEFINE Reportable == [type : Types, status : PhaseStatuses, retry : BOOLEAN]
<1>1. \A s \in Steps : Starts(s) \subseteq Reportable
  BY DEF Starts, Reports, Failure, Types, PhaseStatuses
<1>2. /\ c.type \in Types
      /\ c.status \in {"assigned", "resumed", "started", "completed", "failed"}
      /\ c.type = "Job" => c.status \in {"assigned", "started"}
  BY DEF Context, PhaseStatuses
<1>3. CASE c.status \in {"assigned", "failed"}
  BY <1>2, <1>3 DEF NextReports, Reports, Failure, Types, PhaseStatuses
<1>4. CASE c.status = "started"
  BY <1>1, <1>2, <1>4, PipelineAssumption DEF NextReports, Reports, Types, PhaseStatuses
<1>5. CASE c.status = "resumed"
  BY <1>1, <1>2, <1>5 DEF NextReports, Types
<1>6. CASE c.status = "completed"
  <2>1. c.type \in Steps /\ After[c.type] \subseteq Steps
    BY <1>2, <1>6, PipelineAssumption DEF Types
  <2>2. NextReports(c) = IF After[c.type] = {} THEN Reports("Job", {"completed"})
                         ELSE UNION {Starts(s) : s \in After[c.type]}
    BY <1>6 DEF NextReports
  <2>3. CASE After[c.type] = {}
    <3>1. r \in Reports("Job", {"completed"})
      BY <2>2, <2>3
    <3> QED BY <3>1 DEF Reports, Types, PhaseStatuses
  <2>4. CASE After[c.type] # {}
    <3>1. PICK s \in After[c.type] : r \in Starts(s)
      BY <2>2, <2>4
    <3> QED BY <1>1, <2>1, <3>1
  <2> QED BY <2>3, <2>4
<1> QED BY <1>2, <1>3, <1>4, <1>5, <1>6

\* A context that moves on is a context.
LEMMA AdvanceType ==
    ASSUME NEW c \in Context, NEW m \in Message, ctx \subseteq Context,
           disk \subseteq Context, Follows(c, m), Advance(c, m)
    PROVE  ctx' \subseteq Context /\ disk' \subseteq Context
<1> DEFINE next == [worker |-> c.worker, job |-> c.job, id |-> m.row.id,
                    type |-> m.row.type, status |-> m.row.status]
<1>1. ~IsTerminal(m.row) => next \in Context
  BY DEF IsTerminal, Context, Message, PhaseStatuses
<1> QED BY <1>1 DEF Advance, WithoutFile

\* So do those of a worker on its job.
LEMMA WorkerKeepsLogInv ==
    ASSUME LogInv, WorkerStep
    PROVE  LogInv'
<1> USE DEF LogInv
<1>1. ASSUME NEW c \in ctx, Publish(c) PROVE LogInv'
  <2>1. PICK r \in NextReports(c) :
          publishing' = publishing \union {Notification(c, r)}
          /\ net' = net \union {Notification(c, r)}
    BY <1>1 DEF Publish
  <2>2. Notification(c, r) \in Message
    BY NextReportsType DEF Notification, Message, Context, TypeOK
  <2> QED BY <1>1, <2>1, <2>2 DEF Publish, TypeOK, Gapless, InFlightBounded, logVars, serverVars
<1>2. ASSUME NEW c \in ctx, Refuse(c) PROVE LogInv'
  <2>1. PICK m \in publishing : /\ Follows(c, m) /\ Advance(c, m)
                                /\ publishing' = publishing \ {m} /\ net' = net \ {m}
    BY <1>2 DEF Refuse
  <2>2. ctx' \subseteq Context /\ disk' \subseteq Context
    BY <2>1, AdvanceType DEF TypeOK
  <2> QED BY <1>2, <2>1, <2>2 DEF Refuse, TypeOK, Gapless, InFlightBounded, logVars, serverVars
<1>3. ASSUME NEW w \in Workers, Crash(w) PROVE LogInv'
  <2>1. \A d \in disk : Resumed(d) \in Context
    BY PipelineAssumption, StepsAssumption DEF Resumed, Context, TypeOK, Types
  <2>2. ctx' \subseteq Context
    BY <1>3, <2>1 DEF Crash, TypeOK
  <2>3. request' \subseteq [worker : Workers, job : Jobs, event : Nat,
                            read : BOOLEAN, id : Nat, waiting : BOOLEAN]
    <3>1. \A q \in request : [q EXCEPT !.waiting = @ /\ q.worker # w] \in
                [worker : Workers, job : Jobs, event : Nat,
                 read : BOOLEAN, id : Nat, waiting : BOOLEAN]
      BY DEF TypeOK
    <3> QED BY <1>3, <3>1 DEF Crash
  <2>4. \A r \in request' : \E q \in request : r.job = q.job /\ r.id = q.id
    BY <1>3 DEF Crash, TypeOK
  <2>5. InFlightBounded'
    BY <1>3, <2>4 DEF Crash, InFlightBounded, logVars
  <2>6. TypeOK'
    BY <1>3, <2>2, <2>3 DEF Crash, TypeOK, logVars
  <2> QED BY <1>3, <2>5, <2>6 DEF Crash, Gapless, logVars
<1>4. ASSUME NEW c \in ctx, GiveUp(c) PROVE LogInv'
  BY <1>4 DEF GiveUp, TypeOK, Gapless, InFlightBounded, logVars, serverVars
<1> QED BY <1>1, <1>2, <1>3, <1>4 DEF WorkerStep

\* So do those of the handlers of its events.
LEMMA EventKeepsLogInv ==
    ASSUME LogInv, EventStep
    PROVE  LogInv'
<1> USE DEF LogInv
<1>1. ASSUME NEW m \in net, EventCheck(m) PROVE LogInv'
  <2>1. m \in Message /\ NextId(events[m.job]) = Len(events[m.job])
    BY NextIdOfJob DEF TypeOK, Message
  <2> QED BY <1>1, <2>1 DEF EventCheck, TypeOK, Gapless, InFlightBounded, logVars, workerVars
<1>2. ASSUME NEW m \in net, CompleteJob(m) PROVE LogInv'
  BY <1>2 DEF CompleteJob, TypeOK, Message, Gapless, InFlightBounded, logVars, workerVars
<1>3. CASE EventCheckFinalized
  <2>1. PICK h \in handling : EventCheckFinalized!(h)
    BY <1>3 DEF EventCheckFinalized
  <2>2. h.msg \in Message /\ NextId(events[h.msg.job]) = Len(events[h.msg.job])
    BY NextIdOfJob DEF TypeOK, Message
  <2>3. \A g \in handling' : /\ g \in [msg : Message,
                                      pc : {"finalized", "insert", "remove", "answer"}]
                             /\ g.pc = "insert" => g.msg.row.id <= Len(events[g.msg.job])
    BY <2>1, <2>2 DEF TypeOK, Afterwards, Message
  <2> QED BY <2>1, <2>3 DEF TypeOK, Gapless, InFlightBounded, logVars, workerVars
<1>4. CASE EventInsert
  <2>1. PICK h \in handling : EventInsert!(h)
    BY <1>4 DEF EventInsert
  <2> DEFINE row == h.msg.row
             job == h.msg.job
  <2>2. /\ h.msg \in Message /\ job \in Jobs /\ row \in Row /\ row.id \in Nat
        /\ row.id <= Len(events[job])
    BY <2>1 DEF TypeOK, InFlightBounded, Message, Row, PhaseStatuses, JobStatuses
  <2>3. <<row>> \in Seq(Row) /\ \A k \in DOMAIN <<row>> : <<row>>[k].id = row.id + k - 1
    BY <2>2
  <2>4. /\ events' \in [Jobs -> Seq(Row)] /\ older' \subseteq Jobs \X Jobs
        /\ expired' \subseteq Jobs /\ Gapless'
        /\ \A i \in Jobs : Len(events[i]) <= Len(events'[i])
    BY <2>1, <2>2, <2>3, InsertKeepsLog DEF CanInsert
  <2>5. handling' \subseteq [msg : Message, pc : {"remove", "answer"}]
    BY <2>1, <2>2 DEF Afterwards
  <2>6. TypeOK'
    BY <2>1, <2>4, <2>5 DEF TypeOK, workerVars
  <2>7. InFlightBounded'
    BY <2>1, <2>4, <2>5 DEF InFlightBounded, TypeOK
  <2> QED BY <2>4, <2>6, <2>7
<1>5. CASE EventFail
  BY <1>5 DEF EventFail, TypeOK, Gapless, InFlightBounded, logVars, workerVars
<1>6. CASE RemoveSource
  <2>1. PICK h \in handling : RemoveSource!(h)
    BY <1>6 DEF RemoveSource
  <2>2. handling' \subseteq [msg : Message, pc : {"answer"}]
    BY <2>1 DEF TypeOK
  <2>3. source' \in [Jobs -> {"present", "missing", "removed"}]
    BY <2>1 DEF TypeOK
  <2> QED BY <2>1, <2>2, <2>3 DEF TypeOK, Gapless, InFlightBounded, logVars, workerVars
<1>7. CASE RemoveSourceFails
  BY <1>7 DEF RemoveSourceFails, TypeOK, Gapless, InFlightBounded, logVars, workerVars
<1>8. CASE EventAnswer
  <2>1. PICK h \in handling : EventAnswer!(h)
    BY <1>8 DEF EventAnswer
  <2>2. ctx' \subseteq Context /\ disk' \subseteq Context
    BY <2>1, AdvanceType DEF TypeOK
  <2>3. publishing' \subseteq Message /\ net' \subseteq Message
    BY <2>1 DEF TypeOK
  <2> QED BY <2>1, <2>2, <2>3 DEF TypeOK, Gapless, InFlightBounded, logVars
<1> QED BY <1>1, <1>2, <1>3, <1>4, <1>5, <1>6, <1>7, <1>8 DEF EventStep

\* So do those of a cancellation.
LEMMA CancelKeepsLogInv ==
    ASSUME LogInv, CancelStep
    PROVE  LogInv'
<1> USE DEF LogInv
<1>1. ASSUME NEW j \in Jobs, CancelRead(j) PROVE LogInv'
  <2>1. NextId(events[j]) = Len(events[j]) /\ NextId(events[j]) \in Nat
    BY NextIdOfJob
  <2> DEFINE d == [job |-> j, id |-> NextId(events[j])]
  <2>2. d \in [job : Jobs, id : Nat] /\ d.id <= Len(events[d.job])
    BY <2>1
  <2>3. cancels' = cancels \union {d}
    BY <1>1 DEF CancelRead
  <2> HIDE DEF d
  <2> QED BY <1>1, <2>2, <2>3
          DEF CancelRead, TypeOK, Gapless, InFlightBounded, logVars, workerVars
<1>2. ASSUME NEW c \in cancels, CancelInsert(c) PROVE LogInv'
  <2> DEFINE rows == <<ServerRow(c.id, "canceled")>>
  <2>1. c.job \in Jobs /\ c.id \in Nat /\ c.id <= Len(events[c.job])
    BY DEF TypeOK, InFlightBounded
  <2>2. rows \in Seq(Row) /\ \A k \in DOMAIN rows : rows[k].id = c.id + k - 1
    BY <2>1 DEF ServerRow, Row, Types, JobStatuses
  <2>3. /\ events' \in [Jobs -> Seq(Row)] /\ older' \subseteq Jobs \X Jobs
        /\ expired' \subseteq Jobs /\ Gapless'
        /\ \A i \in Jobs : Len(events[i]) <= Len(events'[i])
    BY <1>2, <2>1, <2>2, InsertKeepsLog DEF CancelInsert, CanInsert
  <2>4. TypeOK'
    BY <1>2, <2>3 DEF CancelInsert, TypeOK, workerVars
  <2>5. InFlightBounded'
    BY <1>2, <2>3 DEF CancelInsert, InFlightBounded, TypeOK, Message
  <2> QED BY <2>3, <2>4, <2>5
<1>3. ASSUME NEW c \in cancels, CancelFail(c) PROVE LogInv'
  BY <1>3 DEF CancelFail, TypeOK, Gapless, InFlightBounded, logVars, workerVars
<1> QED BY <1>1, <1>2, <1>3 DEF CancelStep

\* What the intake reads: it will write from the end of the log on.
LEMMA SchedulingType ==
    ASSUME LogInv, NEW j \in Jobs, NEW flags, NEW by \in {"user", "maintenance"}
    PROVE  \A i \in Scheduling(j, flags, by) :
              /\ i \in [job : Jobs, id : Nat, revokes : BOOLEAN, by : {"user", "maintenance"}]
              /\ i.id <= Len(events[i.job])
<1>1. NextId(events[j]) = Len(events[j]) /\ NextId(events[j]) \in Nat
  BY NextIdOfJob
<1>2. Revokes(j, flags) \in BOOLEAN
  BY DEF Revokes
<1> QED BY <1>1, <1>2 DEF Scheduling

\* The rows of an intake are typed and numbered from its id on.
LEMMA IntakeRowsType ==
    ASSUME NEW i \in [job : Jobs, id : Nat, revokes : BOOLEAN, by : {"user", "maintenance"}]
    PROVE  /\ IntakeRows(i) \in Seq(Row)
           /\ \A k \in DOMAIN IntakeRows(i) : IntakeRows(i)[k].id = i.id + k - 1
<1>1. \A n \in Nat, s \in JobStatuses : ServerRow(n, s) \in Row /\ ServerRow(n, s).id = n
  BY DEF ServerRow, Row, Types
<1>2. CASE i.revokes
  <2>1. ServerRow(i.id, "canceled") \in Row /\ ServerRow(i.id + 1, "queued") \in Row
    BY <1>1 DEF JobStatuses
  <2> QED BY <1>1, <1>2, <2>1 DEF IntakeRows, JobStatuses
<1>3. CASE ~i.revokes
  BY <1>1, <1>3 DEF IntakeRows, JobStatuses
<1> QED BY <1>2, <1>3

\* So do those of what brings jobs in.
LEMMA IntakeKeepsLogInv ==
    ASSUME LogInv, IntakeStep
    PROVE  LogInv'
<1> USE DEF LogInv
<1>1. ASSUME NEW j \in Jobs, UserSchedules(j) PROVE LogInv'
  <2>1. PICK flags \in UserFlags : intake' = Scheduling(j, flags, "user")
    BY <1>1 DEF UserSchedules
  <2>2. \A i \in intake' :
           /\ i \in [job : Jobs, id : Nat, revokes : BOOLEAN, by : {"user", "maintenance"}]
           /\ i.id <= Len(events[i.job])
    BY <2>1, SchedulingType
  <2> QED BY <1>1, <2>2 DEF UserSchedules, TypeOK, Gapless, InFlightBounded, logVars, workerVars
<1>2. CASE IntakeCommit
  <2>1. PICK i \in intake : IntakeCommit!(i)
    BY <1>2 DEF IntakeCommit
  <2>2. i.job \in Jobs /\ i.id \in Nat /\ i.id <= Len(events[i.job])
    BY DEF TypeOK, InFlightBounded
  <2>3. /\ IntakeRows(i) \in Seq(Row)
        /\ \A k \in DOMAIN IntakeRows(i) : IntakeRows(i)[k].id = i.id + k - 1
    BY IntakeRowsType DEF TypeOK
  <2>4. /\ events' \in [Jobs -> Seq(Row)] /\ older' \subseteq Jobs \X Jobs
        /\ expired' \subseteq Jobs /\ Gapless'
        /\ \A j \in Jobs : Len(events[j]) <= Len(events'[j])
    BY <2>1, <2>2, <2>3, InsertKeepsLog DEF CanInsert
  <2>5. TypeOK'
    BY <2>1, <2>4 DEF TypeOK, workerVars
  <2>6. InFlightBounded'
    BY <2>1, <2>4 DEF InFlightBounded, TypeOK, Message
  <2> QED BY <2>4, <2>5, <2>6
<1>3. CASE IntakeAbort
  BY <1>3 DEF IntakeAbort, TypeOK, Gapless, InFlightBounded, logVars, workerVars
<1> QED BY <1>1, <1>2, <1>3 DEF IntakeStep

\* So do those of what goes wrong, and of time.
LEMMA EnvironmentKeepsLogInv ==
    ASSUME LogInv, EnvironmentStep
    PROVE  LogInv'
<1> USE DEF LogInv
<1>1. ASSUME NEW j \in Jobs, Expire(j) PROVE LogInv'
  BY <1>1 DEF Expire, TypeOK, Gapless, InFlightBounded, serverVars, workerVars
<1>2. ASSUME NEW j \in Jobs, SourceDisappears(j) PROVE LogInv'
  BY <1>2 DEF SourceDisappears, TypeOK, Gapless, InFlightBounded, logVars, serverVars, workerVars
<1>3. ASSUME NEW j \in Jobs, SourceReturns(j) PROVE LogInv'
  BY <1>3 DEF SourceReturns, TypeOK, Gapless, InFlightBounded, logVars, serverVars, workerVars
<1>4. CASE Restart
  BY <1>4 DEF Restart, TypeOK, Gapless, InFlightBounded, logVars, workerVars
<1> QED BY <1>1, <1>2, <1>3, <1>4 DEF EnvironmentStep

\* A pass as TypeOK and InFlightBounded want it.
Passes == [stage : {"queued", "failed", "timeout"}, listed : SUBSET Jobs,
           todo : SUBSET [job : Jobs, id : Nat, tired : BOOLEAN]]

\* A pass over the jobs that has read its rows has the type of one.
LEMMA ReadingType ==
    ASSUME LogInv, NEW j \in Jobs
    PROVE  /\ Reading(j) \in [job : Jobs, id : Nat, tired : BOOLEAN]
           /\ Reading(j).id <= Len(events[Reading(j).job])
<1>1. NextId(events[j]) = Len(events[j]) /\ NextId(events[j]) \in Nat
  BY NextIdOfJob
<1>2. (Failures(events[j]) > FailureBudget) \in BOOLEAN
  OBVIOUS
<1> QED BY <1>1, <1>2 DEF Reading

\* So has one at its next stage.
LEMMA StageType ==
    ASSUME LogInv, NEW stage \in {"queued", "failed", "timeout"}
    PROVE  \A p \in Stage(stage) :
              p \in Passes /\ \A t \in p.todo : t.id <= Len(events[t.job])
<1>1. Listing(stage) \subseteq Jobs
  BY DEF Listing, Queued
<1>2. expired \subseteq Jobs
  BY DEF LogInv, TypeOK
<1> DEFINE todo == IF stage = "timeout" THEN {Reading(j) : j \in expired} ELSE {}
<1>3. \A t \in todo : /\ t \in [job : Jobs, id : Nat, tired : BOOLEAN]
                     /\ t.id <= Len(events[t.job])
  BY <1>2, ReadingType
<1> HIDE DEF todo
<1>4. Stage(stage) = {[stage |-> stage, listed |-> Listing(stage), todo |-> todo]}
  BY DEF Stage, todo
<1> QED BY <1>1, <1>3, <1>4 DEF Passes

\* A pass that has taken up a job has a job less to do.
LEMMA DoneType ==
    ASSUME NEW p \in Passes, NEW t, \A u \in p.todo : u.id <= Len(events[u.job])
    PROVE  \A r \in Done(p, t) :
              r \in Passes /\ \A u \in r.todo : u.id <= Len(events[u.job])
  BY DEF Done, Passes

\* A row that maintenance appends itself.
LEMMA PassAppendsKeepsLogInv ==
    ASSUME LogInv, NEW p \in pass, NEW t \in p.todo,
           NEW status \in {"failed", "canceled"},
           PassAppends(p, t, ServerRow(t.id, status)),
           UNCHANGED <<source, published, request, handling, cancels, intake, workerVars>>
    PROVE  LogInv'
<1> USE DEF LogInv
<1> DEFINE rows == <<ServerRow(t.id, status)>>
<1>1. /\ p \in Passes /\ t.job \in Jobs /\ t.id \in Nat /\ t.id <= Len(events[t.job])
      /\ \A u \in p.todo : u.id <= Len(events[u.job])
  BY DEF TypeOK, InFlightBounded, Passes
<1>2. rows \in Seq(Row) /\ \A k \in DOMAIN rows : rows[k].id = t.id + k - 1
  BY <1>1 DEF ServerRow, Row, Types, JobStatuses
<1>3. CASE CanInsert(t.job, t.id, 1) /\ Insert(t.job, rows) /\ pass' = Done(p, t)
  <2>1. /\ events' \in [Jobs -> Seq(Row)] /\ older' \subseteq Jobs \X Jobs
        /\ expired' \subseteq Jobs /\ Gapless'
        /\ \A j \in Jobs : Len(events[j]) <= Len(events'[j])
    BY <1>1, <1>2, <1>3, InsertKeepsLog DEF CanInsert
  <2>2. \A r \in pass' : r \in Passes /\ \A u \in r.todo : u.id <= Len(events[u.job])
    BY <1>1, <1>3, DoneType
  <2>3. TypeOK'
    BY <2>1, <2>2 DEF TypeOK, Passes, workerVars
  <2>4. InFlightBounded'
    BY <2>1, <2>2 DEF InFlightBounded, TypeOK, Message, Passes
  <2> QED BY <2>1, <2>3, <2>4
<1>4. CASE pass' = {} /\ UNCHANGED logVars
  BY <1>4 DEF TypeOK, Gapless, InFlightBounded, logVars, workerVars
<1> QED BY <1>3, <1>4 DEF PassAppends

\* A job that maintenance schedules.
LEMMA PassSchedulesKeepsLogInv ==
    ASSUME LogInv, NEW p \in pass, NEW t \in p.todo, NEW flag,
           PassSchedules(p, t, flag),
           UNCHANGED <<logVars, source, published, request, handling, cancels, workerVars>>
    PROVE  LogInv'
<1> USE DEF LogInv
<1>1. p \in Passes /\ t.job \in Jobs /\ \A u \in p.todo : u.id <= Len(events[u.job])
  BY DEF TypeOK, InFlightBounded, Passes
<1>2. \A r \in pass' : r \in Passes /\ \A u \in r.todo : u.id <= Len(events[u.job])
  BY <1>1, DoneType DEF PassSchedules
<1>3. \A i \in intake' :
         /\ i \in [job : Jobs, id : Nat, revokes : BOOLEAN, by : {"user", "maintenance"}]
         /\ i.id <= Len(events[i.job])
  BY <1>1, SchedulingType DEF PassSchedules
<1> QED BY <1>2, <1>3 DEF TypeOK, Passes, Gapless, InFlightBounded, logVars, workerVars

\* The steps of the maintenance of jobs keep the types and the ids.
LEMMA PassKeepsLogInv ==
    ASSUME LogInv, PassStep
    PROVE  LogInv'
<1> USE DEF LogInv
<1>1. ASSUME NEW p \in pass
      PROVE  p \in Passes /\ \A u \in p.todo : u.id <= Len(events[u.job])
  BY DEF TypeOK, InFlightBounded, Passes
\* A step that changes nothing but the pass keeps LogInv if the new pass is a good one.
<1>2. ASSUME UNCHANGED <<logVars, source, published, request, handling, cancels,
                         intake, workerVars>>,
             \A r \in pass' : r \in Passes /\ \A u \in r.todo : u.id <= Len(events[u.job])
      PROVE  LogInv'
  BY <1>2 DEF TypeOK, Passes, Gapless, InFlightBounded, logVars, workerVars
<1>3. ASSUME NEW j \in Jobs, PassRead(j) PROVE LogInv'
  <2>1. PICK p \in pass :
          pass' = {[p EXCEPT !.listed = @ \ {j}, !.todo = @ \union {Reading(j)}]}
    BY <1>3 DEF PassRead
  <2> DEFINE r == [p EXCEPT !.listed = @ \ {j}, !.todo = @ \union {Reading(j)}]
  <2>2. /\ r \in [stage : {"queued", "failed", "timeout"}, listed : SUBSET Jobs,
                  todo : SUBSET [job : Jobs, id : Nat, tired : BOOLEAN]]
        /\ r.todo = p.todo \union {Reading(j)}
    BY <1>1, ReadingType DEF Passes
  <2>3. \A u \in r.todo : u.id <= Len(events[u.job])
    BY <1>1, <2>2, ReadingType
  <2> HIDE DEF r
  <2> QED BY <1>2, <1>3, <2>1, <2>2, <2>3 DEF PassRead, Passes, r
<1>4. CASE PassStart
  BY <1>2, <1>4, StageType DEF PassStart
<1>5. CASE PassQueued
  <2>1. PICK p \in pass : \E t \in p.todo : PassQueued!(p)!(t)
    BY <1>5 DEF PassQueued
  <2>2. PICK t \in p.todo : PassQueued!(p)!(t)
    BY <2>1
  <2>3. CASE pass' = Done(p, t) /\ UNCHANGED logVars
    BY <1>1, <1>2, <2>2, <2>3, DoneType
  <2>4. CASE PassAppends(p, t, ServerRow(t.id, "failed"))
    BY <2>2, <2>4, PassAppendsKeepsLogInv
  <2> QED BY <2>2, <2>3, <2>4
<1>6. CASE PassCancels
  BY <1>6, PassAppendsKeepsLogInv DEF PassCancels
<1>7. CASE PassRetries
  BY <1>7, PassSchedulesKeepsLogInv DEF PassRetries
<1>8. CASE PassTimesOut
  BY <1>8, PassSchedulesKeepsLogInv DEF PassTimesOut
<1>9. CASE PassNext
  <2>1. PICK p \in pass : pass' = IF p.stage = "timeout" THEN {} ELSE Stage(NextStage[p.stage])
    BY <1>9 DEF PassNext
  <2>2. p.stage # "timeout" => NextStage[p.stage] \in {"failed", "timeout"}
    BY <1>1 DEF NextStage, Passes
  <2> QED BY <1>2, <1>9, <2>1, <2>2, StageType DEF PassNext
<1> QED BY <1>3, <1>4, <1>5, <1>6, <1>7, <1>8, <1>9 DEF PassStep

-----------------------------------------------------------------------------

\* Every step keeps LogInv.
LEMMA LogInvStep ==
    ASSUME LogInv, [Next]_vars
    PROVE  LogInv'
<1>1. CASE UNCHANGED vars
  BY <1>1 DEF LogInv, TypeOK, Gapless, InFlightBounded, vars, logVars, serverVars, workerVars
<1> QED BY <1>1, DispatchKeepsLogInv, WorkerKeepsLogInv, EventKeepsLogInv,
           CancelKeepsLogInv, IntakeKeepsLogInv, PassKeepsLogInv,
           EnvironmentKeepsLogInv DEF Next

\* Everything the server and the workers hold stays typed, and the id a handler
\* will write never exceeds the length of the log it is for.
THEOREM LogInvariant == Spec => []LogInv
<1>1. Init => LogInv
  BY DEF Init, LogInv, TypeOK, Gapless, InFlightBounded
<1>2. LogInv /\ [Next]_vars => LogInv'
  BY LogInvStep
<1> QED BY <1>1, <1>2, PTL DEF Spec

\* Type correctness of the composed system.
THEOREM TypeCorrect == Spec => []TypeOK
  BY LogInvariant, PTL DEF LogInv

\* Whatever handlers race and whatever faults occur, the event ids of a job are
\* 0, 1, 2, ... in the order of insertion.
THEOREM LogsHaveNoGaps == Spec => []Gapless
  BY LogInvariant, PTL DEF LogInv

-----------------------------------------------------------------------------
(* The ways a log grows *)

Appends(j, rows) == events' = [events EXCEPT ![j] = @ \o rows]

\* RequestJob appends an assignment.
Assigns(q) ==
    /\ q.id = Len(events[q.job])
    /\ Appends(q.job, <<AssignedRow(q.id, q.worker)>>)
    /\ request' = request \ {q}

\* HandleWorkerEvent appends what a worker reported.
Records(h) ==
    /\ h.pc = "insert"
    /\ h.msg.row.id = Len(events[h.msg.job])
    /\ Appends(h.msg.job, <<h.msg.row>>)

IsServerRow(r) ==
    /\ r.by = Server
    /\ r.type = "Job"
    /\ r.status \in {"queued", "failed", "canceled"}

\* Everything else that appends does so for the server; the first row of a job
\* is the one that queues it.
Serves(j, rows) ==
    /\ rows \in Seq(Row) \ {<<>>}
    /\ \A k \in DOMAIN rows : IsServerRow(rows[k])
    /\ events[j] = <<>> => rows[Len(rows)].status = "queued"
    /\ Appends(j, rows)
    /\ request' = request

\* Whom the server cancels, fails or takes a job from: jobs that exist.
KnownJobs ==
    /\ \A c \in cancels : events[c.job] # <<>>
    /\ \A j \in expired : events[j] # <<>>
    /\ \A p \in pass : /\ \A j \in p.listed : events[j] # <<>>
                       /\ \A t \in p.todo : events[t.job] # <<>>

\* A row of the server is a server row.
LEMMA ServerRowIs ==
    ASSUME NEW id \in Nat, NEW s \in {"queued", "failed", "canceled"}
    PROVE  ServerRow(id, s) \in Row /\ IsServerRow(ServerRow(id, s))
  BY DEF ServerRow, Row, IsServerRow, Types, JobStatuses

\* A single row of the server.
LEMMA ServesRow ==
    ASSUME NEW j \in Jobs, NEW id \in Nat, NEW s \in {"queued", "failed", "canceled"},
           events[j] # <<>> \/ s = "queued",
           Insert(j, <<ServerRow(id, s)>>), request' = request
    PROVE  Serves(j, <<ServerRow(id, s)>>)
<1> DEFINE r == ServerRow(id, s)
<1>1. r \in Row /\ IsServerRow(r) /\ r.status = s
  BY ServerRowIs DEF ServerRow
<1>2. Appends(j, <<r>>)
  BY DEF Insert, Appends
<1> HIDE DEF r
<1>3. <<r>> \in Seq(Row) \ {<<>>} /\ Len(<<r>>) = 1 /\ \A k \in DOMAIN <<r>> : <<r>>[k] = r
  BY <1>1
<1> QED BY <1>1, <1>2, <1>3 DEF Serves, r

\* The rows an intake writes.
LEMMA ServesIntake ==
    ASSUME NEW j \in Jobs, NEW i \in [job : Jobs, id : Nat, revokes : BOOLEAN,
                                      by : {"user", "maintenance"}],
           Insert(j, IntakeRows(i)), request' = request
    PROVE  Serves(j, IntakeRows(i))
<1>1. \A n \in Nat, s \in {"queued", "failed", "canceled"} :
         ServerRow(n, s) \in Row /\ IsServerRow(ServerRow(n, s)) /\ ServerRow(n, s).status = s
  BY ServerRowIs DEF ServerRow
<1>2. IntakeRows(i) \in Seq(Row) \ {<<>>}
      /\ IntakeRows(i)[Len(IntakeRows(i))].status = "queued"
      /\ \A k \in DOMAIN IntakeRows(i) : IsServerRow(IntakeRows(i)[k])
  <2>1. CASE i.revokes
    <3> DEFINE a == ServerRow(i.id, "canceled")
               b == ServerRow(i.id + 1, "queued")
    <3>1. a \in Row /\ b \in Row /\ IsServerRow(a) /\ IsServerRow(b) /\ b.status = "queued"
      BY <1>1
    <3>2. IntakeRows(i) = <<a, b>>
      BY <2>1 DEF IntakeRows
    <3> HIDE DEF a, b
    <3> QED BY <3>1, <3>2
  <2>2. CASE ~i.revokes
    <3> DEFINE a == ServerRow(i.id, "queued")
    <3>1. a \in Row /\ IsServerRow(a) /\ a.status = "queued"
      BY <1>1
    <3>2. IntakeRows(i) = <<a>>
      BY <2>2 DEF IntakeRows
    <3> HIDE DEF a
    <3> QED BY <3>1, <3>2
  <2> QED BY <2>1, <2>2
<1> QED BY <1>2 DEF Serves, Insert, Appends

\* Every step leaves the logs alone or lets one of them grow in one of these ways.
LEMMA LogSteps ==
    ASSUME LogInv, KnownJobs, [Next]_vars
    PROVE  \/ UNCHANGED events
           \/ \E q \in request : Assigns(q)
           \/ \E h \in handling : Records(h)
           \/ \E j \in Jobs : \E rows : Serves(j, rows)
<1> USE DEF LogInv
<1>1. CASE UNCHANGED vars
  BY <1>1 DEF vars, logVars
<1>2. CASE DispatchStep
  <2>1. ASSUME NEW q \in request, RequestInsert!(q) PROVE Assigns(q)
    <3>1. q.job \in Jobs /\ q.id \in Nat /\ q.id <= Len(events[q.job])
      BY DEF TypeOK, InFlightBounded
    <3>2. q.id = Len(events[q.job])
      BY <2>1, <3>1, FreeIdIsNext DEF TypeOK, Gapless, CanInsert
    <3> QED BY <2>1, <3>2 DEF Assigns, Appends, Insert
  <2> QED BY <1>2, <2>1 DEF DispatchStep, Ask, RequestSelect, RequestNone, RequestRead,
                            RequestInsert, RequestFail, logVars
<1>3. CASE WorkerStep
  BY <1>3 DEF WorkerStep, Publish, Refuse, GiveUp, Crash, logVars
<1>4. CASE EventStep
  <2>1. ASSUME NEW h \in handling, EventInsert!(h) PROVE Records(h)
    <3>1. h.msg.job \in Jobs /\ h.msg.row.id \in Nat
          /\ h.msg.row.id <= Len(events[h.msg.job])
      BY <2>1 DEF TypeOK, InFlightBounded, Message
    <3>2. h.msg.row.id = Len(events[h.msg.job])
      BY <2>1, <3>1, FreeIdIsNext DEF TypeOK, Gapless, CanInsert
    <3> QED BY <2>1, <3>2 DEF Records, Appends, Insert
  <2> QED BY <1>4, <2>1 DEF EventStep, EventCheck, CompleteJob, EventCheckFinalized,
                            EventInsert, EventFail, RemoveSource, RemoveSourceFails,
                            EventAnswer, logVars
<1>5. CASE CancelStep
  <2>1. ASSUME NEW c \in cancels, CancelInsert(c)
        PROVE  Serves(c.job, <<ServerRow(c.id, "canceled")>>)
    BY <2>1, ServesRow DEF CancelInsert, KnownJobs, TypeOK
  <2>2. \A c \in cancels : c.job \in Jobs
    BY DEF TypeOK
  <2> QED BY <1>5, <2>1, <2>2 DEF CancelStep, CancelRead, CancelFail, logVars
<1>6. CASE IntakeStep
  <2>1. ASSUME NEW i \in intake, IntakeCommit!(i) PROVE Serves(i.job, IntakeRows(i))
    BY <2>1, ServesIntake DEF TypeOK
  <2>2. \A i \in intake : i.job \in Jobs
    BY DEF TypeOK
  <2> QED BY <1>6, <2>1, <2>2 DEF IntakeStep, UserSchedules, IntakeCommit, IntakeAbort, logVars
<1>7. CASE PassStep
  <2>1. ASSUME NEW p \in pass, NEW t \in p.todo, NEW s \in {"failed", "canceled"},
               PassAppends(p, t, ServerRow(t.id, s)), UNCHANGED request
        PROVE  UNCHANGED events \/ \E j \in Jobs : \E rows : Serves(j, rows)
    <3>1. t.job \in Jobs /\ t.id \in Nat /\ events[t.job] # <<>>
      BY DEF TypeOK, KnownJobs
    <3> QED BY <2>1, <3>1, ServesRow DEF PassAppends, logVars
  <2> QED BY <1>7, <2>1 DEF PassStep, PassRead, PassStart, PassQueued, PassCancels,
                            PassRetries, PassTimesOut, PassNext, logVars
<1>8. CASE EnvironmentStep
  BY <1>8 DEF EnvironmentStep, Expire, SourceDisappears, SourceReturns, Restart, logVars
<1> QED BY <1>1, <1>2, <1>3, <1>4, <1>5, <1>6, <1>7, <1>8 DEF Next

\* Rows are only ever added.
LEMMA LogsGrow ==
    ASSUME LogInv, KnownJobs, [Next]_vars, NEW j \in Jobs
    PROVE  /\ events[j] \in Seq(Row) /\ events'[j] \in Seq(Row)
           /\ Len(events[j]) <= Len(events'[j])
           /\ \A k \in DOMAIN events[j] : events'[j][k] = events[j][k]
<1>1. LogInv'
  BY LogInvStep
<1>2. events \in [Jobs -> Seq(Row)] /\ events' \in [Jobs -> Seq(Row)]
  BY <1>1 DEF LogInv, TypeOK
<1>3. ASSUME NEW i \in Jobs, NEW rows \in Seq(Row), Appends(i, rows)
      PROVE  /\ Len(events[j]) <= Len(events'[j])
             /\ \A k \in DOMAIN events[j] : events'[j][k] = events[j][k]
  <2>1. events'[j] = IF i = j THEN events[j] \o rows ELSE events[j]
    BY <1>2, <1>3 DEF Appends
  <2> QED BY <1>2, <2>1
<1>4. ASSUME NEW q \in request, Assigns(q)
      PROVE  q.job \in Jobs /\ <<AssignedRow(q.id, q.worker)>> \in Seq(Row)
  <2>1. q.job \in Jobs /\ AssignedRow(q.id, q.worker) \in Row
    BY DEF LogInv, TypeOK, AssignedRow, Row, Types, JobStatuses
  <2> QED BY <2>1
<1>5. ASSUME NEW h \in handling, Records(h)
      PROVE  h.msg.job \in Jobs /\ <<h.msg.row>> \in Seq(Row)
  <2>1. h.msg.job \in Jobs /\ h.msg.row \in Row
    BY DEF LogInv, TypeOK, Message, Row, JobStatuses, PhaseStatuses
  <2> QED BY <2>1
<1>6. ASSUME UNCHANGED events
      PROVE  /\ Len(events[j]) <= Len(events'[j])
             /\ \A k \in DOMAIN events[j] : events'[j][k] = events[j][k]
  BY <1>2, <1>6
<1>7. \/ UNCHANGED events
      \/ \E i \in Jobs : \E rows \in Seq(Row) : Appends(i, rows)
  BY <1>4, <1>5, LogSteps DEF Assigns, Records, Serves
<1>8. events[j] \in Seq(Row) /\ events'[j] \in Seq(Row)
  BY <1>2
<1> QED BY <1>3, <1>6, <1>7, <1>8

\* A pass whose jobs exist.
KnownPass(p) ==
    /\ \A j \in p.listed : events[j] # <<>>
    /\ \A t \in p.todo : events[t.job] # <<>>

\* A stage lists jobs that exist.
LEMMA StageKnown ==
    ASSUME LogInv, KnownJobs, NEW stage \in {"queued", "failed", "timeout"}
    PROVE  \A p \in Stage(stage) : KnownPass(p)
<1>1. \A j \in Listing(stage) : events[j] # <<>>
  BY DEF Listing, Queued, HasStatus
<1> DEFINE todo == IF stage = "timeout" THEN {Reading(j) : j \in expired} ELSE {}
<1>2. \A t \in todo : events[t.job] # <<>>
  BY DEF KnownJobs, Reading
<1> HIDE DEF todo
<1>3. Stage(stage) = {[stage |-> stage, listed |-> Listing(stage), todo |-> todo]}
  BY DEF Stage, todo
<1> QED BY <1>1, <1>2, <1>3 DEF KnownPass

\* The passes after a step of the maintenance.
LEMMA PassKnown ==
    ASSUME LogInv, KnownJobs, PassStep
    PROVE  \A r \in pass' : KnownPass(r)
<1> USE DEF LogInv
<1>1. ASSUME NEW p \in pass
      PROVE  p \in Passes /\ KnownPass(p)
  BY DEF TypeOK, KnownJobs, KnownPass, Passes
<1>2. ASSUME NEW p \in pass, NEW t PROVE \A r \in Done(p, t) : KnownPass(r)
  BY <1>1 DEF Done, KnownPass, Passes
<1>3. ASSUME NEW j \in Jobs, PassRead(j) PROVE \A r \in pass' : KnownPass(r)
  <2>1. PICK p \in pass : /\ j \in p.listed
          /\ pass' = {[p EXCEPT !.listed = @ \ {j}, !.todo = @ \union {Reading(j)}]}
    BY <1>3 DEF PassRead
  <2> DEFINE r == [p EXCEPT !.listed = @ \ {j}, !.todo = @ \union {Reading(j)}]
  <2>2. r.listed = p.listed \ {j} /\ r.todo = p.todo \union {Reading(j)}
    BY <1>1 DEF Passes
  <2>3. Reading(j).job = j
    BY DEF Reading
  <2> HIDE DEF r
  <2>4. KnownPass(r)
    BY <1>1, <2>1, <2>2, <2>3 DEF KnownPass
  <2> QED BY <2>1, <2>4 DEF r
<1>4. CASE PassStart
  BY <1>4, StageKnown DEF PassStart
<1>5. CASE PassQueued
  BY <1>2, <1>5 DEF PassQueued, PassAppends
<1>6. CASE PassCancels
  BY <1>2, <1>6 DEF PassCancels, PassAppends
<1>7. CASE PassRetries
  BY <1>2, <1>7 DEF PassRetries, PassSchedules
<1>8. CASE PassTimesOut
  BY <1>2, <1>8 DEF PassTimesOut, PassSchedules
<1>9. CASE PassNext
  <2>1. PICK p \in pass : pass' = IF p.stage = "timeout" THEN {} ELSE Stage(NextStage[p.stage])
    BY <1>9 DEF PassNext
  <2>2. p.stage # "timeout" => NextStage[p.stage] \in {"failed", "timeout"}
    BY <1>1 DEF NextStage, Passes
  <2> QED BY <2>1, <2>2, StageKnown
<1> QED BY <1>3, <1>4, <1>5, <1>6, <1>7, <1>8, <1>9 DEF PassStep

\* A job that is known of stays known.
LEMMA KnownJobsStep ==
    ASSUME LogInv, KnownJobs, [Next]_vars
    PROVE  KnownJobs'
<1> USE DEF LogInv
<1>1. ASSUME NEW j \in Jobs, events[j] # <<>> PROVE events'[j] # <<>>
  <2>1. /\ events[j] \in Seq(Row) /\ events'[j] \in Seq(Row)
        /\ Len(events[j]) <= Len(events'[j])
    BY LogsGrow
  <2> QED BY <1>1, <2>1
<1>2. LogInv'
  BY LogInvStep
\* A step that appends takes jobs from expired, and only Expire adds one.
<1>3. \A j \in expired' : events[j] # <<>> \/ events'[j] # <<>>
  BY DEF KnownJobs, Next, vars, logVars, DispatchStep, Ask, RequestSelect, RequestNone,
         RequestRead, RequestInsert, RequestFail, WorkerStep, Publish, Refuse, GiveUp,
         Crash, EventStep, EventCheck, CompleteJob, EventCheckFinalized, EventInsert,
         EventFail, RemoveSource, RemoveSourceFails, EventAnswer, CancelStep, CancelRead,
         CancelInsert, CancelFail, IntakeStep, UserSchedules, IntakeCommit, IntakeAbort,
         PassStep, PassRead, PassStart, PassQueued, PassCancels, PassRetries, PassTimesOut,
         PassNext, PassAppends, EnvironmentStep, Expire, SourceDisappears, SourceReturns,
         Restart, Insert
<1>4. \A c \in cancels' : events[c.job] # <<>>
  <2>1. CancelStep \/ cancels' \subseteq cancels
    BY DEF Next, vars, serverVars, DispatchStep, Ask, RequestSelect, RequestNone,
           RequestRead, RequestInsert, RequestFail, WorkerStep, Publish, Refuse, GiveUp,
           Crash, EventStep, EventCheck, CompleteJob, EventCheckFinalized, EventInsert,
           EventFail, RemoveSource, RemoveSourceFails, EventAnswer, IntakeStep,
           UserSchedules, IntakeCommit, IntakeAbort, PassStep, PassRead, PassStart,
           PassQueued, PassCancels, PassRetries, PassTimesOut, PassNext,
           EnvironmentStep, Expire, SourceDisappears, SourceReturns, Restart
  <2>2. ASSUME NEW j \in Jobs, CancelRead(j) PROVE \A c \in cancels' : events[c.job] # <<>>
    BY <2>2 DEF CancelRead, KnownJobs
  <2>3. CancelStep => (\E j \in Jobs : CancelRead(j)) \/ cancels' \subseteq cancels
    BY DEF CancelStep, CancelInsert, CancelFail
  <2> QED BY <2>1, <2>2, <2>3 DEF KnownJobs
<1>5. \A r \in pass' : KnownPass(r)
  <2>1. PassStep \/ pass' \subseteq pass
    BY DEF Next, vars, serverVars, DispatchStep, Ask, RequestSelect, RequestNone,
           RequestRead, RequestInsert, RequestFail, WorkerStep, Publish, Refuse, GiveUp,
           Crash, EventStep, EventCheck, CompleteJob, EventCheckFinalized, EventInsert,
           EventFail, RemoveSource, RemoveSourceFails, EventAnswer, CancelStep, CancelRead,
           CancelInsert, CancelFail, IntakeStep, UserSchedules, IntakeCommit, IntakeAbort,
           EnvironmentStep, Expire, SourceDisappears, SourceReturns, Restart
  <2> QED BY <2>1, PassKnown DEF KnownJobs, KnownPass
<1>6. /\ \A c \in cancels' : c.job \in Jobs
      /\ expired' \subseteq Jobs
      /\ \A r \in pass' : r.listed \subseteq Jobs /\ \A t \in r.todo : t.job \in Jobs
  BY <1>2 DEF TypeOK
<1> QED BY <1>1, <1>3, <1>4, <1>5, <1>6 DEF KnownJobs, KnownPass

-----------------------------------------------------------------------------
(* Assignments *)

\* The job of the log was queued, and is not assigned since.
Unassigned(log) ==
    \E k \in DOMAIN log :
        /\ log[k].status = "queued"
        /\ \A n \in DOMAIN log : k <= n => log[n].status # "assigned"

\* NoDoubleAssignment for one log.
AssignedOnce(log) ==
    \A k, n \in DOMAIN log :
        k < n /\ log[k].status = "assigned" /\ log[n].status = "assigned"
            => \E q \in (k + 1)..(n - 1) : log[q].status = "queued"

\* One request is in flight, and the job it selected has not been assigned since
\* it was queued: only another request could assign it.
RequestInv ==
    /\ \A q, r \in request : q = r
    /\ \A q \in request : Unassigned(events[q.job])
    /\ \A j \in Jobs : AssignedOnce(events[j])

\* A row that assigns nothing leaves every assignment alone.
LEMMA OtherRows ==
    ASSUME NEW log \in Seq(Row), NEW rows \in Seq(Row),
           \A k \in DOMAIN rows : rows[k].status # "assigned"
    PROVE  /\ Unassigned(log) => Unassigned(log \o rows)
           /\ AssignedOnce(log) => AssignedOnce(log \o rows)
<1>1. /\ log \o rows \in Seq(Row) /\ Len(log) \in Nat /\ Len(rows) \in Nat
      /\ Len(log \o rows) = Len(log) + Len(rows)
      /\ DOMAIN log = 1..Len(log) /\ DOMAIN (log \o rows) = 1..(Len(log) + Len(rows))
  OBVIOUS
<1>2. \A k \in DOMAIN log : k \in DOMAIN (log \o rows) /\ (log \o rows)[k] = log[k]
  OBVIOUS
<1>3. \A k \in DOMAIN (log \o rows) : k \notin DOMAIN log => (log \o rows)[k].status # "assigned"
  <2>1. ASSUME NEW k \in DOMAIN (log \o rows), k \notin DOMAIN log
        PROVE  k - Len(log) \in DOMAIN rows /\ (log \o rows)[k] = rows[k - Len(log)]
    BY <2>1
  <2> QED BY <2>1
<1> DEFINE all == log \o rows
<1>4. all = log \o rows
  OBVIOUS
<1> HIDE DEF all
<1>5. Unassigned(log) => Unassigned(all)
  BY <1>1, <1>2, <1>3, <1>4 DEF Unassigned
<1>6. ASSUME AssignedOnce(log) PROVE AssignedOnce(all)
  <2>1. SUFFICES ASSUME NEW k \in DOMAIN all, NEW n \in DOMAIN all, k < n,
                        all[k].status = "assigned", all[n].status = "assigned"
                 PROVE  \E q \in (k + 1)..(n - 1) : all[q].status = "queued"
    BY DEF AssignedOnce
  <2>2. k \in DOMAIN log /\ n \in DOMAIN log /\ all[k] = log[k] /\ all[n] = log[n]
    BY <1>1, <1>2, <1>3, <1>4, <2>1
  <2>3. PICK q \in (k + 1)..(n - 1) : log[q].status = "queued"
    BY <1>6, <2>1, <2>2 DEF AssignedOnce
  <2>4. q \in DOMAIN log
    BY <1>1, <2>2, <2>3
  <2> QED BY <1>2, <1>4, <2>3, <2>4
<1> QED BY <1>4, <1>5, <1>6

\* An assignment after a queueing.
LEMMA Assignment ==
    ASSUME NEW log \in Seq(Row), NEW row \in Row, Unassigned(log), AssignedOnce(log)
    PROVE  AssignedOnce(log \o <<row>>)
<1> DEFINE all == log \o <<row>>
<1>1. /\ Len(log) \in Nat /\ DOMAIN log = 1..Len(log) /\ DOMAIN all = 1..(Len(log) + 1)
      /\ \A k \in DOMAIN log : all[k] = log[k]
  OBVIOUS
<1> HIDE DEF all
<1>2. SUFFICES ASSUME NEW k \in DOMAIN all, NEW n \in DOMAIN all, k < n,
                      all[k].status = "assigned", all[n].status = "assigned"
               PROVE  \E q \in (k + 1)..(n - 1) : all[q].status = "queued"
  BY DEF AssignedOnce, all
<1>3. k \in DOMAIN log /\ log[k].status = "assigned"
  BY <1>1, <1>2
<1>4. CASE n \in DOMAIN log
  <2>1. PICK q \in (k + 1)..(n - 1) : log[q].status = "queued"
    BY <1>1, <1>2, <1>3, <1>4 DEF AssignedOnce
  <2> QED BY <1>1, <1>2, <1>3, <1>4, <2>1
<1>5. CASE n \notin DOMAIN log
  <2>1. n = Len(log) + 1
    BY <1>1, <1>2, <1>5
  <2>2. PICK q \in DOMAIN log : /\ log[q].status = "queued"
                                /\ \A i \in DOMAIN log : q <= i => log[i].status # "assigned"
    BY DEF Unassigned
  <2>3. k < q
    BY <1>1, <1>3, <2>2
  <2> QED BY <1>1, <1>2, <1>3, <2>1, <2>2, <2>3
<1> QED BY <1>4, <1>5

\* A request comes from a request for the same job or selects a queued one.
LEMMA RequestSteps ==
    ASSUME LogInv, [Next]_vars, \A q, r \in request : q = r
    PROVE  /\ \A q, r \in request' : q = r
           /\ \A r \in request' :
                 \/ \E q \in request : q.job = r.job
                 \/ /\ r.job \in Jobs /\ HasStatus(events[r.job], "queued")
                    /\ UNCHANGED events
<1> USE DEF LogInv
<1>1. ASSUME NEW w \in Workers, RequestSelect(w)
      PROVE  /\ \A q, r \in request' : q = r
             /\ \A r \in request' : /\ r.job \in Jobs /\ HasStatus(events[r.job], "queued")
                                    /\ UNCHANGED events
  <2>1. PICK j \in Queued : request' = {Selected(w, j)}
    BY <1>1 DEF RequestSelect
  <2>2. Selected(w, j).job = j /\ j \in Jobs /\ HasStatus(events[j], "queued")
    BY DEF Selected, Queued
  <2> QED BY <1>1, <2>1, <2>2 DEF RequestSelect, logVars
<1>2. ASSUME RequestRead
      PROVE  /\ \A q, r \in request' : q = r
             /\ \A r \in request' : \E q \in request : q.job = r.job
  <2>1. PICK q \in request :
          request' = (request \ {q}) \union {[q EXCEPT !.read = TRUE, !.id = NextId(events[q.job])]}
    BY <1>2 DEF RequestRead
  <2>2. request = {q}
    OBVIOUS
  <2>3. [q EXCEPT !.read = TRUE, !.id = NextId(events[q.job])].job = q.job
    BY DEF TypeOK
  <2> QED BY <2>1, <2>2, <2>3
<1>3. ASSUME NEW w \in Workers, Crash(w)
      PROVE  /\ \A q, r \in request' : q = r
             /\ \A r \in request' : \E q \in request : q.job = r.job
  <2> DEFINE left(q) == [q EXCEPT !.waiting = @ /\ q.worker # w]
  <2>1. request' = {left(q) : q \in request}
    BY <1>3 DEF Crash
  <2>2. \A q \in request : left(q).job = q.job
    BY DEF TypeOK
  <2> HIDE DEF left
  <2> QED BY <2>1, <2>2
<1>4. \/ \E w \in Workers : RequestSelect(w) \/ Crash(w)
      \/ RequestRead
      \/ request' \subseteq request
  BY DEF Next, vars, serverVars, DispatchStep, Ask, RequestNone,
         RequestInsert, RequestFail, WorkerStep, Publish, Refuse, GiveUp,
         EventStep, EventCheck, CompleteJob, EventCheckFinalized, EventInsert,
         EventFail, RemoveSource, RemoveSourceFails, EventAnswer, CancelStep, CancelRead,
         CancelInsert, CancelFail, IntakeStep, UserSchedules, IntakeCommit, IntakeAbort,
         PassStep, PassRead, PassStart, PassQueued, PassCancels, PassRetries, PassTimesOut,
         PassNext, EnvironmentStep, Expire, SourceDisappears, SourceReturns, Restart
<1> QED BY <1>1, <1>2, <1>3, <1>4

\* A job whose status row says queued is unassigned.
LEMMA QueuedUnassigned ==
    ASSUME NEW log \in Seq(Row), HasStatus(log, "queued")
    PROVE  Unassigned(log)
<1>1. Len(log) \in DOMAIN log /\ \A n \in DOMAIN log : Len(log) <= n => n = Len(log)
  BY DEF HasStatus
<1> QED BY <1>1 DEF HasStatus, Unassigned

\* Every step leaves one request in flight, and its job unassigned.
LEMMA RequestInvStep ==
    ASSUME LogInv, KnownJobs, RequestInv, [Next]_vars
    PROVE  RequestInv'
<1>1. /\ \A j \in Jobs : events[j] \in Seq(Row)
      /\ events \in [Jobs -> Seq(Row)]
      /\ \A q \in request : q.job \in Jobs /\ q.worker \in Workers /\ q.id \in Nat
      /\ \A h \in handling : /\ h.msg.job \in Jobs /\ h.msg.row \in Row
                             /\ h.msg.row.status # "assigned"
  BY DEF LogInv, TypeOK, Message, Row, JobStatuses, PhaseStatuses
\* Rows that assign nothing, for some job.
<1>2. ASSUME NEW j \in Jobs, NEW rows \in Seq(Row), Appends(j, rows),
             \A k \in DOMAIN rows : rows[k].status # "assigned"
      PROVE  \A i \in Jobs : /\ Unassigned(events[i]) => Unassigned(events'[i])
                             /\ AssignedOnce(events[i]) => AssignedOnce(events'[i])
  <2>1. \A i \in Jobs : events'[i] = IF i = j THEN events[i] \o rows ELSE events[i]
    BY <1>1, <1>2 DEF Appends
  <2>2. /\ Unassigned(events[j]) => Unassigned(events[j] \o rows)
        /\ AssignedOnce(events[j]) => AssignedOnce(events[j] \o rows)
    BY <1>1, <1>2, OtherRows
  <2> QED BY <2>1, <2>2
<1>3. \/ \A i \in Jobs : /\ Unassigned(events[i]) => Unassigned(events'[i])
                         /\ AssignedOnce(events[i]) => AssignedOnce(events'[i])
      \/ \E q \in request : Assigns(q)
  <2>1. ASSUME NEW h \in handling, Records(h)
        PROVE  \A i \in Jobs : /\ Unassigned(events[i]) => Unassigned(events'[i])
                               /\ AssignedOnce(events[i]) => AssignedOnce(events'[i])
    <3> DEFINE rows == <<h.msg.row>>
    <3>1. rows \in Seq(Row) /\ \A k \in DOMAIN rows : rows[k].status # "assigned"
      BY <1>1
    <3>2. h.msg.job \in Jobs /\ Appends(h.msg.job, rows)
      BY <1>1, <2>1 DEF Records
    <3> HIDE DEF rows
    <3> QED BY <1>2, <3>1, <3>2
  <2>2. ASSUME NEW j \in Jobs, NEW rows, Serves(j, rows)
        PROVE  \A i \in Jobs : /\ Unassigned(events[i]) => Unassigned(events'[i])
                               /\ AssignedOnce(events[i]) => AssignedOnce(events'[i])
    BY <1>2, <2>2 DEF Serves, IsServerRow
  <2>3. CASE UNCHANGED events
    BY <2>3
  <2> QED BY <2>1, <2>2, <2>3, LogSteps
<1>4. CASE \E q \in request : Assigns(q)
  <2>1. PICK q \in request : Assigns(q)
    BY <1>4
  <2>2. request' = {}
    BY <2>1 DEF RequestInv, Assigns
  <2>3. AssignedRow(q.id, q.worker) \in Row
    BY <1>1 DEF AssignedRow, Row, Types, JobStatuses
  <2>4. AssignedOnce(events[q.job] \o <<AssignedRow(q.id, q.worker)>>)
    BY <1>1, <2>3, Assignment DEF RequestInv
  <2>5. \A i \in Jobs : events'[i] = IF i = q.job THEN events[i] \o <<AssignedRow(q.id, q.worker)>>
                                    ELSE events[i]
    BY <1>1, <2>1 DEF Assigns, Appends
  <2>6. \A i \in Jobs : AssignedOnce(events'[i])
    BY <2>4, <2>5 DEF RequestInv
  <2> QED BY <2>2, <2>6 DEF RequestInv
<1>5. CASE \A i \in Jobs : /\ Unassigned(events[i]) => Unassigned(events'[i])
                           /\ AssignedOnce(events[i]) => AssignedOnce(events'[i])
  <2>1. \A q, r \in request : q = r
    BY DEF RequestInv
  <2>2. \A q, r \in request' : q = r
    BY <2>1, RequestSteps
  <2>3. ASSUME NEW r \in request' PROVE Unassigned(events'[r.job])
    <3>1. CASE \E q \in request : q.job = r.job
      BY <1>1, <1>5, <3>1 DEF RequestInv
    <3>2. CASE /\ r.job \in Jobs /\ HasStatus(events[r.job], "queued")
               /\ UNCHANGED events
      BY <1>1, <3>2, QueuedUnassigned
    <3> QED BY <2>1, <3>1, <3>2, RequestSteps
  <2>4. \A i \in Jobs : AssignedOnce(events'[i])
    BY <1>5 DEF RequestInv
  <2> QED BY <2>2, <2>3, <2>4 DEF RequestInv
<1> QED BY <1>3, <1>4, <1>5

\* What holds of every state, whatever the disturbances.
LEMMA AssignmentInvariant == Spec => [](LogInv /\ KnownJobs /\ RequestInv)
<1>1. Init => LogInv /\ KnownJobs /\ RequestInv
  <2>1. ASSUME Init PROVE LogInv
    BY <2>1 DEF Init, LogInv, TypeOK, Gapless, InFlightBounded
  <2> QED BY <2>1 DEF Init, KnownJobs, RequestInv, AssignedOnce
<1>2. (LogInv /\ KnownJobs /\ RequestInv) /\ [Next]_vars => (LogInv /\ KnownJobs /\ RequestInv)'
  BY LogInvStep, KnownJobsStep, RequestInvStep
<1> QED BY <1>1, <1>2, PTL DEF Spec

\* RequestJob never assigns a job a second time before it was queued again, for
\* any number of workers, jobs and requests, and whatever users and faults do.
THEOREM NeverAssignedTwice == Spec => []NoDoubleAssignment
<1>1. RequestInv => NoDoubleAssignment
  BY DEF RequestInv, AssignedOnce, NoDoubleAssignment
<1> QED BY <1>1, AssignmentInvariant, PTL

-----------------------------------------------------------------------------
(* Fencing, where no notification is refused *)

\* Row k of job j is worker w's, and w may go on after it.
OwnRow(j, k, w) ==
    /\ k \in DOMAIN events[j]
    /\ events[j][k].by = w
    /\ ~IsTerminal(events[j][k])

\* Every context stands at a row of its worker.
ContextsOwn == \A c \in ctx \union disk : OwnRow(c.job, c.id + 1, c.worker)

\* Every notification was made by a worker that stood at the row before it.
MessagesOwn == \A m \in publishing \union net : OwnRow(m.job, m.row.id, m.row.by)

\* So was the one being handled; an answer that moves a context on is recorded.
HandlingOwn ==
    \A h \in handling :
        /\ OwnRow(h.msg.job, h.msg.row.id, h.msg.row.by)
        /\ h.pc = "finalized" => IsCompleted(h.msg.row)
        /\ h.pc \in {"remove", "answer"} /\ ~IsCompleted(h.msg.row) =>
              /\ h.msg.row.id + 1 \in DOMAIN events[h.msg.job]
              /\ events[h.msg.job][h.msg.row.id + 1] = h.msg.row

\* The rows of the server and of the workers.
KnownRow(r) == IF r.by = Server THEN IsServerRow(r)
               ELSE r.status \in PhaseStatuses \union {"assigned"}

\* Fenced for one log.
FencedLog(log) ==
    \A k \in DOMAIN log :
        log[k].by \in Workers /\ log[k].status # "assigned" =>
            /\ k > 1
            /\ log[k - 1].by = log[k].by
            /\ ~IsTerminal(log[k - 1])

LogsKnown == \A j \in Jobs : /\ \A k \in DOMAIN events[j] : KnownRow(events[j][k])
                             /\ FencedLog(events[j])

FenceInv == ContextsOwn /\ MessagesOwn /\ HandlingOwn /\ LogsKnown

NoRefusal == "refused" \notin Disturbances

\* A worker's own row stays.
LEMMA OwnRowStays ==
    ASSUME LogInv, KnownJobs, [Next]_vars, NEW j \in Jobs, NEW k, NEW w, OwnRow(j, k, w)
    PROVE  OwnRow(j, k, w)'
<1>1. /\ events[j] \in Seq(Row) /\ events'[j] \in Seq(Row)
      /\ Len(events[j]) <= Len(events'[j])
      /\ \A n \in DOMAIN events[j] : events'[j][n] = events[j][n]
  BY LogsGrow
<1>2. DOMAIN events[j] \subseteq DOMAIN events'[j]
  BY <1>1
<1> QED BY <1>1, <1>2 DEF OwnRow

\* Where a context may come from.
LEMMA ContextSteps ==
    ASSUME LogInv, [Next]_vars, NoRefusal, NEW d \in (ctx \union disk)'
    PROVE  \/ \E c \in ctx \union disk : /\ c.job = d.job /\ c.id = d.id
                                         /\ c.worker = d.worker
           \/ \E q \in request : /\ RequestInsert!(q)
                                 /\ d = [worker |-> q.worker, job |-> q.job, id |-> q.id,
                                         type |-> "Job", status |-> "assigned"]
           \/ \E h \in handling : /\ h.pc = "answer"
                                  /\ ~IsTerminal(h.msg.row)
                                  /\ d.job = h.msg.job /\ d.id = h.msg.row.id
                                  /\ d.worker = h.msg.row.by
<1> USE DEF LogInv
<1>1. ASSUME NEW q \in request, RequestInsert!(q)
      PROVE  d \in ctx \union disk
             \/ d = [worker |-> q.worker, job |-> q.job, id |-> q.id,
                     type |-> "Job", status |-> "assigned"]
  BY <1>1
<1>2. ASSUME NEW w \in Workers, Crash(w)
      PROVE  \E c \in ctx \union disk : c.job = d.job /\ c.id = d.id /\ c.worker = d.worker
  <2>1. \A c \in disk : /\ Resumed(c).job = c.job /\ Resumed(c).id = c.id
                        /\ Resumed(c).worker = c.worker
    BY DEF Resumed, TypeOK, Context
  <2> HIDE DEF Resumed
  <2>2. d \in ctx \union disk \/ \E c \in disk : d = Resumed(c)
    BY <1>2 DEF Crash
  <2> QED BY <2>1, <2>2
<1>3. ASSUME NEW h \in handling, EventAnswer!(h)
      PROVE  \/ d \in ctx \union disk
             \/ /\ h.pc = "answer" /\ ~IsTerminal(h.msg.row)
                /\ d.job = h.msg.job /\ d.id = h.msg.row.id /\ d.worker = h.msg.row.by
  <2>1. CASE UNCHANGED <<ctx, disk, publishing, net>>
    BY <2>1
  <2>2. ASSUME NEW c \in ctx, Follows(c, h.msg), Advance(c, h.msg)
        PROVE  \/ d \in ctx \union disk
               \/ /\ h.pc = "answer" /\ ~IsTerminal(h.msg.row)
                  /\ d.job = h.msg.job /\ d.id = h.msg.row.id /\ d.worker = h.msg.row.by
    BY <1>3, <2>2 DEF Advance, Follows, WithoutFile
  <2> QED BY <1>3, <2>1, <2>2
<1>4. \/ \E q \in request : RequestInsert!(q)
      \/ \E w \in Workers : Crash(w)
      \/ \E h \in handling : EventAnswer!(h)
      \/ (ctx \union disk)' \subseteq ctx \union disk
  BY DEF NoRefusal, Next, vars, workerVars, DispatchStep, Ask, RequestSelect, RequestNone,
         RequestRead, RequestInsert, RequestFail, WorkerStep, Publish, Refuse, GiveUp,
         EventStep, EventCheck, CompleteJob, EventCheckFinalized, EventInsert,
         EventFail, RemoveSource, RemoveSourceFails, EventAnswer, CancelStep, CancelRead,
         CancelInsert, CancelFail, IntakeStep, UserSchedules, IntakeCommit, IntakeAbort,
         PassStep, PassRead, PassStart, PassQueued, PassCancels, PassRetries, PassTimesOut,
         PassNext, EnvironmentStep, Expire, SourceDisappears, SourceReturns, Restart
<1> QED BY <1>1, <1>2, <1>3, <1>4

\* Every step leaves the contexts at rows of their workers.
LEMMA ContextsOwnStep ==
    ASSUME LogInv, KnownJobs, [Next]_vars, NoRefusal, FenceInv
    PROVE  ContextsOwn'
<1>1. /\ events \in [Jobs -> Seq(Row)]
      /\ \A c \in ctx \union disk : c.job \in Jobs /\ c.id \in Nat
      /\ \A h \in handling : h.msg.job \in Jobs /\ h.msg.row.id \in Nat
      /\ \A q \in request : q.job \in Jobs /\ q.worker \in Workers /\ q.id \in Nat
                            /\ q.id <= Len(events[q.job])
  BY DEF LogInv, TypeOK, InFlightBounded, Context, Message
<1>2. SUFFICES ASSUME NEW d \in (ctx \union disk)' PROVE OwnRow(d.job, d.id + 1, d.worker)'
  BY DEF ContextsOwn
<1>3. ASSUME NEW c \in ctx \union disk, c.job = d.job, c.id = d.id, c.worker = d.worker
      PROVE  OwnRow(d.job, d.id + 1, d.worker)'
  BY <1>1, <1>3, OwnRowStays DEF FenceInv, ContextsOwn
<1>4. ASSUME NEW q \in request, RequestInsert!(q),
             d = [worker |-> q.worker, job |-> q.job, id |-> q.id,
                  type |-> "Job", status |-> "assigned"]
      PROVE  OwnRow(d.job, d.id + 1, d.worker)'
  <2> DEFINE row == AssignedRow(q.id, q.worker)
  <2>1. q.id = Len(events[q.job])
    BY <1>1, <1>4, FreeIdIsNext DEF LogInv, Gapless, CanInsert
  <2>2. row \in Row /\ row.by = q.worker /\ ~IsTerminal(row)
    BY <1>1 DEF AssignedRow, Row, Types, JobStatuses, IsTerminal
  <2>3. events'[q.job] = events[q.job] \o <<row>>
    BY <1>1, <1>4 DEF Insert
  <2> HIDE DEF row
  <2>4. q.id + 1 \in DOMAIN events'[q.job] /\ events'[q.job][q.id + 1] = row
    BY <1>1, <2>1, <2>2, <2>3
  <2> QED BY <1>4, <2>2, <2>4 DEF OwnRow
<1>5. ASSUME NEW h \in handling, h.pc = "answer", ~IsTerminal(h.msg.row),
             d.job = h.msg.job, d.id = h.msg.row.id, d.worker = h.msg.row.by
      PROVE  OwnRow(d.job, d.id + 1, d.worker)'
  <2>1. ~IsCompleted(h.msg.row)
    BY <1>5 DEF IsCompleted, IsTerminal
  <2>2. OwnRow(d.job, d.id + 1, d.worker)
    BY <1>5, <2>1 DEF FenceInv, HandlingOwn, OwnRow
  <2> QED BY <1>1, <1>5, <2>2, OwnRowStays
<1> QED BY <1>3, <1>4, <1>5, ContextSteps

\* A notification comes from a context that stands at the row before it.
LEMMA MessagesOwnStep ==
    ASSUME LogInv, KnownJobs, [Next]_vars, FenceInv
    PROVE  MessagesOwn'
<1>1. /\ \A c \in ctx : c.job \in Jobs
      /\ \A m \in publishing \union net : m.job \in Jobs
  BY DEF LogInv, TypeOK, Context, Message
<1>2. SUFFICES ASSUME NEW m \in (publishing \union net)' PROVE OwnRow(m.job, m.row.id, m.row.by)'
  BY DEF MessagesOwn
<1>3. \/ m \in publishing \union net
      \/ \E c \in ctx : \E r : m = Notification(c, r)
  BY DEF Next, vars, workerVars, DispatchStep, Ask, RequestSelect, RequestNone,
         RequestRead, RequestInsert, RequestFail, WorkerStep, Publish, Refuse, GiveUp, Crash,
         EventStep, EventCheck, CompleteJob, EventCheckFinalized, EventInsert,
         EventFail, RemoveSource, RemoveSourceFails, EventAnswer, CancelStep, CancelRead,
         CancelInsert, CancelFail, IntakeStep, UserSchedules, IntakeCommit, IntakeAbort,
         PassStep, PassRead, PassStart, PassQueued, PassCancels, PassRetries, PassTimesOut,
         PassNext, EnvironmentStep, Expire, SourceDisappears, SourceReturns, Restart
<1>4. CASE m \in publishing \union net
  BY <1>1, <1>4, OwnRowStays DEF FenceInv, MessagesOwn
<1>5. ASSUME NEW c \in ctx, NEW r, m = Notification(c, r)
      PROVE  OwnRow(m.job, m.row.id, m.row.by)'
  <2>1. m.job = c.job /\ m.row.id = c.id + 1 /\ m.row.by = c.worker
    BY <1>5 DEF Notification
  <2>2. OwnRow(c.job, c.id + 1, c.worker)
    BY DEF FenceInv, ContextsOwn
  <2> QED BY <1>1, <2>1, <2>2, OwnRowStays
<1> QED BY <1>3, <1>4, <1>5

\* Where a handler may come from.
LEMMA HandlingSteps ==
    ASSUME LogInv, [Next]_vars, HandlingOwn, NEW h \in handling'
    PROVE  \/ h \in handling
           \/ \E m \in net : /\ h.msg = m /\ h.pc \in {"insert", "finalized"}
                             /\ h.pc = "finalized" => IsCompleted(m.row)
           \/ \E g \in handling :
                 /\ h.msg = g.msg
                 /\ \/ IsCompleted(h.msg.row) /\ h.pc # "finalized"
                    \/ EventInsert!(g) /\ h.pc # "finalized"
                    \/ g.pc = "remove" /\ h.pc = "answer"
<1> USE DEF LogInv
<1>1. ASSUME NEW m \in net, EventCheck(m) \/ CompleteJob(m)
      PROVE  /\ h.msg = m /\ h.pc \in {"insert", "finalized"}
             /\ h.pc = "finalized" => IsCompleted(m.row)
  BY <1>1 DEF EventCheck, CompleteJob
<1>2. ASSUME NEW g \in handling, EventCheckFinalized!(g)
      PROVE  h.msg = g.msg /\ IsCompleted(h.msg.row) /\ h.pc # "finalized"
  <2>1. IsCompleted(g.msg.row)
    BY <1>2 DEF HandlingOwn
  <2>2. g \in [msg : Message, pc : {"finalized", "insert", "remove", "answer"}]
    BY DEF TypeOK
  <2>3. h = Afterwards(g.msg) \/ h = [g EXCEPT !.pc = "insert"]
    BY <1>2
  <2> QED BY <2>1, <2>2, <2>3 DEF Afterwards
<1>3. ASSUME NEW g \in handling, EventInsert!(g)
      PROVE  h.msg = g.msg /\ h.pc # "finalized"
  BY <1>3 DEF Afterwards
<1>4. ASSUME NEW g \in handling, RemoveSource!(g)
      PROVE  h.msg = g.msg /\ g.pc = "remove" /\ h.pc = "answer"
  BY <1>4 DEF TypeOK
<1>5. \/ \E m \in net : EventCheck(m) \/ CompleteJob(m)
      \/ \E g \in handling : EventCheckFinalized!(g) \/ EventInsert!(g) \/ RemoveSource!(g)
      \/ handling' \subseteq handling
  BY DEF Next, vars, serverVars, DispatchStep, Ask, RequestSelect, RequestNone,
         RequestRead, RequestInsert, RequestFail, WorkerStep, Publish, Refuse, GiveUp, Crash,
         EventStep, EventCheckFinalized, EventInsert,
         EventFail, RemoveSource, RemoveSourceFails, EventAnswer, CancelStep, CancelRead,
         CancelInsert, CancelFail, IntakeStep, UserSchedules, IntakeCommit, IntakeAbort,
         PassStep, PassRead, PassStart, PassQueued, PassCancels, PassRetries, PassTimesOut,
         PassNext, EnvironmentStep, Expire, SourceDisappears, SourceReturns, Restart
<1> QED BY <1>1, <1>2, <1>3, <1>4, <1>5

\* An inserted row is the one after those that were there.
LEMMA InsertedRow ==
    ASSUME LogInv, NEW h \in handling, EventInsert!(h)
    PROVE  /\ h.msg.row.id = Len(events[h.msg.job])
           /\ events'[h.msg.job] = events[h.msg.job] \o <<h.msg.row>>
           /\ h.msg.row.id + 1 \in DOMAIN events'[h.msg.job]
           /\ events'[h.msg.job][h.msg.row.id + 1] = h.msg.row
<1>1. /\ h.msg.job \in Jobs /\ h.msg.row.id \in Nat /\ h.msg.row \in Row
      /\ h.msg.row.id <= Len(events[h.msg.job])
      /\ events \in [Jobs -> Seq(Row)]
  BY DEF LogInv, TypeOK, InFlightBounded, Message, Row, JobStatuses, PhaseStatuses
<1>2. h.msg.row.id = Len(events[h.msg.job])
  BY <1>1, FreeIdIsNext DEF LogInv, Gapless, CanInsert
<1>3. events'[h.msg.job] = events[h.msg.job] \o <<h.msg.row>>
  BY <1>1 DEF Insert
<1> QED BY <1>1, <1>2, <1>3

\* Every step leaves what is handled the event of a worker that stood at the row before.
LEMMA HandlingOwnStep ==
    ASSUME LogInv, KnownJobs, [Next]_vars, FenceInv
    PROVE  HandlingOwn'
<1>1. /\ \A m \in net : m.job \in Jobs
      /\ \A h \in handling : h.msg.job \in Jobs /\ h.msg.row.id \in Nat
      /\ HandlingOwn
  BY DEF LogInv, TypeOK, Message, FenceInv
<1> DEFINE Recorded(h) == /\ h.msg.row.id + 1 \in DOMAIN events[h.msg.job]
                          /\ events[h.msg.job][h.msg.row.id + 1] = h.msg.row
<1>2. SUFFICES ASSUME NEW h \in handling'
               PROVE  /\ OwnRow(h.msg.job, h.msg.row.id, h.msg.row.by)'
                      /\ h.pc = "finalized" => IsCompleted(h.msg.row)
                      /\ h.pc \in {"remove", "answer"} /\ ~IsCompleted(h.msg.row) =>
                            /\ h.msg.row.id + 1 \in DOMAIN events'[h.msg.job]
                            /\ events'[h.msg.job][h.msg.row.id + 1] = h.msg.row
  BY DEF HandlingOwn
<1>3. ASSUME NEW g \in handling, h.msg = g.msg
      PROVE  /\ OwnRow(h.msg.job, h.msg.row.id, h.msg.row.by)'
             /\ Recorded(g) => /\ h.msg.row.id + 1 \in DOMAIN events'[h.msg.job]
                               /\ events'[h.msg.job][h.msg.row.id + 1] = h.msg.row
  <2>1. OwnRow(h.msg.job, h.msg.row.id, h.msg.row.by)'
    BY <1>1, <1>3, OwnRowStays DEF HandlingOwn
  <2>2. /\ events[h.msg.job] \in Seq(Row) /\ events'[h.msg.job] \in Seq(Row)
        /\ Len(events[h.msg.job]) <= Len(events'[h.msg.job])
        /\ \A k \in DOMAIN events[h.msg.job] : events'[h.msg.job][k] = events[h.msg.job][k]
    BY <1>1, <1>3, LogsGrow
  <2>3. DOMAIN events[h.msg.job] \subseteq DOMAIN events'[h.msg.job]
    BY <2>2
  <2> QED BY <1>3, <2>1, <2>2, <2>3
<1>4. CASE h \in handling
  BY <1>1, <1>3, <1>4 DEF HandlingOwn
<1>5. CASE \E m \in net : /\ h.msg = m /\ h.pc \in {"insert", "finalized"}
                          /\ h.pc = "finalized" => IsCompleted(m.row)
  <2>1. h.msg \in net /\ h.pc \notin {"remove", "answer"}
        /\ (h.pc = "finalized" => IsCompleted(h.msg.row))
    BY <1>5
  <2>2. OwnRow(h.msg.job, h.msg.row.id, h.msg.row.by)'
    BY <1>1, <2>1, OwnRowStays DEF FenceInv, MessagesOwn
  <2> QED BY <2>1, <2>2
<1>6. ASSUME NEW g \in handling, h.msg = g.msg,
             \/ IsCompleted(h.msg.row) /\ h.pc # "finalized"
             \/ EventInsert!(g) /\ h.pc # "finalized"
             \/ g.pc = "remove" /\ h.pc = "answer"
      PROVE  /\ OwnRow(h.msg.job, h.msg.row.id, h.msg.row.by)'
             /\ h.pc = "finalized" => IsCompleted(h.msg.row)
             /\ h.pc \in {"remove", "answer"} /\ ~IsCompleted(h.msg.row) =>
                   /\ h.msg.row.id + 1 \in DOMAIN events'[h.msg.job]
                   /\ events'[h.msg.job][h.msg.row.id + 1] = h.msg.row
  <2>1. CASE IsCompleted(h.msg.row) /\ h.pc # "finalized"
    BY <1>3, <1>6, <2>1
  <2>2. CASE EventInsert!(g) /\ h.pc # "finalized"
    BY <1>3, <1>6, <2>2, InsertedRow
  <2>3. CASE g.pc = "remove" /\ h.pc = "answer"
    BY <1>1, <1>3, <1>6, <2>3 DEF HandlingOwn
  <2> QED BY <1>6, <2>1, <2>2, <2>3
<1> QED BY <1>1, <1>4, <1>5, <1>6, HandlingSteps

\* One more row, and what it takes to keep a log fenced.
LEMMA FencedMore ==
    ASSUME NEW log \in Seq(Row), NEW row \in Row, FencedLog(log),
           row.by \in Workers /\ row.status # "assigned" =>
               Len(log) > 0 /\ log[Len(log)].by = row.by /\ ~IsTerminal(log[Len(log)])
    PROVE  FencedLog(log \o <<row>>)
<1> DEFINE all == log \o <<row>>
<1>1. /\ Len(log) \in Nat /\ DOMAIN log = 1..Len(log) /\ DOMAIN all = 1..(Len(log) + 1)
      /\ \A k \in DOMAIN log : all[k] = log[k]
      /\ all[Len(log) + 1] = row
  OBVIOUS
<1> HIDE DEF all
<1>2. FencedLog(all)
  <2>1. SUFFICES ASSUME NEW k \in DOMAIN all, all[k].by \in Workers, all[k].status # "assigned"
                 PROVE  /\ k > 1
                        /\ all[k - 1].by = all[k].by
                        /\ ~IsTerminal(all[k - 1])
    BY DEF FencedLog
  <2>2. CASE k \in DOMAIN log
    <3>1. k > 1 /\ log[k - 1].by = log[k].by /\ ~IsTerminal(log[k - 1])
      BY <1>1, <2>1, <2>2 DEF FencedLog
    <3>2. k - 1 \in DOMAIN log
      BY <1>1, <2>2, <3>1
    <3> QED BY <1>1, <2>2, <3>1, <3>2
  <2>3. CASE k \notin DOMAIN log
    <3>1. k = Len(log) + 1
      BY <1>1, <2>3
    <3>2. Len(log) > 0 /\ log[Len(log)].by = row.by /\ ~IsTerminal(log[Len(log)])
      BY <1>1, <2>1, <3>1
    <3>3. Len(log) \in DOMAIN log /\ k - 1 = Len(log)
      BY <1>1, <3>1, <3>2
    <3> QED BY <1>1, <3>1, <3>2, <3>3
  <2> QED BY <2>2, <2>3
<1> QED BY <1>2 DEF all

\* Rows of the server keep a log fenced.
LEMMA FencedServer ==
    ASSUME NEW log \in Seq(Row), NEW rows \in Seq(Row), FencedLog(log),
           \A k \in DOMAIN rows : rows[k].by = Server
    PROVE  FencedLog(log \o rows)
<1> DEFINE all == log \o rows
<1>1. /\ Len(log) \in Nat /\ Len(rows) \in Nat /\ DOMAIN log = 1..Len(log)
      /\ DOMAIN all = 1..(Len(log) + Len(rows))
      /\ \A k \in DOMAIN log : all[k] = log[k]
  OBVIOUS
<1>2. \A k \in DOMAIN all : k \notin DOMAIN log => all[k].by \notin Workers
  <2>1. ASSUME NEW k \in DOMAIN all, k \notin DOMAIN log
        PROVE  k - Len(log) \in DOMAIN rows /\ all[k] = rows[k - Len(log)]
    BY <2>1
  <2> QED BY <2>1, ServerAssumption
<1> HIDE DEF all
<1>3. FencedLog(all)
  <2>1. SUFFICES ASSUME NEW k \in DOMAIN log, log[k].by \in Workers, log[k].status # "assigned"
                 PROVE  /\ k > 1
                        /\ all[k - 1].by = log[k].by
                        /\ ~IsTerminal(all[k - 1])
    BY <1>1, <1>2 DEF FencedLog
  <2>2. k > 1 /\ log[k - 1].by = log[k].by /\ ~IsTerminal(log[k - 1])
    BY <2>1 DEF FencedLog
  <2>3. k - 1 \in DOMAIN log
    BY <1>1, <2>1, <2>2
  <2> QED BY <1>1, <2>2, <2>3
<1> QED BY <1>3 DEF all

\* The rows of a longer log are those of the shorter one and the new ones.
LEMMA KnownMore ==
    ASSUME NEW log \in Seq(Row), NEW rows \in Seq(Row),
           \A k \in DOMAIN log : KnownRow(log[k]), \A k \in DOMAIN rows : KnownRow(rows[k])
    PROVE  \A k \in DOMAIN (log \o rows) : KnownRow((log \o rows)[k])
<1>1. SUFFICES ASSUME NEW k \in 1..(Len(log) + Len(rows)) PROVE KnownRow((log \o rows)[k])
  OBVIOUS
<1>2. CASE k <= Len(log)
  BY <1>2
<1>3. CASE k > Len(log)
  <2>1. k - Len(log) \in DOMAIN rows /\ (log \o rows)[k] = rows[k - Len(log)]
    BY <1>3
  <2> QED BY <2>1
<1> QED BY <1>2, <1>3

\* Every step keeps the rows those of the server and of the workers, in a fenced log.
LEMMA LogsKnownStep ==
    ASSUME LogInv, KnownJobs, [Next]_vars, FenceInv
    PROVE  LogsKnown'
<1>1. /\ events \in [Jobs -> Seq(Row)]
      /\ \A q \in request : q.job \in Jobs /\ q.worker \in Workers /\ q.id \in Nat
      /\ \A h \in handling : /\ h.msg.job \in Jobs /\ h.msg.row \in Row
                             /\ h.msg.row.by \in Workers /\ h.msg.row.status \in PhaseStatuses
  BY DEF LogInv, TypeOK, Message, Row, JobStatuses, PhaseStatuses
<1>2. ASSUME NEW j \in Jobs, NEW rows \in Seq(Row), Appends(j, rows),
             \A k \in DOMAIN rows : KnownRow(rows[k]), FencedLog(events[j] \o rows)
      PROVE  LogsKnown'
  <2>1. \A i \in Jobs : events'[i] = IF i = j THEN events[i] \o rows ELSE events[i]
    BY <1>1, <1>2 DEF Appends
  <2>2. \A k \in DOMAIN (events[j] \o rows) : KnownRow((events[j] \o rows)[k])
    BY <1>1, <1>2, KnownMore DEF FenceInv, LogsKnown
  <2> QED BY <1>2, <2>1, <2>2 DEF FenceInv, LogsKnown
<1>3. ASSUME NEW q \in request, Assigns(q) PROVE LogsKnown'
  <2> DEFINE row == AssignedRow(q.id, q.worker)
  <2>1. row \in Row /\ KnownRow(row) /\ row.status = "assigned"
    BY <1>1, ServerAssumption DEF AssignedRow, Row, Types, JobStatuses, KnownRow
  <2>2. Appends(q.job, <<row>>)
    BY <1>3 DEF Assigns
  <2> HIDE DEF row
  <2>3. FencedLog(events[q.job] \o <<row>>)
    BY <1>1, <2>1, FencedMore DEF FenceInv, LogsKnown
  <2>4. <<row>> \in Seq(Row) /\ \A k \in DOMAIN <<row>> : KnownRow(<<row>>[k])
    BY <2>1
  <2> QED BY <1>1, <1>2, <2>2, <2>3, <2>4
<1>4. ASSUME NEW h \in handling, Records(h) PROVE LogsKnown'
  <2> DEFINE row == h.msg.row
             log == events[h.msg.job]
  <2>1. row \in Row /\ KnownRow(row) /\ log \in Seq(Row)
    BY <1>1, ServerAssumption DEF KnownRow
  <2>2. row.id = Len(log) /\ Appends(h.msg.job, <<row>>)
    BY <1>4 DEF Records
  <2>3. OwnRow(h.msg.job, row.id, row.by)
    BY DEF FenceInv, HandlingOwn
  <2>4. Len(log) > 0 /\ log[Len(log)].by = row.by /\ ~IsTerminal(log[Len(log)])
    BY <2>1, <2>2, <2>3 DEF OwnRow
  <2>5. FencedLog(log)
    BY <1>1 DEF FenceInv, LogsKnown
  <2> HIDE DEF row, log
  <2>6. FencedLog(log \o <<row>>)
    BY <2>1, <2>4, <2>5, FencedMore
  <2>7. <<row>> \in Seq(Row) /\ \A k \in DOMAIN <<row>> : KnownRow(<<row>>[k])
    BY <2>1
  <2>8. FencedLog(events[h.msg.job] \o <<row>>)
    BY <2>6 DEF log
  <2> QED BY <1>1, <1>2, <2>2, <2>7, <2>8
<1>5. ASSUME NEW j \in Jobs, NEW rows, Serves(j, rows) PROVE LogsKnown'
  <2>1. /\ rows \in Seq(Row) /\ Appends(j, rows)
        /\ \A k \in DOMAIN rows : KnownRow(rows[k]) /\ rows[k].by = Server
    BY <1>5 DEF Serves, KnownRow, IsServerRow
  <2>2. FencedLog(events[j] \o rows)
    BY <1>1, <2>1, FencedServer DEF FenceInv, LogsKnown
  <2> QED BY <1>2, <2>1, <2>2
<1>6. CASE UNCHANGED events
  BY <1>6 DEF FenceInv, LogsKnown
<1> QED BY <1>3, <1>4, <1>5, <1>6, LogSteps

\* What holds of every state when no notification is refused.
LEMMA FenceInvariant ==
    ASSUME NoRefusal
    PROVE  Spec => [](LogInv /\ KnownJobs /\ RequestInv /\ FenceInv)
<1>1. Init => FenceInv
  BY DEF Init, FenceInv, ContextsOwn, MessagesOwn, HandlingOwn, LogsKnown, FencedLog
<1>2. LogInv /\ KnownJobs /\ FenceInv /\ [Next]_vars => FenceInv'
  BY ContextsOwnStep, MessagesOwnStep, HandlingOwnStep, LogsKnownStep DEF FenceInv
<1> QED BY <1>1, <1>2, AssignmentInvariant, PTL DEF Spec

\* A worker that lost its job, to a timeout, a cancellation or another worker,
\* gets nothing into the log any more, as long as no proxy or older server answers
\* 4xx to a notification, which the worker's client takes for an answer.
THEOREM LogFences ==
    ASSUME NoRefusal
    PROVE  Spec => []Fenced
<1>1. FenceInv => Fenced
  BY DEF FenceInv, LogsKnown, FencedLog, Fenced
<1> QED BY <1>1, FenceInvariant, PTL

\* No crash, lost reply or resumption takes a worker's context, in memory or on
\* disk, ahead of what the log has from that worker.
THEOREM ContextsBehindLog ==
    ASSUME NoRefusal
    PROVE  Spec => []ContextsRecorded
<1>1. FenceInv => ContextsRecorded
  BY DEF FenceInv, ContextsOwn, OwnRow, ContextsRecorded
<1> QED BY <1>1, FenceInvariant, PTL

-----------------------------------------------------------------------------
(* The log implements the lease, where no notification is refused *)

\* The server queued the job and wrote every row since.
Free(log) ==
    \E k \in DOMAIN log :
        /\ log[k].status = "queued"
        /\ \A n \in DOMAIN log : k <= n => log[n].by = Server

RequestFree == \A q \in request : Free(events[q.job])

\* The last row of a log that is not empty.
LEMMA LastRow ==
    ASSUME LogInv, NEW j \in Jobs, events[j] # <<>>
    PROVE  /\ Len(events[j]) \in DOMAIN events[j]
           /\ Last(events[j]) = events[j][Len(events[j])]
           /\ Last(events[j]) \in Row
<1>1. events[j] \in Seq(Row)
  BY DEF LogInv, TypeOK
<1>2. Len(events[j]) \in DOMAIN events[j]
  BY <1>1
<1> QED BY <1>1, <1>2 DEF Last

\* A log with further rows ends with the last of them.
LEMMA LastAppended ==
    ASSUME NEW log \in Seq(Row), NEW rows \in Seq(Row) \ {<<>>}
    PROVE  log \o rows # <<>> /\ Last(log \o rows) = rows[Len(rows)]
<1>1. Len(rows) \in Nat \ {0} /\ Len(log \o rows) = Len(log) + Len(rows)
  OBVIOUS
<1> QED BY <1>1 DEF Last

\* A free job is held by nobody, and its status is the server's.
LEMMA FreeJob ==
    ASSUME LogInv, FenceInv, NEW j \in Jobs, Free(events[j])
    PROVE  /\ events[j] # <<>>
           /\ Last(events[j]).by = Server
           /\ Holder(events[j]) = Server
           /\ LeaseStatus(events[j]) \in {"queued", "failed", "canceled"}
<1>1. events[j] \in Seq(Row)
  BY DEF LogInv, TypeOK
<1>2. PICK k \in DOMAIN events[j] : \A n \in DOMAIN events[j] : k <= n => events[j][n].by = Server
  BY DEF Free
<1>3. events[j] # <<>> /\ k <= Len(events[j])
  BY <1>1, <1>2
<1>4. Last(events[j]).by = Server /\ IsServerRow(Last(events[j]))
  BY <1>2, <1>3, LastRow DEF FenceInv, LogsKnown, KnownRow
<1>5. Holder(events[j]) = Server
  BY <1>4, ServerAssumption DEF Holder
<1>6. LeaseStatus(events[j]) = Last(events[j]).status
  BY <1>3, <1>5, ServerAssumption DEF LeaseStatus
<1> QED BY <1>3, <1>4, <1>5, <1>6 DEF IsServerRow

\* Every step keeps a selected job free.
LEMMA RequestFreeStep ==
    ASSUME LogInv, KnownJobs, RequestInv, FenceInv, RequestFree, [Next]_vars
    PROVE  RequestFree'
<1>1. /\ events \in [Jobs -> Seq(Row)]
      /\ \A q \in request : q.job \in Jobs
      /\ \A h \in handling : h.msg.job \in Jobs /\ h.msg.row \in Row /\ h.msg.row.by \in Workers
      /\ \A q, r \in request : q = r
  BY DEF LogInv, TypeOK, Message, Row, JobStatuses, PhaseStatuses, RequestInv
<1>2. ASSUME NEW r \in request' PROVE r.job \in Jobs /\ Free(events[r.job])
  <2>1. ASSUME NEW j \in Jobs, HasStatus(events[j], "queued") PROVE Free(events[j])
    <3>1. events[j] # <<>> /\ Last(events[j]).status = "queued"
      BY <2>1 DEF HasStatus, Last
    <3>2. KnownRow(Last(events[j]))
      BY <3>1, LastRow DEF FenceInv, LogsKnown
    <3>3. Last(events[j]).by = Server
      BY <3>1, <3>2 DEF KnownRow, PhaseStatuses
    <3>4. events[j] \in Seq(Row)
      BY <1>1
    <3>5. \A n \in DOMAIN events[j] : Len(events[j]) <= n => n = Len(events[j])
      BY <3>4
    <3> QED BY <3>1, <3>3, <3>5, LastRow DEF Free
  <2> QED BY <1>1, <2>1, RequestSteps DEF RequestFree
<1>3. CASE \E q \in request : Assigns(q)
  <2>1. request' = {}
    BY <1>1, <1>3 DEF Assigns
  <2> QED BY <2>1 DEF RequestFree
<1>4. ASSUME NEW r \in request', NEW h \in handling, Records(h) PROVE Free(events'[r.job])
  <2>1. h.msg.job # r.job
    <3>1. SUFFICES ASSUME h.msg.job = r.job PROVE FALSE
      OBVIOUS
    <3>2. Last(events[r.job]).by = Server /\ events[r.job] # <<>>
      BY <1>2, FreeJob
    <3>3. OwnRow(r.job, Len(events[r.job]), h.msg.row.by)
      BY <1>4, <3>1 DEF Records, FenceInv, HandlingOwn
    <3> QED BY <1>1, <1>2, <3>2, <3>3, LastRow, ServerAssumption DEF OwnRow
  <2>2. events'[r.job] = events[r.job]
    BY <1>1, <1>2, <1>4, <2>1 DEF Records, Appends
  <2> QED BY <1>2, <2>2
<1>5. ASSUME NEW r \in request', NEW j \in Jobs, NEW rows, Serves(j, rows)
      PROVE  Free(events'[r.job])
  <2>1. /\ rows \in Seq(Row) /\ \A k \in DOMAIN rows : rows[k].by = Server
        /\ Appends(j, rows)
    BY <1>5 DEF Serves, IsServerRow
  <2>2. CASE j # r.job
    <3>1. events'[r.job] = events[r.job]
      BY <1>1, <1>2, <2>1, <2>2 DEF Appends
    <3> QED BY <1>2, <3>1
  <2>3. CASE j = r.job
    <3> DEFINE log == events[j]
               all == log \o rows
    <3>1. events'[j] = all /\ log \in Seq(Row)
      BY <1>1, <2>1 DEF Appends
    <3>2. PICK k \in DOMAIN log : /\ log[k].status = "queued"
                                  /\ \A n \in DOMAIN log : k <= n => log[n].by = Server
      BY <1>2, <2>3 DEF Free
    <3>3. \A n \in DOMAIN log : n \in DOMAIN all /\ all[n] = log[n]
      BY <2>1, <3>1
    <3>4. ASSUME NEW n \in DOMAIN all, n \notin DOMAIN log PROVE all[n].by = Server
      <4>1. n - Len(log) \in DOMAIN rows /\ all[n] = rows[n - Len(log)]
        BY <2>1, <3>1, <3>4
      <4> QED BY <2>1, <4>1
    <3> HIDE DEF log, all
    <3>5. Free(all)
      BY <3>2, <3>3, <3>4 DEF Free
    <3> QED BY <2>3, <3>1, <3>5
  <2> QED BY <2>2, <2>3
<1>6. CASE UNCHANGED events
  BY <1>2, <1>6 DEF RequestFree
<1> QED BY <1>3, <1>4, <1>5, <1>6, LogSteps DEF RequestFree

\* A step that changes one job's log changes the lease of that job only.
LEMMA LeaseOfOne ==
    ASSUME LogInv, NEW j \in Jobs, NEW rows, Appends(j, rows)
    PROVE  /\ [i \in Jobs |-> Holder(events[i])]'
                = [[i \in Jobs |-> Holder(events[i])] EXCEPT ![j] = Holder(events[j] \o rows)]
           /\ [i \in Jobs |-> LeaseStatus(events[i])]'
                = [[i \in Jobs |-> LeaseStatus(events[i])] EXCEPT ![j] = LeaseStatus(events[j] \o rows)]
<1>1. \A i \in Jobs : events'[i] = IF i = j THEN events[j] \o rows ELSE events[i]
  BY DEF LogInv, TypeOK, Appends
<1> QED BY <1>1

\* An assignment of a job that nobody holds grants it.
LEMMA AppendGrants ==
    ASSUME LogInv, NEW j \in Jobs, NEW w \in Workers, NEW row \in Row,
           Appends(j, <<row>>), row.by = w, row.status = "assigned",
           Holder(events[j]) = Server,
           LeaseStatus(events[j]) \in {"queued", "failed", "canceled"}
    PROVE  Lease!Grant(j, w)
<1> DEFINE log == events[j]
<1>1. PICK rows : /\ rows \in Seq(Row) \ {<<>>} /\ rows[Len(rows)] = row
                  /\ Appends(j, rows)
  <2>1. <<row>> \in Seq(Row) \ {<<>>} /\ <<row>>[Len(<<row>>)] = row
    OBVIOUS
  <2> QED BY <2>1
<1>2. log \in Seq(Row)
  BY DEF LogInv, TypeOK
<1> HIDE DEF log
<1>3. log \o rows # <<>> /\ Last(log \o rows) = row
  BY <1>1, <1>2, LastAppended
<1>4. Holder(log \o rows) = w /\ LeaseStatus(log \o rows) = "assigned"
  BY <1>3 DEF Holder, LeaseStatus, IsTerminal
<1>5. /\ [i \in Jobs |-> Holder(events[i])]'
           = [[i \in Jobs |-> Holder(events[i])] EXCEPT ![j] = Holder(events[j] \o rows)]
      /\ [i \in Jobs |-> LeaseStatus(events[i])]'
           = [[i \in Jobs |-> LeaseStatus(events[i])] EXCEPT ![j] = LeaseStatus(events[j] \o rows)]
  BY <1>1, LeaseOfOne
<1>6. /\ [i \in Jobs |-> Holder(events[i])][j] = Server
      /\ [i \in Jobs |-> LeaseStatus(events[i])][j] \in {"queued", "failed", "canceled"}
  OBVIOUS
<1>7. /\ [i \in Jobs |-> Holder(events[i])]'
           = [[i \in Jobs |-> Holder(events[i])] EXCEPT ![j] = w]
      /\ [i \in Jobs |-> LeaseStatus(events[i])]'
           = [[i \in Jobs |-> LeaseStatus(events[i])] EXCEPT ![j] = "assigned"]
  BY <1>4, <1>5 DEF log
<1> QED BY <1>6, <1>7 DEF Lease!Grant, Lease!Unheld

\* A report of the worker that holds the job is a report or the end of it.
LEMMA AppendReports ==
    ASSUME LogInv, NEW j \in Jobs, NEW w \in Workers, NEW row \in Row,
           Appends(j, <<row>>), row.by = w, row.status \in PhaseStatuses,
           Holder(events[j]) = w
    PROVE  \/ Lease!Report(j, w)
           \/ \E s \in {"completed", "failed"} : Lease!Finish(j, w, s)
<1> DEFINE log == events[j]
<1>1. PICK rows : /\ rows \in Seq(Row) \ {<<>>} /\ rows[Len(rows)] = row
                  /\ Appends(j, rows)
  <2>1. <<row>> \in Seq(Row) \ {<<>>} /\ <<row>>[Len(<<row>>)] = row
    OBVIOUS
  <2> QED BY <2>1
<1>2. log \in Seq(Row) /\ Holder(log) = w
  BY DEF LogInv, TypeOK
<1> HIDE DEF log
<1>3. log \o rows # <<>> /\ Last(log \o rows) = row
  BY <1>1, <1>2, LastAppended
<1>4. /\ [i \in Jobs |-> Holder(events[i])]'
           = [[i \in Jobs |-> Holder(events[i])] EXCEPT ![j] = Holder(events[j] \o rows)]
      /\ [i \in Jobs |-> LeaseStatus(events[i])]'
           = [[i \in Jobs |-> LeaseStatus(events[i])] EXCEPT ![j] = LeaseStatus(events[j] \o rows)]
  BY <1>1, LeaseOfOne
<1>5. [i \in Jobs |-> Holder(events[i])][j] = w
  OBVIOUS
<1>6. CASE IsTerminal(row)
  <2>1. Holder(log \o rows) = Server
    BY <1>3, <1>6 DEF Holder
  <2>2. LeaseStatus(log \o rows) = row.status /\ row.status \in {"completed", "failed"}
    BY <1>3, <1>6, <2>1, ServerAssumption DEF LeaseStatus, IsTerminal
  <2>3. /\ [i \in Jobs |-> Holder(events[i])]'
             = [[i \in Jobs |-> Holder(events[i])] EXCEPT ![j] = Server]
        /\ [i \in Jobs |-> LeaseStatus(events[i])]'
             = [[i \in Jobs |-> LeaseStatus(events[i])] EXCEPT ![j] = row.status]
    BY <1>4, <2>1, <2>2 DEF log
  <2>4. Lease!Finish(j, w, row.status)
    BY <1>5, <2>3 DEF Lease!Finish
  <2> QED BY <2>2, <2>4
<1>7. CASE ~IsTerminal(row)
  <2>1. Holder(log \o rows) = w
    BY <1>3, <1>7 DEF Holder
  <2>2. LeaseStatus(log \o rows) = "working"
    BY <1>3, <2>1 DEF LeaseStatus, PhaseStatuses
  <2>3. /\ [i \in Jobs |-> Holder(events[i])]'
             = [[i \in Jobs |-> Holder(events[i])] EXCEPT ![j] = w]
        /\ [i \in Jobs |-> LeaseStatus(events[i])]'
             = [[i \in Jobs |-> LeaseStatus(events[i])] EXCEPT ![j] = "working"]
    BY <1>4, <2>1, <2>2 DEF log
  <2>4. [i \in Jobs |-> Holder(events[i])]' = [i \in Jobs |-> Holder(events[i])]
    BY <1>5, <2>3
  <2>5. Lease!Report(j, w)
    BY <1>5, <2>3, <2>4 DEF Lease!Report
  <2> QED BY <2>5
<1> QED BY <1>6, <1>7

\* A row that assigns a job grants the lease.
LEMMA GrantStep ==
    ASSUME LogInv, FenceInv, RequestFree, NEW q \in request, Assigns(q)
    PROVE  Lease!Grant(q.job, q.worker)
<1> DEFINE row == AssignedRow(q.id, q.worker)
<1>1. q.job \in Jobs /\ q.worker \in Workers /\ row \in Row
  BY DEF LogInv, TypeOK, AssignedRow, Row, Types, JobStatuses
<1>2. row.by = q.worker /\ row.status = "assigned" /\ Appends(q.job, <<row>>)
  BY DEF AssignedRow, Assigns
<1> HIDE DEF row
<1>3. /\ Holder(events[q.job]) = Server
      /\ LeaseStatus(events[q.job]) \in {"queued", "failed", "canceled"}
  BY <1>1, FreeJob DEF RequestFree
<1> QED BY <1>1, <1>2, <1>3, AppendGrants

\* A row that a worker reports keeps the lease or ends it.
LEMMA ReportStep ==
    ASSUME LogInv, FenceInv, NEW h \in handling, Records(h)
    PROVE  \/ Lease!Report(h.msg.job, h.msg.row.by)
           \/ \E s \in {"completed", "failed"} : Lease!Finish(h.msg.job, h.msg.row.by, s)
<1> DEFINE row == h.msg.row
           log == events[h.msg.job]
<1>1. /\ h.msg.job \in Jobs /\ row \in Row /\ row.by \in Workers /\ log \in Seq(Row)
      /\ row.status \in PhaseStatuses
  BY DEF LogInv, TypeOK, Message, Row, JobStatuses, PhaseStatuses
<1>2. row.id = Len(log) /\ Appends(h.msg.job, <<row>>)
  BY DEF Records
<1>3. OwnRow(h.msg.job, row.id, row.by)
  BY DEF FenceInv, HandlingOwn
<1>4. log # <<>> /\ Last(log).by = row.by /\ ~IsTerminal(Last(log))
  BY <1>1, <1>2, <1>3 DEF OwnRow, Last
<1>5. Holder(log) = row.by
  BY <1>1, <1>4 DEF Holder
<1> QED BY <1>1, <1>2, <1>5, AppendReports

\* Rows of the server take the job.
LEMMA TakeStep ==
    ASSUME LogInv, NEW j \in Jobs, NEW rows, Serves(j, rows)
    PROVE  \E s \in Lease!Unheld : Lease!Take(j, s)
<1> DEFINE s == rows[Len(rows)].status
           log == events[j]
<1>1. /\ rows \in Seq(Row) \ {<<>>} /\ Appends(j, rows) /\ log \in Seq(Row)
      /\ IsServerRow(rows[Len(rows)])
      /\ log = <<>> => s = "queued"
  <2>1. rows \in Seq(Row) \ {<<>>} /\ Len(rows) \in DOMAIN rows
    BY DEF Serves
  <2> QED BY <2>1 DEF Serves, LogInv, TypeOK
<1>2. log \o rows # <<>> /\ Last(log \o rows) = rows[Len(rows)]
  BY <1>1, LastAppended
<1>3. Holder(log \o rows) = Server
  BY <1>1, <1>2, ServerAssumption DEF Holder, IsServerRow
<1>4. LeaseStatus(log \o rows) = s
  BY <1>2, <1>3, ServerAssumption DEF LeaseStatus
<1>5. s \in Lease!Unheld
  BY <1>1 DEF IsServerRow, Lease!Unheld
<1>6. LeaseStatus(log) = "none" => log = <<>>
  <2>1. ASSUME log # <<>> PROVE LeaseStatus(log) # "none"
    BY <2>1, LastRow DEF LeaseStatus, Row, JobStatuses
  <2> QED BY <2>1
<1> HIDE DEF s, log
<1>7. Lease!Take(j, s)
  BY <1>1, <1>3, <1>4, <1>6, LeaseOfOne DEF Lease!Take, log
<1> QED BY <1>5, <1>7

\* The log implements the lease: for any jobs and workers, whatever handlers race
\* and whatever faults occur, at most one worker holds a job, only it reports the
\* job, and a job is granted only when nobody holds it.
THEOREM LogImplementsLease ==
    ASSUME NoRefusal
    PROVE  Spec => LeaseSpec
<1>1. Init => RequestFree /\ Lease!Init
  BY DEF Init, RequestFree, Lease!Init, Holder, LeaseStatus
<1>2. LogInv /\ KnownJobs /\ RequestInv /\ FenceInv /\ RequestFree /\ [Next]_vars => RequestFree'
  BY RequestFreeStep
<1>3. LogInv /\ KnownJobs /\ FenceInv /\ RequestFree /\ [Next]_vars => [Lease!Next]_(Lease!vars)
  <2>1. ASSUME LogInv, KnownJobs, FenceInv, RequestFree, [Next]_vars
        PROVE  [Lease!Next]_(Lease!vars)
    <3>1. CASE UNCHANGED events
      BY <3>1 DEF Lease!vars
    <3>2. ASSUME NEW q \in request, Assigns(q) PROVE Lease!Next
      <4>1. q.job \in Jobs /\ q.worker \in Workers
        BY <2>1 DEF LogInv, TypeOK
      <4> QED BY <2>1, <3>2, <4>1, GrantStep DEF Lease!Next
    <3>3. ASSUME NEW h \in handling, Records(h) PROVE Lease!Next
      <4>1. h.msg.job \in Jobs /\ h.msg.row.by \in Workers
        BY <2>1 DEF LogInv, TypeOK, Message
      <4> QED BY <2>1, <3>3, <4>1, ReportStep DEF Lease!Next
    <3>4. ASSUME NEW j \in Jobs, NEW rows, Serves(j, rows) PROVE Lease!Next
      BY <2>1, <3>4, TakeStep DEF Lease!Next
    <3> QED BY <2>1, <3>1, <3>2, <3>3, <3>4, LogSteps
  <2> QED BY <2>1
<1> QED BY <1>1, <1>2, <1>3, FenceInvariant, PTL DEF Spec, LeaseSpec, Lease!Spec

-----------------------------------------------------------------------------
(* What the lease promises, and so the log *)

\* Whom the lease has as the holder of a job, and its status there.
Holders  == [j \in Jobs |-> Holder(events[j])]
Statuses == [j \in Jobs |-> LeaseStatus(events[j])]

LeaseInv ==
    /\ Holders \in [Jobs -> Workers \union {Server}]
    /\ Statuses = [j \in Jobs |-> Statuses[j]]
    /\ \A j \in Jobs : Statuses[j] \in {"assigned", "working"} <=> Holders[j] # Server

\* Every step of the lease keeps holder and status in agreement, and none hands a
\* job over.
LEMMA LeaseSteps ==
    ASSUME LeaseInv, [Lease!Next]_(Lease!vars)
    PROVE  /\ LeaseInv'
           /\ \A j \in Jobs : Holders'[j] \in {Holders[j], Server} \/ Holders[j] = Server
<1> USE ServerAssumption DEF LeaseInv, Lease!Unheld
<1>1. ASSUME NEW j \in Jobs, NEW s \in Lease!Unheld, Lease!Take(j, s)
      PROVE  LeaseInv' /\ \A i \in Jobs : Holders'[i] \in {Holders[i], Server}
  <2>1. /\ Holders' = [Holders EXCEPT ![j] = Server]
        /\ Statuses' = [Statuses EXCEPT ![j] = s]
    BY <1>1 DEF Lease!Take, Holders, Statuses
  <2> QED BY <2>1
<1>2. ASSUME NEW j \in Jobs, NEW w \in Workers, Lease!Grant(j, w)
      PROVE  LeaseInv' /\ \A i \in Jobs : Holders'[i] = Holders[i] \/ Holders[i] = Server
  <2>1. /\ Holders[j] = Server
        /\ Holders' = [Holders EXCEPT ![j] = w]
        /\ Statuses' = [Statuses EXCEPT ![j] = "assigned"]
    BY <1>2 DEF Lease!Grant, Holders, Statuses
  <2> QED BY <2>1
<1>3. ASSUME NEW j \in Jobs, NEW w \in Workers, Lease!Report(j, w)
      PROVE  LeaseInv' /\ \A i \in Jobs : Holders'[i] = Holders[i]
  <2>1. /\ Holders[j] = w
        /\ Holders' = Holders
        /\ Statuses' = [Statuses EXCEPT ![j] = "working"]
    BY <1>3 DEF Lease!Report, Holders, Statuses
  <2> QED BY <2>1
<1>4. ASSUME NEW j \in Jobs, NEW w \in Workers, NEW s \in {"completed", "failed"},
             Lease!Finish(j, w, s)
      PROVE  LeaseInv' /\ \A i \in Jobs : Holders'[i] \in {Holders[i], Server}
  <2>1. /\ Holders' = [Holders EXCEPT ![j] = Server]
        /\ Statuses' = [Statuses EXCEPT ![j] = s]
    BY <1>4 DEF Lease!Finish, Holders, Statuses
  <2> QED BY <2>1
<1>5. CASE UNCHANGED Lease!vars
  <2>1. Holders' = Holders /\ Statuses' = Statuses
    BY <1>5 DEF Lease!vars, Holders, Statuses
  <2> QED BY <2>1
<1> QED BY <1>1, <1>2, <1>3, <1>4, <1>5 DEF Lease!Next

\* In the beginning nobody has a lease.
LEMMA LeaseStarts == Lease!Init => LeaseInv
<1>1. Lease!Init => Holders = [j \in Jobs |-> Server] /\ Statuses = [j \in Jobs |-> "none"]
  BY DEF Lease!Init, Holders, Statuses
<1> QED BY <1>1 DEF LeaseInv

\* No step of the server or of a worker hands a job from one worker to another:
\* the server takes it back in between, or its holder ends it.
THEOREM LeaseNeverHandedOver ==
    ASSUME NoRefusal
    PROVE  Spec => Lease!NoHandOver
<1>1. Lease!Init => LeaseInv
  BY LeaseStarts
<1>2. LeaseInv /\ [Lease!Next]_(Lease!vars) => LeaseInv'
  BY LeaseSteps
<1>3. LeaseInv /\ [Lease!Next]_(Lease!vars)
         => [\A j \in Jobs : Holders'[j] \in {Holders[j], Server} \/ Holders[j] = Server]_(Lease!vars)
  BY LeaseSteps
<1>4. [][\A j \in Jobs : Holders'[j] \in {Holders[j], Server} \/ Holders[j] = Server]_(Lease!vars)
         => Lease!NoHandOver
  BY DEF Lease!NoHandOver, Holders
<1> QED BY <1>1, <1>2, <1>3, <1>4, LogImplementsLease, PTL DEF LeaseSpec, Lease!Spec

-----------------------------------------------------------------------------
(* The source is removed last *)

\* The completion of the job is in its log.
Recorded(j) == \E k \in DOMAIN events[j] : IsCompleted(events[j][k])

\* What a handler in flight knows: completeJob has run before a completion is
\* recorded, and the completion is in the log before the source may go.
KnowsCompletion(h) ==
    /\ h.pc \in {"finalized", "insert"} /\ IsCompleted(h.msg.row) => h.msg.job \in published
    /\ h.pc = "finalized" => IsCompleted(h.msg.row)
    /\ h.pc = "remove" => h.msg.job \in published /\ Recorded(h.msg.job)

SourceInv == SourceSafe /\ \A h \in handling : KnowsCompletion(h)

\* Neither a recorded completion nor a published output is forgotten.
LEMMA RecordedStays ==
    ASSUME LogInv, KnownJobs, [Next]_vars
    PROVE  /\ \A j \in Jobs : Recorded(j) => Recorded(j)'
           /\ published \subseteq published'
<1>1. ASSUME NEW j \in Jobs, Recorded(j) PROVE Recorded(j)'
  <2>1. /\ events[j] \in Seq(Row) /\ events'[j] \in Seq(Row)
        /\ Len(events[j]) <= Len(events'[j])
        /\ \A k \in DOMAIN events[j] : events'[j][k] = events[j][k]
    BY LogsGrow
  <2>2. PICK k \in DOMAIN events[j] : IsCompleted(events[j][k])
    BY <1>1 DEF Recorded
  <2>3. k \in DOMAIN events'[j] /\ IsCompleted(events'[j][k])
    BY <2>1, <2>2
  <2> QED BY <2>3 DEF Recorded
<1>2. published \subseteq published'
  BY DEF Next, vars, DispatchStep, Ask, RequestSelect, RequestNone, RequestRead,
         RequestInsert, RequestFail, WorkerStep, Publish, Refuse, GiveUp, Crash,
         EventStep, EventCheck, CompleteJob, EventCheckFinalized, EventInsert,
         EventFail, RemoveSource, RemoveSourceFails, EventAnswer, CancelStep, CancelRead,
         CancelInsert, CancelFail, IntakeStep, UserSchedules, IntakeCommit, IntakeAbort,
         PassStep, PassRead, PassStart, PassQueued, PassCancels, PassRetries, PassTimesOut,
         PassNext, EnvironmentStep, Expire, SourceDisappears, SourceReturns, Restart
<1> QED BY <1>1, <1>2

\* Every step keeps what a handler knows of the completion it handles.
LEMMA HandlerKnowsCompletion ==
    ASSUME LogInv, KnownJobs, SourceInv, [Next]_vars
    PROVE  \A h \in handling' : KnowsCompletion(h)'
<1>1. \A h \in handling : h.msg \in Message /\ h.msg.job \in Jobs /\ KnowsCompletion(h)
  BY DEF LogInv, TypeOK, Message, SourceInv, KnowsCompletion
<1>2. ASSUME NEW h \in handling PROVE KnowsCompletion(h)'
  BY <1>1, RecordedStays DEF KnowsCompletion
<1>3. ASSUME NEW m \in net, EventCheck(m) PROVE \A h \in handling' : KnowsCompletion(h)'
  BY <1>3 DEF EventCheck, KnowsCompletion
<1>4. ASSUME NEW m \in net, CompleteJob(m) PROVE \A h \in handling' : KnowsCompletion(h)'
  BY <1>4 DEF CompleteJob, KnowsCompletion
<1>5. ASSUME NEW h \in handling, EventCheckFinalized!(h)
      PROVE  \A g \in handling' : KnowsCompletion(g)'
  <2>1. IsCompleted(h.msg.row) /\ h.msg.job \in published
    BY <1>1, <1>5 DEF KnowsCompletion
  <2>2. CASE AlreadyRecorded(h.msg)
    <3>1. Recorded(h.msg.job)
      BY <2>2 DEF AlreadyRecorded, Recorded
    <3>2. Recorded(h.msg.job)'
      BY <1>1, <3>1, RecordedStays
    <3>3. h.msg.job \in published'
      BY <2>1, RecordedStays
    <3>4. handling' = {Afterwards(h.msg)}
      BY <1>5, <2>2
    <3> QED BY <3>2, <3>3, <3>4 DEF Afterwards, KnowsCompletion
  <2>3. CASE ~AlreadyRecorded(h.msg) /\ h.msg.row.id = NextId(events[h.msg.job])
    <3>1. handling' = {[h EXCEPT !.pc = "insert"]}
      BY <1>5, <2>3
    <3>2. [h EXCEPT !.pc = "insert"].msg = h.msg /\ [h EXCEPT !.pc = "insert"].pc = "insert"
      BY DEF LogInv, TypeOK
    <3>3. h.msg.job \in published'
      BY <2>1, RecordedStays
    <3> QED BY <3>1, <3>2, <3>3 DEF KnowsCompletion
  <2>4. CASE ~AlreadyRecorded(h.msg) /\ h.msg.row.id # NextId(events[h.msg.job])
    BY <1>5, <2>4
  <2> QED BY <2>2, <2>3, <2>4
<1>6. ASSUME NEW h \in handling, EventInsert!(h)
      PROVE  \A g \in handling' : KnowsCompletion(g)'
  <2>1. handling' = {Afterwards(h.msg)}
    BY <1>6
  <2>2. CASE ~IsCompleted(h.msg.row)
    BY <2>1, <2>2 DEF Afterwards, KnowsCompletion
  <2>3. CASE IsCompleted(h.msg.row)
    <3>1. h.msg.job \in published'
      BY <1>1, <1>6, <2>3, RecordedStays DEF KnowsCompletion
    <3>2. events[h.msg.job] \in Seq(Row) /\ events \in [Jobs -> Seq(Row)] /\ h.msg.row \in Row
      BY <1>1 DEF LogInv, TypeOK, Message, Row, JobStatuses, PhaseStatuses
    <3>3. events'[h.msg.job] = events[h.msg.job] \o <<h.msg.row>>
      BY <1>1, <1>6, <3>2 DEF Insert
    <3>4. /\ Len(events[h.msg.job]) + 1 \in DOMAIN events'[h.msg.job]
          /\ events'[h.msg.job][Len(events[h.msg.job]) + 1] = h.msg.row
      BY <3>2, <3>3
    <3>5. Recorded(h.msg.job)'
      BY <2>3, <3>4 DEF Recorded
    <3> QED BY <2>1, <3>1, <3>5 DEF Afterwards, KnowsCompletion
  <2> QED BY <2>2, <2>3
<1>7. ASSUME NEW h \in handling, RemoveSource!(h)
      PROVE  \A g \in handling' : KnowsCompletion(g)'
  <2>1. handling' = {[h EXCEPT !.pc = "answer"]} /\ [h EXCEPT !.pc = "answer"].pc = "answer"
    BY <1>7 DEF LogInv, TypeOK
  <2> QED BY <2>1 DEF KnowsCompletion
<1>8. \/ \E m \in net : EventCheck(m) \/ CompleteJob(m)
      \/ EventCheckFinalized \/ EventInsert \/ RemoveSource
      \/ handling' \subseteq handling
  BY DEF Next, vars, serverVars, DispatchStep, Ask, RequestSelect, RequestNone, RequestRead,
         RequestInsert, RequestFail, WorkerStep, Publish, Refuse, GiveUp, Crash,
         EventStep, EventFail, RemoveSourceFails, EventAnswer, CancelStep, CancelRead,
         CancelInsert, CancelFail, IntakeStep, UserSchedules, IntakeCommit, IntakeAbort,
         PassStep, PassRead, PassStart, PassQueued, PassCancels, PassRetries, PassTimesOut,
         PassNext, EnvironmentStep, Expire, SourceDisappears, SourceReturns, Restart
<1> QED BY <1>2, <1>3, <1>4, <1>5, <1>6, <1>7, <1>8 DEF EventCheckFinalized, EventInsert, RemoveSource

\* Only the handler of a recorded completion removes a source.
LEMMA SourceSteps ==
    ASSUME LogInv, SourceInv, [Next]_vars, NEW j \in Jobs, source'[j] = "removed"
    PROVE  source[j] = "removed" \/ (j \in published /\ Recorded(j))
<1>1. source \in [Jobs -> {"present", "missing", "removed"}]
  BY DEF LogInv, TypeOK
<1>2. ASSUME NEW h \in handling, RemoveSource!(h)
      PROVE  source[j] = "removed" \/ (j \in published /\ Recorded(j))
  BY <1>1, <1>2 DEF SourceInv, KnowsCompletion
<1>3. ASSUME NEW i \in Jobs, SourceDisappears(i) \/ SourceReturns(i)
      PROVE  source[j] = "removed"
  BY <1>1, <1>3 DEF SourceDisappears, SourceReturns
<1>4. \/ RemoveSource
      \/ \E i \in Jobs : SourceDisappears(i) \/ SourceReturns(i)
      \/ source' = source
  BY DEF Next, vars, DispatchStep, Ask, RequestSelect, RequestNone, RequestRead,
         RequestInsert, RequestFail, WorkerStep, Publish, Refuse, GiveUp, Crash,
         EventStep, EventCheck, CompleteJob, EventCheckFinalized, EventInsert,
         EventFail, RemoveSourceFails, EventAnswer, CancelStep, CancelRead,
         CancelInsert, CancelFail, IntakeStep, UserSchedules, IntakeCommit, IntakeAbort,
         PassStep, PassRead, PassStart, PassQueued, PassCancels, PassRetries, PassTimesOut,
         PassNext, EnvironmentStep, Expire, Restart
<1> QED BY <1>2, <1>3, <1>4 DEF RemoveSource

\* Every step keeps the sources of jobs whose completion is not recorded.
LEMMA SourceInvStep ==
    ASSUME LogInv, KnownJobs, SourceInv, [Next]_vars
    PROVE  SourceInv'
<1>1. ASSUME NEW j \in Jobs, source'[j] = "removed" PROVE j \in published' /\ Recorded(j)'
  <2>1. j \in published /\ Recorded(j)
    BY <1>1, SourceSteps DEF SourceInv, SourceSafe, Recorded
  <2> QED BY <2>1, RecordedStays
<1>2. SourceSafe'
  BY <1>1 DEF SourceSafe, Recorded
<1> QED BY <1>2, HandlerKnowsCompletion DEF SourceInv

\* A source file is removed only after an output of its job was published and the
\* completion is in the log, whatever is repeated, refused, lost or restarted.
THEOREM SourcesKept == Spec => []SourceSafe
<1>1. Init => SourceInv
  BY DEF Init, SourceInv, SourceSafe
<1>2. LogInv /\ KnownJobs /\ SourceInv /\ [Next]_vars => SourceInv'
  BY SourceInvStep
<1>3. SourceInv => SourceSafe
  BY DEF SourceInv
<1> QED BY <1>1, <1>2, <1>3, AssignmentInvariant, PTL DEF Spec

-----------------------------------------------------------------------------
(* The oldest queued job is assigned first *)

\* The row of job_status that a request selected is still the job's last row.
Selects(q) == q.job \in Queued /\ Last(events[q.job]).id = q.event

OldestSelected(q) ==
    /\ q.job \in Jobs
    /\ q.event \in Nat /\ q.event < Len(events[q.job])
    /\ Selects(q) => \A i \in Queued : <<i, q.job>> \notin older

\* Logs and ages change together: in the inserts.
LEMMA AgesStep ==
    ASSUME LogInv, KnownJobs, [Next]_vars
    PROVE  \/ UNCHANGED <<events, older>>
           \/ \E j \in Jobs : \E rows \in Seq(Row) \ {<<>>} : Insert(j, rows)
<1> USE DEF LogInv
<1>1. ASSUME NEW q \in request, RequestInsert!(q)
      PROVE  \E j \in Jobs : \E rows \in Seq(Row) \ {<<>>} : Insert(j, rows)
  <2>1. q.job \in Jobs /\ AssignedRow(q.id, q.worker) \in Row
    BY DEF TypeOK, AssignedRow, Row, Types, JobStatuses
  <2>2. <<AssignedRow(q.id, q.worker)>> \in Seq(Row) \ {<<>>}
    BY <2>1
  <2> QED BY <1>1, <2>1, <2>2
<1>2. ASSUME NEW h \in handling, EventInsert!(h)
      PROVE  \E j \in Jobs : \E rows \in Seq(Row) \ {<<>>} : Insert(j, rows)
  <2>1. h.msg.job \in Jobs /\ h.msg.row \in Row
    BY DEF TypeOK, Message, Row, JobStatuses, PhaseStatuses
  <2>2. <<h.msg.row>> \in Seq(Row) \ {<<>>}
    BY <2>1
  <2> QED BY <1>2, <2>1, <2>2
<1>3. ASSUME NEW j \in Jobs, NEW id \in Nat, NEW s \in {"queued", "failed", "canceled"},
             Insert(j, <<ServerRow(id, s)>>)
      PROVE  \E i \in Jobs : \E rows \in Seq(Row) \ {<<>>} : Insert(i, rows)
  <2>1. <<ServerRow(id, s)>> \in Seq(Row) \ {<<>>}
    BY ServerRowIs
  <2> QED BY <1>3, <2>1
<1>4. ASSUME NEW c \in cancels, CancelInsert(c)
      PROVE  \E j \in Jobs : \E rows \in Seq(Row) \ {<<>>} : Insert(j, rows)
  BY <1>3, <1>4 DEF CancelInsert, TypeOK
<1>5. ASSUME NEW i \in intake, IntakeCommit!(i)
      PROVE  \E j \in Jobs : \E rows \in Seq(Row) \ {<<>>} : Insert(j, rows)
  <2>1. i.job \in Jobs /\ IntakeRows(i) \in Seq(Row)
    BY IntakeRowsType DEF TypeOK
  <2>2. IntakeRows(i) # <<>>
    BY DEF IntakeRows
  <2> QED BY <1>5, <2>1, <2>2
<1>6. ASSUME NEW p \in pass, NEW t \in p.todo, NEW s \in {"failed", "canceled"},
             PassAppends(p, t, ServerRow(t.id, s))
      PROVE  \/ UNCHANGED <<events, older>>
             \/ \E j \in Jobs : \E rows \in Seq(Row) \ {<<>>} : Insert(j, rows)
  <2>1. t.job \in Jobs /\ t.id \in Nat
    BY DEF TypeOK
  <2> QED BY <1>3, <1>6, <2>1 DEF PassAppends, logVars
<1>7. \/ RequestInsert \/ EventInsert \/ IntakeCommit \/ PassQueued \/ PassCancels
      \/ \E c \in cancels : CancelInsert(c)
      \/ UNCHANGED <<events, older>>
  BY DEF Next, vars, logVars, DispatchStep, Ask, RequestSelect, RequestNone, RequestRead,
         RequestFail, WorkerStep, Publish, Refuse, GiveUp, Crash,
         EventStep, EventCheck, CompleteJob, EventCheckFinalized, EventFail, RemoveSource,
         RemoveSourceFails, EventAnswer, CancelStep, CancelRead, CancelFail, IntakeStep,
         UserSchedules, IntakeAbort, PassStep, PassRead, PassStart, PassRetries,
         PassTimesOut, PassNext, EnvironmentStep, Expire, SourceDisappears,
         SourceReturns, Restart
<1>8. CASE PassQueued \/ PassCancels
  BY <1>6, <1>8 DEF PassQueued, PassCancels, logVars
<1> QED BY <1>1, <1>2, <1>4, <1>5, <1>7, <1>8 DEF RequestInsert, EventInsert, IntakeCommit

\* What was selected stays selected as long as its row is the last one.
LEMMA SelectionStays ==
    ASSUME LogInv, KnownJobs, [Next]_vars, NEW q, OldestSelected(q)
    PROVE  OldestSelected(q)'
<1> USE DEF LogInv
<1>1. CASE UNCHANGED <<events, older>>
  BY <1>1 DEF OldestSelected, Selects, Queued
<1>2. ASSUME NEW j \in Jobs, NEW rows \in Seq(Row) \ {<<>>}, Insert(j, rows)
      PROVE  OldestSelected(q)'
  <2>1. /\ events \in [Jobs -> Seq(Row)] /\ q.job \in Jobs
        /\ events' = [events EXCEPT ![j] = @ \o rows]
        /\ older' = {p \in older : p[1] # j} \union {<<i, j>> : i \in Jobs \ {j}}
    BY <1>2 DEF TypeOK, Insert, OldestSelected
  <2>2. CASE q.job = j
    <3>1. Gapless' /\ events' \in [Jobs -> Seq(Row)]
      BY LogInvStep DEF TypeOK
    <3>2. Len(events'[j]) > Len(events[j]) /\ Len(events'[j]) \in Nat
      <4>1. events[j] \in Seq(Row) /\ events'[j] = events[j] \o rows
        BY <2>1
      <4>2. Len(rows) \in Nat \ {0}
        OBVIOUS
      <4>3. Len(events'[j]) = Len(events[j]) + Len(rows) /\ Len(events[j]) \in Nat
        BY <4>1
      <4> HIDE DEF LogInv
      <4> QED BY <4>2, <4>3
    <3>3. Last(events'[j]).id = Len(events'[j]) - 1
      BY <3>1, <3>2 DEF Gapless, Last
    <3> QED BY <2>1, <2>2, <3>2, <3>3 DEF OldestSelected, Selects
  <2>3. CASE q.job # j
    <3>1. events'[q.job] = events[q.job]
      BY <2>1, <2>3
    <3>2. ASSUME Selects(q)', NEW i \in Queued' PROVE <<i, q.job>> \notin older'
      <4>1. Selects(q)
        BY <3>1, <3>2, <2>1 DEF Selects, Queued
      <4>2. CASE i = j
        BY <2>1, <2>3, <4>2
      <4>3. CASE i # j
        <5>1. events'[i] = events[i] /\ i \in Jobs
          BY <2>1, <4>3 DEF Queued
        <5>2. i \in Queued
          BY <3>2, <5>1 DEF Queued
        <5> QED BY <2>1, <2>3, <4>1, <5>2 DEF OldestSelected
      <4> QED BY <4>2, <4>3
    <3> QED BY <2>1, <3>1, <3>2 DEF OldestSelected
  <2> QED BY <2>2, <2>3
<1> QED BY <1>1, <1>2, AgesStep

\* A request has its job and row from a request before it, or selects them now.
LEMMA RequestKeepsSelection ==
    ASSUME LogInv, [Next]_vars, NEW r \in request'
    PROVE  \/ \E q \in request : q.job = r.job /\ q.event = r.event
           \/ /\ UNCHANGED <<events, older>>
              /\ r.job \in Queued /\ r.event = Last(events[r.job]).id
              /\ \A i \in Queued : <<i, r.job>> \notin older
<1> USE DEF LogInv
<1>1. ASSUME NEW w \in Workers, RequestSelect(w)
      PROVE  /\ UNCHANGED <<events, older>>
             /\ r.job \in Queued /\ r.event = Last(events[r.job]).id
             /\ \A i \in Queued : <<i, r.job>> \notin older
  <2>1. PICK j \in Queued : /\ \A i \in Queued : <<i, j>> \notin older
                            /\ request = {} /\ request' = request \union {Selected(w, j)}
    BY <1>1 DEF RequestSelect
  <2>2. r = Selected(w, j)
    BY <2>1
  <2>3. r.job = j /\ r.event = Last(events[j]).id
    BY <2>2 DEF Selected
  <2> QED BY <1>1, <2>1, <2>3 DEF RequestSelect, logVars
<1>2. ASSUME RequestRead PROVE \E q \in request : q.job = r.job /\ q.event = r.event
  <2>1. PICK q \in request :
          request' = (request \ {q}) \union {[q EXCEPT !.read = TRUE, !.id = NextId(events[q.job])]}
    BY <1>2 DEF RequestRead
  <2> DEFINE s == [q EXCEPT !.read = TRUE, !.id = NextId(events[q.job])]
  <2>2. s.job = q.job /\ s.event = q.event
    BY DEF TypeOK
  <2> HIDE DEF s
  <2> QED BY <2>1, <2>2 DEF s
<1>3. ASSUME NEW w \in Workers, Crash(w)
      PROVE  \E q \in request : q.job = r.job /\ q.event = r.event
  <2> DEFINE left(q) == [q EXCEPT !.waiting = @ /\ q.worker # w]
  <2>1. request' = {left(q) : q \in request}
    BY <1>3 DEF Crash
  <2>2. \A q \in request : left(q).job = q.job /\ left(q).event = q.event
    BY DEF TypeOK
  <2> HIDE DEF left
  <2> QED BY <2>1, <2>2
<1>4. \/ \E w \in Workers : RequestSelect(w) \/ Crash(w)
      \/ RequestRead
      \/ request' \subseteq request
  BY DEF Next, vars, serverVars, DispatchStep, Ask, RequestNone,
         RequestInsert, RequestFail, WorkerStep, Publish, Refuse, GiveUp,
         EventStep, EventCheck, CompleteJob, EventCheckFinalized, EventInsert,
         EventFail, RemoveSource, RemoveSourceFails, EventAnswer, CancelStep, CancelRead,
         CancelInsert, CancelFail, IntakeStep, UserSchedules, IntakeCommit, IntakeAbort,
         PassStep, PassRead, PassStart, PassQueued, PassCancels, PassRetries, PassTimesOut,
         PassNext, EnvironmentStep, Expire, SourceDisappears, SourceReturns, Restart
<1> QED BY <1>1, <1>2, <1>3, <1>4

OrderInv == \A q \in request : OldestSelected(q)

\* Every step keeps a selected job the oldest, as long as its log has not gone on.
LEMMA OrderInvStep ==
    ASSUME LogInv, KnownJobs, OrderInv, [Next]_vars
    PROVE  OrderInv'
<1>1. ASSUME NEW r \in request' PROVE OldestSelected(r)'
  <2>1. CASE \E q \in request : q.job = r.job /\ q.event = r.event
    <3>1. OldestSelected(r)
      BY <2>1 DEF OrderInv, OldestSelected, Selects
    <3> QED BY <3>1, SelectionStays
  <2>2. CASE /\ UNCHANGED <<events, older>>
             /\ r.job \in Queued /\ r.event = Last(events[r.job]).id
             /\ \A i \in Queued : <<i, r.job>> \notin older
    <3>1. r.job \in Jobs /\ events[r.job] \in Seq(Row) /\ events[r.job] # <<>>
      BY <2>2 DEF LogInv, TypeOK, Queued, HasStatus
    <3>2. r.event = Len(events[r.job]) - 1
      BY <2>2, <3>1 DEF LogInv, Gapless, Last
    <3>3. OldestSelected(r)
      BY <2>2, <3>1, <3>2 DEF OldestSelected
    <3> QED BY <3>3, SelectionStays
  <2> QED BY <2>1, <2>2, RequestKeepsSelection
<1> QED BY <1>1 DEF OrderInv

\* The job whose status row a request still sees is the one that was queued first,
\* when the assignment is recorded as it was when the request selected it.
THEOREM OldestAssignedFirst == Spec => OldestFirst
<1>1. Init => OrderInv
  BY DEF Init, OrderInv
<1>2. LogInv /\ KnownJobs /\ OrderInv /\ [Next]_vars => OrderInv'
  BY OrderInvStep
<1>3. OrderInv => [\A q \in request :
          LET j == q.job
          IN  /\ j \in Queued /\ Last(events[j]).id = q.event
              /\ Grows(j) /\ Last(events'[j]).status = "assigned"
              => \A i \in Queued : <<i, j>> \notin older]_vars
  BY DEF OrderInv, OldestSelected, Selects
<1> QED BY <1>1, <1>2, <1>3, AssignmentInvariant, PTL DEF Spec, OldestFirst

=============================================================================
