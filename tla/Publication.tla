----------------------------- MODULE Publication ----------------------------
(***************************************************************************)
(* How the file a worker encoded gets into the library: uploads, which run *)
(* concurrently, leave it at the staging path of its job, and the handler  *)
(* of Job/completed, one at a time under handleEventMu, links it under a   *)
(* free name, records the name as the job's target and removes the staged  *)
(* file, all before the completion is in the event log.  The log appears   *)
(* here as the lease it implements (JobLease).  Names starting with Faulty *)
(* are wrong variants of the next definition, see JobEvents.               *)
(*                                                                         *)
(* A file is an inode with its contents, and a path is what it links to,   *)
(* as os.Link, os.SameFile and os.Remove see it.                           *)
(***************************************************************************)
EXTENDS Naturals, Sequences, FiniteSets

CONSTANTS
    Jobs, Workers, NoWorker,    \* as in JobLease
    Inodes,         \* bound: a new file waits for a free one
    Contents,       \* what a file may hold
    Foreign,        \* what every file that is not an upload holds
    Videos,         \* the contents in which ffprobe finds a video stream
    Names,          \* names in the library; bound: an output waits for a free one
    Outputs,        \* Outputs[j][c]: the names to try for c, the source's skipped
    Provisional,    \* Provisional[j]: the target a new job is given
    NoFile,         \* nothing at a path
    Disturbances,   \* what happens besides uploads and completions, see below
    MaxTurns        \* bound: how often a job is assigned

AllDisturbances == {
    "timeout",      \* the server takes a job back and queues it again
    "cancel",       \* users cancel jobs
    "review",       \* users queue failed and canceled jobs in the media library
    "lost",         \* a reply does not reach the worker, which sends again
    "crash",        \* a worker stops and starts again
    "restart",      \* the server stops and starts again
    "database",     \* UpdateJob or the insert of the event fails
    "filesystem",   \* the output cannot be linked, or its permissions not be set
    "cleanup",      \* the staged file cannot be removed
    "foreign"}      \* others put files into the library and remove them

ASSUME OutputAssumption ==
    /\ Foreign \in Contents
    /\ Videos \subseteq Contents
    /\ NoWorker \notin Workers
    /\ Provisional \in [Jobs -> Names]
    /\ Outputs \in [Jobs -> [Videos -> Seq(Names)]]
    /\ Disturbances \subseteq AllDisturbances
    /\ MaxTurns \in Nat

File == [inode : Inodes, content : Contents]

ASSUME FileAssumption == NoFile \notin File

VARIABLES
    holder, status, \* the lease of each job
    turn,           \* turn[j]: how often j was assigned
    work,           \* where the workers stand with what they encoded
    uploads,        \* uploads the server is receiving
    net,            \* notifications of completion the workers repeat
    staged,         \* staged[j]: the file at the staging path of j
    library,        \* library[n]: the file of that name
    target,         \* target[j]: the target path in the row of j in table jobs
    review,         \* the transaction of QueueMediaFile under jobIntakeMu
    fin,            \* the completion under handleEventMu
    finished        \* the completions in the event log

leaseVars == <<holder, status, turn>>
fileVars  == <<staged, library, target>>
vars      == <<leaseVars, work, uploads, net, fileVars, review, fin, finished>>

Lease == INSTANCE JobLease

Message == [worker : Workers, job : Jobs, turn : 1..MaxTurns]
Work    == [worker : Workers, job : Jobs, turn : 1..MaxTurns, content : Contents,
            stage : {"encode", "upload", "report"}]

TypeOK ==
    /\ holder \in [Jobs -> Workers \union {NoWorker}]
    /\ status \in [Jobs -> {"none", "assigned", "working", "completed"} \union Lease!Unheld]
    /\ turn \in [Jobs -> 0..MaxTurns]
    /\ work \subseteq Work
    /\ uploads \subseteq [file : File, by : Work, waiting : BOOLEAN]
    /\ net \subseteq Work
    /\ staged \in [Jobs -> File \union {NoFile}]
    /\ library \in [Names -> File \union {NoFile}]
    /\ target \in [Jobs -> Names]
    /\ review \subseteq [job : Jobs, status : {"failed", "canceled"}, target : Names]
    /\ fin \subseteq [msg : Work, pc : {"link", "update", "clean", "record"},
                      staged : BOOLEAN, name : Names, undo : BOOLEAN]
    /\ finished \subseteq Message

Init ==
    /\ Lease!Init
    /\ turn = [j \in Jobs |-> 0]
    /\ work = {} /\ uploads = {} /\ net = {} /\ review = {} /\ fin = {} /\ finished = {}
    /\ staged = [j \in Jobs |-> NoFile]
    /\ library = [n \in Names |-> NoFile]
    /\ target = Provisional

-----------------------------------------------------------------------------
(* The log, seen as a lease *)

\* The log accepts only the events of the assignment it has last.
Holds(k) == holder[k.job] = k.worker /\ turn[k.job] = k.turn

\* A worker publishes one event at a time, and repeats it until it is answered.
Publishes(k) == \A m \in net : m.worker # k.worker

\* A new job, one that timed out, or a failed one that maintenance retries.
Queue(j) ==
    /\ review = {}
    /\ \/ status[j] \in {"none", "failed"}
       \/ "timeout" \in Disturbances /\ status[j] \in {"assigned", "working"}
    /\ turn[j] < MaxTurns
    /\ Lease!Take(j, "queued")
    /\ UNCHANGED <<turn, work, uploads, net, fileVars, review, fin, finished>>

\* A user cancels a job, or maintenance one that failed too often.
Cancel(j) ==
    /\ "cancel" \in Disturbances
    /\ status[j] \in {"assigned", "working", "failed"}
    /\ Lease!Take(j, "canceled")
    /\ UNCHANGED <<turn, work, uploads, net, fileVars, review, fin, finished>>

\* A worker that could not encode reports the failure, under handleEventMu.
Fail(k) ==
    /\ fin = {}
    /\ k \in work /\ k.stage = "encode" /\ Publishes(k)
    /\ Holds(k)
    /\ Lease!Finish(k.job, k.worker, "failed")
    /\ work' = work \ {k}
    /\ UNCHANGED <<turn, uploads, net, fileVars, review, fin, finished>>

\* Without the check of the job's status.
FaultyReviewRead(j) ==
    /\ "review" \in Disturbances
    /\ review = {}
    /\ turn[j] < MaxTurns
    /\ review' = {[job |-> j, status |-> status[j], target |-> target[j]]}
    /\ UNCHANGED <<leaseVars, work, uploads, net, fileVars, fin, finished>>

\* scheduleJobRequest with a probed source reads the whole row of the job ...
ReviewRead(j) ==
    /\ "review" \in Disturbances
    /\ review = {}
    /\ status[j] \in {"failed", "canceled"}
    /\ turn[j] < MaxTurns
    /\ review' = {[job |-> j, status |-> status[j], target |-> target[j]]}
    /\ UNCHANGED <<leaseVars, work, uploads, net, fileVars, fin, finished>>

\* ... and writes it back, provided nobody appended to the log of the job.
ReviewCommit ==
    \E r \in review :
        /\ status[r.job] = r.status
        /\ Lease!Take(r.job, "queued")
        /\ target' = [target EXCEPT ![r.job] = r.target]
        /\ review' = {}
        /\ UNCHANGED <<turn, work, uploads, net, staged, library, fin, finished>>

ReviewAbort ==
    \E r \in review :
        /\ status[r.job] # r.status \/ "database" \in Disturbances
        /\ review' = {}
        /\ UNCHANGED <<leaseVars, work, uploads, net, fileVars, fin, finished>>

\* What the worker will make of the source is up to its encoder.
Assign(w, j) ==
    /\ status[j] = "queued"
    /\ Lease!Grant(j, w)
    /\ turn' = [turn EXCEPT ![j] = @ + 1]
    /\ \E c \in Contents \ {Foreign} :
          work' = work \union {[worker |-> w, job |-> j, turn |-> turn'[j], content |-> c,
                                stage |-> "encode"]}
    /\ UNCHANGED <<uploads, net, fileVars, review, fin, finished>>

\* The worker has reported its phases, under handleEventMu, and comes to the upload.
Encode(k) ==
    /\ fin = {}
    /\ k \in work /\ k.stage = "encode" /\ Publishes(k)
    /\ Holds(k)
    /\ Lease!Report(k.job, k.worker)
    /\ work' = (work \ {k}) \union {[k EXCEPT !.stage = "upload"]}
    /\ UNCHANGED <<turn, uploads, net, fileVars, review, fin, finished>>

-----------------------------------------------------------------------------
(* upload *)

Used == {u.file.inode : u \in uploads}
           \union {staged[j].inode : j \in {i \in Jobs : staged[i] # NoFile}}
           \union {library[n].inode : n \in {m \in Names : library[m] # NoFile}}

\* GetUploadJobWriter: the job is started and its last event names this worker,
\* whichever assignment the worker works on; otherwise 403.  The attempt gets a
\* file of its own.
UploadBegin(k) ==
    /\ k \in work /\ k.stage = "upload"
    /\ ~\E u \in uploads : u.by = k /\ u.waiting
    /\ status[k.job] = "working" /\ holder[k.job] = k.worker
    /\ \E i \in Inodes \ Used :
          uploads' = uploads \union
              {[file |-> [inode |-> i, content |-> k.content], by |-> k, waiting |-> TRUE]}
    /\ UNCHANGED <<leaseVars, work, net, fileVars, review, fin, finished>>

\* Size or checksum differ, or the connection breaks: the attempt is removed.
UploadFails(u) ==
    /\ u \in uploads
    /\ uploads' = uploads \ {u}
    /\ UNCHANGED <<leaseVars, work, net, fileVars, review, fin, finished>>

\* The worker gives up on a request of which the server has everything.
UploadAbandoned(u) ==
    /\ "lost" \in Disturbances
    /\ u \in uploads /\ u.waiting
    /\ uploads' = (uploads \ {u}) \union {[u EXCEPT !.waiting = FALSE]}
    /\ UNCHANGED <<leaseVars, work, net, fileVars, review, fin, finished>>

\* The staging path is free, or has the same bytes.
Acceptable(u) == staged[u.by.job] # NoFile => staged[u.by.job].content = u.file.content

\* Commit links the validated attempt; the attempt's own name goes in any case.
UploadAccepted(u) ==
    /\ u \in uploads
    /\ Acceptable(u)
    /\ staged' = [staged EXCEPT ![u.by.job] = IF @ = NoFile THEN u.file ELSE @]
    /\ uploads' = uploads \ {u}
    /\ work' = IF u.waiting
               THEN (work \ {u.by}) \union {[u.by EXCEPT !.stage = "report"]}
               ELSE work
    /\ UNCHANGED <<leaseVars, net, library, target, review, fin, finished>>

\* 500: different bytes are staged.  The worker tries again in five seconds.
UploadRefused(u) ==
    /\ u \in uploads
    /\ ~Acceptable(u)
    /\ uploads' = uploads \ {u}
    /\ UNCHANGED <<leaseVars, work, net, fileVars, review, fin, finished>>

\* After the 201 the worker reports Job/completed and repeats it until it is 200.
Report(k) ==
    /\ k \in work /\ k.stage = "report" /\ Publishes(k)
    /\ work' = work \ {k}
    /\ net' = net \union {k}
    /\ UNCHANGED <<leaseVars, uploads, fileVars, review, fin, finished>>

\* The worker comes back from its context file, at the upload.  What the server has
\* received goes on.
Crash(w) ==
    /\ "crash" \in Disturbances
    /\ LET mine == {k \in work \union net : k.worker = w /\ k.stage # "encode"}
       IN  /\ mine # {}
           /\ work' = (work \ mine) \union {[k EXCEPT !.stage = "upload"] : k \in mine}
           /\ net' = net \ mine
    /\ uploads' = {[u EXCEPT !.waiting = @ /\ u.by.worker # w] : u \in uploads}
    /\ UNCHANGED <<leaseVars, fileVars, review, fin, finished>>

-----------------------------------------------------------------------------
(* completeJob *)

Path(h) == IF h.staged THEN staged[h.msg.job] ELSE library[h.name]

\* The job is read; the staged file is probed if there is one, otherwise the
\* recorded target.  Where ffprobe finds no video nothing changes: 500.
CompleteProbe(k) ==
    /\ fin = {}
    /\ k \in net
    /\ LET h == [msg |-> k, pc |-> "link", staged |-> staged[k.job] # NoFile,
                 name |-> target[k.job], undo |-> FALSE]
       IN  /\ Path(h) # NoFile
           /\ Path(h).content \in Videos
           /\ fin' = {h}
    /\ UNCHANGED <<leaseVars, work, uploads, net, fileVars, review, finished>>

\* A rename would not look.
FaultyLinkName(names, file) == {names[1]}

\* The first name at which os.Link succeeds, or which is this very file already.
LinkName(names, file) ==
    LET free == {k \in DOMAIN names : library[names[k]] \in {NoFile, file}}
    IN  {names[k] : k \in {m \in free : \A i \in free : m <= i}}

CompleteLink ==
    \E h \in fin :
        /\ h.pc = "link"
        /\ Path(h) # NoFile
        /\ \E n \in LinkName(Outputs[h.msg.job][Path(h).content], Path(h)) :
              /\ library' = [library EXCEPT ![n] = Path(h)]
              /\ fin' = {[h EXCEPT !.pc = "update", !.name = n,
                                   !.undo = h.staged \/ n # h.name]}
        /\ UNCHANGED <<leaseVars, work, uploads, net, staged, target, review, finished>>

\* The link, or setting the permissions of what is linked, fails; so it does when the
\* probed target is somebody else's who has removed it since.  A link made stays.
CompleteFails ==
    \E h \in fin :
        /\ h.pc \in {"link", "update"}
        /\ Path(h) = NoFile \/ "filesystem" \in Disturbances
        /\ fin' = {}
        /\ UNCHANGED <<leaseVars, work, uploads, net, fileVars, review, finished>>

\* UpdateJob records the name.
CompleteUpdate ==
    \E h \in fin :
        /\ h.pc = "update"
        /\ target' = [target EXCEPT ![h.msg.job] = h.name]
        /\ fin' = {[h EXCEPT !.pc = "clean"]}
        /\ UNCHANGED <<leaseVars, work, uploads, net, staged, library, review, finished>>

\* The rollback removes the output also when it was the recorded target already.
FaultyCompleteUpdateFails ==
    \E h \in fin :
        /\ "database" \in Disturbances
        /\ h.pc = "update"
        /\ library' = [library EXCEPT ![h.name] = NoFile]
        /\ fin' = {}
        /\ UNCHANGED <<leaseVars, work, uploads, net, staged, target, review, finished>>

\* UpdateJob fails: the link is removed, unless the target itself was probed.
CompleteUpdateFails ==
    \E h \in fin :
        /\ "database" \in Disturbances
        /\ h.pc = "update"
        /\ library' = IF h.undo THEN [library EXCEPT ![h.name] = NoFile] ELSE library
        /\ fin' = {}
        /\ UNCHANGED <<leaseVars, work, uploads, net, staged, target, review, finished>>

\* Whatever is at the staging path by now is removed; a failure is only logged.
CompleteClean ==
    \E h \in fin :
        /\ h.pc = "clean"
        /\ \/ staged' = [staged EXCEPT ![h.msg.job] = NoFile]
           \/ "cleanup" \in Disturbances /\ UNCHANGED staged
        /\ fin' = {[h EXCEPT !.pc = "record"]}
        /\ UNCHANGED <<leaseVars, work, uploads, net, library, target, review, finished>>

-----------------------------------------------------------------------------
(* processEvent, once the job is completed *)

Completion(k) == [worker |-> k.worker, job |-> k.job, turn |-> k.turn]

\* The event is the next one of the log, and 200 reaches the worker or not.
CompleteRecord ==
    \E h \in fin :
        /\ h.pc = "record"
        /\ Holds(h.msg)
        /\ Lease!Finish(h.msg.job, h.msg.worker, "completed")
        /\ finished' = finished \union {Completion(h.msg)}
        /\ net' \in {net \ {h.msg}}
                      \union (IF "lost" \in Disturbances THEN {net} ELSE {})
        /\ fin' = {}
        /\ UNCHANGED <<turn, work, uploads, fileVars, review>>

\* The event is in the log already: 200.
CompleteRepeated ==
    \E h \in fin :
        /\ h.pc = "record"
        /\ Completion(h.msg) \in finished
        /\ net' = net \ {h.msg}
        /\ fin' = {}
        /\ UNCHANGED <<leaseVars, work, uploads, fileVars, review, finished>>

\* The event is not the next one, or the insert fails: 500, the worker repeats it.
CompleteRejected ==
    \E h \in fin :
        /\ h.pc = "record"
        /\ \/ ~Holds(h.msg) /\ Completion(h.msg) \notin finished
           \/ "database" \in Disturbances
        /\ fin' = {}
        /\ UNCHANGED <<leaseVars, work, uploads, net, fileVars, review, finished>>

-----------------------------------------------------------------------------
(* The environment *)

\* The server stops: uploads and the completion break off where they are.
Restart ==
    /\ "restart" \in Disturbances
    /\ uploads' = {} /\ review' = {} /\ fin' = {}
    /\ UNCHANGED <<leaseVars, work, net, fileVars, finished>>

ForeignFile(n) ==
    /\ "foreign" \in Disturbances
    /\ \/ /\ library[n] = NoFile
          /\ \E i \in Inodes \ Used :
                library' = [library EXCEPT ![n] = [inode |-> i, content |-> Foreign]]
       \/ /\ library[n] # NoFile
          /\ library[n].content = Foreign
          /\ library' = [library EXCEPT ![n] = NoFile]
    /\ UNCHANGED <<leaseVars, work, uploads, net, staged, target, review, fin, finished>>

-----------------------------------------------------------------------------

LeaseStep ==
    \/ \E j \in Jobs : \/ Queue(j) \/ Cancel(j) \/ ReviewRead(j)
                       \/ \E w \in Workers : Assign(w, j)
    \/ \E k \in work : Encode(k) \/ Fail(k)
    \/ ReviewCommit \/ ReviewAbort

UploadStep ==
    \/ \E k \in work : UploadBegin(k) \/ Report(k)
    \/ \E u \in uploads : \/ UploadFails(u) \/ UploadAbandoned(u)
                          \/ UploadAccepted(u) \/ UploadRefused(u)
    \/ \E w \in Workers : Crash(w)

CompletionStep ==
    \/ \E k \in net : CompleteProbe(k)
    \/ CompleteLink \/ CompleteFails \/ CompleteUpdate \/ CompleteUpdateFails
    \/ CompleteClean \/ CompleteRecord \/ CompleteRepeated \/ CompleteRejected

EnvironmentStep ==
    \/ Restart
    \/ \E n \in Names : ForeignFile(n)

Next == LeaseStep \/ UploadStep \/ CompletionStep \/ EnvironmentStep

Spec == Init /\ [][Next]_vars

-----------------------------------------------------------------------------
(* Properties *)

HasOutput(j) == library[target[j]] # NoFile /\ library[target[j]].content # Foreign

\* The output of a completed job is not lost, whatever failed, was repeated or came
\* late: it is at the recorded target, or a rollback has left an upload of the job at
\* the staging path.
CompletedNotLost ==
    \A j \in Jobs : status[j] = "completed" =>
        HasOutput(j) \/ staged[j] # NoFile

\* The server overwrites no file of the library, and what it removes there has
\* another name: no rollback loses a file.  Only a file that others had put at the
\* recorded target, and removed there after it was probed, may lose its last name.
LibraryKept ==
    [][\A n \in Names :
          fin' # fin /\ library[n] # NoFile /\ library'[n] # library[n] =>
              /\ library'[n] = NoFile
              /\ \/ \E j \in Jobs : staged'[j] = library[n]
                 \/ \E m \in Names : library'[m] = library[n]
                 \/ library[n].content = Foreign /\ \E h \in fin : ~h.staged]_vars

\* Claim of the events specification: what is finalized before a completion is
\* recorded is the output that the worker of this completion has uploaded.
UploadFinalized ==
    [][\A h \in fin :
          LET j == h.msg.job
          IN  status[j] # "completed" /\ status'[j] = "completed" =>
                  /\ library[target[j]] # NoFile
                  /\ library[target[j]].content = h.msg.content]_vars

\* Claim of the transfer specification: the complete and unaltered upload of the
\* worker the job is assigned to is answered with 201.
ValidAccepted ==
    [][\A u \in uploads : UploadRefused(u) => ~Holds(u.by)]_vars

=============================================================================
