----------------------------- MODULE Downloads ------------------------------
(***************************************************************************)
(* How workers get a source from the server.  A handler streams the file   *)
(* and hashes what it read; when it closes the stream it hands the         *)
(* checksum to the routine of the scheduler, which keeps it for the path.  *)
(* The worker asks for that checksum when it has all of the file, and      *)
(* starts over when it differs.  Streams that were cut close late, the     *)
(* source is replaced, the job is given to another worker, and the server  *)
(* ends and starts again to update itself (module SelfUpdate).             *)
(***************************************************************************)
EXTENDS SelfUpdate

CONSTANTS
    Workers,
    Nobody,
    Streams,        \* 1..n: so many handlers of downloads at a time
    Chunks,         \* a source is read in so many pieces
    MaxVersion,     \* the source is replaced until that version
    MaxAttempts,    \* retry.Attempts of the download
    Disturbances,   \* what may go wrong
    MaxFaults       \* how often it does

AllDisturbances ==
    {"cut", "reassign", "replace", "remove", "race", "crash", "slow", "releases", "asset"}

ASSUME DownloadsAssumption ==
    /\ Workers # {} /\ Nobody \notin Workers /\ Streams \subseteq Nat
    /\ Chunks \in Nat \ {0} /\ MaxVersion \in Nat \ {0} /\ MaxAttempts \in Nat \ {0}
    /\ Disturbances \subseteq AllDisturbances /\ MaxFaults \in Nat

VARIABLES
    source,         \* the version that is in the library, or 0
    assigned,       \* whose job it is
    checksum,       \* pathChecksumMap, of this path
    routine,        \* what scheduleRoutine does, and what was handed to it
    streams,        \* the handlers
    workers,        \* the download step of every worker
    faults          \* how much went wrong

serverVars == <<checksum, routine, streams>>
vars == <<updateVars, source, assigned, serverVars, workers, faults>>

\* What is read of a file, or its checksum: the file, and how much of it.
Part    == [version : 0..MaxVersion, chunks : 0..Chunks]
Nothing == [version |-> 0, chunks |-> 0]
All(part) == part.chunks = Chunks

Free == [at |-> "free", to |-> Nobody, read |-> Nothing]
Off  == [at |-> "off", file |-> Nothing, attempts |-> 0]

TypeOK ==
    /\ UpdateTypeOK
    /\ source \in 0..MaxVersion /\ assigned \in Workers
    /\ checksum \in Part
    /\ routine \in [at : {"select", "store", "maintenance"}, handed : Part]
    /\ streams \in [Streams -> [at : {"free", "reading", "closing"}, to : Workers \union {Nobody}, read : Part]]
    /\ workers \in [Workers -> [at : {"off", "ask", "receive", "compare", "done", "failed"},
                                file : Part, attempts : 0..MaxAttempts]]
    /\ faults \in 0..MaxFaults

Init ==
    /\ UpdateInit
    /\ source = 1 /\ assigned = CHOOSE w \in Workers : TRUE
    /\ checksum = Nothing /\ routine = [at |-> "select", handed |-> Nothing]
    /\ streams = [s \in Streams |-> Free]
    /\ workers = [w \in Workers |-> Off]
    /\ faults = 0

Fault(kind) ==
    /\ kind \in Disturbances
    /\ faults < MaxFaults /\ faults' = faults + 1

StreamsIn(at) == {s \in Streams : streams[s].at = at}
Requests      == Streams \ StreamsIn("free")

-----------------------------------------------------------------------------
(* The worker *)

\* A job was given to the worker.
Begins(w) ==
    /\ assigned = w /\ workers[w].at = "off"
    /\ workers' = [workers EXCEPT ![w].at = "ask"]
    /\ UNCHANGED <<updateVars, source, assigned, serverVars, faults>>

\* A wrong variant of the next definition: the attempts do not end.
FaultyAgain(w) == [workers EXCEPT ![w] = [at |-> "ask", file |-> Nothing, attempts |-> @.attempts + 1]]

\* A wrong variant: there is no other attempt.
FaultyRetry(w) == [workers EXCEPT ![w].at = "failed"]

\* An attempt failed, and after so many the step does.
Again(w) ==
    [workers EXCEPT ![w] = [at |-> IF @.attempts + 1 < MaxAttempts THEN "ask" ELSE "failed",
                            file |-> Nothing, attempts |-> @.attempts + 1]]

\* What the worker's streams have read is stored.
Settled(w) == routine.at # "store" /\ \A s \in Streams : streams[s].to # w

\* GetDownloadJobWriter opens the file of the worker's job.  Five seconds have passed since
\* the attempt before: its checksum is stored, unless the routine is slow.
Opens(w) ==
    /\ Serving /\ workers[w].at = "ask" /\ assigned = w /\ source # 0
    /\ IF Settled(w) THEN UNCHANGED faults ELSE Fault("slow")
    /\ \E s \in StreamsIn("free") :
          /\ \A t \in StreamsIn("free") : s <= t
          /\ streams' = [streams EXCEPT ![s] = [at |-> "reading", to |-> w,
                                                read |-> [version |-> source, chunks |-> 0]]]
    /\ workers' = [workers EXCEPT ![w].at = "receive", ![w].file = [version |-> source, chunks |-> 0]]
    /\ UNCHANGED <<updateVars, source, assigned, checksum, routine>>

\* It is not the worker's job any more, which is tried again, or there is no such file.
Refuses(w) ==
    /\ Serving /\ workers[w].at = "ask"
    /\ \/ assigned # w /\ workers' = Again(w)
       \/ assigned = w /\ source = 0 /\ workers' = [workers EXCEPT ![w].at = "failed"]
    /\ UNCHANGED <<updateVars, source, assigned, serverVars, faults>>

\* A wrong variant of the next definition: how much was received does not matter.
FaultyWhole(w) == TRUE

\* io.Copy had no error, and the size is that of the header.
Whole(w) == All(workers[w].file)

\* The response has ended, with the file or because the connection did.
Received(w) ==
    /\ workers[w].at = "receive"
    /\ All(workers[w].file) \/ \A s \in Streams : streams[s].to # w
    /\ workers' = IF Whole(w) THEN [workers EXCEPT ![w].at = "compare"] ELSE Again(w)
    /\ UNCHANGED <<updateVars, source, assigned, serverVars, faults>>

\* getChecksum had an answer.
Compares(w) ==
    /\ Serving /\ workers[w].at = "compare" /\ checksum # Nothing
    /\ workers' = IF workers[w].file = checksum THEN [workers EXCEPT ![w].at = "done"] ELSE Again(w)
    /\ UNCHANGED <<updateVars, source, assigned, serverVars, faults>>

\* The ten attempts at the checksum are over.  They last longer than the routine needs for
\* what was handed to it, unless it is slow.
GivesUp(w) ==
    /\ workers[w].at = "compare" /\ checksum = Nothing
    /\ IF Settled(w) THEN UNCHANGED faults ELSE Fault("slow")
    /\ workers' = Again(w)
    /\ UNCHANGED <<updateVars, source, assigned, serverVars>>

-----------------------------------------------------------------------------
(* The server *)

\* A piece is hashed and written; when nobody receives it any more, only hashed.
Reads(s) ==
    /\ streams[s].at = "reading" /\ ~All(streams[s].read)
    /\ streams' = [streams EXCEPT ![s].read.chunks = @ + 1]
    /\ workers' = [w \in Workers |-> IF streams[s].to = w
                                     THEN [workers[w] EXCEPT !.file.chunks = @ + 1] ELSE workers[w]]
    /\ UNCHANGED <<updateVars, source, assigned, checksum, routine, faults>>

\* Without a hasher there is nothing to hand over.
Closed(stream) == IF stream.read.chunks = 0 THEN Free ELSE [stream EXCEPT !.at = "closing"]

\* The end of the file, or of the connection, is met.
Closes(s) ==
    /\ streams[s].at = "reading" /\ (All(streams[s].read) \/ streams[s].to = Nobody)
    /\ streams' = [streams EXCEPT ![s] = Closed(@)]
    /\ UNCHANGED <<updateVars, source, assigned, checksum, routine, workers, faults>>

\* The channel has no buffer.
Hands(s) ==
    /\ streams[s].at = "closing" /\ routine.at = "select"
    /\ routine' = [at |-> "store", handed |-> streams[s].read]
    /\ streams' = [streams EXCEPT ![s] = Free]
    /\ UNCHANGED <<updateVars, source, assigned, checksum, workers, faults>>

Stores ==
    /\ routine.at = "store"
    /\ checksum' = routine.handed
    /\ routine' = [at |-> "select", handed |-> Nothing]
    /\ UNCHANGED <<updateVars, source, assigned, streams, workers, faults>>

\* jobMaintenance and progressJobMaintenance.  That a stream which waits is taken before is
\* no restriction: whoever closes later, while this lasts, waits until it has ended.
MaintenanceStarts ==
    /\ routine.at = "select" /\ StreamsIn("closing") = {}
    /\ routine' = [routine EXCEPT !.at = "maintenance"]
    /\ UNCHANGED <<updateVars, source, assigned, checksum, streams, workers, faults>>

MaintenanceEnds ==
    /\ routine.at = "maintenance"
    /\ routine' = [routine EXCEPT !.at = "select"]
    /\ UNCHANGED <<updateVars, source, assigned, checksum, streams, workers, faults>>

\* What a process of the server loses.
Lost ==
    /\ checksum' = Nothing /\ routine' = [at |-> "select", handed |-> Nothing]
    /\ streams' = [s \in Streams |-> Free]

\* The map is not locked: that it is read while the routine writes to it may end the server.
Crashes ==
    /\ \/ Fault("crash")
       \/ routine.at = "store" /\ (\E w \in Workers : workers[w].at = "compare") /\ Fault("race")
    /\ Dies /\ Lost
    /\ UNCHANGED <<source, assigned, workers>>

\* os.Exit does not wait for requests that came in during the check.
ServerExits ==
    /\ Exits /\ Lost
    /\ UNCHANGED <<source, assigned, workers, faults>>

\* The other steps of the update.
Update ==
    /\ \/ \E answered \in BOOLEAN :
            /\ IF answered THEN UNCHANGED faults ELSE Fault("releases")
            /\ SupervisorChecks(answered) \/ Stays(answered)
       \/ UpdateFails /\ Fault("asset")
       \/ (Updates \/ Starts \/ Looks(Requests) \/ Boots) /\ UNCHANGED faults
    /\ UNCHANGED <<source, assigned, serverVars, workers>>

Release ==
    /\ Publish
    /\ UNCHANGED <<source, assigned, serverVars, workers, faults>>

-----------------------------------------------------------------------------
(* What happens to them *)

Cut(w) ==
    /\ Fault("cut")
    /\ \E s \in Streams :
          /\ streams[s].to = w
          /\ streams' = [streams EXCEPT ![s].to = Nobody]
    /\ UNCHANGED <<updateVars, source, assigned, checksum, routine, workers>>

\* To a worker that did not have it yet.
Reassign(w) ==
    /\ assigned # w /\ workers[w].at = "off" /\ Fault("reassign")
    /\ assigned' = w
    /\ UNCHANGED <<updateVars, source, serverVars, workers>>

\* What is open stays open.
Replace ==
    /\ \/ source # 0 /\ source < MaxVersion /\ Fault("replace") /\ source' = source + 1
       \/ source # 0 /\ Fault("remove") /\ source' = 0
    /\ UNCHANGED <<updateVars, assigned, serverVars, workers>>

Disturbance == Crashes \/ Replace \/ \E w \in Workers : Cut(w) \/ Reassign(w)

WorkerStep(w) == Begins(w) \/ Opens(w) \/ Refuses(w) \/ Received(w) \/ Compares(w) \/ GivesUp(w)
Handlers    == \E s \in Streams : Reads(s) \/ Closes(s)
Routine     == Stores \/ MaintenanceEnds \/ \E s \in Streams : Hands(s)

Next ==
    \/ \E w \in Workers : WorkerStep(w)
    \/ Handlers \/ Routine \/ MaintenanceStarts
    \/ Update \/ ServerExits \/ Release
    \/ Disturbance

\* Workers, handlers, the routine and the updater go on.
Fairness ==
    /\ \A w \in Workers : WF_vars(WorkerStep(w))
    /\ WF_vars(Handlers) /\ WF_vars(Routine)
    /\ WF_vars(Update \/ ServerExits)

Spec == Init /\ [][Next]_vars /\ Fairness

-----------------------------------------------------------------------------
(* Properties *)

\* downloadStep.go:115-132: a source that a worker goes on with is whole, although the
\* checksum of a part that a cut stream has read is kept for it as well.
Intact == \A w \in Workers : workers[w].at = "done" => All(workers[w].file)

\* downloadStep.go:64-148, streams.go:121-134: whoever keeps the job gets the source, although
\* checksums of other streams are compared with, and the server forgets all of them.
Downloaded ==
    \A w \in Workers :
        workers[w].at = "ask" ~> \/ workers[w].at = "done"
                                 \/ workers[w].at = "failed" /\ (assigned # w \/ source = 0)
                                 \/ assigned # w \/ source = 0

\* update.go:104-164, web.go:505-527: the server runs the latest release in the end, however
\* often it has requests, the releases or the asset cannot be had, or it dies.
UpToDate == <>[](application.version = latest /\ Serving)
=============================================================================
