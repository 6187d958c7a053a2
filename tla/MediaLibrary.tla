---------------------------- MODULE MediaLibrary ----------------------------
(***************************************************************************)
(* The media library of the server: scans that preview what may be         *)
(* encoded, batches that queue what was reviewed, and the metadata cache   *)
(* they share with the dashboard.  Files change, jobs proceed and other    *)
(* requests queue files meanwhile, so everything is looked at again.       *)
(***************************************************************************)
EXTENDS Naturals, Sequences, FiniteSets

CONSTANTS
    Files,          \* paths in the source library
    Target,         \* the path that the job of a file encodes to
    NoFile,         \* which may be none of these
    MaxVersion,     \* a file is seen in so many versions
    Small,          \* versions below the minimum size of the server
    Wanted,         \* versions whose metadata pass the filters
    Operations,     \* 1..n: scans and batches in the order they begin
    Running,        \* how many of them may run
    Kept,           \* how many of them the library remembers
    Probes,         \* how many files are probed at a time
    MaxCandidates,  \* how many files a scan probes
    Retries,        \* which jobs a scan may ask to try again: failed, canceled
    Disturbances,   \* what may happen meanwhile
    MaxFaults       \* how often it does

AllDisturbances ==
    {"change", "remove", "intake", "info", "cancel", "timeout", "expiry", "database", "restart"}

ASSUME LibraryAssumption ==
    /\ IsFiniteSet(Files) /\ Operations \subseteq Nat \ {0}
    /\ NoFile \notin Files /\ Target \in [Files -> Files \union {NoFile}]
    /\ MaxVersion \in Nat \ {0} /\ Small \subseteq 1..MaxVersion /\ Wanted \subseteq 1..MaxVersion
    /\ Running \in Nat \ {0} /\ Kept \in Nat \ {0} /\ Probes \in Nat \ {0}
    /\ MaxCandidates \in Nat \ {0} /\ MaxFaults \in Nat
    /\ Retries \subseteq SUBSET {"failed", "canceled"}
    /\ Disturbances \subseteq AllDisturbances

VARIABLES
    disk,           \* the version of each file: its size, its time and what is in it
    cache,          \* media_metadata_cache: the version a row is for, and the one it describes
    jobs,           \* the job of each file, with the version it was queued for
    operations,     \* what the library knows of its operations
    finished,       \* those that do not run any more, the oldest first
    probes,         \* the files that are being analysed
    faults          \* how much happened

vars == <<disk, cache, jobs, operations, finished, probes, faults>>

JobStates == {"none", "queued", "active", "completed", "failed", "canceled"}
Versions  == 0..MaxVersion

\* A file in the list of a scan.  What was seen of it, and what its metadata describe.
Entry == [file : Files, seen : Versions, eligible : BOOLEAN, probe : Versions]

OperationData ==
    [kind : {"scan", "queue"},
     state : {"new", "running", "completed", "failed", "canceled", "forgotten"},
     at : {"walk", "annotate", "probe", "next", "recheck", "submit"},
     canceled : BOOLEAN,                    \* its context
     retry : SUBSET {"failed", "canceled"},
     todo : SUBSET Entry, files : SUBSET Entry,
     now : SUBSET Entry,                    \* the file that is submitted
     target : 0..Cardinality(Files), queued : SUBSET Files]

New == [kind |-> "scan", state |-> "new", at |-> "walk", canceled |-> FALSE, retry |-> {},
        todo |-> {}, files |-> {}, now |-> {}, target |-> 0, queued |-> {}]

Forgotten == [New EXCEPT !.state = "forgotten"]

\* An analysis: for whom (0 is a request of the dashboard), which file it opened, the
\* version that was found, the one the open file has now, and what ffprobe saw of it.
Probe == [of : Operations \union {0}, entry : Entry, key : Versions, open : Versions,
          saw : Versions, at : {"waiting", "probed"}]

InState(states) == {o \in Operations : operations[o].state \in states}

TypeOK ==
    /\ disk \in [Files -> [there : BOOLEAN, v : Versions]]
    /\ cache \in [Files -> [key : Versions, probe : Versions]]
    /\ jobs \in [Files -> [state : JobStates, size : Versions, probe : Versions]]
    /\ operations \in [Operations -> OperationData]
    /\ finished \in Seq(InState({"completed", "failed", "canceled"}))
    /\ probes \subseteq Probe
    /\ faults \in 0..MaxFaults

Init ==
    /\ disk = [f \in Files |-> IF \E g \in Files : Target[g] = f
                             THEN [there |-> FALSE, v |-> 0] ELSE [there |-> TRUE, v |-> 1]]
    /\ cache = [f \in Files |-> [key |-> 0, probe |-> 0]]
    /\ jobs = [f \in Files |-> [state |-> "none", size |-> 0, probe |-> 0]]
    /\ operations = [o \in Operations |-> New]
    /\ finished = <<>> /\ probes = {}
    /\ faults = 0

Fault(kind) ==
    /\ kind \in Disturbances
    /\ faults < MaxFaults /\ faults' = faults + 1

Known           == InState({"running", "completed", "failed", "canceled"})
Runs(o, at)     == operations[o].state = "running" /\ operations[o].at = at
ProbesOf(o)     == {p \in probes : p.of = o}

IsOutput(f) == \E g \in Files : Target[g] = f /\ jobs[g].state = "completed"

\* annotate: may a file of that version be queued?
Eligible(f, seen, retry) ==
    /\ seen \notin Small
    /\ \/ jobs[f].state = "none" /\ ~IsOutput(f)
       \/ jobs[f].state \in retry

\* A wrong variant of the next definition: what was reviewed is not compared.
FaultyUnchanged(e) == disk[e.file].there

\* The file is still the one that was reviewed.
Unchanged(e) == disk[e.file] = [there |-> TRUE, v |-> e.seen]

-----------------------------------------------------------------------------
(* Operations and their end *)

Room == Cardinality(InState({"running"})) < Running

\* The operation that has ended first makes place for another.
Replaceable == IF finished = <<>> THEN {} ELSE {Head(finished)}

\* newOperation
Registers(o, new) ==
    /\ operations[o].state = "new" /\ \A p \in Operations : p < o => operations[p].state # "new"
    /\ Room
    /\ \/ /\ Cardinality(Known) < Kept
          /\ operations' = [operations EXCEPT ![o] = new] /\ UNCHANGED finished
       \/ /\ Cardinality(Known) >= Kept
          /\ \E old \in Replaceable :
                /\ operations' = [operations EXCEPT ![o] = new, ![old] = Forgotten]
                /\ finished' = Tail(finished)

\* finish, and what is not needed any more is left out.
Ended(op, state) ==
    IF op.kind = "scan" /\ state = "completed"
    THEN [New EXCEPT !.state = state, !.retry = op.retry, !.files = op.files]
    ELSE [New EXCEPT !.state = state, !.kind = op.kind]

\* A wrong variant of the next definition: the state is not set.
FaultyEnds(o, state) ==
    /\ operations' = [operations EXCEPT ![o].todo = {}, ![o].now = {}]
    /\ finished' = Append(finished, o)

Ends(o, state) ==
    /\ operations' = [operations EXCEPT ![o] = Ended(@, state)]
    /\ finished' = Append(finished, o)

Cancel(o) ==
    /\ o \in InState({"running"}) /\ ~operations[o].canceled
    /\ Fault("cancel")
    /\ operations' = [operations EXCEPT ![o].canceled = TRUE]
    /\ UNCHANGED <<disk, cache, jobs, finished, probes>>

\* A result is there for 30 minutes.
Expires ==
    /\ finished # <<>> /\ Fault("expiry")
    /\ operations' = [operations EXCEPT ![Head(finished)] = Forgotten]
    /\ finished' = Tail(finished)
    /\ UNCHANGED <<disk, cache, jobs, probes>>

\* Jobs and metadata are kept, operations are not.
Restarts ==
    /\ Fault("restart")
    /\ operations' = [o \in Operations |->
                        IF operations[o].state = "new" THEN New ELSE Forgotten]
    /\ finished' = <<>> /\ probes' = {}
    /\ UNCHANGED <<disk, cache, jobs>>

-----------------------------------------------------------------------------
(* Scans *)

StartScan(o, retry) ==
    /\ Registers(o, [New EXCEPT !.state = "running", !.retry = retry])
    /\ UNCHANGED <<disk, cache, jobs, probes, faults>>

\* The library is walked through, and what is found is looked up later.
Walk(o) ==
    /\ Runs(o, "walk") /\ operations[o].kind = "scan" /\ ~operations[o].canceled
    /\ operations' = [operations EXCEPT
          ![o].at = "annotate",
          ![o].todo = {[file |-> f, seen |-> disk[f].v, eligible |-> FALSE, probe |-> 0] :
                          f \in {g \in Files : disk[g].there}}]
    /\ UNCHANGED <<disk, cache, jobs, finished, probes, faults>>

\* The states of the jobs are read before what is probed is limited.
Annotate(o, onlyEligible, candidates) ==
    /\ Runs(o, "annotate") /\ ~operations[o].canceled
    /\ LET all  == {[e EXCEPT !.eligible = Eligible(e.file, e.seen, operations[o].retry)] :
                       e \in operations[o].todo}
           open == IF onlyEligible THEN {e \in all : e.eligible} ELSE all
       IN  /\ candidates \subseteq Files
           /\ candidates \subseteq {e.file : e \in open}
           /\ Cardinality(candidates) = IF Cardinality(open) > MaxCandidates
                                        THEN MaxCandidates ELSE Cardinality(open)
           /\ operations' = [operations EXCEPT ![o].at = "probe",
                                               ![o].todo = {e \in open : e.file \in candidates}]
    /\ UNCHANGED <<disk, cache, jobs, finished, probes, faults>>

\* metadataMatch: the filters of the scan.
Matches(probe) == probe \in Wanted

\* What a scan makes of the analysis of a file: it changed, does not match, or is shown.
Examined(op, e, key, probe) ==
    [op EXCEPT !.files = IF key = e.seen /\ Matches(probe)
                         THEN @ \union {[e EXCEPT !.probe = probe]} ELSE @]

Analysis(o, e) ==
    [of |-> o, entry |-> e, key |-> disk[e.file].v, open |-> disk[e.file].v, saw |-> 0, at |-> "waiting"]

\* info, for a scan: the file is opened and its version looked up, by two at a time.
Looks(o, e) ==
    /\ Runs(o, "probe") /\ ~operations[o].canceled
    /\ e \in operations[o].todo /\ Cardinality(ProbesOf(o)) < 2
    /\ LET op  == [operations[o] EXCEPT !.todo = @ \ {e}]
           v   == disk[e.file].v
           hit == disk[e.file].there /\ cache[e.file].key = v
       IN  /\ operations' = [operations EXCEPT
                 ![o] = IF hit THEN Examined(op, e, v, cache[e.file].probe) ELSE op]
           /\ probes' = IF disk[e.file].there /\ ~hit THEN probes \union {Analysis(o, e)} ELSE probes
    /\ UNCHANGED <<disk, cache, jobs, finished, faults>>

\* A request of the dashboard about a file that is not in the cache.
Asks(f) ==
    /\ Fault("info")
    /\ disk[f].there /\ cache[f].key # disk[f].v /\ ProbesOf(0) = {}
    /\ probes' = probes \union
          {Analysis(0, [file |-> f, seen |-> disk[f].v, eligible |-> FALSE, probe |-> 0])}
    /\ UNCHANGED <<disk, cache, jobs, operations, finished>>

\* One of the slots is free, and ffprobe reads the file as it is now.
Analyses(p) ==
    /\ p.at = "waiting" /\ Cardinality({q \in probes : q.at = "probed"}) < Probes
    /\ probes' = (probes \ {p}) \union {[p EXCEPT !.at = "probed", !.saw = p.open]}
    /\ UNCHANGED <<disk, cache, jobs, operations, finished, faults>>

\* A wrong variant of the next definition: a file that was modified is not noticed.
FaultySame(p) == TRUE

Same(p) == p.open = p.key

\* A file modified during probing must not publish stale metadata.
Stores(p) ==
    /\ p.at = "probed" /\ Same(p)
    /\ cache' = [cache EXCEPT ![p.entry.file] = [key |-> p.key, probe |-> p.saw]]
    /\ operations' = IF p.of = 0 THEN operations
                     ELSE [operations EXCEPT ![p.of] = Examined(@, p.entry, p.key, p.saw)]
    /\ probes' = probes \ {p}
    /\ UNCHANGED <<disk, jobs, finished, faults>>

\* The file changed, the operation is canceled, or the time is over.
Fails(p) ==
    /\ \/ p.at = "probed" /\ ~Same(p) /\ UNCHANGED faults
       \/ p.of # 0 /\ operations[p.of].canceled /\ UNCHANGED faults
       \/ Fault("timeout")
    /\ probes' = probes \ {p}
    /\ UNCHANGED <<disk, cache, jobs, operations, finished>>

ScanEnds(o) ==
    /\ operations[o].state = "running" /\ operations[o].kind = "scan" /\ ProbesOf(o) = {}
    /\ \/ /\ operations[o].canceled \/ (operations[o].at = "probe" /\ operations[o].todo = {})
          /\ Ends(o, IF operations[o].canceled THEN "canceled" ELSE "completed")
          /\ UNCHANGED faults
       \/ operations[o].at = "annotate" /\ Fault("database") /\ Ends(o, "failed")
    /\ UNCHANGED <<disk, cache, jobs, probes>>

-----------------------------------------------------------------------------
(* Batches *)

\* What was selected belongs to a scan that is known, and was eligible then.
StartBatch(o, scan, selection, target) ==
    /\ scan \in InState({"completed"}) /\ operations[scan].kind = "scan"
    /\ selection # {} /\ selection \subseteq {e \in operations[scan].files : e.eligible}
    /\ target \in 1..Cardinality(Files)
    /\ Registers(o, [New EXCEPT !.kind = "queue", !.state = "running", !.at = "next",
                                !.retry = operations[scan].retry, !.todo = selection, !.target = target])
    /\ UNCHANGED <<disk, cache, jobs, probes, faults>>

Submits(o) == operations[o].state = "running" /\ operations[o].kind = "queue"

\* A wrong variant of the next definition: what was queued does not count.
FaultyLeft(op) == op.todo # {}

\* There is a file, and room for it in the target.
Left(op) == op.todo # {} /\ Cardinality(op.queued) < op.target

\* The file is opened, and compared.
Compares(o, e) ==
    /\ Runs(o, "next") /\ Left(operations[o]) /\ ~operations[o].canceled
    /\ e \in operations[o].todo
    /\ operations' = IF Unchanged(e)
                     THEN [operations EXCEPT ![o].at = "recheck", ![o].now = {e}, ![o].todo = @ \ {e}]
                     ELSE [operations EXCEPT ![o].todo = @ \ {e}]
    /\ UNCHANGED <<disk, cache, jobs, finished, probes, faults>>

\* Its job is looked up again.
Rechecks(o, e) ==
    /\ Runs(o, "recheck") /\ operations[o].now = {e}
    /\ \/ /\ ~operations[o].canceled
          /\ operations' = IF Eligible(e.file, e.seen, operations[o].retry)
                           THEN [operations EXCEPT ![o].at = "submit"]
                           ELSE [operations EXCEPT ![o].at = "next", ![o].now = {}]
          /\ UNCHANGED <<finished, faults>>
       \/ /\ operations[o].canceled /\ Ends(o, "canceled") /\ UNCHANGED faults
       \/ /\ Fault("database") /\ Ends(o, "failed")
    /\ UNCHANGED <<disk, cache, jobs, probes>>

\* scheduleJobRequestLocked accepts a new job, or one that may be tried again.
Accepted(f, retry) == jobs[f].state \in {"none"} \union retry

\* QueueMediaFile looks at everything once more, under the lock of the intake, and a
\* job that another request made meanwhile is left alone.
Submit(o, e) ==
    /\ Runs(o, "submit") /\ operations[o].now = {e}
    /\ LET ready == Unchanged(e) /\ e.seen \notin Small /\ Accepted(e.file, operations[o].retry)
           next  == [operations[o] EXCEPT !.at = "next", !.now = {}]
       IN  \/ /\ operations[o].canceled
              /\ Ends(o, "canceled") /\ UNCHANGED <<jobs, faults>>
           \/ /\ ~operations[o].canceled /\ ready
              /\ jobs' = [jobs EXCEPT ![e.file] = [state |-> "queued", size |-> e.seen, probe |-> e.probe]]
              /\ operations' = [operations EXCEPT ![o] = [next EXCEPT !.queued = @ \union {e.file}]]
              /\ UNCHANGED <<finished, faults>>
           \/ /\ ~operations[o].canceled
              /\ ready => Fault("database")
              /\ ~ready => UNCHANGED faults
              /\ operations' = [operations EXCEPT ![o] = next]
              /\ UNCHANGED <<jobs, finished>>
    /\ UNCHANGED <<disk, cache, probes>>

\* A wrong variant of the next definition: a file that is left keeps a batch from ending.
FaultyStopped(op) == ~Left(op)

\* load returns at the next file when it is canceled.
Stopped(op) == ~Left(op) \/ op.canceled

BatchEnds(o) ==
    /\ Runs(o, "next") /\ Submits(o) /\ Stopped(operations[o])
    /\ Ends(o, IF operations[o].canceled /\ operations[o].todo # {} THEN "canceled" ELSE "completed")
    /\ UNCHANGED <<disk, cache, jobs, probes, faults>>

-----------------------------------------------------------------------------
(* Files, jobs and other requests *)

\* A file is written in place, and whoever has it open sees that, or replaced.
Changes(f, inPlace) ==
    /\ Fault("change")
    /\ disk[f].v < MaxVersion
    /\ inPlace => disk[f].there
    /\ disk' = [disk EXCEPT ![f] = [there |-> TRUE, v |-> @.v + 1]]
    /\ probes' = {IF inPlace /\ p.entry.file = f /\ p.open = disk[f].v
                  THEN [p EXCEPT !.open = @ + 1] ELSE p : p \in probes}
    /\ UNCHANGED <<cache, jobs, operations, finished>>

Vanishes(f) ==
    /\ disk[f].there /\ Fault("remove")
    /\ disk' = [disk EXCEPT ![f].there = FALSE]
    /\ UNCHANGED <<cache, jobs, operations, finished, probes>>

\* Another request queues the file, or tries its job again without looking at it.
Intake(f) ==
    /\ Fault("intake") /\ disk[f].there
    /\ jobs' = [jobs EXCEPT ![f] = IF @.state = "none"
                                   THEN [state |-> "queued", size |-> disk[f].v, probe |-> disk[f].v]
                                   ELSE [@ EXCEPT !.state = "queued"]]
    /\ jobs[f].state \in {"none", "failed", "canceled", "completed"}
    /\ UNCHANGED <<disk, cache, operations, finished, probes>>

\* What a worker made is published before its job is completed.
Publishes(f) ==
    /\ jobs[f].state = "active" /\ Target[f] # NoFile
    /\ ~disk[Target[f]].there /\ disk[Target[f]].v < MaxVersion
    /\ disk' = [disk EXCEPT ![Target[f]] = [there |-> TRUE, v |-> @.v + 1]]
    /\ UNCHANGED <<cache, jobs, operations, finished, probes, faults>>

Proceeds(f, state) ==
    /\ \/ jobs[f].state = "queued" /\ state \in {"active", "canceled"}
       \/ jobs[f].state = "active" /\ state \in {"failed", "canceled"}
       \/ /\ jobs[f].state = "active" /\ state = "completed"
          /\ Target[f] # NoFile => disk[Target[f]].there
    /\ jobs' = [jobs EXCEPT ![f].state = state]
    /\ UNCHANGED <<disk, cache, operations, finished, probes, faults>>

-----------------------------------------------------------------------------

ScanStep(o) ==
    \/ Walk(o) \/ ScanEnds(o)
    \/ \E only \in BOOLEAN, candidates \in SUBSET Files : Annotate(o, only, candidates)
    \/ \E e \in operations[o].todo : Looks(o, e)

BatchStep(o) ==
    \/ BatchEnds(o)
    \/ \E e \in operations[o].todo : Compares(o, e)
    \/ \E e \in operations[o].now : Rechecks(o, e) \/ Submit(o, e)

ProbeStep(p) == Analyses(p) \/ Stores(p) \/ Fails(p)

Request(o) ==
    \/ \E retry \in Retries : StartScan(o, retry)
    \/ \E scan \in Operations, target \in 1..Cardinality(Files) :
          \E selection \in SUBSET operations[scan].files : StartBatch(o, scan, selection, target)
    \/ Cancel(o)

Environment ==
    \/ Expires \/ Restarts
    \/ \E f \in Files :
        \/ Asks(f) \/ Vanishes(f) \/ Intake(f) \/ Publishes(f)
        \/ \E inPlace \in BOOLEAN : Changes(f, inPlace)
        \/ \E state \in JobStates : Proceeds(f, state)

Next ==
    \/ \E o \in Operations : Request(o) \/ ScanStep(o) \/ BatchStep(o)
    \/ \E p \in probes : ProbeStep(p)
    \/ Environment

\* As long as a goroutine of an operation, or an analysis, can go on, one of them does.
Progress ==
    \/ \E o \in Operations : ScanStep(o) \/ BatchStep(o)
    \/ \E p \in probes : ProbeStep(p)

Fairness == WF_vars(Progress)

Spec == Init /\ [][Next]_vars /\ Fairness

-----------------------------------------------------------------------------
(* Properties *)

\* probe.go:93-100: what the cache says of a version of a file describes that version,
\* although the file is replaced or written to while ffprobe reads it.
CacheTrue == \A f \in Files : cache[f].probe = cache[f].key

\* scheduler/media.go:26-66: a batch queues the version of a file that was reviewed, with the
\* metadata of that version, and no file whose job is queued, active or completed.
QueuedAsReviewed ==
    [][\A o \in Operations : \A f \in operations'[o].queued \ operations[o].queued :
        LET v == disk[f].v
        IN  /\ disk[f].there /\ v \notin Small /\ v \in Wanted
            /\ jobs'[f] = [state |-> "queued", size |-> v, probe |-> v]
            /\ jobs[f].state \notin {"queued", "active", "completed"}]_vars

\* operations.go:385-452: a batch never queues more than its target, however many of its
\* files turn out to be taken or changed, and nothing after it has ended.
TargetKept ==
    [][\A o \in Operations : operations'[o].queued \ operations[o].queued # {} =>
        /\ operations[o].state = "running" /\ ~operations[o].canceled
        /\ Cardinality(operations'[o].queued) <= operations'[o].target]_vars

\* operations.go:287-338, probe.go:66-92: the operations that run end, canceled or not, and
\* whatever happens to their files.
OperationsEnd == []<>(InState({"running"}) = {} /\ probes = {})
=============================================================================
