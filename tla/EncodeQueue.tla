----------------------------- MODULE EncodeQueue ----------------------------
(***************************************************************************)
(* The jobs of one worker and the encoders they share: the coordinator's   *)
(* loop that reserves a slot and asks for a job, the goroutine that gives  *)
(* encode slots to waiting jobs (runEncoderQueue), the encodes themselves  *)
(* with their processes, and the commands that change limits and holds at  *)
(* any moment.  The phases before and after the encode are one step each.  *)
(***************************************************************************)
EXTENDS Capacity, Sequences, FiniteSets, SequencesExt

CONSTANTS
    Jobs,
    QueueLimit,     \* the jobs a phase's channel takes: 20 in the code
    Limits,         \* the single limits somebody sets
    Pairs,          \* the CPU and GPU limits somebody sets
    Commands,       \* the other commands somebody gives
    Failures,       \* what may fail
    MaxCommands,    \* the commands given in a behaviour
    MaxRestarts     \* and the restarts

AllCommands == {"admission", "mode", "ram", "job", "finish", "drain", "hold", "update"}
AllFailures == {"process", "rollback", "worker"}

ASSUME QueueAssumption ==
    /\ IsFiniteSet(Jobs) /\ Jobs \intersect {"idle", "reserved", "checked", "draining"} = {}
    /\ QueueLimit \in Nat
    /\ Limits \subseteq Numbers
    /\ Pairs \subseteq {p \in [Kinds -> Numbers] : Total(p) <= MaxInt}
    /\ Commands \subseteq AllCommands
    /\ Failures \subseteq AllFailures
    /\ MaxCommands \in Nat /\ MaxRestarts \in Nat

VARIABLES
    cap,            \* limits and holds
    reserved,       \* JobExecutor.reservedJobs
    accepted,       \* JobExecutor.activeJobs
    loop,           \* where requestTaskRoutine is
    phase,          \* where each job of the worker is
    kind,           \* the encoder class each job is pinned to
    slot,           \* the class whose slot the goroutine of each job holds
    procs,          \* PauseController.processes, by job
    skewed,         \* the jobs whose process stayed changed when a command failed
    queue,          \* the channel of the encode phase
    pending,        \* the jobs runEncoderQueue has taken from it
    scan,           \* the index it tries next; 0 while it waits
    token,          \* encodeConcurrency.changed holds a wakeup
    given,          \* the commands given
    restarts        \* the restarts

jobs == <<phase, kind, slot>>
slots == <<queue, pending, scan, token>>
bounds == <<given, restarts>>
admission == <<reserved, accepted, loop>>
worker == <<cap, admission, jobs, procs, skewed, slots>>
vars == <<worker, bounds>>

Phases == {"none", "saved", "prepare", "queued", "starting", "gate", "encode", "after"}
Process == [paused : BOOLEAN, individual : BOOLEAN, exited : BOOLEAN]

\* The routines of the worker run once every saved job is in its channel again.
Started == \A j \in Jobs : phase[j] # "saved"

TypeOK ==
    /\ cap \in Capacity
    /\ reserved \in Nat /\ accepted \in Int
    /\ loop \in {"idle", "reserved", "checked", "draining"} \union Jobs
    /\ phase \in [Jobs -> Phases]
    /\ kind \in [Jobs -> Kinds \union {NoKind}]
    /\ slot \in [Jobs -> Kinds \union {NoKind}]
    /\ DOMAIN procs \subseteq Jobs /\ \A j \in DOMAIN procs : procs[j] \in Process
    /\ skewed \subseteq Jobs
    /\ queue \in Seq(Jobs) /\ pending \in Seq(Jobs)
    /\ scan \in 0..(Len(pending) + 1)
    /\ token \in BOOLEAN
    /\ given \in 0..MaxCommands /\ restarts \in 0..MaxRestarts

Init ==
    /\ cap \in {NewCapacity, HoldAdmission(NewCapacity)}
    /\ reserved = 0 /\ accepted = 0 /\ loop = "idle"
    /\ phase = [j \in Jobs |-> "none"]
    /\ kind = [j \in Jobs |-> NoKind]
    /\ slot = [j \in Jobs |-> NoKind]
    /\ procs = [j \in {} |-> Process]
    /\ skewed = {}
    /\ queue = <<>> /\ pending = <<>> /\ scan = 1 /\ token = FALSE
    /\ given = 0 /\ restarts = 0

-----------------------------------------------------------------------------
(* Commands, each under admissionMu, and the processes they suspend *)

\* The processes that transitionLocked has to signal.
Changing(wanted) == {j \in DOMAIN procs : procs[j].paused # wanted[j]}

Signalled(set, wanted) ==
    [j \in DOMAIN procs |-> IF j \in set THEN [procs[j] EXCEPT !.paused = wanted[j]] ELSE procs[j]]

\* Those that stay changed, of the ones signalled before the failure.
RolledBack(set) == IF "rollback" \in Failures THEN set ELSE {}

\* One process cannot be signalled: those before it are signalled back.
TransitionFails(wanted) ==
    /\ "process" \in Failures
    /\ \E failing \in Changing(wanted) :
        /\ ~procs[failing].exited
        /\ \E stuck \in SUBSET RolledBack(Changing(wanted) \ {failing}) :
            /\ procs' = Signalled(stuck, wanted)
            /\ skewed' = skewed \union stuck
    /\ UNCHANGED <<cap, jobs, slots>>

\* A command takes the processes to its general hold, and the capacity to c.
Apply(c) ==
    LET wanted == [j \in DOMAIN procs |-> c.hold \/ procs[j].individual]
    IN  /\ \/ /\ procs' = Signalled(DOMAIN procs, wanted)
              /\ skewed' = {}
              /\ cap' = c
              /\ token' = TRUE
              /\ UNCHANGED <<jobs, queue, pending, scan>>
           \/ TransitionFails(wanted)
        /\ UNCHANGED admission

Running == [j \in DOMAIN procs |-> FALSE]

\* A wrong variant of the next definition: only the general hold is cleared.
FaultyReleased(c) ==
    /\ procs' = [j \in DOMAIN procs |-> [procs[j] EXCEPT !.paused = procs[j].individual]]
    /\ skewed' = {}
    /\ cap' = c
    /\ token' = TRUE
    /\ UNCHANGED <<jobs, queue, pending, scan>>

\* The commands that drain clear the individual holds too.
Released(c) ==
    /\ procs' = [j \in DOMAIN procs |-> [procs[j] EXCEPT !.paused = FALSE, !.individual = FALSE]]
    /\ skewed' = {}
    /\ cap' = c
    /\ token' = TRUE
    /\ UNCHANGED <<jobs, queue, pending, scan>>

Release(c) == (Released(c) \/ TransitionFails(Running)) /\ UNCHANGED admission

SetMaxActiveJobs(n) == Apply(ApplyLimit(cap, n, cap.mode, cap.ram))

PersistAdmissionLimit(n) == "admission" \in Commands /\ Apply(AdmissionLimit(cap, n))

SetEncoders(pair) == Apply(SetEncoderLimits(cap, pair))

SetMode(mode) ==
    /\ "mode" \in Commands
    /\ Apply(SetPauseMode(cap, mode))

SetRAM(ram) ==
    /\ "ram" \in Commands
    /\ ~Drains(cap)
    /\ Apply(SetRAMPaused(cap, ram))

\* The server's settings were read, and changed nothing.
SettingsResolved ==
    /\ cap.pending
    /\ cap' = MarkWorkerSettingsResolved(cap)
    /\ token' = TRUE
    /\ UNCHANGED <<admission, jobs, procs, skewed, queue, pending, scan>>

Finish == "finish" \in Commands /\ Release(FinishAcceptedJobs(cap))
Drain  == "drain" \in Commands /\ Release(DrainAcceptedJobs(cap))
Hold   == "hold" \in Commands /\ Release(HoldAdmission(cap))

\* One encode is suspended or resumed: under a general hold it stays suspended.
SetJobPaused(j, individual) ==
    /\ "job" \in Commands
    /\ ~Drains(cap)
    /\ j \in DOMAIN procs /\ ~procs[j].exited
    /\ procs' = [procs EXCEPT ![j].paused = cap.hold \/ individual, ![j].individual = individual]
    /\ skewed' = skewed \ {j}
    /\ UNCHANGED <<cap, admission, jobs, slots>>

-----------------------------------------------------------------------------
(* The coordinator's loop *)

\* The schedule of the worker may refuse at any moment: then the loop waits.
Reserve ==
    /\ Started /\ loop = "idle"
    /\ MayAdmit(cap)
    /\ accepted + reserved < MaxAccepted(cap.pool.target)
    /\ reserved' = reserved + 1
    /\ loop' = "reserved"
    /\ UNCHANGED <<cap, accepted, jobs, procs, skewed, slots>>

Unreserved == IF reserved > 0 THEN reserved - 1 ELSE reserved

\* The check for an update fails, the window closed meanwhile, the server has
\* no job or does not answer, the workspace cannot be made.
GivesUp ==
    /\ loop \in {"reserved", "checked"} \union Jobs
    /\ reserved' = Unreserved
    /\ loop' = "idle"
    /\ kind' = [j \in Jobs |-> IF loop = j THEN NoKind ELSE kind[j]]
    /\ UNCHANGED <<cap, accepted, phase, slot, procs, skewed, slots>>

NoUpdate ==
    /\ loop = "reserved"
    /\ loop' = "checked"
    /\ UNCHANGED <<cap, reserved, accepted, jobs, procs, skewed, slots>>

\* An update is required: the loop drains the worker and never asks again.
Updates ==
    /\ "update" \in Commands
    /\ loop = "reserved"
    /\ reserved' = Unreserved
    /\ \/ Released(DrainAcceptedJobs(cap)) /\ loop' = "draining"
       \/ TransitionFails(Running) /\ loop' = "idle"
    /\ UNCHANGED accepted

\* The server gives a job, whose goroutine of an earlier time has ended.
Receives(j) ==
    /\ loop = "checked"
    /\ phase[j] = "none" /\ slot[j] = NoKind
    /\ loop' = j
    /\ kind' = [kind EXCEPT ![j] = AdmissionKind(cap.pool)]
    /\ UNCHANGED <<cap, reserved, accepted, phase, slot, procs, skewed, slots>>

\* ExecuteReservedJob: the job is reported as started, and takes the reservation.
Accepts(j) ==
    /\ loop = j
    /\ reserved' = Unreserved
    /\ accepted' = accepted + 1
    /\ phase' = [phase EXCEPT ![j] = "prepare"]
    /\ loop' = "idle"
    /\ UNCHANGED <<cap, kind, slot, procs, skewed, slots>>

-----------------------------------------------------------------------------
(* The goroutine that starts encodes *)

\* A job is prepared, and waits for room in the channel.
Enqueue(j) ==
    /\ Started
    /\ phase[j] = "prepare"
    /\ Len(queue) < QueueLimit
    /\ queue' = Append(queue, j)
    /\ phase' = [phase EXCEPT ![j] = "queued"]
    /\ UNCHANGED <<cap, admission, kind, slot, procs, skewed, pending, scan, token>>

\* A wrong variant of the next definition: the job after one that starts is passed over.
FaultyTryStart ==
    /\ Started
    /\ scan \in DOMAIN pending
    /\ LET j == pending[scan]
           k == StartKind(cap.pool, kind[j])
       IN  /\ cap' = [cap EXCEPT !.pool = Tried(@, kind[j])]
           /\ IF k = NoKind
              THEN UNCHANGED <<pending, phase, slot>>
              ELSE /\ pending' = RemoveAt(pending, scan)
                   /\ slot' = [slot EXCEPT ![j] = k]
                   /\ phase' = [phase EXCEPT ![j] = "starting"]
    /\ scan' = scan + 1
    /\ UNCHANGED <<admission, kind, procs, skewed, queue, token>>

\* The next waiting job asks for a slot.
TryStart ==
    /\ Started
    /\ scan \in DOMAIN pending
    /\ LET j == pending[scan]
           k == StartKind(cap.pool, kind[j])
       IN  /\ cap' = [cap EXCEPT !.pool = Tried(@, kind[j])]
           /\ IF k = NoKind
              THEN scan' = scan + 1 /\ UNCHANGED <<pending, phase, slot>>
              ELSE /\ pending' = RemoveAt(pending, scan)
                   /\ slot' = [slot EXCEPT ![j] = k]
                   /\ phase' = [phase EXCEPT ![j] = "starting"]
                   /\ UNCHANGED scan
    /\ UNCHANGED <<admission, kind, procs, skewed, queue, token>>

\* All were tried: it waits for a job or a wakeup.
Wait ==
    /\ Started
    /\ scan = Len(pending) + 1
    /\ scan' = 0
    /\ UNCHANGED <<cap, admission, jobs, procs, skewed, queue, pending, token>>

Take ==
    /\ Started
    /\ scan = 0 /\ queue # <<>>
    /\ pending' = Append(pending, Head(queue))
    /\ queue' = Tail(queue)
    /\ scan' = 1
    /\ UNCHANGED <<cap, admission, jobs, procs, skewed, token>>

Wake ==
    /\ Started
    /\ scan = 0 /\ token
    /\ token' = FALSE
    /\ scan' = 1
    /\ UNCHANGED <<cap, admission, jobs, procs, skewed, queue, pending>>

-----------------------------------------------------------------------------
(* An encode *)

\* The job is pinned to the class of its slot, and reported as encoding.
Pin(j) ==
    /\ phase[j] = "starting"
    /\ kind' = [kind EXCEPT ![j] = slot[j]]
    /\ phase' = [phase EXCEPT ![j] = "gate"]
    /\ UNCHANGED <<cap, admission, slot, procs, skewed, slots>>

\* A wrong variant of the next definition: the gate is not looked at.
FaultyStartProcess(j) ==
    /\ phase[j] = "gate"
    /\ procs' = [i \in DOMAIN procs \union {j} |->
                    IF i = j THEN [paused |-> FALSE, individual |-> FALSE, exited |-> FALSE]
                    ELSE procs[i]]
    /\ phase' = [phase EXCEPT ![j] = "encode"]
    /\ UNCHANGED <<cap, admission, kind, slot, skewed, slots>>

\* PauseController.start: the process starts and is registered while nothing is held.
StartProcess(j) ==
    /\ phase[j] = "gate"
    /\ ~cap.hold
    /\ procs' = [i \in DOMAIN procs \union {j} |->
                    IF i = j THEN [paused |-> FALSE, individual |-> FALSE, exited |-> FALSE]
                    ELSE procs[i]]
    /\ phase' = [phase EXCEPT ![j] = "encode"]
    /\ UNCHANGED <<cap, admission, kind, slot, skewed, slots>>

\* A process ends only while it may run.
Exit(j) ==
    /\ j \in DOMAIN procs /\ ~procs[j].exited /\ ~procs[j].paused
    /\ procs' = [procs EXCEPT ![j].exited = TRUE]
    /\ UNCHANGED <<cap, admission, jobs, skewed, slots>>

\* The job ends: CleanJob.
Cleaned(j) ==
    /\ phase' = [phase EXCEPT ![j] = "none"]
    /\ kind' = [kind EXCEPT ![j] = NoKind]
    /\ accepted' = accepted - 1

\* The command returns, and the job goes on to its verification, or fails.
Unregister(j) ==
    /\ j \in DOMAIN procs /\ procs[j].exited
    /\ procs' = [i \in DOMAIN procs \ {j} |-> procs[i]]
    /\ skewed' = skewed \ {j}
    /\ \/ phase' = [phase EXCEPT ![j] = "after"] /\ UNCHANGED <<kind, accepted>>
       \/ Cleaned(j)
    /\ UNCHANGED <<cap, reserved, loop, slot, slots>>

\* A phase other than the encode fails, or the upload ends.
EndJob(j) ==
    /\ Started
    /\ phase[j] \in {"prepare", "gate", "after"}
    /\ Cleaned(j)
    /\ UNCHANGED <<cap, reserved, loop, slot, procs, skewed, slots>>

\* A wrong variant of the next definition: nobody is woken.
FaultyFreeSlot(j) ==
    /\ slot[j] # NoKind /\ phase[j] \in {"none", "after"}
    /\ cap' = [cap EXCEPT !.pool = Finished(@, slot[j])]
    /\ slot' = [slot EXCEPT ![j] = NoKind]
    /\ UNCHANGED <<admission, phase, kind, procs, skewed, slots>>

\* The goroutine of an encode ends: it may be long after its job went on.
FreeSlot(j) ==
    /\ slot[j] # NoKind /\ phase[j] \in {"none", "after"}
    /\ cap' = [cap EXCEPT !.pool = Finished(@, slot[j])]
    /\ slot' = [slot EXCEPT ![j] = NoKind]
    /\ token' = TRUE
    /\ UNCHANGED <<admission, phase, kind, procs, skewed, queue, pending, scan>>

-----------------------------------------------------------------------------
(* The worker stops and starts again *)

\* What its context file may say of a job: an encode is done again, and a phase
\* that was not reported yet too.
Saved(j) ==
    CASE phase[j] \in {"gate", "encode", "saved"}       -> {"saved"}
      [] phase[j] \in {"prepare", "queued", "starting"} -> {"prepare"}
      [] phase[j] = "after"                             -> {"saved", "after"}
      [] OTHER                                          -> {"none"}

Restart ==
    /\ restarts < MaxRestarts /\ restarts' = restarts + 1
    /\ "worker" \in Failures \/ (loop = "draining" /\ accepted = 0)
    /\ cap' \in {NewCapacity, HoldAdmission(NewCapacity)}
    /\ phase' \in {p \in [Jobs -> Phases] : \A j \in Jobs : p[j] \in Saved(j)}
    /\ slot' = [j \in Jobs |-> NoKind]
    /\ reserved' = 0 /\ loop' = "idle"
    /\ accepted' = Cardinality({j \in Jobs : phase'[j] \in {"prepare", "after"}})
    /\ procs' = [j \in {} |-> Process] /\ skewed' = {}
    /\ queue' = <<>> /\ pending' = <<>> /\ scan' = 1 /\ token' = FALSE
    /\ kind' = [j \in Jobs |-> IF loop = j THEN NoKind ELSE kind[j]]
    /\ UNCHANGED given

\* resumeJobs puts a saved job into the channel nobody reads from yet.
Resume(j) ==
    /\ phase[j] = "saved"
    /\ Len(queue) < QueueLimit
    /\ queue' = Append(queue, j)
    /\ phase' = [phase EXCEPT ![j] = "queued"]
    /\ accepted' = accepted + 1
    /\ UNCHANGED <<cap, reserved, loop, kind, slot, procs, skewed, pending, scan, token>>

-----------------------------------------------------------------------------

Command ==
    /\ given < MaxCommands /\ given' = given + 1
    /\ \/ \E n \in Limits : SetMaxActiveJobs(n) \/ PersistAdmissionLimit(n)
       \/ \E pair \in Pairs : SetEncoders(pair)
       \/ \E mode \in Modes : SetMode(mode)
       \/ \E b \in BOOLEAN : SetRAM(b) \/ \E j \in Jobs : SetJobPaused(j, b)
       \/ Finish \/ Drain \/ Hold
    /\ UNCHANGED restarts

Coordinate ==
    \/ Reserve \/ NoUpdate \/ GivesUp \/ Updates \/ SettingsResolved
    \/ \E j \in Jobs : Receives(j) \/ Accepts(j)

Starts == TryStart \/ Wait \/ Take \/ Wake

Encode(j) == Enqueue(j) \/ Pin(j) \/ StartProcess(j) \/ Exit(j) \/ Unregister(j) \/ FreeSlot(j)

Runs == Coordinate \/ Starts \/ \E j \in Jobs : Encode(j) \/ EndJob(j) \/ Resume(j)

Next == Command \/ (Runs /\ UNCHANGED bounds) \/ Restart

\* Goroutines run, encodes and the phases after them end, the coordinator gets
\* its answers.  Nobody has to give a command, and nothing has to fail.
Fairness ==
    /\ WF_worker(TryStart) /\ WF_worker(Wait) /\ WF_worker(Take) /\ WF_worker(Wake)
    /\ WF_worker(NoUpdate \/ Updates \/ GivesUp) /\ WF_worker(SettingsResolved)
    /\ \A j \in Jobs :
        /\ WF_worker(Accepts(j)) /\ WF_worker(Enqueue(j)) /\ WF_worker(Resume(j))
        /\ WF_worker(Pin(j)) /\ WF_worker(StartProcess(j)) /\ WF_worker(Exit(j))
        /\ WF_worker(Unregister(j)) /\ WF_worker(FreeSlot(j))
        /\ WF_worker(phase[j] = "after" /\ EndJob(j))

Spec == Init /\ [][Next]_vars /\ Fairness

-----------------------------------------------------------------------------
(* Properties *)

Reserving == loop \in {"reserved", "checked"} \union Jobs

\* executor.go reservedJobs, activeJobs and the pool's counts are kept by four
\* goroutines under two locks, and released on every path a job or a request can
\* take.  They always say how many jobs there really are: a count too low admits
\* more than the encoders take, one too high stops the worker for good.
Accounted ==
    /\ reserved = (IF Reserving THEN 1 ELSE 0)
    /\ accepted = Cardinality({j \in Jobs : phase[j] \notin {"none", "saved"}})
    /\ \A k \in Kinds : cap.pool.active[k] = Cardinality({j \in Jobs : slot[j] = k})

\* Whatever the order of limits, pauses, drains and the settings of the server,
\* the general hold of the processes and the hold of the queue are those the
\* admission state asks for: a drain is never held up, a RAM hold never lost.  And
\* pause.go:85-122: an encode stands still if and only if all encodes are held or
\* it is held itself, unless a signal and then its rollback failed.
HoldsAgree ==
    /\ Agrees(cap)
    /\ \A j \in DOMAIN procs \ skewed : procs[j].paused = (cap.hold \/ procs[j].individual)

Waits(j) == \E i \in DOMAIN pending : pending[i] = j

\* encodeConcurrency.go:186-216: a waiting encode a slot is free for does not wait
\* for ever, though the wakeups are merged in a channel of one.
WaitingStarts ==
    \A j \in Jobs : ~<>[](Waits(j) /\ StartKind(cap.pool, kind[j]) # NoKind)

\* executor.go:453-470: a worker that drains for maintenance or an update ends its
\* jobs, unless it is restarted: nothing that was held before keeps one back.
DrainCompletes == cap.held ~> (accepted = 0 \/ ~cap.held)
=============================================================================
