----------------------------- MODULE Supervisor -----------------------------
(***************************************************************************)
(* The Windows service that runs a CPU and a GPU worker under one set of   *)
(* desktop settings.  An iteration of its loop and a request of the        *)
(* desktop exclude each other (supervisor.mu), and both call the workers,  *)
(* which go on meanwhile: an iteration is taken in stages.  The manager of *)
(* updates and a manual Setup ask the service for the same workers.        *)
(***************************************************************************)
EXTENDS Naturals

CONSTANTS
    Commands,       \* the kinds of requests there are
    MaxCommands,    \* how many of them come
    Disturbances,   \* what may go wrong
    MaxFaults       \* how often it does

AllCommands     == {"configure", "limits", "ram", "shutdown", "setup", "update", "remote"}
AllDisturbances == {"worker", "service", "call", "server", "save", "power", "update"}

ASSUME SupervisorAssumption ==
    /\ Commands \subseteq AllCommands /\ MaxCommands \in Nat
    /\ Disturbances \subseteq AllDisturbances /\ MaxFaults \in Nat

VARIABLES
    state,          \* service.json: the settings in force and to be applied, and the pauses
    child,          \* the worker process of each profile, with its capacity
    work,           \* the settings each profile accepted its work under, which is on disk
    server,         \* the limit the server has saved for each profile
    service,        \* what the supervisor knows beside its state
    loop,           \* where its iteration is
    update,         \* what the manager of updates is at
    commands,       \* how many requests there were
    faults          \* how much went wrong

vars  == <<state, child, work, server, service, loop, update, commands, faults>>

\* Executor(n, r)!Op is the operation of a worker that is configured with n and r.
Executor(StartLimit, StartRAM) ==
    INSTANCE Capacity WITH Primary <- "cpu", StartMode <- "finish", MaxInt <- 1

Worker ==
    INSTANCE Capacity WITH Primary <- "cpu", StartMode <- "finish", MaxInt <- 1,
                           StartLimit <- 1, StartRAM <- FALSE

Profiles == {"cpu", "gpu"}
Unset    == 2                           \* the server knows no limit

\* Settings are a connection, directory or schedule, which workers are restarted for,
\* and a limit for each profile.
Settings == [id : {1, 2}, jobs : [Profiles -> {0, 1}]]
Nothing  == [id |-> 0, jobs |-> [p \in Profiles |-> 0]]

Presets == {[id |-> 1, jobs |-> [p \in Profiles |-> 1]],
            [id |-> 1, jobs |-> [p \in Profiles |-> IF p = "cpu" THEN 1 ELSE 0]],
            [id |-> 2, jobs |-> [p \in Profiles |-> 1]]}

State == [active : Settings \union {Nothing}, pending : Settings \union {Nothing},
          limit : BOOLEAN,              \* PendingLimit
          paused : BOOLEAN, ram : BOOLEAN]

Service == [up : BOOLEAN, drain : BOOLEAN, ready : BOOLEAN, maintenance : BOOLEAN,
            held : BOOLEAN, shutdown : BOOLEAN]

Booted == [up |-> TRUE, drain |-> FALSE, ready |-> FALSE, maintenance |-> FALSE,
           held |-> FALSE, shutdown |-> FALSE]

Absent == [at |-> "absent", id |-> 0, c |-> Worker!NewCapacity]

TypeOK ==
    /\ state \in State
    /\ \A p \in Profiles :
        /\ child[p].at \in {"absent", "starting", "running", "stopping", "exited"}
        /\ child[p].id \in {0, 1, 2} /\ child[p].c \in Worker!Capacity
    /\ work \in [Profiles -> {0, 1, 2}]
    /\ server \in [Profiles -> {0, 1, Unset}]
    /\ service \in Service
    /\ loop \in {"idle", "poll", "polled", "update", "apply", "start"}
    /\ update \in {"none", "pending", "installing", "installed"}
    /\ commands \in 0..MaxCommands /\ faults \in 0..MaxFaults

Init ==
    /\ state \in [active : {Nothing, [id |-> 1, jobs |-> [p \in Profiles |-> 1]]}, pending : {Nothing},
                  limit : {FALSE}, paused : {FALSE}, ram : {FALSE}]
    /\ child = [p \in Profiles |-> Absent]
    /\ work = [p \in Profiles |-> 0]
    /\ server = [p \in Profiles |-> Unset]
    /\ service = Booted /\ loop = "idle" /\ update = "none"
    /\ commands = 0 /\ faults = 0

Fault(kind) ==
    /\ kind \in Disturbances
    /\ faults < MaxFaults /\ faults' = faults + 1

\* Either it goes well, or a fault of that kind comes in.
May(ok, kind) == IF ok THEN UNCHANGED faults ELSE Fault(kind)

Present(p)  == child[p].at # "absent"
Answers(p)  == child[p].at = "running"
Reachable   == {p \in Profiles : Answers(p)}
AllStopped  == \A p \in Profiles : ~Present(p)
Configured  == state.active # Nothing
Updating    == update # "none"
Busy(p)     == work[p] # 0
Accepting(p) == Worker!MayAdmit(child[p].c)

\* A request of the desktop, under the lock.
Command(kind) ==
    /\ service.up /\ loop = "idle"
    /\ kind \in Commands
    /\ commands < MaxCommands /\ commands' = commands + 1

Unlocked == ~service.maintenance /\ ~Updating

\* The profiles that an operation reaches in turn until one of them fails: those that
\* do not answer do, and any other may; what comes of it is saved when none does.
Reached(done, saved, able) ==
    /\ saved => done = Profiles
    /\ done \subseteq able
    /\ LET next == IF done = {} THEN "cpu" ELSE "gpu"
       IN  IF done = Profiles THEN May(saved, "save") ELSE May(next \notin able, "call")

\* The capacities of the reached profiles become others.
Changed(done, capacity) ==
    child' = [p \in Profiles |->
                IF p \in done THEN [child[p] EXCEPT !.c = capacity[p]] ELSE child[p]]

\* A wrong variant of the next definition: a shutdown that was asked for stays so.
FaultyDisarmed == service

Disarmed == [service EXCEPT !.shutdown = FALSE]

-----------------------------------------------------------------------------
(* Worker processes *)

Fresh(p, id, limit, ram) ==
    [at |-> "starting", id |-> id, c |-> Executor(limit, ram)!NewCapacity]

\* A worker is started with a limit of zero while the queue is paused.
Limit(s, p) == IF s.paused THEN 0 ELSE s.active.jobs[p]

Launched(p, hold) ==
    LET new == Fresh(p, state.active.id, Limit(state, p), state.ram)
    IN  IF hold THEN [new EXCEPT !.c = Worker!HoldAdmission(@)] ELSE new

Listens(p) ==
    /\ child[p].at = "starting"
    /\ child' = [child EXCEPT ![p].at = "running"]
    /\ UNCHANGED <<state, work, server, service, loop, update, commands, faults>>

\* A wrong variant of the next definition: the server is taken to know a limit.
FaultySynced(p) ==
    LET c == child[p].c
    IN  Worker!MarkWorkerSettingsResolved(
            IF Worker!Drains(c) \/ server[p] = c.max THEN c
            ELSE Worker!ApplyLimit(c, server[p], c.mode, c.ram))

\* The worker takes over the limit that the server has, unless it drains.
Synced(p) ==
    LET c == child[p].c
    IN  Worker!MarkWorkerSettingsResolved(
            IF Worker!Drains(c) \/ server[p] \in {Unset, c.max} THEN c
            ELSE Worker!ApplyLimit(c, server[p], c.mode, c.ram))

Syncs(p) ==
    /\ Answers(p) /\ child[p].c # Synced(p)
    /\ child' = [child EXCEPT ![p].c = Synced(p)]
    /\ UNCHANGED <<state, work, server, service, loop, update, commands, faults>>

Accepts(p) ==
    /\ Answers(p) /\ Accepting(p) /\ ~Busy(p)
    /\ work' = [work EXCEPT ![p] = child[p].id]
    /\ UNCHANGED <<state, child, server, service, loop, update, commands, faults>>

\* Work that encodes goes on in a paused queue, but not in a process that is held.
Finishes(p) ==
    /\ Answers(p) /\ Busy(p) /\ ~child[p].c.hold
    /\ work' = [work EXCEPT ![p] = 0]
    /\ UNCHANGED <<state, child, server, service, loop, update, commands, faults>>

Exits(p) ==
    /\ \/ child[p].at = "stopping" /\ UNCHANGED faults
       \/ child[p].at \in {"starting", "running"} /\ Fault("worker")
    /\ child' = [child EXCEPT ![p].at = "exited"]
    /\ UNCHANGED <<state, work, server, service, loop, update, commands>>

\* A dashboard sets the limit of a profile, which ends an operator's stop.
RemoteLimit(p, n) ==
    /\ "remote" \in Commands /\ commands < MaxCommands /\ commands' = commands + 1
    /\ Answers(p)
    /\ server' = [server EXCEPT ![p] = n]
    /\ LET c == child[p].c
       IN  child' = [child EXCEPT ![p].c =
                Worker!MarkWorkerSettingsResolved(Worker!ApplyLimit(c, n, c.mode, c.ram))]
    /\ UNCHANGED <<state, work, service, loop, update, faults>>

-----------------------------------------------------------------------------
(* Requests of the desktop: handle *)

\* sameExceptLimit: the workers need not start again.
Immediate(value) ==
    state.active = Nothing \/ (state.pending = Nothing /\ state.active.id = value.id)

\* Settings that differ in limits only are in force at once, others after a drain.
Configure(value) ==
    /\ Command("configure") /\ Unlocked
    /\ service' = Disarmed
    /\ LET next == IF Immediate(value)
                   THEN [state EXCEPT !.active = value, !.limit = TRUE]
                   ELSE [state EXCEPT !.pending = value, !.limit = TRUE]
       IN  \/ state' = next /\ UNCHANGED faults
           \/ Fault("save") /\ UNCHANGED state
    /\ UNCHANGED <<child, work, server, loop, update>>

\* A worker stores the limit on the server, and keeps a hold that it has.
Limited(n, c) ==
    Worker!MarkWorkerSettingsResolved(
        Worker!AdmissionLimit(Worker!SetPauseMode(c, "finish"), n))

\* Zero for both pauses the queue, and leaves the settings as they are.
SetMaxJobs(jobs, done, saved) ==
    /\ Command("limits") /\ Unlocked
    /\ Configured /\ state.pending = Nothing /\ ~AllStopped
    /\ service' = Disarmed
    /\ Reached(done, saved, Reachable)
    /\ Changed(done, [p \in Profiles |-> Limited(jobs[p], child[p].c)])
    /\ server' = [p \in Profiles |-> IF p \in done THEN jobs[p] ELSE server[p]]
    /\ IF ~saved THEN UNCHANGED state
       ELSE IF \A p \in Profiles : jobs[p] = 0
            THEN state' = [state EXCEPT !.paused = TRUE, !.limit = FALSE]
            ELSE state' = [state EXCEPT !.paused = FALSE, !.limit = FALSE, !.active.jobs = jobs]
    /\ UNCHANGED <<work, loop, update>>

\* A worker that drains refuses.
PauseEncodes(ram, done, saved) ==
    /\ Command("ram") /\ Unlocked /\ ~service.shutdown
    /\ Configured /\ state.pending = Nothing /\ ~state.limit
    /\ Reached(done, saved, {p \in Reachable : ~Worker!Drains(child[p].c)})
    /\ Changed(done, [p \in Profiles |-> Worker!SetRAMPaused(child[p].c, ram)])
    /\ state' = IF saved THEN [state EXCEPT !.ram = ram] ELSE state
    /\ UNCHANGED <<work, server, service, loop, update>>

\* stopAfterCurrentLocked: what is accepted is finished, and then the machine stops.
StopAfterCurrent(done, saved) ==
    /\ Command("shutdown") /\ Unlocked
    /\ IF ~Configured \/ state.pending # Nothing \/ state.limit
       THEN done = {} /\ ~saved /\ UNCHANGED faults
       ELSE Reached(done, saved, Reachable)
    /\ Changed(done, [p \in Profiles |-> Worker!FinishAcceptedJobs(child[p].c)])
    /\ IF saved
       THEN state' = [state EXCEPT !.paused = TRUE] /\ service' = [service EXCEPT !.shutdown = TRUE]
       ELSE UNCHANGED state /\ service' = Disarmed
    /\ UNCHANGED <<work, server, loop, update>>

\* The helper of a manual Setup holds both workers, and waits; it calls them directly.
SetupHolds ==
    /\ "setup" \in Commands /\ commands < MaxCommands /\ commands' = commands + 1
    /\ service.up /\ ~Updating /\ state.pending = Nothing /\ ~state.limit
    /\ Changed(Reachable, [p \in Profiles |-> Worker!HoldAdmission(child[p].c)])
    /\ UNCHANGED <<state, work, server, service, loop, update, faults>>

\* A wrong variant of the next definition: a worker that is not there has nothing to do.
FaultyIdleProfile(p) == ~Present(p) \/ (Answers(p) /\ ~Busy(p))

\* What a profile that was drained must say.
IdleProfile(p) == (~Configured /\ ~Present(p)) \/ (Answers(p) /\ ~Busy(p))

\* prepareUpgradeLocked: every worker is drained, and when all of them are idle the
\* service is left to Setup.
PrepareUpgrade ==
    /\ Command("setup")
    /\ IF Updating THEN UNCHANGED child /\ service' = Disarmed
       ELSE /\ Changed(Reachable, [p \in Profiles |-> Worker!DrainAcceptedJobs(child[p].c)])
            /\ service' = [Disarmed EXCEPT !.maintenance = \A p \in Profiles : IdleProfile(p)]
    /\ UNCHANGED <<state, work, server, loop, update, faults>>

\* The service is stopped with its workers, and begins anew with what it saved.
Restarted ==
    /\ child' = [p \in Profiles |-> Absent]
    /\ service' = Booted /\ loop' = "idle"
    /\ UNCHANGED <<state, work, server>>

SetupReplaces ==
    /\ service.maintenance /\ service.up
    /\ Restarted
    /\ UNCHANGED <<update, commands, faults>>

ServiceRestarts ==
    /\ service.up
    /\ Fault("service")
    /\ Restarted
    /\ update' = IF update = "installing" THEN "pending" ELSE update
    /\ UNCHANGED commands

-----------------------------------------------------------------------------
(* The manager of updates *)

UpdateFound ==
    /\ "update" \in Commands /\ update = "none"
    /\ commands < MaxCommands /\ commands' = commands + 1
    /\ update' = "pending"
    /\ UNCHANGED <<state, child, work, server, service, loop, faults>>

\* drainForUpdate: the installation begins when both workers are there and idle.
DrainForUpdate ==
    /\ service.up /\ loop = "idle" /\ update = "pending"
    /\ ~service.maintenance
    /\ service' = Disarmed
    /\ LET missing(p) == ~Answers(p) /\ (Configured \/ Present(p))
           held       == IF missing("cpu") THEN {}
                         ELSE Reachable
       IN  /\ Changed(held, [p \in Profiles |-> Worker!HoldAdmission(child[p].c)])
           /\ update' = IF \A p \in Profiles : ~missing(p) /\ ~Busy(p) THEN "installing" ELSE update
    /\ <<child, service, update>>' # <<child, service, update>>
    /\ UNCHANGED <<state, work, server, loop, commands, faults>>

\* Whether it succeeds or not, the service starts again, and is told to hold its workers.
UpdateInstalls ==
    /\ update = "installing" /\ service.up
    /\ Restarted
    /\ \/ update' = "installed" /\ UNCHANGED faults
       \/ update' = "pending" /\ Fault("update")
    /\ UNCHANGED commands

\* ClearCompleted: the service was seen to be healthy.
UpdateClears ==
    /\ update = "installed" /\ service.up
    /\ update' = "none"
    /\ UNCHANGED <<state, child, work, server, service, loop, commands, faults>>

-----------------------------------------------------------------------------
(* The loop: run *)

In(stage) == service.up /\ loop = stage

\* Anything else that is going on ends a shutdown that was asked for.
Armed == /\ service.shutdown /\ ~service.maintenance /\ ~Updating
         /\ state.pending = Nothing /\ ~state.limit /\ state.paused

\* What a profile says that has closed admission as it was told.
Closes(p) == Answers(p) /\ ~Accepting(p) /\ child[p].c.max = 0

\* A wrong variant of the next definition: what the last profile says decides.
FaultyBegin ==
    /\ In("idle")
    /\ IF Armed /\ Closes("cpu")
       THEN loop' = "poll" /\ UNCHANGED service
       ELSE loop' = "update" /\ service' = Disarmed
    /\ UNCHANGED <<state, child, work, server, update, commands, faults>>

\* checkShutdownLocked asks one profile, and then the other.
Begin ==
    /\ In("idle")
    /\ IF Armed /\ Closes("cpu")
       THEN loop' = (IF Busy("cpu") THEN "polled" ELSE "poll") /\ UNCHANGED service
       ELSE loop' = "update" /\ service' = Disarmed
    /\ UNCHANGED <<state, child, work, server, update, commands, faults>>

\* The CPU profile was busy: the GPU profile can only end it.
PollBusy ==
    /\ In("polled")
    /\ loop' = "update"
    /\ service' = IF Closes("gpu") THEN service ELSE Disarmed
    /\ UNCHANGED <<state, child, work, server, update, commands, faults>>

Poll ==
    /\ In("poll") /\ (~Closes("gpu") \/ Busy("gpu"))
    /\ loop' = "update"
    /\ service' = IF Closes("gpu") THEN service ELSE Disarmed
    /\ UNCHANGED <<state, child, work, server, update, commands, faults>>

\* There is one attempt, whether Windows refuses it or not.
PowerOff ==
    /\ In("poll") /\ Closes("gpu") /\ ~Busy("gpu")
    /\ \/ /\ child' = [p \in Profiles |-> Absent]
          /\ service' = [Booted EXCEPT !.up = FALSE] /\ loop' = "idle"
          /\ UNCHANGED faults
       \/ /\ Fault("power")
          /\ service' = Disarmed /\ loop' = "update"
          /\ UNCHANGED child
    /\ UNCHANGED <<state, work, server, update, commands>>

PowerOn ==
    /\ ~service.up
    /\ service' = Booted
    /\ UNCHANGED <<state, child, work, server, loop, update, commands, faults>>

\* A wrong variant of the next definition: the workers that were held stay.
FaultyStopped(p) == child[p]

Stopped(p) == IF Answers(p) THEN [child[p] EXCEPT !.at = "stopping"] ELSE child[p]

\* Workers are held, or started so, while an update is pending, and replaced after it.
HoldForUpdate ==
    /\ In("update") /\ loop' = "apply"
    /\ CASE Updating ->
              /\ service' = [service EXCEPT !.held = TRUE]
              /\ child' = IF ~Configured \/ service.maintenance THEN child
                          ELSE [p \in Profiles |->
                                 IF ~Present(p) THEN Launched(p, TRUE)
                                 ELSE IF Answers(p) THEN [child[p] EXCEPT !.c = Worker!HoldAdmission(@)]
                                 ELSE child[p]]
         [] ~Updating /\ service.held ->
              /\ service' = [service EXCEPT !.held = ~AllStopped]
              /\ child' = [p \in Profiles |-> Stopped(p)]
         [] OTHER -> UNCHANGED <<service, child>>
    /\ UNCHANGED <<state, work, server, update, commands, faults>>

Applying == ~service.maintenance /\ ~Updating /\ ~service.held /\ Configured

ApplyNothing ==
    /\ In("apply") /\ loop' = "start"
    /\ ~Applying \/ (state.pending = Nothing /\ ~state.limit)
    /\ UNCHANGED <<state, child, work, server, service, update, commands, faults>>

\* The server gets the limits of the workers that are not there.
SaveLimits(done, saved) ==
    /\ In("apply") /\ loop' = "start"
    /\ Applying /\ state.pending = Nothing /\ state.limit /\ AllStopped
    /\ done # {"gpu"} /\ saved => done = Profiles
    /\ May(saved, IF done = Profiles THEN "save" ELSE "server")
    /\ server' = [p \in Profiles |-> IF p \in done THEN Limit(state, p) ELSE server[p]]
    /\ state' = [state EXCEPT !.limit = ~saved]
    /\ UNCHANGED <<child, work, service, update, commands>>

\* The workers that are there get theirs.
ApplyLimits(done, saved) ==
    /\ In("apply") /\ loop' = "start"
    /\ Applying /\ state.pending = Nothing /\ state.limit /\ ~AllStopped
    /\ {p \in Profiles : Present(p) /\ ~Answers(p)} \intersect done = {}
    /\ saved => done = Profiles
    /\ IF done = Profiles THEN May(saved, "save")
       ELSE May(\A p \in Profiles \ done : Present(p) /\ ~Answers(p), "call")
    /\ Changed(done \intersect Reachable, [p \in Profiles |-> Limited(Limit(state, p), child[p].c)])
    /\ server' = [p \in Profiles |-> IF p \in done THEN Limit(state, p) ELSE server[p]]
    /\ state' = [state EXCEPT !.limit = ~saved]
    /\ UNCHANGED <<work, service, update, commands>>

Promoted == [state EXCEPT !.active = state.pending, !.pending = Nothing, !.limit = TRUE]

\* Settings that wait: the workers that are there drain, and are stopped when idle.
DrainForSettings(saved) ==
    /\ In("apply") /\ loop' = "start"
    /\ Applying /\ state.pending # Nothing
    /\ LET there   == {p \in Profiles : Present(p)}
           drained == service.drain \/ \A p \in there : Answers(p)
           idle    == drained /\ \A p \in there : Answers(p) /\ ~Busy(p)
           ready   == service.ready \/ idle
           due     == ready /\ AllStopped
       IN  /\ child' = [p \in Profiles |->
                         LET c == IF ~service.drain /\ Answers(p)
                                  THEN [child[p] EXCEPT !.c = Worker!DrainAcceptedJobs(@)] ELSE child[p]
                         IN  IF idle /\ Answers(p) THEN [c EXCEPT !.at = "stopping"] ELSE c]
           /\ service' = [service EXCEPT !.drain = drained /\ ~due, !.ready = ready /\ ~due]
           /\ state' = IF due /\ saved THEN Promoted ELSE state
           /\ saved \/ due
    /\ May(saved, "save")
    /\ UNCHANGED <<work, server, update, commands>>

StartWorkers ==
    /\ In("start") /\ loop' = "idle"
    /\ IF Applying /\ state.pending = Nothing /\ ~state.limit
       THEN child' = [p \in Profiles |-> IF Present(p) THEN child[p] ELSE Launched(p, FALSE)]
       ELSE UNCHANGED child
    /\ UNCHANGED <<state, work, server, service, update, commands, faults>>

\* A worker has exited: onChildStoppedLocked.
Reap(p, saved) ==
    /\ In("idle") /\ child[p].at = "exited"
    /\ child' = [child EXCEPT ![p] = Absent]
    /\ LET due == /\ state.pending # Nothing /\ service.ready
                  /\ \A q \in Profiles \ {p} : ~Present(q)
       IN  /\ state' = IF due /\ saved THEN Promoted ELSE state
           /\ saved \/ due
           /\ service' = [Disarmed EXCEPT !.ready = @ /\ ~due, !.drain = @ /\ ~due]
    /\ May(saved, "save")
    /\ UNCHANGED <<work, server, loop, update, commands>>

-----------------------------------------------------------------------------

Prefixes == {{}, {"cpu"}, Profiles}

WorkerStep(p) ==
    \/ Listens(p) \/ Syncs(p) \/ Accepts(p) \/ Finishes(p) \/ Exits(p)
    \/ \E n \in {0, 1} : RemoteLimit(p, n)

Requests ==
    \/ \E value \in Presets : Configure(value)
    \/ \E done \in Prefixes, saved \in BOOLEAN :
        \/ \E value \in Presets \union {Nothing} : SetMaxJobs(value.jobs, done, saved)
        \/ \E ram \in BOOLEAN : PauseEncodes(ram, done, saved)
        \/ StopAfterCurrent(done, saved)
    \/ SetupHolds \/ PrepareUpgrade

Loop ==
    \/ Begin \/ PollBusy \/ Poll \/ PowerOff \/ HoldForUpdate
    \/ ApplyNothing \/ StartWorkers
    \/ \E saved \in BOOLEAN :
        \/ DrainForSettings(saved)
        \/ \E done \in SUBSET Profiles : SaveLimits(done, saved) \/ ApplyLimits(done, saved)

Next ==
    \/ \E p \in Profiles : WorkerStep(p) \/ \E saved \in BOOLEAN : Reap(p, saved)
    \/ Requests \/ Loop
    \/ SetupReplaces \/ ServiceRestarts \/ PowerOn
    \/ UpdateFound \/ DrainForUpdate \/ UpdateInstalls \/ UpdateClears

\* A stage of the loop follows another; who waits for the lock, or has exited, has
\* his turn; a process that was started or told to stop does so; work that may go on
\* ends; Setup and an installation get through.
Fairness ==
    /\ WF_vars(Loop) /\ SF_vars(DrainForUpdate)
    /\ WF_vars(SetupReplaces) /\ WF_vars(PowerOn)
    /\ WF_vars(UpdateInstalls) /\ WF_vars(UpdateClears)
    /\ \A p \in Profiles :
        /\ SF_vars(\E saved \in BOOLEAN : Reap(p, saved))
        /\ WF_vars(Listens(p)) /\ WF_vars(Syncs(p))
        /\ WF_vars(child[p].at = "stopping" /\ Exits(p))
        /\ WF_vars(~child[p].c.pool.paused /\ Finishes(p))

Spec == Init /\ [][Next]_vars /\ Fairness

-----------------------------------------------------------------------------
(* Properties *)

\* shutdown_windows.go:52-92: when Windows is told to stop, a profile that still finishes
\* what it accepted has nothing left, although the two are asked one after the other.
ShutdownSafe ==
    [][service.up /\ ~service'.up =>
        \A p \in Profiles : child[p].c.finishing => ~Busy(p)]_vars

\* windows-desktop-worker/spec.md:255: a shutdown that is armed never outlives the exit of
\* a worker or the start of another: both workers are those that were told to finish.
ShutdownCancelled ==
    service.shutdown => \A p \in Profiles : child[p].at \in {"running", "stopping", "exited"}

\* manualUpgrade_windows.go:106-141, updates_windows.go:45-68: Setup and an update replace
\* the workers only when nothing is accepted, and never both at once.
ReplacedWhenIdle ==
    /\ service.maintenance \/ update = "installing" => \A p \in Profiles : ~Busy(p)
    /\ ~(service.maintenance /\ update = "installing")

\* main_windows.go:609-816: in the end the settings that were saved are in force, both
\* workers run under them, and with the limits that the server has.
Settles ==
    <>[](Configured =>
        /\ state.pending = Nothing /\ ~state.limit /\ ~Updating /\ ~service.held
        /\ \A p \in Profiles : /\ Answers(p) /\ child[p].id = state.active.id
                               /\ server[p] \in {Unset, child[p].c.max} \/ Worker!Drains(child[p].c))

\* docs/windows-desktop.md:46: "Connection, codec, directory, or schedule changes wait for
\* accepted jobs to finish before restarting the workers."
ChangesWait ==
    [][Configured /\ state'.active.id # state.active.id => \A p \in Profiles : ~Busy(p)]_vars

\* docs/windows-desktop.md:46: "Both preferences survive service restarts": while the queue
\* is paused, no worker accepts work.
PauseSurvives ==
    state.paused /\ service.up /\ loop = "idle" => \A p \in Profiles : ~(Answers(p) /\ Accepting(p))
=============================================================================
