-------------------------- MODULE SupervisorProofs --------------------------
(***************************************************************************)
(* Theorems about Supervisor: its types, and that Setup, an update and a   *)
(* shutdown of the machine find the workers as they must.  The capacity of *)
(* a worker comes from an instance of Capacity with other constants, so    *)
(* what its operations preserve is stated here of that instance.           *)
(***************************************************************************)
EXTENDS Supervisor, TLAPS

Stages == {"absent", "starting", "running", "stopping", "exited"}

ChildType == [at : Stages, id : {0, 1, 2}, c : Worker!Capacity]

-----------------------------------------------------------------------------
(* What the operations of a worker preserve *)

\* An operation that ends no drain of maintenance, and begins none of an operator.
Later(c, d) ==
    /\ d \in Worker!Capacity
    /\ c.held => d.held
    /\ d.finishing => c.finishing

\* The numbers and modes of such a worker.
LEMMA WorkerConstants ==
    Worker!Numbers = {0, 1} /\ "finish" \in Worker!Modes /\ "ram" \in Worker!Modes
BY DEF Worker!Numbers, Worker!Modes

\* A process begins with a capacity, and finishes nothing; so does a profile without one.
LEMMA NewCapacityType ==
    ASSUME NEW limit \in {0, 1}, NEW ram \in BOOLEAN
    PROVE  /\ Executor(limit, ram)!NewCapacity \in Worker!Capacity
           /\ ~Executor(limit, ram)!NewCapacity.finishing
<1> DEFINE pool == [Executor(limit, ram)!NewPool EXCEPT !.paused = TRUE]
<1>1. Executor(limit, ram)!StartTarget \in Worker!Numbers /\ 0 \in Worker!Numbers
  BY WorkerConstants DEF Executor!StartTarget
<1>2. Executor(limit, ram)!Sole(Executor(limit, ram)!StartTarget) \in [Worker!Kinds -> Worker!Numbers]
  <2>1. Executor(limit, ram)!Sole(Executor(limit, ram)!StartTarget)
          = [k \in Worker!Kinds |-> IF k = "cpu" THEN Executor(limit, ram)!StartTarget ELSE 0]
    BY DEF Executor!Sole, Executor!Kinds, Worker!Kinds
  <2> QED BY <1>1, <2>1
<1>3. /\ Executor(limit, ram)!Pair(0, 0) \in [Worker!Kinds -> Worker!Numbers]
      /\ Executor(limit, ram)!Pair(0, 0) \in [Worker!Kinds -> Nat]
  <2>1. Executor(limit, ram)!Pair(0, 0) = [k \in Worker!Kinds |-> 0]
    BY DEF Executor!Pair, Executor!Kinds, Worker!Kinds
  <2> QED BY <1>1, <2>1
<1>4. Executor(limit, ram)!NewPool \in Worker!Pool
  BY <1>1, <1>2, <1>3 DEF Executor!NewPool, Worker!Pool
<1>5. pool \in Worker!Pool
  BY <1>4 DEF Worker!Pool
<1>6. limit \in Worker!Numbers /\ "finish" \in Worker!Modes
      /\ (ram \/ (limit = 0 /\ "finish" = "ram")) \in BOOLEAN
  BY WorkerConstants
<1> HIDE DEF pool
<1>7. Executor(limit, ram)!NewCapacity =
        [pool |-> pool, max |-> limit, mode |-> "finish", ram |-> ram, pending |-> TRUE,
         held |-> FALSE, finishing |-> FALSE, hold |-> ram \/ (limit = 0 /\ "finish" = "ram")]
  BY DEF Executor!NewCapacity, pool
<1> QED
  BY <1>5, <1>6, <1>7 DEF Worker!Capacity

\* A profile without a process has the capacity of one, and finishes nothing.
LEMMA AbsentType == Worker!NewCapacity \in Worker!Capacity /\ ~Worker!NewCapacity.finishing
<1>1. Worker!NewCapacity = Executor(1, FALSE)!NewCapacity
  BY DEF Worker!NewCapacity, Worker!NewPool, Worker!StartTarget, Worker!Sole, Worker!Pair, Worker!Kinds,
         Executor!NewCapacity, Executor!NewPool, Executor!StartTarget, Executor!Sole, Executor!Pair, Executor!Kinds
<1> QED BY <1>1, NewCapacityType

\* Holding admission, as an update and Setup do, ends no drain and begins none.
LEMMA HoldAdmissionLater ==
    ASSUME NEW c \in Worker!Capacity
    PROVE  Later(c, Worker!HoldAdmission(c)) /\ Worker!HoldAdmission(c).held
<1>1. c.pool \in Worker!Pool
  BY DEF Worker!Capacity
<1>2. [c.pool EXCEPT !.paused = FALSE] \in Worker!Pool
  BY <1>1 DEF Worker!Pool
<1> QED
  BY <1>2 DEF Later, Worker!HoldAdmission, Worker!Capacity

\* Nor does draining for maintenance.
LEMMA DrainAcceptedLater ==
    ASSUME NEW c \in Worker!Capacity
    PROVE  Later(c, Worker!DrainAcceptedJobs(c)) /\ Worker!DrainAcceptedJobs(c).held
<1>1. 0 \in Worker!Numbers
  BY WorkerConstants
<1> QED
  BY <1>1 DEF Later, Worker!DrainAcceptedJobs, Worker!Capacity, Worker!Pool

\* Finishing what is accepted, as an operator asks, leaves a hold that there is.
LEMMA FinishAcceptedType ==
    ASSUME NEW c \in Worker!Capacity
    PROVE  Worker!FinishAcceptedJobs(c) \in Worker!Capacity /\ Worker!FinishAcceptedJobs(c).held = c.held
<1>1. 0 \in Worker!Numbers /\ "finish" \in Worker!Modes
  BY WorkerConstants
<1> QED
  BY <1>1 DEF Worker!FinishAcceptedJobs, Worker!Capacity, Worker!Pool

\* The pauses that follow from the rest of a capacity are no drain.
LEMMA HeldLater ==
    ASSUME NEW c \in Worker!Capacity
    PROVE  Later(c, Worker!Held(Worker!PoolPaused(c)))
  BY DEF Later, Worker!Held, Worker!PoolPaused, Worker!Capacity, Worker!Pool

\* A limit ends the drain of an operator, and not the one of maintenance.
LEMMA ApplyLimitLater ==
    ASSUME NEW c \in Worker!Capacity, NEW n \in {0, 1}, NEW mode \in Worker!Modes, NEW ram \in BOOLEAN
    PROVE  Later(c, Worker!ApplyLimit(c, n, mode, ram))
<1> DEFINE pool == IF n > 0 THEN Worker!SetTarget(c.pool, n)
                   ELSE [c.pool EXCEPT !.jobs = Worker!Pair(0, 0)]
           d == [c EXCEPT !.max = n, !.mode = mode, !.ram = ram, !.finishing = FALSE, !.pool = pool]
<1>1. c.pool \in Worker!Pool /\ n \in Worker!Numbers
  BY WorkerConstants DEF Worker!Capacity
<1>2. pool \in Worker!Pool
  <2>1. Worker!Pair(0, 0) \in [Worker!Kinds -> Worker!Numbers]
    BY WorkerConstants DEF Worker!Pair
  <2>2. Worker!Sole(n) \in [Worker!Kinds -> Worker!Numbers]
    BY WorkerConstants DEF Worker!Sole
  <2>3. Worker!SetTarget(c.pool, n) \in Worker!Pool
    BY <1>1, <2>2 DEF Worker!SetTarget, Worker!Pool
  <2> QED BY <1>1, <2>1, <2>3 DEF Worker!Pool
<1>3. Worker!ApplyLimit(c, n, mode, ram) = Worker!Held(Worker!PoolPaused(d))
  BY DEF Worker!ApplyLimit
<1> HIDE DEF pool
<1>4. d \in Worker!Capacity /\ d.held = c.held /\ ~d.finishing
  BY <1>1, <1>2 DEF Worker!Capacity
<1> HIDE DEF d
<1> QED BY <1>3, <1>4, HeldLater DEF Later

\* That the settings are known changes no drain.
LEMMA ResolvedLater ==
    ASSUME NEW c \in Worker!Capacity
    PROVE  Later(c, Worker!MarkWorkerSettingsResolved(c))
<1> DEFINE d == [c EXCEPT !.pending = FALSE]
<1>1. d \in Worker!Capacity /\ d.held = c.held /\ d.finishing = c.finishing
  BY DEF Worker!Capacity
<1>2. Worker!MarkWorkerSettingsResolved(c) = Worker!PoolPaused(d)
  BY DEF Worker!MarkWorkerSettingsResolved
<1> HIDE DEF d
<1>3. ((d.ram \/ d.max = 0 \/ d.pending) /\ ~d.held /\ ~d.finishing) \in BOOLEAN /\ d.pool \in Worker!Pool
  BY <1>1 DEF Worker!Capacity
<1>4. Worker!PoolPaused(d) \in Worker!Capacity
  BY <1>1, <1>3 DEF Worker!PoolPaused, Worker!Capacity, Worker!Pool
<1> QED BY <1>1, <1>2, <1>4 DEF Later, Worker!PoolPaused, Worker!Capacity

\* Nor does a pause of the encoding processes.
LEMMA SetRAMPausedLater ==
    ASSUME NEW c \in Worker!Capacity, NEW ram \in BOOLEAN
    PROVE  Later(c, Worker!SetRAMPaused(c, ram))
<1>1. (ram \/ c.max = 0 \/ c.pending) \in BOOLEAN /\ c.pool \in Worker!Pool /\ "finish" \in Worker!Modes
  BY WorkerConstants DEF Worker!Capacity
<1> QED BY <1>1 DEF Later, Worker!SetRAMPaused, Worker!Capacity, Worker!Pool

\* A limit that the service sends ends the drain of an operator only.
LEMMA LimitedLater ==
    ASSUME NEW c \in Worker!Capacity, NEW n \in {0, 1}
    PROVE  Later(c, Limited(n, c))
<1> DEFINE b == Worker!SetPauseMode(c, "finish")
           d == Worker!AdmissionLimit(b, n)
<1>1. Later(c, b)
  <2>1. [c EXCEPT !.mode = "finish"] \in Worker!Capacity
    BY WorkerConstants DEF Worker!Capacity
  <2> QED BY <2>1 DEF Later, Worker!SetPauseMode, Worker!Held, Worker!Capacity
<1>2. Later(b, d)
  <2>1. (b.ram \/ (b.max = 0 /\ b.mode = "ram" /\ ~b.held /\ ~b.finishing)) \in BOOLEAN
    BY <1>1 DEF Later, Worker!Capacity
  <2> HIDE DEF b
  <2> QED BY <1>1, <2>1, WorkerConstants, ApplyLimitLater DEF Later, Worker!AdmissionLimit
<1>3. Later(d, Worker!MarkWorkerSettingsResolved(d))
  BY <1>2, ResolvedLater DEF Later
<1>4. Limited(n, c) = Worker!MarkWorkerSettingsResolved(d)
  BY DEF Limited
<1> HIDE DEF b, d
<1> QED BY <1>1, <1>2, <1>3, <1>4 DEF Later

\* The worker takes over a limit of the server.
LEMMA SyncedLater ==
    ASSUME TypeOK, NEW p \in Profiles
    PROVE  Later(child[p].c, Synced(p))
<1> DEFINE c == child[p].c
           d == IF Worker!Drains(c) \/ server[p] \in {Unset, c.max} THEN c
                ELSE Worker!ApplyLimit(c, server[p], c.mode, c.ram)
<1>1. c \in Worker!Capacity /\ c.mode \in Worker!Modes /\ c.ram \in BOOLEAN /\ server[p] \in {0, 1, Unset}
  BY DEF TypeOK, Worker!Capacity
<1>2. Synced(p) = Worker!MarkWorkerSettingsResolved(d)
  BY DEF Synced
<1>3. Later(c, d)
  <2>1. CASE server[p] \in {0, 1}
    <3>1. Later(c, Worker!ApplyLimit(c, server[p], c.mode, c.ram)) /\ Later(c, c)
      <4> HIDE DEF c
      <4> QED BY <1>1, <2>1, ApplyLimitLater DEF Later
    <3> QED BY <3>1
  <2>2. CASE server[p] = Unset
    BY <1>1, <2>2 DEF Later
  <2> QED BY <1>1, <2>1, <2>2
<1>4. Later(d, Worker!MarkWorkerSettingsResolved(d))
  BY <1>3, ResolvedLater DEF Later
<1> HIDE DEF c, d
<1>5. Later(c, Worker!MarkWorkerSettingsResolved(d))
  BY <1>3, <1>4 DEF Later
<1> QED BY <1>2, <1>5 DEF c

-----------------------------------------------------------------------------
(* The inductive invariant *)

Closed(p) == ~Present(p) \/ child[p].c.held

\* Whoever replaces the workers found them closed to work, and they stay so.
Quiet == service.maintenance \/ update = "installing" => \A p \in Profiles : Closed(p)

\* Without settings there never was a worker, and so there is no work.
Unconfigured == ~Configured => \A p \in Profiles : ~Present(p) /\ ~Busy(p)

\* What the CPU profile said holds until the GPU profile is asked: one that finishes takes
\* no work, and is told to finish by a request only, for which the loop must not be going on.
PollKnows == loop = "poll" /\ child["cpu"].c.finishing => ~Busy("cpu")

Safe == ShutdownCancelled /\ ReplacedWhenIdle /\ Quiet /\ Unconfigured /\ PollKnows

SupervisorInv == TypeOK /\ child \in [Profiles -> ChildType] /\ Safe

\* Most steps leave each worker there or not, and end no drain.
GoesOn(p) ==
    /\ Present(p)' = Present(p)
    /\ child[p].at \in {"running", "stopping", "exited"} => child'[p].at \in {"running", "stopping", "exited"}
    /\ Later(child[p].c, child'[p].c)

\* The settings of a request are settings, and none of them are no settings at all.
LEMMA SettingsAreSome ==
    /\ Presets \subseteq Settings
    /\ Nothing \notin Settings
    /\ \A value \in Presets \union {Nothing} : value.jobs \in [Profiles -> {0, 1}]
BY DEF Presets, Settings, Nothing

\* What goes wrong is counted up to its bound.
LEMMA FaultsType ==
    ASSUME TypeOK, faults' = faults \/ (faults < MaxFaults /\ faults' = faults + 1)
    PROVE  faults' \in 0..MaxFaults
BY SupervisorAssumption DEF TypeOK

\* So are the requests.
LEMMA CommandsType ==
    ASSUME TypeOK, commands' = commands \/ (commands < MaxCommands /\ commands' = commands + 1)
    PROVE  commands' \in 0..MaxCommands
BY SupervisorAssumption DEF TypeOK

\* The types after a step are the types of its parts.
LEMMA TypeNext ==
    ASSUME child' \in [Profiles -> ChildType], state' \in State,
           work' \in [Profiles -> {0, 1, 2}], server' \in [Profiles -> {0, 1, Unset}],
           service' \in Service, loop' \in {"idle", "poll", "polled", "update", "apply", "start"},
           update' \in {"none", "pending", "installing", "installed"},
           commands' \in 0..MaxCommands, faults' \in 0..MaxFaults
    PROVE  TypeOK'
BY DEF TypeOK, ChildType, Stages

\* A step in which the workers go on, nobody gets hold of the service and no request is
\* half done keeps what must hold.
LEMMA GoesOnSafe ==
    ASSUME SupervisorInv, \A p \in Profiles : GoesOn(p), work' = work,
           Configured => Configured', service'.shutdown => service.shutdown,
           service'.maintenance => service.maintenance,
           update' = "installing" => update = "installing", loop' = "poll" => loop = "poll"
    PROVE  Safe'
<1>1. ShutdownCancelled'
  BY DEF SupervisorInv, Safe, ShutdownCancelled, GoesOn
<1>2. ReplacedWhenIdle'
  BY DEF SupervisorInv, Safe, ReplacedWhenIdle, Busy
<1>3. Quiet'
  BY DEF SupervisorInv, Safe, Quiet, Closed, GoesOn, Later
<1>4. Unconfigured'
  BY DEF SupervisorInv, Safe, Unconfigured, GoesOn, Busy
<1>5. PollKnows'
  BY DEF SupervisorInv, Safe, PollKnows, GoesOn, Busy, Later, Profiles
<1> QED BY <1>1, <1>2, <1>3, <1>4, <1>5 DEF Safe

\* Workers go on when nothing happens to them.
LEMMA UnchangedGoesOn ==
    ASSUME SupervisorInv, child' = child
    PROVE  child' \in [Profiles -> ChildType] /\ \A p \in Profiles : GoesOn(p)
BY DEF SupervisorInv, GoesOn, Present, Later, ChildType

-----------------------------------------------------------------------------
(* What each step makes of the invariant: the worker processes *)

\* A worker whose place or capacity becomes another.
LEMMA OneGoesOn ==
    ASSUME SupervisorInv, NEW p \in Profiles, NEW at \in Stages, NEW c,
           child' = [child EXCEPT ![p] = [child[p] EXCEPT !.at = at, !.c = c]],
           Later(child[p].c, c), (at = "absent") = ~Present(p),
           child[p].at \in {"running", "stopping", "exited"} => at \in {"running", "stopping", "exited"}
    PROVE  child' \in [Profiles -> ChildType] /\ \A q \in Profiles : GoesOn(q)
<1>1. child \in [Profiles -> ChildType]
  BY DEF SupervisorInv
<1>2. child'[p] \in ChildType /\ child'[p].at = at /\ child'[p].c = c
  BY <1>1 DEF ChildType, Later
<1>3. ASSUME NEW q \in Profiles, q # p
      PROVE  child'[q] = child[q]
  BY <1>1, <1>3
<1>4. GoesOn(p)
  BY <1>1, <1>2 DEF GoesOn, Present
<1>5. ASSUME NEW q \in Profiles, q # p
      PROVE  GoesOn(q)
  BY <1>1, <1>3, <1>5 DEF GoesOn, Present, Later, ChildType
<1> QED BY <1>1, <1>2, <1>4, <1>5

\* A process that listens stays what it was.
LEMMA ListensStep ==
    ASSUME SupervisorInv, NEW p \in Profiles, Listens(p)
    PROVE  SupervisorInv'
<1>1. child' = [child EXCEPT ![p] = [child[p] EXCEPT !.at = "running", !.c = child[p].c]]
  BY DEF Listens, SupervisorInv, ChildType
<1>2. child' \in [Profiles -> ChildType] /\ \A q \in Profiles : GoesOn(q)
  BY <1>1, OneGoesOn DEF SupervisorInv, Listens, ChildType, Stages, Later, Present
<1>3. Safe'
  BY <1>2, GoesOnSafe DEF Listens, Configured
<1>4. TypeOK'
  BY <1>2, TypeNext DEF Listens, SupervisorInv, TypeOK
<1> QED BY <1>2, <1>3, <1>4 DEF SupervisorInv

\* A limit of the server ends no hold.
LEMMA SyncsStep ==
    ASSUME SupervisorInv, NEW p \in Profiles, Syncs(p)
    PROVE  SupervisorInv'
<1>1. child' = [child EXCEPT ![p] = [child[p] EXCEPT !.at = child[p].at, !.c = Synced(p)]]
  BY DEF Syncs, SupervisorInv, ChildType
<1>2. Later(child[p].c, Synced(p))
  BY SyncedLater DEF SupervisorInv
<1>3. child' \in [Profiles -> ChildType] /\ \A q \in Profiles : GoesOn(q)
  BY <1>1, <1>2, OneGoesOn DEF SupervisorInv, Syncs, ChildType, Stages, Present
<1>4. Safe'
  BY <1>3, GoesOnSafe DEF Syncs, Configured
<1>5. TypeOK'
  BY <1>3, TypeNext DEF Syncs, SupervisorInv, TypeOK
<1> QED BY <1>3, <1>4, <1>5 DEF SupervisorInv

\* A worker that has exited is there until it is reaped.
LEMMA ExitsStep ==
    ASSUME SupervisorInv, NEW p \in Profiles, Exits(p)
    PROVE  SupervisorInv'
<1>1. child' = [child EXCEPT ![p] = [child[p] EXCEPT !.at = "exited", !.c = child[p].c]]
  BY DEF Exits, SupervisorInv, ChildType
<1>2. child' \in [Profiles -> ChildType] /\ \A q \in Profiles : GoesOn(q)
  BY <1>1, OneGoesOn DEF SupervisorInv, Exits, ChildType, Stages, Later, Present
<1>3. Safe'
  BY <1>2, GoesOnSafe DEF Exits, Configured
<1>4. faults' \in 0..MaxFaults
  BY FaultsType DEF SupervisorInv, Exits, Fault
<1>5. TypeOK'
  BY <1>2, <1>4, TypeNext DEF Exits, SupervisorInv, TypeOK
<1> QED BY <1>2, <1>3, <1>5 DEF SupervisorInv

\* A limit from a dashboard can end the drain of an operator: then nothing is finished.
LEMMA RemoteLimitStep ==
    ASSUME SupervisorInv, NEW p \in Profiles, NEW n \in {0, 1}, RemoteLimit(p, n)
    PROVE  SupervisorInv'
<1> DEFINE c == child[p].c
           b == Worker!ApplyLimit(c, n, c.mode, c.ram)
           d == Worker!MarkWorkerSettingsResolved(b)
<1>1. child' = [child EXCEPT ![p] = [child[p] EXCEPT !.at = child[p].at, !.c = d]]
  BY DEF RemoteLimit, SupervisorInv, ChildType
<1>2. Later(c, d)
  <2>1. c \in Worker!Capacity /\ c.mode \in Worker!Modes /\ c.ram \in BOOLEAN
    BY DEF SupervisorInv, ChildType, Worker!Capacity
  <2> HIDE DEF c
  <2>2. Later(c, b)
    BY <2>1, ApplyLimitLater
  <2> HIDE DEF b
  <2>3. Later(b, d)
    BY <2>2, ResolvedLater DEF Later
  <2> QED BY <2>2, <2>3 DEF Later
<1>3. child' \in [Profiles -> ChildType] /\ \A q \in Profiles : GoesOn(q)
  <2> HIDE DEF d
  <2>1. Later(child[p].c, d) /\ child[p].at \in Stages
    BY <1>2 DEF SupervisorInv, ChildType
  <2> QED BY <1>1, <2>1, OneGoesOn DEF Present
<1>4. Safe'
  BY <1>3, GoesOnSafe DEF RemoteLimit, Configured
<1>5. server' \in [Profiles -> {0, 1, Unset}] /\ commands' \in 0..MaxCommands
  BY CommandsType DEF RemoteLimit, SupervisorInv, TypeOK
<1>6. TypeOK'
  BY <1>3, <1>5, TypeNext DEF RemoteLimit, SupervisorInv, TypeOK
<1> QED BY <1>3, <1>4, <1>6 DEF SupervisorInv

\* A worker that is held takes no work, nor does one that finishes.
LEMMA AcceptsStep ==
    ASSUME SupervisorInv, NEW p \in Profiles, Accepts(p)
    PROVE  SupervisorInv'
<1>1. Present(p) /\ ~child[p].c.held /\ ~child[p].c.finishing
  BY DEF Accepts, Answers, Accepting, Worker!MayAdmit, Present
<1>2. child' = child /\ work' = [work EXCEPT ![p] = child[p].id] /\ work \in [Profiles -> {0, 1, 2}]
      /\ child[p].id \in {0, 1, 2}
  BY DEF Accepts, SupervisorInv, TypeOK
<1>3. ~service.maintenance /\ update # "installing"
  BY <1>1 DEF SupervisorInv, Safe, Quiet, Closed
<1>4. Configured
  BY <1>1 DEF SupervisorInv, Safe, Unconfigured
<1>5. PollKnows'
  <2>1. CASE p = "cpu"
    BY <1>1, <1>2, <2>1 DEF PollKnows
  <2>2. CASE p # "cpu"
    BY <1>2, <2>2 DEF PollKnows, SupervisorInv, Safe, Accepts, Busy, Profiles
  <2> QED BY <2>1, <2>2
<1>6. Safe'
  BY <1>2, <1>3, <1>4, <1>5 DEF Safe, SupervisorInv, Accepts, ShutdownCancelled, ReplacedWhenIdle, Quiet, Unconfigured, Configured
<1>7. TypeOK' /\ child' \in [Profiles -> ChildType]
  BY <1>2, TypeNext DEF Accepts, SupervisorInv, TypeOK
<1> QED BY <1>6, <1>7 DEF SupervisorInv

\* Work that ends leaves less of it.
LEMMA FinishesStep ==
    ASSUME SupervisorInv, NEW p \in Profiles, Finishes(p)
    PROVE  SupervisorInv'
<1>1. child' = child /\ work' = [work EXCEPT ![p] = 0] /\ work \in [Profiles -> {0, 1, 2}]
  BY DEF Finishes, SupervisorInv, TypeOK
<1>2. \A q \in Profiles : Busy(q)' => Busy(q)
  BY <1>1 DEF Busy
<1>3. Safe'
  BY <1>1, <1>2 DEF Safe, SupervisorInv, Finishes, ShutdownCancelled, ReplacedWhenIdle, Quiet, Closed,
                    Present, Unconfigured, Configured, PollKnows, Profiles
<1>4. TypeOK' /\ child' \in [Profiles -> ChildType]
  BY <1>1, TypeNext DEF Finishes, SupervisorInv, TypeOK
<1> QED BY <1>3, <1>4 DEF SupervisorInv

-----------------------------------------------------------------------------
(* The requests of the desktop *)

\* Capacities become others in the order in which their profiles are reached.
LEMMA ChangedGoesOn ==
    ASSUME SupervisorInv, NEW done, NEW capacity, Changed(done, capacity),
           \A p \in Profiles : p \in done => Later(child[p].c, capacity[p])
    PROVE  child' \in [Profiles -> ChildType] /\ \A p \in Profiles : GoesOn(p)
<1>1. child \in [Profiles -> ChildType]
  BY DEF SupervisorInv
<1>2. ASSUME NEW p \in Profiles, p \in done
      PROVE  child'[p] \in ChildType /\ child'[p].at = child[p].at /\ child'[p].c = capacity[p]
  BY <1>1, <1>2 DEF Changed, ChildType, Later
<1>3. ASSUME NEW p \in Profiles, p \notin done
      PROVE  child'[p] = child[p]
  BY <1>1, <1>3 DEF Changed
<1>4. child' \in [Profiles -> ChildType]
  BY <1>1, <1>2, <1>3 DEF Changed
<1>5. ASSUME NEW p \in Profiles PROVE GoesOn(p)
  BY <1>1, <1>2, <1>3, <1>5 DEF GoesOn, Present, Later, ChildType
<1> QED BY <1>4, <1>5

\* A shutdown that is ended is all that is ended.
LEMMA DisarmedType ==
    ASSUME SupervisorInv
    PROVE  /\ Disarmed \in Service /\ ~Disarmed.shutdown /\ Disarmed.up = service.up
           /\ Disarmed.maintenance = service.maintenance
BY DEF SupervisorInv, TypeOK, Disarmed, Service

\* One call or one save goes wrong at most.
LEMMA ReachedFaults ==
    ASSUME NEW done, NEW saved, NEW able, Reached(done, saved, able)
    PROVE  faults' = faults \/ (faults < MaxFaults /\ faults' = faults + 1)
BY DEF Reached, May, Fault

\* Settings never become none.
LEMMA ConfigureStep ==
    ASSUME SupervisorInv, NEW value \in Presets, Configure(value)
    PROVE  SupervisorInv'
<1>1. child' \in [Profiles -> ChildType] /\ \A p \in Profiles : GoesOn(p)
  BY UnchangedGoesOn DEF Configure
<1>2. /\ state' \in State
      /\ Configured => Configured'
  <2>1. state \in State /\ value \in Settings /\ value # Nothing
    BY SettingsAreSome DEF SupervisorInv, TypeOK
  <2>2. \/ state' = state
        \/ state' = [state EXCEPT !.active = value, !.limit = TRUE]
        \/ state' = [state EXCEPT !.pending = value, !.limit = TRUE]
    BY DEF Configure
  <2> QED BY <2>1, <2>2 DEF State, Configured
<1>3. Safe'
  BY <1>1, <1>2, DisarmedType, GoesOnSafe DEF Configure
<1>4. commands' \in 0..MaxCommands /\ faults' \in 0..MaxFaults
  BY CommandsType, FaultsType DEF Configure, Command, Fault, SupervisorInv
<1>5. TypeOK'
  BY <1>1, <1>2, <1>4, DisarmedType, TypeNext DEF Configure, SupervisorInv, TypeOK
<1> QED BY <1>1, <1>3, <1>5 DEF SupervisorInv

\* Limits of the desktop end no hold.
LEMMA SetMaxJobsStep ==
    ASSUME SupervisorInv, NEW jobs \in [Profiles -> {0, 1}], NEW done, NEW saved \in BOOLEAN,
           SetMaxJobs(jobs, done, saved)
    PROVE  SupervisorInv'
<1>1. child' \in [Profiles -> ChildType] /\ \A p \in Profiles : GoesOn(p)
  <2>1. \A p \in Profiles : Later(child[p].c, Limited(jobs[p], child[p].c))
    BY LimitedLater DEF SupervisorInv, TypeOK
  <2> QED BY <2>1, ChangedGoesOn DEF SetMaxJobs
<1>2. state' \in State /\ Configured'
  <2>1. state \in State /\ state.active \in Settings
    BY DEF SupervisorInv, TypeOK, SetMaxJobs, Configured, State
  <2>2. \/ state' = state
        \/ state' = [state EXCEPT !.paused = TRUE, !.limit = FALSE]
        \/ state' = [state EXCEPT !.paused = FALSE, !.limit = FALSE, !.active.jobs = jobs]
    BY DEF SetMaxJobs
  <2>3. [state.active EXCEPT !.jobs = jobs] \in Settings
    BY <2>1 DEF Settings
  <2>4. state' \in State /\ state'.active \in Settings
    BY <2>1, <2>2, <2>3 DEF State
  <2> QED BY <2>4, SettingsAreSome DEF Configured
<1>3. Safe'
  BY <1>1, <1>2, DisarmedType, GoesOnSafe DEF SetMaxJobs
<1>4. commands' \in 0..MaxCommands /\ faults' \in 0..MaxFaults
  BY CommandsType, FaultsType, ReachedFaults DEF SetMaxJobs, Command, SupervisorInv
<1>5. server' \in [Profiles -> {0, 1, Unset}]
  BY DEF SetMaxJobs, SupervisorInv, TypeOK
<1>6. TypeOK'
  BY <1>1, <1>2, <1>4, <1>5, DisarmedType, TypeNext DEF SetMaxJobs, SupervisorInv, TypeOK
<1> QED BY <1>1, <1>3, <1>6 DEF SupervisorInv

\* Nor do its pauses.
LEMMA PauseEncodesStep ==
    ASSUME SupervisorInv, NEW ram \in BOOLEAN, NEW done, NEW saved \in BOOLEAN,
           PauseEncodes(ram, done, saved)
    PROVE  SupervisorInv'
<1>1. child' \in [Profiles -> ChildType] /\ \A p \in Profiles : GoesOn(p)
  <2>1. \A p \in Profiles : Later(child[p].c, Worker!SetRAMPaused(child[p].c, ram))
    BY SetRAMPausedLater DEF SupervisorInv, TypeOK
  <2> QED BY <2>1, ChangedGoesOn DEF PauseEncodes
<1>2. state' \in State /\ (Configured => Configured')
  BY DEF PauseEncodes, SupervisorInv, TypeOK, State, Configured
<1>3. Safe'
  BY <1>1, <1>2, GoesOnSafe DEF PauseEncodes
<1>4. commands' \in 0..MaxCommands /\ faults' \in 0..MaxFaults
  BY CommandsType, FaultsType, ReachedFaults DEF PauseEncodes, Command, SupervisorInv
<1>5. TypeOK'
  BY <1>1, <1>2, <1>4, TypeNext DEF PauseEncodes, SupervisorInv, TypeOK
<1> QED BY <1>1, <1>3, <1>5 DEF SupervisorInv

\* What the helper of Setup holds, it holds.
LEMMA SetupHoldsStep ==
    ASSUME SupervisorInv, SetupHolds
    PROVE  SupervisorInv'
<1>1. child' \in [Profiles -> ChildType] /\ \A p \in Profiles : GoesOn(p)
  <2>1. \A p \in Profiles : Later(child[p].c, Worker!HoldAdmission(child[p].c))
    BY HoldAdmissionLater DEF SupervisorInv, TypeOK
  <2> QED BY <2>1, ChangedGoesOn DEF SetupHolds
<1>2. Safe'
  BY <1>1, GoesOnSafe DEF SetupHolds, Configured
<1>3. commands' \in 0..MaxCommands
  BY CommandsType DEF SetupHolds, SupervisorInv
<1>4. TypeOK'
  BY <1>1, <1>3, TypeNext DEF SetupHolds, SupervisorInv, TypeOK
<1> QED BY <1>1, <1>2, <1>4 DEF SupervisorInv

\* A shutdown is armed when both workers answered, and while the loop is not going on.
LEMMA StopAfterCurrentStep ==
    ASSUME SupervisorInv, NEW done, NEW saved \in BOOLEAN, StopAfterCurrent(done, saved)
    PROVE  SupervisorInv'
<1>1. child \in [Profiles -> ChildType]
  BY DEF SupervisorInv
<1>2. ASSUME NEW p \in Profiles
      PROVE  child'[p] \in ChildType /\ child'[p].at = child[p].at /\ (child[p].c.held => child'[p].c.held)
  <2>1. CASE p \in done
    <3>1. child'[p] = [child[p] EXCEPT !.c = Worker!FinishAcceptedJobs(child[p].c)]
      BY <2>1 DEF StopAfterCurrent, Changed
    <3>2. child[p].c \in Worker!Capacity
      BY <1>1 DEF ChildType
    <3> QED BY <1>1, <3>1, <3>2, FinishAcceptedType DEF ChildType
  <2>2. CASE p \notin done
    BY <1>1, <2>2 DEF StopAfterCurrent, Changed
  <2> QED BY <2>1, <2>2
<1>3. child' \in [Profiles -> ChildType]
  BY <1>2 DEF StopAfterCurrent, Changed
<1>4. /\ loop = "idle" /\ UNCHANGED <<work, server, loop, update>>
      /\ service'.maintenance = service.maintenance /\ service' \in Service
      /\ service'.shutdown => saved
      /\ state' \in State /\ Configured' = Configured
  <2>1. state \in State /\ service \in Service
    BY DEF SupervisorInv, TypeOK
  <2>2. loop = "idle" /\ UNCHANGED <<work, server, loop, update>>
    BY DEF StopAfterCurrent, Command
  <2>3. CASE saved
    <3>1. state' = [state EXCEPT !.paused = TRUE] /\ service' = [service EXCEPT !.shutdown = TRUE]
      BY <2>3 DEF StopAfterCurrent
    <3> QED BY <2>1, <2>2, <2>3, <3>1 DEF State, Service, Configured
  <2>4. CASE ~saved
    <3>1. state' = state /\ service' = Disarmed
      BY <2>4 DEF StopAfterCurrent
    <3> QED BY <2>1, <2>2, <3>1, DisarmedType DEF Configured
  <2> QED BY <2>3, <2>4
<1>5. ShutdownCancelled'
  <2>1. CASE saved
    <3>1. done = Profiles /\ done \subseteq Reachable
      BY <2>1 DEF StopAfterCurrent, Reached
    <3> QED BY <1>2, <3>1 DEF ShutdownCancelled, Reachable, Answers
  <2>2. CASE ~saved
    BY <1>4, <2>2 DEF ShutdownCancelled
  <2> QED BY <2>1, <2>2
<1>6. ReplacedWhenIdle' /\ PollKnows'
  BY <1>4 DEF SupervisorInv, Safe, ReplacedWhenIdle, PollKnows, Busy
<1>7. Quiet' /\ Unconfigured'
  BY <1>2, <1>4 DEF SupervisorInv, Safe, Quiet, Closed, Unconfigured, Present, Busy
<1>8. commands' \in 0..MaxCommands /\ faults' \in 0..MaxFaults
  BY CommandsType, FaultsType, ReachedFaults DEF StopAfterCurrent, Command, SupervisorInv
<1>9. TypeOK'
  BY <1>3, <1>4, <1>8, TypeNext DEF SupervisorInv, TypeOK
<1> QED BY <1>3, <1>5, <1>6, <1>7, <1>9 DEF SupervisorInv, Safe

\* The service is left to Setup when nobody has work, and nobody will take any.
LEMMA PrepareUpgradeStep ==
    ASSUME SupervisorInv, PrepareUpgrade
    PROVE  SupervisorInv'
<1>1. child' \in [Profiles -> ChildType] /\ \A p \in Profiles : GoesOn(p)
  <2>1. CASE Updating
    BY <2>1, UnchangedGoesOn DEF PrepareUpgrade
  <2>2. CASE ~Updating
    <3>1. \A p \in Profiles : Later(child[p].c, Worker!DrainAcceptedJobs(child[p].c))
      BY DrainAcceptedLater DEF SupervisorInv, TypeOK
    <3> QED BY <2>2, <3>1, ChangedGoesOn DEF PrepareUpgrade
  <2> QED BY <2>1, <2>2
<1>2. /\ UNCHANGED <<state, work, server, loop, update, faults>>
      /\ service' \in Service /\ ~service'.shutdown
  BY DisarmedType DEF PrepareUpgrade, Service
<1>3. commands' \in 0..MaxCommands
  BY CommandsType DEF PrepareUpgrade, Command, SupervisorInv
<1>4. TypeOK'
  BY <1>1, <1>2, <1>3, TypeNext DEF SupervisorInv, TypeOK
<1>5. CASE service'.maintenance => service.maintenance
  BY <1>1, <1>2, <1>4, <1>5, GoesOnSafe DEF SupervisorInv, Configured
<1>6. CASE service'.maintenance /\ ~service.maintenance
  <2>1. ~Updating /\ \A p \in Profiles : IdleProfile(p)
    BY <1>6, DisarmedType DEF PrepareUpgrade, Service
  <2>2. \A p \in Profiles : ~Busy(p)
    BY <2>1 DEF IdleProfile, SupervisorInv, Safe, Unconfigured
  <2>3. \A p \in Profiles : Closed(p)'
    <3>1. ASSUME NEW p \in Profiles, Answers(p)
          PROVE  child'[p].c.held
      <4>1. child'[p].c = Worker!DrainAcceptedJobs(child[p].c)
        BY <2>1, <3>1 DEF PrepareUpgrade, Changed, Reachable, SupervisorInv, ChildType
      <4> QED BY <4>1, DrainAcceptedLater DEF SupervisorInv, TypeOK
    <3> QED BY <1>1, <2>1, <3>1 DEF IdleProfile, Closed, GoesOn
  <2>4. Unconfigured' /\ PollKnows' /\ ShutdownCancelled'
    BY <1>1, <1>2, <2>2 DEF SupervisorInv, Safe, Unconfigured, PollKnows, ShutdownCancelled, GoesOn, Busy,
                            Configured, Profiles
  <2>5. ReplacedWhenIdle' /\ Quiet'
    BY <1>2, <2>1, <2>2, <2>3 DEF ReplacedWhenIdle, Quiet, Busy, Updating
  <2> QED BY <1>1, <1>4, <2>4, <2>5 DEF SupervisorInv, Safe
<1> QED BY <1>5, <1>6

-----------------------------------------------------------------------------
(* The service, its power, and the manager of updates *)

\* A service that begins anew finds no worker and has told nobody anything.
LEMMA RestartedSafe ==
    ASSUME SupervisorInv, child' = [p \in Profiles |-> Absent], service' \in Service,
           ~service'.shutdown, ~service'.maintenance, work' = work, Configured' = Configured,
           loop' = "idle", update' = "installing" => update = "installing"
    PROVE  child' \in [Profiles -> ChildType] /\ Safe'
<1>1. Absent \in ChildType /\ Absent.at = "absent"
  BY AbsentType DEF Absent, ChildType, Stages
<1>2. \A p \in Profiles : child'[p] = Absent
  OBVIOUS
<1>3. \A p \in Profiles : ~Present(p)' /\ Closed(p)'
  BY <1>1, <1>2 DEF Present, Closed
<1>4. ShutdownCancelled' /\ ReplacedWhenIdle' /\ PollKnows'
  BY DEF SupervisorInv, Safe, ShutdownCancelled, ReplacedWhenIdle, PollKnows, Busy
<1>5. Quiet' /\ Unconfigured'
  BY <1>3 DEF SupervisorInv, Safe, Quiet, Unconfigured, Busy
<1> QED BY <1>1, <1>4, <1>5 DEF Safe

\* A service that was started has no shutdown before it, and is nobody's.
LEMMA BootedType == Booted \in Service /\ ~Booted.shutdown /\ ~Booted.maintenance
BY DEF Booted, Service

\* The steps that start the service anew.
LEMMA RestartedStep ==
    ASSUME SupervisorInv, Restarted, update' \in {"none", "pending", "installing", "installed"},
           update' = "installing" => update = "installing",
           commands' = commands, faults' = faults \/ (faults < MaxFaults /\ faults' = faults + 1)
    PROVE  SupervisorInv'
<1>1. child' \in [Profiles -> ChildType] /\ Safe'
  BY RestartedSafe, BootedType DEF Restarted, Configured
<1>2. faults' \in 0..MaxFaults
  BY FaultsType DEF SupervisorInv
<1>3. TypeOK'
  BY <1>1, <1>2, BootedType, TypeNext DEF Restarted, SupervisorInv, TypeOK
<1> QED BY <1>1, <1>3 DEF SupervisorInv

\* Setup, a crash and an installation are such steps.
LEMMA RestartSteps ==
    ASSUME SupervisorInv, SetupReplaces \/ ServiceRestarts \/ UpdateInstalls
    PROVE  SupervisorInv'
<1>1. CASE SetupReplaces
  BY <1>1, RestartedStep DEF SetupReplaces, SupervisorInv, TypeOK
<1>2. CASE ServiceRestarts
  BY <1>2, RestartedStep DEF ServiceRestarts, Fault, SupervisorInv, TypeOK
<1>3. CASE UpdateInstalls
  BY <1>3, RestartedStep DEF UpdateInstalls, Fault
<1> QED BY <1>1, <1>2, <1>3

\* The machine stops with its workers, or the attempt is over.
LEMMA PowerOffStep ==
    ASSUME SupervisorInv, PowerOff
    PROVE  SupervisorInv'
<1>1. CASE child' = [p \in Profiles |-> Absent] /\ service' = [Booted EXCEPT !.up = FALSE]
           /\ loop' = "idle" /\ UNCHANGED faults
  <2>1. service' \in Service /\ ~service'.shutdown /\ ~service'.maintenance
    BY <1>1, BootedType DEF Service
  <2>2. child' \in [Profiles -> ChildType] /\ Safe'
    BY <1>1, <2>1, RestartedSafe DEF PowerOff, Configured
  <2>3. TypeOK'
    BY <1>1, <2>1, <2>2, TypeNext DEF PowerOff, SupervisorInv, TypeOK
  <2> QED BY <2>2, <2>3 DEF SupervisorInv
<1>2. CASE Fault("power") /\ service' = Disarmed /\ loop' = "update" /\ UNCHANGED child
  <2>1. child' \in [Profiles -> ChildType] /\ \A p \in Profiles : GoesOn(p)
    BY <1>2, UnchangedGoesOn
  <2>2. Safe'
    BY <1>2, <2>1, DisarmedType, GoesOnSafe DEF PowerOff, Configured
  <2>3. faults' \in 0..MaxFaults
    BY <1>2, FaultsType DEF Fault, SupervisorInv
  <2>4. TypeOK'
    BY <1>2, <2>1, <2>3, DisarmedType, TypeNext DEF PowerOff, SupervisorInv, TypeOK
  <2> QED BY <2>1, <2>2, <2>4 DEF SupervisorInv
<1> QED BY <1>1, <1>2 DEF PowerOff

\* It starts again without any.
LEMMA PowerOnStep ==
    ASSUME SupervisorInv, PowerOn
    PROVE  SupervisorInv'
<1>1. child' \in [Profiles -> ChildType] /\ \A p \in Profiles : GoesOn(p)
  BY UnchangedGoesOn DEF PowerOn
<1>2. Safe'
  BY <1>1, BootedType, GoesOnSafe DEF PowerOn, Configured
<1>3. TypeOK'
  BY <1>1, BootedType, TypeNext DEF PowerOn, SupervisorInv, TypeOK
<1> QED BY <1>1, <1>2, <1>3 DEF SupervisorInv

\* An update that is found waits.
LEMMA UpdateFoundStep ==
    ASSUME SupervisorInv, UpdateFound
    PROVE  SupervisorInv'
<1>1. child' \in [Profiles -> ChildType] /\ \A p \in Profiles : GoesOn(p)
  BY UnchangedGoesOn DEF UpdateFound
<1>2. Safe'
  BY <1>1, GoesOnSafe DEF UpdateFound, Configured
<1>3. commands' \in 0..MaxCommands
  BY CommandsType DEF UpdateFound, SupervisorInv
<1>4. TypeOK'
  BY <1>1, <1>3, TypeNext DEF UpdateFound, SupervisorInv, TypeOK
<1> QED BY <1>1, <1>2, <1>4 DEF SupervisorInv

\* One that is over leaves the workers to the loop.
LEMMA UpdateClearsStep ==
    ASSUME SupervisorInv, UpdateClears
    PROVE  SupervisorInv'
<1>1. child' \in [Profiles -> ChildType] /\ \A p \in Profiles : GoesOn(p)
  BY UnchangedGoesOn DEF UpdateClears
<1>2. Safe'
  BY <1>1, GoesOnSafe DEF UpdateClears, Configured
<1>3. TypeOK'
  BY <1>1, TypeNext DEF UpdateClears, SupervisorInv, TypeOK
<1> QED BY <1>1, <1>2, <1>3 DEF SupervisorInv

\* The installation begins when both profiles were there, held and idle.
LEMMA DrainForUpdateStep ==
    ASSUME SupervisorInv, DrainForUpdate
    PROVE  SupervisorInv'
<1> DEFINE missing(p) == ~Answers(p) /\ (Configured \/ Present(p))
           held       == IF missing("cpu") THEN {} ELSE Reachable
           there      == \A p \in Profiles : ~missing(p) /\ ~Busy(p)
<1>1. /\ Changed(held, [p \in Profiles |-> Worker!HoldAdmission(child[p].c)])
      /\ update' = IF there THEN "installing" ELSE update
  BY DEF DrainForUpdate
<1>2. child' \in [Profiles -> ChildType] /\ \A p \in Profiles : GoesOn(p)
  <2>1. \A p \in Profiles : Later(child[p].c, Worker!HoldAdmission(child[p].c))
    BY HoldAdmissionLater DEF SupervisorInv, TypeOK
  <2> HIDE DEF held
  <2> QED BY <1>1, <2>1, ChangedGoesOn
<1>3. /\ UNCHANGED <<state, work, server, loop, commands, faults>>
      /\ service' = Disarmed /\ ~service.maintenance /\ update = "pending"
  BY DEF DrainForUpdate
<1>4. TypeOK'
  BY <1>1, <1>2, <1>3, DisarmedType, TypeNext DEF SupervisorInv, TypeOK
<1>5. CASE ~there
  <2>1. update' = update
    BY <1>1, <1>5
  <2> QED BY <1>2, <1>3, <1>4, <2>1, DisarmedType, GoesOnSafe DEF SupervisorInv, Configured
<1>6. CASE there
  <2>1. \A p \in Profiles : ~Busy(p) /\ (Answers(p) \/ ~Present(p))
    BY <1>6
  <2>2. held = Reachable
    BY <1>6 DEF Profiles
  <2>3. \A p \in Profiles : Closed(p)'
    <3>1. ASSUME NEW p \in Profiles, Answers(p)
          PROVE  child'[p].c.held
      <4>1. child'[p].c = Worker!HoldAdmission(child[p].c)
        BY <1>1, <2>2, <3>1 DEF Changed, Reachable, SupervisorInv, ChildType
      <4> QED BY <4>1, HoldAdmissionLater DEF SupervisorInv, TypeOK
    <3> QED BY <1>2, <2>1, <3>1 DEF Closed, GoesOn
  <2> HIDE DEF missing, held, there
  <2>4. Unconfigured' /\ PollKnows' /\ ShutdownCancelled'
    BY <1>2, <1>3, <2>1, DisarmedType DEF SupervisorInv, Safe, Unconfigured, PollKnows, ShutdownCancelled, GoesOn, Busy,
                            Configured, Profiles
  <2>5. ReplacedWhenIdle' /\ Quiet'
    BY <1>3, <2>1, <2>3, DisarmedType DEF ReplacedWhenIdle, Quiet, Busy
  <2> QED BY <1>2, <1>4, <2>4, <2>5 DEF SupervisorInv, Safe
<1> QED BY <1>5, <1>6

-----------------------------------------------------------------------------
(* The loop *)

\* A worker that is started has accepted nothing, and finishes nothing.
LEMMA LaunchedType ==
    ASSUME SupervisorInv, NEW p \in Profiles, NEW hold \in BOOLEAN
    PROVE  /\ Launched(p, hold) \in ChildType /\ Launched(p, hold).at = "starting"
           /\ ~Launched(p, hold).c.finishing
           /\ hold => Launched(p, hold).c.held
<1> DEFINE new == Fresh(p, state.active.id, Limit(state, p), state.ram)
<1>1. state.active.id \in {0, 1, 2} /\ state.active.jobs[p] \in {0, 1} /\ state.ram \in BOOLEAN
  BY DEF SupervisorInv, TypeOK, State, Settings, Nothing
<1>2. Limit(state, p) \in {0, 1}
  BY <1>1 DEF Limit
<1>3. new \in ChildType /\ new.at = "starting" /\ ~new.c.finishing
  BY <1>1, <1>2, NewCapacityType DEF Fresh, ChildType, Stages
<1>4. Launched(p, hold) = IF hold THEN [new EXCEPT !.c = Worker!HoldAdmission(@)] ELSE new
  BY DEF Launched
<1> HIDE DEF new
<1>5. new.c \in Worker!Capacity
  BY <1>3 DEF ChildType
<1>6. Later(new.c, Worker!HoldAdmission(new.c)) /\ Worker!HoldAdmission(new.c).held
  BY <1>5, HoldAdmissionLater
<1>7. Launched(p, hold) = IF hold THEN [new EXCEPT !.c = Worker!HoldAdmission(new.c)] ELSE new
  BY <1>4
<1> QED BY <1>3, <1>6, <1>7 DEF ChildType, Later

\* Workers that are missing are started, held if anybody may be replacing them.
LEMMA LaunchSafe ==
    ASSUME SupervisorInv, Configured, Configured', NEW hold \in BOOLEAN,
           child' \in [Profiles -> ChildType],
           \A p \in Profiles : Present(p) => GoesOn(p),
           \A p \in Profiles : ~Present(p) => child'[p] = Launched(p, hold),
           hold \/ ~(service.maintenance \/ update = "installing"),
           work' = work, service'.shutdown = service.shutdown, 
           service'.maintenance = service.maintenance, update' = update, loop' # "poll"
    PROVE  Safe'
<1>1. ShutdownCancelled'
  <2>1. service.shutdown => \A p \in Profiles : Present(p)
    BY DEF SupervisorInv, Safe, ShutdownCancelled, Present
  <2> QED BY <2>1 DEF SupervisorInv, Safe, ShutdownCancelled, GoesOn
<1>2. ReplacedWhenIdle' /\ PollKnows'
  BY DEF SupervisorInv, Safe, ReplacedWhenIdle, PollKnows, Busy
<1>3. Quiet'
  <2>1. CASE hold
    <3>1. \A p \in Profiles : ~Present(p) => Closed(p)'
      BY <2>1, LaunchedType DEF Closed
    <3>2. \A p \in Profiles : Present(p) /\ Closed(p) => Closed(p)'
      BY DEF Closed, GoesOn, Later
    <3> QED BY <3>1, <3>2 DEF SupervisorInv, Safe, Quiet
  <2>2. CASE ~hold
    BY <2>2 DEF Quiet
  <2> QED BY <2>1, <2>2
<1>4. Unconfigured'
  BY DEF Unconfigured
<1> QED BY <1>1, <1>2, <1>3, <1>4 DEF Safe

\* The answer of the CPU profile is true when it is given.
LEMMA BeginStep ==
    ASSUME SupervisorInv, Begin
    PROVE  SupervisorInv'
<1>1. child' \in [Profiles -> ChildType] /\ \A p \in Profiles : GoesOn(p)
  BY UnchangedGoesOn DEF Begin
<1>2. /\ service' \in {service, Disarmed} /\ loop' \in {"polled", "poll", "update"}
      /\ loop' = "poll" => ~Busy("cpu")
      /\ UNCHANGED <<state, child, work, server, update, commands, faults>>
  BY DEF Begin
<1>3. ShutdownCancelled' /\ ReplacedWhenIdle' /\ Quiet' /\ Unconfigured'
  BY <1>1, <1>2, DisarmedType DEF SupervisorInv, Safe, ShutdownCancelled, ReplacedWhenIdle, Quiet, Closed,
                                  Present, Unconfigured, Configured, Busy
<1>4. PollKnows'
  BY <1>2 DEF PollKnows, Busy
<1>5. TypeOK'
  BY <1>1, <1>2, DisarmedType, TypeNext DEF SupervisorInv, TypeOK
<1> QED BY <1>1, <1>3, <1>4, <1>5 DEF SupervisorInv, Safe

\* The GPU profile ends the shutdown, or asks for another try.
LEMMA PollSteps ==
    ASSUME SupervisorInv, PollBusy \/ Poll
    PROVE  SupervisorInv'
<1>1. /\ service' \in {service, Disarmed} /\ loop' = "update"
      /\ UNCHANGED <<state, child, work, server, update, commands, faults>>
  BY DEF PollBusy, Poll
<1>2. child' \in [Profiles -> ChildType] /\ \A p \in Profiles : GoesOn(p)
  BY <1>1, UnchangedGoesOn
<1>3. Safe'
  BY <1>1, <1>2, DisarmedType, GoesOnSafe DEF Configured
<1>4. TypeOK'
  BY <1>1, <1>2, DisarmedType, TypeNext DEF SupervisorInv, TypeOK
<1> QED BY <1>2, <1>3, <1>4 DEF SupervisorInv

\* Workers that are started for an update are held from the start.
LEMMA HoldForUpdateStep ==
    ASSUME SupervisorInv, HoldForUpdate
    PROVE  SupervisorInv'
<1>1. child \in [Profiles -> ChildType] /\ service \in Service
  BY DEF SupervisorInv, TypeOK
<1>2. loop' = "apply" /\ UNCHANGED <<state, work, server, update, commands, faults>>
  BY DEF HoldForUpdate
<1>3. CASE Updating
  <2>1. /\ service' = [service EXCEPT !.held = TRUE]
        /\ child' = IF ~Configured \/ service.maintenance THEN child
                    ELSE [p \in Profiles |->
                           IF ~Present(p) THEN Launched(p, TRUE)
                           ELSE IF Answers(p) THEN [child[p] EXCEPT !.c = Worker!HoldAdmission(@)]
                           ELSE child[p]]
    BY <1>3 DEF HoldForUpdate
  <2>2. /\ service' \in Service /\ service'.shutdown = service.shutdown
        /\ service'.maintenance = service.maintenance
    BY <1>1, <2>1 DEF Service
  <2>3. CASE ~Configured \/ service.maintenance
    <3>1. child' \in [Profiles -> ChildType] /\ \A p \in Profiles : GoesOn(p)
      BY <2>1, <2>3, UnchangedGoesOn
    <3>2. Safe'
      BY <1>2, <2>2, <3>1, GoesOnSafe DEF Configured
    <3>3. TypeOK'
      BY <1>2, <2>2, <3>1, TypeNext DEF SupervisorInv, TypeOK
    <3> QED BY <3>1, <3>2, <3>3 DEF SupervisorInv
  <2>4. CASE Configured /\ ~service.maintenance
    <3>1. ASSUME NEW p \in Profiles
          PROVE  /\ child'[p] \in ChildType
                 /\ Present(p) => GoesOn(p)
                 /\ ~Present(p) => child'[p] = Launched(p, TRUE)
      <4>1. CASE ~Present(p)
        BY <2>1, <2>4, <4>1, LaunchedType
      <4>2. CASE Answers(p)
        <5>1. child'[p] = [child[p] EXCEPT !.c = Worker!HoldAdmission(child[p].c)]
          BY <2>1, <2>4, <4>2 DEF Present, Answers
        <5>2. Later(child[p].c, Worker!HoldAdmission(child[p].c))
          BY <1>1, HoldAdmissionLater DEF ChildType
        <5> QED BY <1>1, <4>2, <5>1, <5>2 DEF ChildType, GoesOn, Present, Answers, Later
      <4>3. CASE Present(p) /\ ~Answers(p)
        BY <1>1, <2>1, <2>4, <4>3 DEF ChildType, GoesOn, Present, Later
      <4> QED BY <4>1, <4>2, <4>3
    <3>2. child' \in [Profiles -> ChildType]
      BY <2>1, <2>4, <3>1
    <3>3. Safe'
      BY <1>2, <2>2, <2>4, <3>1, <3>2, LaunchSafe DEF Configured
    <3>4. TypeOK'
      BY <1>2, <2>2, <3>2, TypeNext DEF SupervisorInv, TypeOK
    <3> QED BY <3>2, <3>3, <3>4 DEF SupervisorInv
  <2> QED BY <2>3, <2>4
<1>4. CASE ~Updating
  <2>1. \/ service' = [service EXCEPT !.held = ~AllStopped] /\ child' = [p \in Profiles |-> Stopped(p)]
        \/ service' = service /\ child' = child
    BY <1>4 DEF HoldForUpdate
  <2>2. /\ service' \in Service /\ service'.shutdown = service.shutdown
        /\ service'.maintenance = service.maintenance
    BY <1>1, <2>1 DEF Service
  <2>3. child' \in [Profiles -> ChildType] /\ \A p \in Profiles : GoesOn(p)
    <3>1. CASE child' = [p \in Profiles |-> Stopped(p)]
      <4>1. ASSUME NEW p \in Profiles PROVE child'[p] \in ChildType /\ GoesOn(p)
        BY <1>1, <3>1 DEF Stopped, Answers, ChildType, Stages, GoesOn, Present, Later
      <4> QED BY <3>1, <4>1
    <3>2. CASE child' = child
      BY <3>2, UnchangedGoesOn
    <3> QED BY <2>1, <3>1, <3>2
  <2>4. Safe'
    BY <1>2, <2>2, <2>3, GoesOnSafe DEF Configured
  <2>5. TypeOK'
    BY <1>2, <2>2, <2>3, TypeNext DEF SupervisorInv, TypeOK
  <2> QED BY <2>3, <2>4, <2>5 DEF SupervisorInv
<1> QED BY <1>3, <1>4

\* There is nothing to apply.
LEMMA ApplyNothingStep ==
    ASSUME SupervisorInv, ApplyNothing
    PROVE  SupervisorInv'
<1>1. child' \in [Profiles -> ChildType] /\ \A p \in Profiles : GoesOn(p)
  BY UnchangedGoesOn DEF ApplyNothing
<1>2. Safe'
  BY <1>1, GoesOnSafe DEF ApplyNothing, Configured
<1>3. TypeOK'
  BY <1>1, TypeNext DEF ApplyNothing, SupervisorInv, TypeOK
<1> QED BY <1>1, <1>2, <1>3 DEF SupervisorInv

\* The limits of the settings are numbers a server can have.
LEMMA LimitType ==
    ASSUME SupervisorInv
    PROVE  \A p \in Profiles : Limit(state, p) \in {0, 1}
BY DEF SupervisorInv, TypeOK, State, Settings, Nothing, Limit

\* Limits are saved while no worker is there.
LEMMA SaveLimitsStep ==
    ASSUME SupervisorInv, NEW done, NEW saved \in BOOLEAN, SaveLimits(done, saved)
    PROVE  SupervisorInv'
<1>1. child' \in [Profiles -> ChildType] /\ \A p \in Profiles : GoesOn(p)
  BY UnchangedGoesOn DEF SaveLimits
<1>2. state' \in State /\ Configured' = Configured
  BY DEF SaveLimits, SupervisorInv, TypeOK, State, Configured
<1>3. Safe'
  BY <1>1, <1>2, GoesOnSafe DEF SaveLimits
<1>4. server' \in [Profiles -> {0, 1, Unset}] /\ faults' \in 0..MaxFaults
  <2>1. server' \in [Profiles -> {0, 1, Unset}]
    BY LimitType DEF SaveLimits, SupervisorInv, TypeOK
  <2> QED BY <2>1, FaultsType DEF SaveLimits, SupervisorInv, May, Fault
<1>5. TypeOK'
  BY <1>1, <1>2, <1>4, TypeNext DEF SaveLimits, SupervisorInv, TypeOK
<1> QED BY <1>1, <1>3, <1>5 DEF SupervisorInv

\* Limits that are sent end no hold.
LEMMA ApplyLimitsStep ==
    ASSUME SupervisorInv, NEW done, NEW saved \in BOOLEAN, ApplyLimits(done, saved)
    PROVE  SupervisorInv'
<1>1. child' \in [Profiles -> ChildType] /\ \A p \in Profiles : GoesOn(p)
  <2>1. \A p \in Profiles : Later(child[p].c, Limited(Limit(state, p), child[p].c))
    BY LimitedLater, LimitType DEF SupervisorInv, TypeOK
  <2> QED BY <2>1, ChangedGoesOn DEF ApplyLimits
<1>2. state' \in State /\ Configured' = Configured
  BY DEF ApplyLimits, SupervisorInv, TypeOK, State, Configured
<1>3. Safe'
  BY <1>1, <1>2, GoesOnSafe DEF ApplyLimits
<1>4. server' \in [Profiles -> {0, 1, Unset}] /\ faults' \in 0..MaxFaults
  <2>1. server' \in [Profiles -> {0, 1, Unset}]
    BY LimitType DEF ApplyLimits, SupervisorInv, TypeOK
  <2> QED BY <2>1, FaultsType DEF ApplyLimits, SupervisorInv, May, Fault
<1>5. TypeOK'
  BY <1>1, <1>2, <1>4, TypeNext DEF ApplyLimits, SupervisorInv, TypeOK
<1> QED BY <1>1, <1>3, <1>5 DEF SupervisorInv

\* Settings that waited are settings.
LEMMA PromotedType ==
    ASSUME SupervisorInv, state.pending # Nothing
    PROVE  Promoted \in State /\ Promoted.active # Nothing
BY SettingsAreSome DEF SupervisorInv, TypeOK, State, Promoted

\* Workers drain for settings that wait, and are told to stop.
LEMMA DrainForSettingsStep ==
    ASSUME SupervisorInv, NEW saved \in BOOLEAN, DrainForSettings(saved)
    PROVE  SupervisorInv'
<1> DEFINE there   == {p \in Profiles : Present(p)}
           drained == service.drain \/ \A p \in there : Answers(p)
           idle    == drained /\ \A p \in there : Answers(p) /\ ~Busy(p)
           ready   == service.ready \/ idle
           due     == ready /\ AllStopped
           c(p)    == IF ~service.drain /\ Answers(p)
                      THEN [child[p] EXCEPT !.c = Worker!DrainAcceptedJobs(@)] ELSE child[p]
<1>1. /\ child' = [p \in Profiles |-> IF idle /\ Answers(p) THEN [c(p) EXCEPT !.at = "stopping"] ELSE c(p)]
      /\ service' = [service EXCEPT !.drain = drained /\ ~due, !.ready = ready /\ ~due]
      /\ state' = IF due /\ saved THEN Promoted ELSE state
      /\ state.pending # Nothing /\ loop' = "start"
      /\ UNCHANGED <<work, server, update, commands>>
  BY DEF DrainForSettings
<1>2. child \in [Profiles -> ChildType] /\ service \in Service /\ state \in State
  BY DEF SupervisorInv, TypeOK
<1>3. ASSUME NEW p \in Profiles
      PROVE  c(p) \in ChildType /\ c(p).at = child[p].at /\ Later(child[p].c, c(p).c)
  <2>1. child[p] \in ChildType /\ child[p].c \in Worker!Capacity
    BY <1>2 DEF ChildType
  <2>2. Later(child[p].c, Worker!DrainAcceptedJobs(child[p].c)) /\ Later(child[p].c, child[p].c)
    BY <2>1, DrainAcceptedLater DEF Later
  <2>3. CASE ~service.drain /\ Answers(p)
    <3>1. c(p) = [child[p] EXCEPT !.c = Worker!DrainAcceptedJobs(child[p].c)]
      BY <2>3
    <3> HIDE DEF c
    <3> QED BY <2>1, <2>2, <3>1 DEF ChildType, Later
  <2>4. CASE ~(~service.drain /\ Answers(p))
    BY <2>1, <2>2, <2>4
  <2> QED BY <2>3, <2>4
<1>4. (drained /\ ~due) \in BOOLEAN /\ (ready /\ ~due) \in BOOLEAN
  OBVIOUS
<1> HIDE DEF c, idle, drained, ready, due
<1>5. child' \in [Profiles -> ChildType] /\ \A p \in Profiles : GoesOn(p)
  <2>1. ASSUME NEW p \in Profiles PROVE child'[p] \in ChildType /\ GoesOn(p)
    <3>1. CASE idle /\ Answers(p)
      <4>1. child'[p] = [c(p) EXCEPT !.at = "stopping"]
        BY <1>1, <3>1
      <4> QED BY <1>3, <3>1, <4>1 DEF ChildType, Stages, GoesOn, Present, Answers
    <3>2. CASE ~(idle /\ Answers(p))
      <4>1. child'[p] = c(p)
        BY <1>1, <3>2
      <4> QED BY <1>3, <4>1 DEF GoesOn, Present
    <3> QED BY <3>1, <3>2
  <2> QED BY <1>1, <2>1
<1>6. /\ service' \in Service /\ service'.shutdown = service.shutdown
      /\ service'.maintenance = service.maintenance
  BY <1>1, <1>2, <1>4 DEF Service
<1>7. state' \in State /\ (Configured => Configured')
  BY <1>1, <1>2, PromotedType DEF Configured
<1>8. Safe'
  BY <1>1, <1>5, <1>6, <1>7, GoesOnSafe
<1>9. faults' \in 0..MaxFaults
  BY FaultsType DEF DrainForSettings, SupervisorInv, May, Fault
<1>10. TypeOK'
  BY <1>1, <1>5, <1>6, <1>7, <1>9, TypeNext DEF SupervisorInv, TypeOK
<1> QED BY <1>5, <1>8, <1>10 DEF SupervisorInv

\* Workers are started when nobody replaces them.
LEMMA StartWorkersStep ==
    ASSUME SupervisorInv, StartWorkers
    PROVE  SupervisorInv'
<1>1. child \in [Profiles -> ChildType]
  BY DEF SupervisorInv
<1>2. loop' = "idle" /\ UNCHANGED <<state, work, server, service, update, commands, faults>>
  BY DEF StartWorkers
<1>3. CASE child' = child
  <2>1. child' \in [Profiles -> ChildType] /\ \A p \in Profiles : GoesOn(p)
    BY <1>3, UnchangedGoesOn
  <2>2. Safe'
    BY <1>2, <2>1, GoesOnSafe DEF Configured
  <2>3. TypeOK'
    BY <1>2, <2>1, TypeNext DEF SupervisorInv, TypeOK
  <2> QED BY <2>1, <2>2, <2>3 DEF SupervisorInv
<1>4. CASE Applying /\ child' = [p \in Profiles |-> IF Present(p) THEN child[p] ELSE Launched(p, FALSE)]
  <2>1. ASSUME NEW p \in Profiles
        PROVE  /\ child'[p] \in ChildType
               /\ Present(p) => GoesOn(p)
               /\ ~Present(p) => child'[p] = Launched(p, FALSE)
    BY <1>1, <1>4, LaunchedType DEF ChildType, GoesOn, Present, Later
  <2>2. child' \in [Profiles -> ChildType]
    BY <1>4, <2>1
  <2>3. Configured /\ ~service.maintenance /\ update = "none"
    BY <1>4 DEF Applying, Updating
  <2>4. Safe'
    BY <1>2, <2>1, <2>2, <2>3, LaunchSafe DEF Configured
  <2>5. TypeOK'
    BY <1>2, <2>2, TypeNext DEF SupervisorInv, TypeOK
  <2> QED BY <2>2, <2>4, <2>5 DEF SupervisorInv
<1> QED BY <1>3, <1>4 DEF StartWorkers

\* The exit of a worker ends a shutdown that was armed.
LEMMA ReapStep ==
    ASSUME SupervisorInv, NEW p \in Profiles, NEW saved \in BOOLEAN, Reap(p, saved)
    PROVE  SupervisorInv'
<1> DEFINE due == /\ state.pending # Nothing /\ service.ready
                  /\ \A q \in Profiles \ {p} : ~Present(q)
<1>1. /\ child' = [child EXCEPT ![p] = Absent] /\ loop = "idle"
      /\ state' = IF due /\ saved THEN Promoted ELSE state
      /\ service' = [Disarmed EXCEPT !.ready = @ /\ ~due, !.drain = @ /\ ~due]
      /\ UNCHANGED <<work, server, loop, update, commands>>
  BY DEF Reap, In
<1>2. child \in [Profiles -> ChildType] /\ state \in State
  BY DEF SupervisorInv, TypeOK
<1>3. Absent \in ChildType /\ Absent.at = "absent"
  BY AbsentType DEF Absent, ChildType, Stages
<1>4. child' \in [Profiles -> ChildType]
  BY <1>1, <1>2, <1>3
<1>5. \A q \in Profiles : ~Present(q)' \/ child'[q] = child[q]
  BY <1>1, <1>2, <1>3 DEF Present
<1>6. state' \in State /\ (Configured => Configured')
  BY <1>1, <1>2, PromotedType DEF Configured
<1>7. service' \in Service /\ ~service'.shutdown /\ service'.maintenance = service.maintenance
  <2>1. Disarmed \in Service
    BY DisarmedType
  <2>2. (Disarmed.ready /\ ~due) \in BOOLEAN /\ (Disarmed.drain /\ ~due) \in BOOLEAN
    OBVIOUS
  <2>3. service' = [Disarmed EXCEPT !.ready = Disarmed.ready /\ ~due, !.drain = Disarmed.drain /\ ~due]
    BY <1>1, <2>1 DEF Service
  <2> HIDE DEF due
  <2> QED BY <2>1, <2>2, <2>3, DisarmedType DEF Service
<1> HIDE DEF due
<1>8. ShutdownCancelled' /\ ReplacedWhenIdle' /\ PollKnows'
  BY <1>1, <1>7 DEF SupervisorInv, Safe, ShutdownCancelled, ReplacedWhenIdle, PollKnows, Busy
<1>9. Quiet' /\ Unconfigured'
  BY <1>1, <1>5, <1>6, <1>7 DEF SupervisorInv, Safe, Quiet, Closed, Unconfigured, Present, Busy
<1>10. faults' \in 0..MaxFaults
  BY FaultsType DEF Reap, SupervisorInv, May, Fault
<1>11. TypeOK'
  BY <1>1, <1>4, <1>6, <1>7, <1>10, TypeNext DEF SupervisorInv, TypeOK
<1> QED BY <1>4, <1>8, <1>9, <1>11 DEF SupervisorInv, Safe

-----------------------------------------------------------------------------
(* The theorems *)

\* The service begins without workers and without work.
LEMMA SupervisorInit == Init => SupervisorInv
<1> SUFFICES ASSUME Init PROVE SupervisorInv
  OBVIOUS
<1>1. Absent \in ChildType /\ Absent.at = "absent" /\ ~Absent.c.finishing
  BY AbsentType DEF Absent, ChildType, Stages
<1>2. child \in [Profiles -> ChildType] /\ \A p \in Profiles : child[p] = Absent /\ work[p] = 0
  BY <1>1 DEF Init
<1>3. state \in State
  <2>1. [id |-> 1, jobs |-> [p \in Profiles |-> 1]] \in Settings
    BY DEF Settings
  <2> QED BY <2>1 DEF Init, State
<1>4. TypeOK
  BY <1>2, <1>3, BootedType, SupervisorAssumption DEF Init, TypeOK, ChildType, Stages
<1>5. Safe
  BY <1>1, <1>2, BootedType DEF Init, Safe, ShutdownCancelled, ReplacedWhenIdle, Quiet, Unconfigured, PollKnows,
                                Present, Busy, Profiles
<1> QED BY <1>2, <1>4, <1>5 DEF SupervisorInv

\* Every step keeps the inductive invariant.
LEMMA SupervisorNext == SupervisorInv /\ [Next]_vars => SupervisorInv'
<1> SUFFICES ASSUME SupervisorInv, [Next]_vars PROVE SupervisorInv'
  OBVIOUS
<1>1. ASSUME NEW p \in Profiles, WorkerStep(p) PROVE SupervisorInv'
  BY <1>1, ListensStep, SyncsStep, AcceptsStep, FinishesStep, ExitsStep, RemoteLimitStep DEF WorkerStep
<1>2. ASSUME NEW p \in Profiles, NEW saved \in BOOLEAN, Reap(p, saved) PROVE SupervisorInv'
  BY <1>2, ReapStep
<1>3. CASE Requests
  <2>1. ASSUME NEW value \in Presets, Configure(value) PROVE SupervisorInv'
    BY <2>1, ConfigureStep
  <2>2. ASSUME NEW done \in Prefixes, NEW saved \in BOOLEAN, NEW value \in Presets \union {Nothing},
               SetMaxJobs(value.jobs, done, saved)
        PROVE  SupervisorInv'
    BY <2>2, SettingsAreSome, SetMaxJobsStep
  <2>3. ASSUME NEW done \in Prefixes, NEW saved \in BOOLEAN, NEW ram \in BOOLEAN, PauseEncodes(ram, done, saved)
        PROVE  SupervisorInv'
    BY <2>3, PauseEncodesStep
  <2>4. ASSUME NEW done \in Prefixes, NEW saved \in BOOLEAN, StopAfterCurrent(done, saved) PROVE SupervisorInv'
    BY <2>4, StopAfterCurrentStep
  <2> QED BY <1>3, <2>1, <2>2, <2>3, <2>4, SetupHoldsStep, PrepareUpgradeStep DEF Requests
<1>4. CASE Loop
  <2>1. ASSUME NEW saved \in BOOLEAN, DrainForSettings(saved) PROVE SupervisorInv'
    BY <2>1, DrainForSettingsStep
  <2>2. ASSUME NEW saved \in BOOLEAN, NEW done \in SUBSET Profiles,
               SaveLimits(done, saved) \/ ApplyLimits(done, saved)
        PROVE  SupervisorInv'
    BY <2>2, SaveLimitsStep, ApplyLimitsStep
  <2> QED BY <1>4, <2>1, <2>2, BeginStep, PollSteps, PowerOffStep, HoldForUpdateStep, ApplyNothingStep,
             StartWorkersStep DEF Loop
<1>5. CASE UNCHANGED vars
  <2>1. child' \in [Profiles -> ChildType] /\ \A p \in Profiles : GoesOn(p)
    BY <1>5, UnchangedGoesOn DEF vars
  <2>2. Safe'
    BY <1>5, <2>1, GoesOnSafe DEF vars, Configured
  <2>3. TypeOK'
    BY <1>5, <2>1, TypeNext DEF vars, SupervisorInv, TypeOK
  <2> QED BY <2>1, <2>2, <2>3 DEF SupervisorInv
<1> QED
  BY <1>1, <1>2, <1>3, <1>4, <1>5, RestartSteps, PowerOnStep, UpdateFoundStep, DrainForUpdateStep,
     UpdateClearsStep DEF Next

\* The inductive invariant holds whatever the desktop, the updates and the faults do.
THEOREM SupervisorInvariant == Spec => []SupervisorInv
BY SupervisorInit, SupervisorNext, PTL DEF Spec

\* The state, each worker's capacity and what is saved have their types: the operations of
\* a worker that the service calls make a capacity of one (main_windows.go:300-1000).
THEOREM TypeSafe == Spec => []TypeOK
<1>1. SupervisorInv => TypeOK
  BY DEF SupervisorInv
<1> QED BY <1>1, SupervisorInvariant, PTL

\* A shutdown that is armed outlives neither the exit of a worker nor the start of another
\* (shutdown_windows.go:20-60, main_windows.go: onChildStoppedLocked).
THEOREM ArmedWithBothWorkers == Spec => []ShutdownCancelled
<1>1. SupervisorInv => ShutdownCancelled
  BY DEF SupervisorInv, Safe
<1> QED BY <1>1, SupervisorInvariant, PTL

\* While Setup or an installation has the service, no profile has work that it accepted,
\* and they never have it both (manualUpgrade_windows.go:106-141, updates_windows.go:45-68).
THEOREM WorkBeforeReplacement == Spec => []ReplacedWhenIdle
<1>1. SupervisorInv => ReplacedWhenIdle
  BY DEF SupervisorInv, Safe
<1> QED BY <1>1, SupervisorInvariant, PTL

\* A step that stops the machine leaves no work of a profile that was told to finish
\* it, although the answer of one profile is old when the other is asked
\* (shutdown_windows.go:52-92).
THEOREM FinishedBeforePowerOff == Spec => ShutdownSafe
<1>1. SupervisorInv /\ [Next]_vars
        => [service.up /\ ~service'.up => \A p \in Profiles : child[p].c.finishing => ~Busy(p)]_vars
  <2> SUFFICES ASSUME SupervisorInv, Next, service.up, ~service'.up, NEW p \in Profiles, child[p].c.finishing
               PROVE  ~Busy(p)
    BY DEF vars
  <2>1. PowerOff
    <3>1. service'.up \/ PowerOff
      <4>1. Disarmed.up /\ Booted.up
        BY DisarmedType DEF Booted
      <4>2. service \in Service
        BY DEF SupervisorInv, TypeOK
      <4>3. CASE \E q \in Profiles : WorkerStep(q) \/ \E saved \in BOOLEAN : Reap(q, saved)
        BY <4>1, <4>2, <4>3, DisarmedType DEF WorkerStep, Listens, Syncs, Accepts, Finishes, Exits, RemoteLimit, Reap, Service
      <4>4. CASE Requests
        BY <4>1, <4>2, <4>4, DisarmedType DEF Requests, Configure, SetMaxJobs, PauseEncodes, StopAfterCurrent,
                                              SetupHolds, PrepareUpgrade, Service
      <4>5. CASE Loop
        BY <4>1, <4>2, <4>5, DisarmedType DEF Loop, Begin, PollBusy, Poll, HoldForUpdate, ApplyNothing, StartWorkers,
                                              DrainForSettings, SaveLimits, ApplyLimits, Service
      <4>6. CASE SetupReplaces \/ ServiceRestarts \/ PowerOn \/ UpdateFound \/ DrainForUpdate \/ UpdateInstalls
                 \/ UpdateClears
        BY <4>1, <4>6 DEF SetupReplaces, ServiceRestarts, PowerOn, UpdateFound, DrainForUpdate, UpdateInstalls,
                          UpdateClears, Restarted
      <4> QED BY <4>3, <4>4, <4>5, <4>6 DEF Next
    <3> QED BY <3>1
  <2>2. loop = "poll" /\ ~Busy("gpu")
    BY <2>1 DEF PowerOff, In
  <2> QED BY <2>2 DEF SupervisorInv, Safe, PollKnows, Profiles
<1> QED BY <1>1, SupervisorInvariant, PTL DEF Spec, ShutdownSafe
=============================================================================
