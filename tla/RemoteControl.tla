---------------------------- MODULE RemoteControl ----------------------------
(***************************************************************************)
(* The limits a worker should have and the commands it should execute, as  *)
(* its server keeps them, and as the worker takes them over.  The server   *)
(* has a row of settings, with the last positive ones beside them, a row   *)
(* with the latest command, and what the worker last said of itself.  The  *)
(* worker polls under settingsMu, which its local commands that change     *)
(* limits take too; those that only drain or hold do not.  Requests and    *)
(* replies get lost, a request may be executed after its sender gave up,   *)
(* and the worker may be started again.                                    *)
(***************************************************************************)
EXTENDS Capacity, FiniteSets

CONSTANTS
    Saved,          \* the settings somebody saves
    Actions,        \* the commands somebody gives on the dashboard
    Locals,         \* the commands somebody gives at the worker
    MaxControls,    \* the commands given on the dashboard
    MaxOthers       \* what is saved, commanded at the worker, lost, and its restarts

Unset      == [kind |-> "unset"]
Single(n)  == [kind |-> "single", max |-> n]
Both(pair) == [kind |-> "pair", pair |-> pair]

Settings == {Single(n) : n \in Numbers}
            \union {Both(pair) : pair \in {p \in [Kinds -> Numbers] : Total(p) <= MaxInt}}

Positive(s) == IF s.kind = "single" THEN s.max > 0 ELSE Total(s.pair) > 0

QueueActions  == {"stop-after-current", "resume-queue"}
AllActions    == QueueActions \union {"pause-encodes", "resume-encodes", "pause-job", "resume-job"}
AllLocals     == {"limits", "admission", "finish", "drain", "ram", "mode"}

ASSUME ControlAssumption ==
    /\ Saved \subseteq Settings
    /\ Actions \subseteq AllActions
    /\ Locals \subseteq AllLocals
    /\ {MaxControls, MaxOthers} \subseteq Nat

VARIABLES
    settings,       \* worker_settings: the limits that are desired
    resume,         \* worker_settings.resume_*: the last positive ones
    control,        \* worker_controls: the latest command
    drafts,         \* commands of dashboard requests that are still to be written
    runtime,        \* workers.runtime: what the worker last reported
    late,           \* PUTs whose sender gave up and that may still be executed
    cap,            \* the worker's limits and holds
    encode,         \* its one encode: none, running, or held by itself
    applied,        \* appliedControlID and whether appliedControlError is set
    turn,           \* who holds settingsMu, and where
    executed,       \* how often this process executed each command
    done,           \* the commands that some process of it executed, and did not fail
    loaded,         \* whether this process took the desired settings over
    used            \* how much of each bound is used

server == <<settings, resume, control, drafts, runtime, late>>
local  == <<cap, encode>>
history == <<executed, done, loaded>>
vars == <<server, local, applied, turn, history, used>>

NoControl == [id |-> 0, action |-> "none", state |-> "none", limits |-> Unset]
Control   == [id : 0..MaxControls, action : AllActions \union {"none"},
              state : {"none", "pending", "applied", "failed"},
              limits : Settings \union {Unset}]
Runtime   == [draining : BOOLEAN, finishing : BOOLEAN, pausable : BOOLEAN, jobs : [Kinds -> Numbers]]
Idle      == [at |-> "idle"]

TypeOK ==
    /\ settings \in Settings \union {Unset}
    /\ resume \in Settings \union {Unset}
    /\ control \in Control /\ drafts \subseteq Control
    /\ runtime \in Runtime
    /\ late \subseteq Settings
    /\ cap \in Capacity
    /\ encode \in {"none", "running", "held"}
    /\ applied \in [id : 0..MaxControls, error : BOOLEAN]
    /\ turn.at \in {"idle", "read", "control", "converge", "put", "saved", "ping", "ack"}
    /\ executed \in [1..MaxControls -> Nat]
    /\ done \subseteq 1..MaxControls /\ loaded \in BOOLEAN

Telemetry ==
    [draining |-> cap.held, finishing |-> cap.finishing, jobs |-> cap.pool.jobs,
     pausable |-> encode # "none" /\ ~Drains(cap)]

Init ==
    /\ settings \in Saved \union {Unset}
    /\ resume = (IF settings # Unset /\ Positive(settings) THEN settings ELSE Unset)
    /\ control = NoControl /\ drafts = {} /\ late = {}
    /\ cap = NewCapacity /\ encode = "none"
    /\ runtime = Telemetry
    /\ applied = [id |-> 0, error |-> FALSE]
    /\ turn = Idle
    /\ executed = [i \in 1..MaxControls |-> 0] /\ done = {} /\ loaded = FALSE
    /\ used = [controls |-> 0, others |-> 0]

Disturbs == used.others < MaxOthers /\ used' = [used EXCEPT !.others = @ + 1]

-----------------------------------------------------------------------------
(* The server *)

\* SetWorkerSettings: one statement; the limits to resume with change only with
\* positive ones.
Store(s) ==
    /\ settings' = s
    /\ resume' = IF Positive(s) THEN s ELSE resume

DashboardSaves(s) ==
    /\ Disturbs
    /\ Store(s)
    /\ UNCHANGED <<control, drafts, runtime, late, local, applied, turn, history>>

\* ControlWorker reads what the worker reported and what to resume with.
Restored ==
    IF resume # Unset THEN resume
    ELSE IF control.limits # Unset THEN control.limits
    ELSE IF Total(runtime.jobs) > 0 THEN Both(runtime.jobs)
    ELSE Unset

ControlReads(action) ==
    /\ used.controls < MaxControls /\ used' = [used EXCEPT !.controls = @ + 1]
    /\ ~runtime.draining
    /\ runtime.finishing => action = "resume-queue"
    /\ action \in {"pause-job", "resume-job"} => runtime.pausable
    /\ action = "resume-queue" => Restored # Unset
    /\ drafts' = drafts \union {[id |-> used.controls + 1, action |-> action, state |-> "pending",
                                 limits |-> Restored]}
    /\ UNCHANGED <<settings, resume, control, runtime, late, local, applied, turn, history>>

\* It writes the command over the one before, applied or not.
ControlWrites(c) ==
    /\ drafts' = drafts \ {c}
    /\ control' = c
    /\ UNCHANGED <<settings, resume, runtime, late, local, applied, turn, history, used>>

\* A PUT that its sender no longer waits for.
LatePut(s) ==
    /\ Store(s)
    /\ late' = late \ {s}
    /\ UNCHANGED <<control, drafts, runtime, local, applied, turn, history, used>>

-----------------------------------------------------------------------------
(* A poll: syncWorkerSettings *)

SyncReads ==
    /\ turn = Idle
    /\ turn' = [at |-> "read", settings |-> settings]
    /\ UNCHANGED <<server, local, applied, history, used>>

\* The second query of the same request looks for a pending command.
SyncAnswered ==
    /\ turn.at = "read"
    /\ turn' = IF control.state = "pending" THEN [at |-> "control", c |-> control]
               ELSE [at |-> "converge", settings |-> turn.settings, drains |-> Drains(cap)]
    /\ UNCHANGED <<server, local, applied, history, used>>

\* A wrong variant of the next definition: a single limit that equals the sum of
\* the pair in force is taken for the same.
FaultyDiffers(s) ==
    CASE s.kind = "unset"  -> FALSE
      [] s.kind = "pair"   -> ~cap.pool.independent \/ cap.pool.jobs # s.pair
      [] s.kind = "single" -> cap.max # s.max \/ (s.max > 0 /\ cap.pool.target # s.max)

\* The limits in force are not those.
Differs(s) ==
    CASE s.kind = "unset"  -> FALSE
      [] s.kind = "pair"   -> ~cap.pool.independent \/ cap.pool.jobs # s.pair
      [] s.kind = "single" ->
            cap.max # s.max \/ (s.max > 0 /\ (cap.pool.target # s.max \/ cap.pool.independent))

\* A wrong variant of the next definition: a pair is added to the one in force.
FaultyLimited(c, s) ==
    CASE s.kind = "unset"  -> c
      [] s.kind = "pair"   -> SetEncoderLimits(c, [k \in Kinds |-> c.pool.jobs[k] + s.pair[k]])
      [] s.kind = "single" -> ApplyLimit(c, s.max, c.mode, c.ram)

Limited(c, s) ==
    CASE s.kind = "unset"  -> c
      [] s.kind = "pair"   -> SetEncoderLimits(c, s.pair)
      [] s.kind = "single" -> ApplyLimit(c, s.max, c.mode, c.ram)

\* A drain seen when the answer came is left alone; one that begins only now is not.
Converge ==
    /\ turn.at = "converge"
    /\ cap' = MarkWorkerSettingsResolved(
                IF ~turn.drains /\ Differs(turn.settings) THEN Limited(cap, turn.settings) ELSE cap)
    /\ loaded' = TRUE
    /\ turn' = Idle
    /\ UNCHANGED <<server, encode, applied, executed, done, used>>

-----------------------------------------------------------------------------
(* A command: applyRemoteControl *)

Refuses(c) == cap.held \/ (cap.finishing /\ c.action # "resume-queue")

Desired(c) == IF c.action = "stop-after-current" THEN Both(Pair(0, 0)) ELSE c.limits

Executed(c, failed) ==
    /\ applied' = [id |-> c.id, error |-> failed]
    /\ executed' = [executed EXCEPT ![c.id] = @ + 1]
    /\ done' = IF failed THEN done ELSE done \union {c.id}
    /\ turn' = [at |-> "ping", c |-> c]

\* A wrong variant of the next definition: it is not known what was executed.
FaultyIsNew(c) == TRUE

IsNew(c) == applied.id # c.id

AlreadyExecuted ==
    /\ turn.at = "control" /\ ~IsNew(turn.c)
    /\ turn' = [at |-> "ping", c |-> turn.c]
    /\ UNCHANGED <<server, local, applied, history, used>>

Refused ==
    /\ turn.at = "control" /\ IsNew(turn.c) /\ Refuses(turn.c)
    /\ Executed(turn.c, TRUE)
    /\ UNCHANGED <<server, local, loaded, used>>

\* One encode is suspended or resumed, or is gone.
JobControlled ==
    /\ turn.at = "control" /\ IsNew(turn.c) /\ ~Refuses(turn.c)
    /\ turn.c.action \in {"pause-job", "resume-job"}
    /\ encode' = IF encode = "none" THEN encode
                 ELSE IF turn.c.action = "pause-job" THEN "held" ELSE "running"
    /\ Executed(turn.c, encode = "none")
    /\ UNCHANGED <<server, cap, loaded, used>>

RAMControlled ==
    /\ turn.at = "control" /\ IsNew(turn.c) /\ ~Refuses(turn.c)
    /\ turn.c.action \in {"pause-encodes", "resume-encodes"}
    /\ cap' = SetRAMPaused(cap, turn.c.action = "pause-encodes")
    /\ Executed(turn.c, FALSE)
    /\ UNCHANGED <<server, encode, loaded, used>>

\* The queue's limits are saved at the server first.
QueueControlled ==
    /\ turn.at = "control" /\ IsNew(turn.c) /\ ~Refuses(turn.c)
    /\ turn.c.action \in QueueActions
    /\ turn' = [at |-> "put", for |-> "control", c |-> turn.c, settings |-> Desired(turn.c)]
    /\ UNCHANGED <<server, local, applied, history, used>>

PutExecuted ==
    /\ turn.at = "put"
    /\ Store(turn.settings)
    /\ turn' = [turn EXCEPT !.at = "saved"]
    /\ UNCHANGED <<control, drafts, runtime, late, local, applied, history, used>>

\* The reply comes: now the limits apply here too.
QueueApplied ==
    /\ turn.at = "saved" /\ turn.for = "control"
    /\ cap' = Limited(SetPauseMode(cap, "finish"), turn.settings)
    /\ loaded' = TRUE
    /\ Executed(turn.c, FALSE)
    /\ UNCHANGED <<server, encode, used>>

\* No reply in time.  A request not executed yet may be executed later.
PutLost ==
    /\ turn.at \in {"put", "saved"}
    /\ Disturbs
    /\ late' \in IF turn.at = "put" THEN {late, late \union {turn.settings}} ELSE {late}
    /\ IF turn.for = "control"
       THEN Executed(turn.c, TRUE)
       ELSE turn' = Idle /\ UNCHANGED <<applied, executed, done>>
    /\ UNCHANGED <<settings, resume, control, drafts, runtime, local, loaded>>

\* The worker says how it is, before it acknowledges.
Pings ==
    /\ turn.at = "ping"
    /\ cap' = IF applied.error THEN cap ELSE MarkWorkerSettingsResolved(cap)
    /\ runtime' = Telemetry
    /\ turn' = [turn EXCEPT !.at = "ack"]
    /\ UNCHANGED <<settings, resume, control, drafts, late, encode, applied, history, used>>

\* A wrong variant of the next definition: whatever command is there is completed.
FaultyAcknowledged(c) ==
    [control EXCEPT !.state = IF applied.error THEN "failed" ELSE "applied"]

\* Only the command it is about.
Acknowledged(c) ==
    IF control.id = c.id
    THEN [control EXCEPT !.state = IF applied.error THEN "failed" ELSE "applied"]
    ELSE control

\* AckWorkerControl: 204, or 409 for a command that was superseded.
Acks ==
    /\ turn.at = "ack"
    /\ control' = Acknowledged(turn.c)
    /\ turn' = Idle
    /\ UNCHANGED <<settings, resume, drafts, runtime, late, local, applied, history, used>>

\* A request or its reply is lost: the poll ends.
SyncLost ==
    /\ turn.at \in {"read", "ping", "ack"}
    /\ Disturbs
    /\ turn' = Idle
    /\ UNCHANGED <<server, local, applied, history>>

\* The reply to an acknowledgement is lost.
AckLost ==
    /\ turn.at = "ack"
    /\ Disturbs
    /\ control' = Acknowledged(turn.c)
    /\ turn' = Idle
    /\ UNCHANGED <<settings, resume, drafts, runtime, late, local, applied, history>>

-----------------------------------------------------------------------------
(* At the worker *)

\* PersistEncoderLimits and PersistAdmissionLimit save first, under settingsMu.
Persists(s) ==
    /\ (IF s.kind = "pair" THEN "limits" ELSE "admission") \in Locals
    /\ Disturbs
    /\ turn = Idle
    /\ turn' = [at |-> "put", for |-> "worker", settings |-> s]
    /\ UNCHANGED <<server, local, applied, history>>

Persisted ==
    /\ turn.at = "saved" /\ turn.for = "worker"
    /\ cap' = MarkWorkerSettingsResolved(
                IF turn.settings.kind = "pair" THEN SetEncoderLimits(cap, turn.settings.pair)
                ELSE AdmissionLimit(cap, turn.settings.max))
    /\ loaded' = TRUE
    /\ turn' = Idle
    /\ UNCHANGED <<server, encode, applied, executed, done, used>>

\* The commands that take no settingsMu.
Commanded ==
    /\ Disturbs
    /\ \/ /\ "finish" \in Locals
          /\ cap' = FinishAcceptedJobs(cap)
          /\ encode' = IF encode = "held" THEN "running" ELSE encode
       \/ /\ "drain" \in Locals
          /\ cap' = DrainAcceptedJobs(cap)
          /\ encode' = IF encode = "held" THEN "running" ELSE encode
       \/ /\ "ram" \in Locals /\ ~Drains(cap)
          /\ \E b \in BOOLEAN : cap' = SetRAMPaused(cap, b)
          /\ UNCHANGED encode
       \/ /\ "mode" \in Locals
          /\ \E mode \in Modes : cap' = SetPauseMode(cap, mode)
          /\ UNCHANGED encode
    /\ UNCHANGED <<server, applied, turn, history>>

EncodeStarts ==
    /\ encode = "none" /\ ~cap.hold /\ ~cap.pool.paused
    /\ encode' = "running"
    /\ UNCHANGED <<server, cap, applied, turn, history, used>>

EncodeEnds ==
    /\ encode = "running" /\ ~cap.hold
    /\ encode' = "none"
    /\ UNCHANGED <<server, cap, applied, turn, history, used>>

\* heartbeatRoutine, every five seconds.
Heartbeat ==
    /\ runtime' = Telemetry
    /\ UNCHANGED <<settings, resume, control, drafts, late, local, applied, turn, history, used>>

Restart ==
    /\ Disturbs
    /\ cap' = NewCapacity /\ encode' = "none"
    /\ applied' = [id |-> 0, error |-> FALSE]
    /\ late' \in IF turn.at = "put" THEN {late, late \union {turn.settings}} ELSE {late}
    /\ turn' = Idle
    /\ executed' = [i \in 1..MaxControls |-> 0] /\ loaded' = FALSE
    /\ UNCHANGED <<settings, resume, control, drafts, runtime, done>>

-----------------------------------------------------------------------------

Sync ==
    \/ SyncReads \/ SyncAnswered \/ Converge
    \/ AlreadyExecuted \/ Refused \/ JobControlled \/ RAMControlled \/ QueueControlled
    \/ PutExecuted \/ QueueApplied \/ Pings \/ Acks \/ Persisted

Dashboard ==
    \/ \E s \in Saved : DashboardSaves(s)
    \/ \E action \in Actions : ControlReads(action)

Next ==
    \/ Dashboard \/ \E c \in drafts : ControlWrites(c)
    \/ \E s \in late : LatePut(s)
    \/ Sync \/ SyncLost \/ AckLost \/ PutLost
    \/ \E s \in Saved : Persists(s)
    \/ Commanded \/ EncodeStarts \/ EncodeEnds \/ Heartbeat
    \/ Restart

\* The worker polls every five seconds and the server answers; what is lost is
\* bounded, and nobody has to save or command anything.
Fairness == WF_vars(Sync)

Spec == Init /\ [][Next]_vars /\ Fairness

-----------------------------------------------------------------------------
(* Properties *)

\* remoteControl.go:13 "A lost acknowledgement never replays": however often the
\* server hands a command out, a process of the worker executes it once.
ExecutedOnce == \A i \in 1..MaxControls : executed[i] <= 1

\* repository/workerControls.go:44-62: a command is shown as applied only when the
\* worker executed it, and not because a late acknowledgement of an earlier one came.
AppliedIsTrue == control.state = "applied" => control.id \in done

InForce(s) ==
    s # Unset => cap.pool.jobs = (IF s.kind = "single" THEN Sole(s.max) ELSE s.pair)

\* coordinator.go:145-185: once nobody saves or commands anything, the worker has
\* the limits the server has for it, unless it drains, and the command is answered,
\* whatever was lost, executed late or cut short by a restart.
Converges ==
    <>[](/\ control.state # "pending"
         /\ Drains(cap) \/ InForce(settings))
=============================================================================
