---------------------------- MODULE ManagedUpdate ----------------------------
(***************************************************************************)
(* The mandatory update of an installed Windows worker.  The manager in    *)
(* the service checks for releases, blocks admission, waits for accepted   *)
(* work, stages the installer and hands over to a helper.  The helper, a   *)
(* process of its own that a scheduled task starts again, replaces the     *)
(* installation under a journal, and restores the former one when anything *)
(* fails.  Each write of a file is a step, and the service, the helper and *)
(* the machine may stop between any two steps.                             *)
(***************************************************************************)
EXTENDS Naturals

CONSTANTS
    Newest,         \* releases are numbered 1..Newest
    Bad,            \* the releases that never pass their health check
    Prompt,         \* whether what takes a moment is done before what takes seconds
    Disturbances,   \* what may go wrong
    MaxFaults       \* how often it does

Versions == 1..Newest
None     == 0                   \* no release
Broken   == Newest + 1          \* a tree that is partly removed or written

AllDisturbances == {"reboot", "service", "helper", "setup", "health", "download",
                    "journal", "task", "restart"}

ASSUME UpdateAssumption ==
    /\ Newest \in Nat \ {0}
    /\ Bad \subseteq Versions \ {1}
    /\ Prompt \in BOOLEAN
    /\ Disturbances \subseteq AllDisturbances
    /\ MaxFaults \in Nat

VARIABLES
    release,        \* the newest release that is published
    tree,           \* the installation directory
    backup,         \* the copy of it that the stage of each release has
    staged,         \* the releases whose verified installer is on disk
    journal,        \* updates/transaction.json
    state,          \* updates/state.json: whether an update is pending, which, and whether it failed
    service,        \* registered, and the release that runs or None
    memory,         \* the manager's copy of state.pending, which the supervisor reads
    held,           \* whether the workers of this service hold admission
    work,           \* whether jobs are accepted; they stay so over restarts
    step,           \* where the manager is, with its copy of the state
    helper,         \* where the helper is, with its copy of the journal
    task,           \* whether the recovery task is registered
    boot,           \* how often the machine was started
    faults          \* what went wrong so far

files   == <<tree, backup, staged>>
daemon  == <<service, memory, held, step>>
vars    == <<release, files, journal, state, daemon, work, helper, task, boot, faults>>

Phases    == {"prepared", "installing", "verifying", "restart-required", "recovering",
              "completed", "retrying"}

\* A wrong variant of the next definition: an attempt that failed is not over.
FaultyActive(t) == t.phase # "completed"

Active(t) == t.phase \in Phases \ {"completed", "retrying"}

\* Phases in which the installation may be anything.
Replacing(t) == Active(t) /\ t.phase # "prepared"

Journal == [phase : Phases, target : Versions, previous : Versions,
            snapshot : Versions \union {None}, boot : Nat]
State   == [pending : BOOLEAN, target : Versions, retrying : BOOLEAN]

\* A state that nothing is pending in.
Current(v) == [pending |-> FALSE, target |-> v, retrying |-> FALSE]

Failed(s) == [s EXCEPT !.pending = TRUE, !.retrying = TRUE]

Running == service.version # None

Absent  == [at |-> "absent"]
Waiting == [at |-> "waiting"]

FilesTypeOK ==
    /\ release \in Versions
    /\ tree \in Versions \union {Broken}
    /\ backup \in [Versions -> Versions \union {Broken}]
    /\ staged \subseteq Versions
    /\ journal \in Journal /\ state \in State
    /\ work \in BOOLEAN /\ task \in BOOLEAN
    /\ boot \in 0..MaxFaults /\ faults \in 0..MaxFaults

ManagerSteps == {"read", "checked", "drained", "staged", "idle", "prepared", "registered"}

ServiceTypeOK ==
    /\ service \in [registered : BOOLEAN, version : Versions \union {None}]
    /\ memory \in BOOLEAN /\ held \in BOOLEAN
    /\ step = Waiting \/ step \in [at : ManagerSteps, s : State]

HelperSteps ==
    {"backup", "copy", "journal", "stop", "remove", "write", "written", "verify", "health",
     "complete", "clear", "unregister", "recover", "undo", "clean", "restore", "drop",
     "reinstall", "report", "close"}

HelperTypeOK == helper = Absent \/ helper \in [at : HelperSteps, t : Journal]

TypeOK == FilesTypeOK /\ ServiceTypeOK /\ HelperTypeOK

\* An installation of release 1 that a former update left, with its journal.
Init ==
    /\ release = 1 /\ tree = 1
    /\ backup = [v \in Versions |-> Broken] /\ staged = {1}
    /\ journal = [phase |-> "completed", target |-> 1, previous |-> 1, snapshot |-> None, boot |-> 0]
    /\ state = Current(1)
    /\ service = [registered |-> TRUE, version |-> 1]
    /\ memory = FALSE /\ held = FALSE /\ work = FALSE /\ task = FALSE
    /\ step = Waiting /\ helper = Absent
    /\ boot = 0 /\ faults = 0

Fault(kind) ==
    /\ kind \in Disturbances
    /\ faults < MaxFaults /\ faults' = faults + 1

-----------------------------------------------------------------------------
(* The service and its workers *)

Publish ==
    /\ release < Newest /\ release' = release + 1
    /\ UNCHANGED <<files, journal, state, daemon, work, helper, task, boot, faults>>

\* A wrong variant of the next definition: the workers start before the state is read.
FaultyStarts(version) ==
    /\ service' = [registered |-> TRUE, version |-> version]
    /\ memory' = state.pending /\ held' = FALSE /\ step' = Waiting

\* A service process begins with what the state file says, before its workers start.
Starts(version) ==
    /\ service' = [registered |-> TRUE, version |-> version]
    /\ memory' = state.pending /\ held' = state.pending /\ step' = Waiting

Stopped ==
    /\ service' = [service EXCEPT !.version = None]
    /\ step' = Waiting
    /\ UNCHANGED <<memory, held>>

TakeWork ==
    /\ Running /\ ~held /\ ~work
    /\ work' = TRUE
    /\ UNCHANGED <<release, files, journal, state, daemon, helper, task, boot, faults>>

FinishWork ==
    /\ Running /\ work
    /\ work' = FALSE
    /\ UNCHANGED <<release, files, journal, state, daemon, helper, task, boot, faults>>

\* The supervisor holds its workers while an update is pending, and starts them
\* anew when none is any more.
Supervise ==
    /\ Running /\ held # memory
    /\ held' = memory
    /\ UNCHANGED <<release, files, journal, state, service, memory, step, work, helper, task, boot, faults>>

\* The service control manager starts a service again that failed.
ServiceRestarts ==
    /\ Running
    /\ Fault("service")
    /\ Starts(service.version)
    /\ UNCHANGED <<release, files, journal, state, work, helper, task, boot>>

HelperDies ==
    /\ helper # Absent
    /\ Fault("helper")
    /\ helper' = Absent
    /\ UNCHANGED <<release, files, journal, state, daemon, work, task, boot>>

\* The machine restarts, with a service whose files are there.
Reboot ==
    /\ Fault("reboot")
    /\ boot' = boot + 1
    /\ helper' = Absent
    /\ IF service.registered /\ tree # Broken THEN Starts(tree) ELSE Stopped
    /\ UNCHANGED <<release, files, journal, state, work, task>>

-----------------------------------------------------------------------------
(* The manager: Step *)

At(at) == Running /\ step.at = at

\* ClearCompleted, with the stages it removes.
ClearCompleted(version, t) ==
    /\ state' = Current(version)
    /\ staged' = staged \intersect {t.target}
    /\ backup' = [v \in Versions |-> IF v = t.target THEN backup[v] ELSE Broken]
    /\ UNCHANGED tree

GivesUp == step' = Waiting

StepReads ==
    /\ At("waiting")
    /\ step' = [at |-> "read", s |-> state]
    /\ memory' = state.pending
    /\ UNCHANGED <<release, files, journal, state, service, held, work, helper, task, boot, faults>>

\* A journal that is active leaves the rest to the helper.
StepRecovers ==
    /\ At("read") /\ Active(journal)
    /\ memory' = TRUE
    /\ GivesUp
    /\ UNCHANGED <<release, files, journal, state, service, held, work, helper, task, boot, faults>>

\* The update that is pending is the one that the journal says is completed.
SamePending(s) ==
    /\ journal.phase = "completed" /\ s.pending
    /\ service.version = journal.target /\ s.target = journal.target

StepClears ==
    /\ At("read") /\ SamePending(step.s)
    /\ ClearCompleted(service.version, journal)
    /\ GivesUp
    /\ UNCHANGED <<release, journal, service, memory, held, work, helper, task, boot, faults>>

\* Between a completed journal and the end of its helper are two writes, and between a
\* service's first two steps two seconds.
Late == Prompt /\ helper.at \in {"clear", "unregister"}

\* The check, when one is due: a newer release takes the place of the pending one.
StepChecks ==
    /\ At("read") /\ ~Active(journal) /\ ~SamePending(step.s) /\ ~Late
    /\ LET newer == release > service.version /\ (step.s.pending => release > step.s.target)
           s     == IF newer THEN [pending |-> TRUE, target |-> release, retrying |-> FALSE] ELSE step.s
       IN  /\ step' = [at |-> "checked", s |-> s]
           /\ state' = s /\ memory' = s.pending
    /\ UNCHANGED <<release, files, journal, service, held, work, helper, task, boot, faults>>

\* None is due within the hour, but after a failure.
StepSkips ==
    /\ At("read") /\ ~Active(journal) /\ ~SamePending(step.s)
    /\ step.s.pending /\ ~step.s.retrying
    /\ step' = [step EXCEPT !.at = "checked"]
    /\ UNCHANGED <<release, files, journal, state, service, memory, held, work, helper, task, boot, faults>>

StepEnds ==
    /\ At("checked")
    /\ ~(step.s.pending /\ step.s.target > service.version)
    /\ state' = [step.s EXCEPT !.retrying = step.s.pending]
    /\ GivesUp
    /\ UNCHANGED <<release, files, journal, service, memory, held, work, helper, task, boot, faults>>

\* The workers hold admission, and go on with what they accepted.
StepDrains ==
    /\ At("checked")
    /\ step.s.pending /\ step.s.target > service.version
    /\ held' = TRUE
    /\ step' = [step EXCEPT !.at = "drained"]
    /\ UNCHANGED <<release, files, journal, state, service, memory, work, helper, task, boot, faults>>

StepStages ==
    /\ At("drained")
    /\ staged' = staged \union {step.s.target}
    /\ step' = [step EXCEPT !.at = "staged"]
    /\ UNCHANGED <<release, tree, backup, journal, state, service, memory, held, work, helper, task, boot, faults>>

\* A check or a download fails: what is pending stays so.
StepFails ==
    /\ (At("read") /\ ~Active(journal)) \/ At("drained")
    /\ Fault("download")
    /\ state' = [step.s EXCEPT !.retrying = TRUE] /\ memory' = step.s.pending
    /\ GivesUp
    /\ UNCHANGED <<release, files, journal, service, held, work, helper, task, boot>>

\* A wrong variant of the next definition: what is accepted is not waited for.
FaultyIdle == TRUE

\* The second drain says that nothing is accepted or reserved.
Idle == ~work

StepWaits ==
    /\ At("staged") /\ ~Idle
    /\ state' = [step.s EXCEPT !.retrying = FALSE]
    /\ GivesUp
    /\ UNCHANGED <<release, files, journal, service, memory, held, work, helper, task, boot, faults>>

StepInstalls ==
    /\ At("staged") /\ Idle
    /\ step' = [step EXCEPT !.at = "idle"]
    /\ state' = [step.s EXCEPT !.retrying = FALSE]
    /\ UNCHANGED <<release, files, journal, service, memory, held, work, helper, task, boot, faults>>

\* PrepareInstall: the journal, then the task, then the helper.
Prepare ==
    /\ At("idle")
    /\ journal' = [phase |-> "prepared", target |-> step.s.target, previous |-> service.version,
                   snapshot |-> None, boot |-> boot]
    /\ step' = [step EXCEPT !.at = "prepared"]
    /\ UNCHANGED <<release, files, state, service, memory, held, work, helper, task, boot, faults>>

Register ==
    /\ At("prepared")
    /\ task' = TRUE
    /\ step' = [step EXCEPT !.at = "registered"]
    /\ UNCHANGED <<release, files, journal, state, service, memory, held, work, helper, boot, faults>>

\* The task or the helper cannot be had.  The task's helper, if it runs already, has a
\* tree to copy meanwhile.
PrepareFails ==
    /\ At("prepared") \/ At("registered")
    /\ Prompt => helper = Absent
    /\ Fault("task")
    /\ journal' = [phase |-> "retrying", target |-> step.s.target, previous |-> service.version,
                   snapshot |-> None, boot |-> boot]
    /\ state' = Failed(step.s)
    /\ GivesUp
    /\ UNCHANGED <<release, files, service, memory, held, work, helper, task, boot>>

-----------------------------------------------------------------------------
(* The helper: RunHelper, under the installation's mutex *)

\* A wrong variant of the next definition: an installation that stopped begins again.
FaultyEntry(t) ==
    CASE t.phase \in {"prepared", "installing"}  -> [at |-> "backup", t |-> t]
      [] t.phase = "restart-required"           -> IF boot = t.boot THEN Absent ELSE [at |-> "verify", t |-> t]
      [] t.phase \in {"verifying", "recovering"} -> [at |-> "recover", t |-> t]
      [] OTHER                                  -> Absent

\* Where a helper that finds journal t begins.
Entry(t) ==
    CASE t.phase = "prepared"         -> [at |-> "backup", t |-> t]
      [] t.phase = "restart-required" -> IF boot = t.boot THEN Absent ELSE [at |-> "verify", t |-> t]
      [] t.phase \in {"installing", "verifying", "recovering"} -> [at |-> "recover", t |-> t]
      [] OTHER                        -> Absent

\* The manager starts it; a second one finds the mutex taken.
Launch ==
    /\ At("registered")
    /\ helper' = IF helper = Absent THEN Entry(journal) ELSE helper
    /\ GivesUp
    /\ UNCHANGED <<release, files, journal, state, service, memory, held, work, task, boot, faults>>

\* The task does, at boot, every five minutes, and when the manager asks.
TaskRuns ==
    /\ task /\ helper = Absent /\ Entry(journal) # Absent
    /\ helper' = Entry(journal)
    /\ UNCHANGED <<release, files, journal, state, daemon, work, task, boot, faults>>

Doing(at) == helper # Absent /\ helper.at = at

Then(at) == helper' = [helper EXCEPT !.at = at]

\* The journal is replaced as a whole.
Save(phase, at) ==
    /\ journal' = [helper.t EXCEPT !.phase = phase]
    /\ helper' = [at |-> at, t |-> journal']

SaveAndExit(phase) ==
    /\ journal' = [helper.t EXCEPT !.phase = phase]
    /\ helper' = Absent

\* Before anything is changed, a failure only ends the attempt.
BeforeFails ==
    /\ Doing("backup") \/ Doing("copy")
    /\ IF helper.t.target \in staged THEN Fault("setup") ELSE UNCHANGED faults
    /\ SaveAndExit("retrying")
    /\ state' = Failed(state)
    /\ UNCHANGED <<release, files, daemon, work, task, boot>>

RemoveBackup ==
    /\ Doing("backup") /\ helper.t.target \in staged
    /\ backup' = [backup EXCEPT ![helper.t.target] = Broken]
    /\ Then("copy")
    /\ UNCHANGED <<release, tree, staged, journal, state, daemon, work, task, boot, faults>>

CopyTree ==
    /\ Doing("copy")
    /\ backup' = [backup EXCEPT ![helper.t.target] = tree]
    /\ Then("journal")
    /\ UNCHANGED <<release, tree, staged, journal, state, daemon, work, task, boot, faults>>

\* A wrong variant of the next definition: the service is stopped before the journal
\* says so.
FaultyBeginInstall ==
    /\ Doing("journal")
    /\ helper' = [at |-> "stop", t |-> [helper.t EXCEPT !.phase = "installing", !.snapshot = tree]]
    /\ UNCHANGED <<release, files, journal, state, daemon, work, task, boot, faults>>

BeginInstall ==
    /\ Doing("journal")
    /\ journal' = [helper.t EXCEPT !.phase = "installing", !.snapshot = backup[helper.t.target]]
    /\ helper' = [at |-> "stop", t |-> journal']
    /\ UNCHANGED <<release, files, state, daemon, work, task, boot, faults>>

StopService ==
    /\ Doing("stop")
    /\ Stopped /\ Then("remove")
    /\ UNCHANGED <<release, files, journal, state, work, task, boot, faults>>

\* Setup removes the service and the tree, writes the new ones and starts it.
SetupRemoves ==
    /\ Doing("remove")
    /\ tree' = Broken
    /\ service' = [registered |-> FALSE, version |-> None] /\ step' = Waiting
    /\ Then("write")
    /\ UNCHANGED <<release, backup, staged, journal, state, memory, held, work, task, boot, faults>>

SetupWrites ==
    /\ Doing("write")
    /\ tree' = helper.t.target
    /\ Starts(helper.t.target) /\ Then("written")
    /\ UNCHANGED <<release, backup, staged, journal, state, work, task, boot, faults>>

SetupEnds ==
    /\ Doing("written")
    /\ Save("verifying", "verify")
    /\ UNCHANGED <<release, files, state, daemon, work, task, boot, faults>>

\* Setup wants the machine to be restarted.
RestartRequired ==
    /\ Doing("written")
    /\ Fault("restart")
    /\ journal' = [helper.t EXCEPT !.phase = "restart-required", !.boot = boot]
    /\ helper' = Absent
    /\ UNCHANGED <<release, files, state, daemon, work, task, boot>>

\* The tree is the release's; its service runs, or is started.
Verify ==
    /\ Doing("verify") /\ tree = helper.t.target
    /\ IF Running THEN UNCHANGED daemon ELSE Starts(tree)
    /\ Then("health")
    /\ UNCHANGED <<release, files, journal, state, work, task, boot, faults>>

\* The service answers, and is of the release.
Healthy == service.version = helper.t.target /\ helper.t.target \notin Bad

Health ==
    /\ Doing("health") /\ Healthy
    /\ Then("complete")
    /\ UNCHANGED <<release, files, journal, state, daemon, work, task, boot, faults>>

Unhealthy ==
    /\ Doing("health") /\ ~Healthy
    /\ Then("recover")
    /\ UNCHANGED <<release, files, journal, state, daemon, work, task, boot, faults>>

Complete ==
    /\ Doing("complete")
    /\ Save("completed", "clear")
    /\ UNCHANGED <<release, files, state, daemon, work, task, boot, faults>>

Clear ==
    /\ Doing("clear")
    /\ ClearCompleted(helper.t.target, helper.t)
    /\ Then("unregister")
    /\ UNCHANGED <<release, journal, daemon, work, task, boot, faults>>

Unregister ==
    /\ Doing("unregister")
    /\ task' = FALSE
    /\ helper' = Absent
    /\ UNCHANGED <<release, files, journal, state, daemon, work, boot, faults>>

\* Anything fails: recoverAfterError.
Fails ==
    /\ \/ helper.at \in {"stop", "remove", "write", "written", "verify"} /\ Fault("setup")
       \/ helper.at = "health" /\ Fault("health")
    /\ Then("recover")
    /\ UNCHANGED <<release, files, journal, state, daemon, work, task, boot>>

\* The journal cannot be written: the helper ends, and another one takes it up.
SaveFails ==
    /\ helper.at \in {"journal", "written", "complete", "recover", "close"}
    /\ Fault("journal")
    /\ helper' = Absent
    /\ UNCHANGED <<release, files, journal, state, daemon, work, task, boot>>

Recover ==
    /\ Doing("recover")
    /\ Save("recovering", "undo")
    /\ UNCHANGED <<release, files, state, daemon, work, task, boot, faults>>

\* rollback: nothing is removed but for a copy that is as it was when it was made.
Undo ==
    /\ Doing("undo") /\ helper.t.snapshot # None
    /\ Stopped /\ Then("clean")
    /\ UNCHANGED <<release, files, journal, state, work, task, boot, faults>>

RemoveTree ==
    /\ Doing("clean") /\ backup[helper.t.target] = helper.t.snapshot
    /\ tree' = Broken
    /\ Then("restore")
    /\ UNCHANGED <<release, backup, staged, journal, state, daemon, work, task, boot, faults>>

RestoreTree ==
    /\ Doing("restore")
    /\ tree' = backup[helper.t.target]
    /\ Then("drop")
    /\ UNCHANGED <<release, backup, staged, journal, state, daemon, work, task, boot, faults>>

DropService ==
    /\ Doing("drop")
    /\ service' = [service EXCEPT !.registered = FALSE]
    /\ Then("reinstall")
    /\ UNCHANGED <<release, files, journal, state, memory, held, step, work, task, boot, faults>>

InstallOwner ==
    /\ Doing("reinstall")
    /\ Starts(tree) /\ Then("report")
    /\ UNCHANGED <<release, files, journal, state, work, task, boot, faults>>

\* The former release does not come up: everything again, after a delay.
UndoFails ==
    /\ helper.at \in {"undo", "clean", "restore", "drop", "reinstall", "report"}
    /\ Fault("setup") \/ Fault("health")
    /\ Then("undo")
    /\ state' = Failed(state)
    /\ UNCHANGED <<release, files, journal, daemon, work, task, boot>>

Report ==
    /\ Doing("report") /\ service.version = helper.t.previous
    /\ state' = Failed(state)
    /\ Then("close")
    /\ UNCHANGED <<release, files, journal, daemon, work, task, boot, faults>>

Close ==
    /\ Doing("close")
    /\ SaveAndExit("retrying")
    /\ UNCHANGED <<release, files, state, daemon, work, task, boot, faults>>

-----------------------------------------------------------------------------

Manager ==
    \/ StepReads \/ StepRecovers \/ StepClears \/ StepChecks \/ StepSkips \/ StepEnds
    \/ StepDrains \/ StepStages \/ StepWaits \/ StepInstalls \/ Prepare \/ Register \/ Launch

Helper ==
    \/ RemoveBackup \/ CopyTree \/ BeginInstall \/ StopService
    \/ SetupRemoves \/ SetupWrites \/ SetupEnds \/ Verify \/ Health \/ Unhealthy
    \/ Complete \/ Clear \/ Unregister
    \/ Recover \/ Undo \/ RemoveTree \/ RestoreTree \/ DropService \/ InstallOwner
    \/ Report \/ Close

Disturbance ==
    \/ ServiceRestarts \/ Reboot \/ StepFails \/ PrepareFails
    \/ helper # Absent
       /\ (HelperDies \/ BeforeFails \/ RestartRequired \/ Fails \/ SaveFails \/ UndoFails)

Next ==
    \/ Publish \/ TakeWork \/ FinishWork \/ Supervise
    \/ Manager \/ TaskRuns \/ Helper \/ Disturbance

\* The manager steps every two seconds and the task runs every five minutes; a helper
\* that lives goes on; what is accepted is finished.  A check is due every hour, so that
\* one of the steps that might make it does.
Fairness ==
    /\ SF_vars(StepChecks)
    /\ WF_vars(Manager) /\ WF_vars(TaskRuns) /\ WF_vars(Helper)
    /\ WF_vars(Supervise) /\ WF_vars(FinishWork)

Spec == Init /\ [][Next]_vars /\ Fairness

-----------------------------------------------------------------------------
(* Properties *)

\* native_windows.go:529-590: an installation that is removed or half written is always
\* to be recovered: the journal says so, the copy it names is whole, and the task that
\* starts a helper is registered.
Recoverable ==
    tree = Broken =>
        /\ Replacing(journal) /\ task
        /\ journal.snapshot # None /\ backup[journal.target] = journal.snapshot

\* self-update/spec.md:95: "The admission block SHALL survive service and machine restarts
\* until the installed release is verified current": no worker takes work while the
\* installation is being replaced or restored.
BarrierKept == Active(journal) /\ Running => held /\ memory

\* The release that is there, or will be when the helper is through.
Effective == IF Replacing(journal) THEN journal.snapshot ELSE tree

Atomic == INSTANCE AtomicUpdate WITH installed <- Effective

\* native_windows.go:429-617: for who sees only what is there in the end, a release is
\* replaced at once by a newer one, and while nothing is accepted; failures and stops
\* in between change nothing.
AtomicSpec == Atomic!Spec

\* A journal that nobody takes up: the service stopped between its write and the
\* registration of the task.
Orphaned == Active(journal) /\ ~task /\ helper = Absent

Settled == tree = release /\ service.version = release /\ ~state.pending

\* manager.go:89-235: a good release is installed in the end, and its workers released,
\* whatever failed or stopped before, unless the machine has to be restarted for it,
\* or the journal is orphaned.
Resolves ==
    <>[](release \in Bad \/ Settled \/ Orphaned \/ journal.phase = "restart-required")

\* self-update/spec.md:125: "one durable installation transaction that survives service
\* termination and machine restart": there is always somebody to take it up.
NeverOrphaned == <>[]~Orphaned
=============================================================================
