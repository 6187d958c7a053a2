------------------------ MODULE ManagedUpdateProofs -------------------------
(***************************************************************************)
(* Proofs about ManagedUpdate, for any releases, good or bad, and any      *)
(* faults: that the installation can be restored wherever the helper       *)
(* stops, that no work is taken meanwhile, and that a release is replaced  *)
(* at once for whoever sees only what is there in the end.                 *)
(***************************************************************************)
EXTENDS ManagedUpdate, TLAPS

-----------------------------------------------------------------------------
(* The inductive invariant *)

ServiceInv ==
    /\ Running => service.version = tree
    /\ boot <= faults

\* What a journal says of the files, the state and the service.
JournalInv ==
    /\ Active(journal) =>
          /\ state.pending /\ state.target = journal.target
          /\ ~work
          /\ Running => held /\ memory
    /\ journal.phase = "prepared" => tree < journal.target
    /\ journal.phase = "completed" => tree = journal.target
    /\ ~Replacing(journal) => tree # Broken
    /\ Replacing(journal) =>
          /\ task
          /\ journal.snapshot \in Versions /\ journal.snapshot < journal.target
          /\ backup[journal.target] = journal.snapshot

\* Where a helper is, with the journal's phase and what it has done to the installation.
HelperInv ==
    /\ helper # Absent => helper.t = journal /\ task
    /\ helper.at \in {"backup", "copy", "journal"} => journal.phase = "prepared"
    /\ helper.at = "journal" => backup[journal.target] = tree
    /\ helper.at \in {"stop", "remove", "write", "written"} => journal.phase = "installing"
    /\ helper.at \in {"verify", "health", "complete"} => journal.phase \in {"verifying", "restart-required"}
    /\ helper.at = "recover" => Replacing(journal)
    /\ helper.at \in {"undo", "clean", "restore", "drop", "reinstall", "report", "close"} =>
          journal.phase = "recovering"
    /\ helper.at \in {"remove", "write", "clean", "restore", "drop", "reinstall"} => ~Running
    /\ helper.at \in {"health", "complete"} => tree = journal.target
    /\ helper.at = "complete" => service.version = journal.target
    /\ helper.at \in {"drop", "reinstall", "report", "close"} => tree = journal.snapshot
    /\ helper.at \in {"clear", "unregister"} =>
          /\ journal.phase = "completed" /\ service.version = journal.target
          /\ state.pending => state.target = journal.target

\* Where the manager is, and that its copy of the state is none of a former update.
StepInv ==
    /\ step # Waiting => Running
    /\ (step.at = "read" /\ step.s.pending) =>
          SamePending(step.s) \/ (state.pending /\ state.target = step.s.target)
    /\ step.at \in {"checked", "drained", "staged", "idle"} =>
          /\ ~Active(journal) /\ helper = Absent
          /\ state.pending = step.s.pending /\ state.target = step.s.target
    /\ step.at \in {"read", "checked"} => memory = step.s.pending
    /\ step.at \in {"drained", "staged", "idle", "prepared", "registered"} =>
          /\ step.s.pending /\ step.s.target > service.version
          /\ held /\ memory
    /\ step.at \in {"idle", "prepared", "registered"} => ~work
    /\ step.at \in {"prepared", "registered"} =>
          /\ helper.at \in {"absent", "backup", "copy", "journal", "stop", "recover", "undo"}
          /\ journal.phase \in {"prepared", "installing", "recovering", "retrying"}
          /\ Replacing(journal) => journal.snapshot = tree
    /\ step.at = "registered" => task

UpdateInv == TypeOK /\ ServiceInv /\ JournalInv /\ HelperInv /\ StepInv

-----------------------------------------------------------------------------
(* Facts *)

\* The states of an update, and what writing one of their fields leaves.
LEMMA StateFields ==
  ASSUME NEW s \in State
  PROVE  /\ s.pending \in BOOLEAN /\ s.target \in Versions /\ s.retrying \in BOOLEAN
         /\ Failed(s) \in State /\ Failed(s).pending /\ Failed(s).target = s.target
         /\ \A b \in BOOLEAN :
               /\ [s EXCEPT !.retrying = b] \in State
               /\ [s EXCEPT !.retrying = b].pending = s.pending
               /\ [s EXCEPT !.retrying = b].target = s.target
BY DEF State, Failed

\* The journals.
LEMMA JournalFields ==
  ASSUME NEW t \in Journal
  PROVE  /\ t.phase \in Phases /\ t.target \in Versions /\ t.previous \in Versions
         /\ t.snapshot \in Versions \union {None} /\ t.boot \in Nat
         /\ \A p \in Phases : [t EXCEPT !.phase = p] \in Journal
BY DEF Journal

\* The manager, when it is about something.
LEMMA StepFields ==
  ASSUME ServiceTypeOK, step.at # "waiting"
  PROVE  /\ step.at \in ManagerSteps /\ step.s \in State
         /\ step = [at |-> step.at, s |-> step.s]
         /\ \A a \in ManagerSteps :
               /\ [step EXCEPT !.at = a] = [at |-> a, s |-> step.s]
               /\ [step EXCEPT !.at = a] \in [at : ManagerSteps, s : State]
BY DEF ServiceTypeOK, Waiting

\* A service that starts runs, and blocks admission if the state says so.
LEMMA StartsType ==
  ASSUME FilesTypeOK, NEW v \in Versions, Starts(v)
  PROVE  /\ ServiceTypeOK'
         /\ service' = [registered |-> TRUE, version |-> v] /\ step' = Waiting
         /\ memory' = state.pending /\ held' = state.pending
<1>1. state.pending \in BOOLEAN
  BY StateFields DEF FilesTypeOK
<1> QED BY <1>1 DEF Starts, ServiceTypeOK

-----------------------------------------------------------------------------
(* Every action keeps the invariant *)

USE UpdateAssumption DEF UpdateInv, TypeOK, Versions, None, Broken, Journal, State, Phases,
    Active, Replacing, Running, Absent, Waiting, ManagerSteps, HelperSteps, files, daemon

\* A release only changes what a check will find.
LEMMA PublishKeeps ==
  ASSUME UpdateInv, Publish, Prompt
  PROVE  UpdateInv'
<1>1. TypeOK'
  BY DEF Publish, FilesTypeOK, ServiceTypeOK, HelperTypeOK
<1>2. ServiceInv'
  BY DEF Publish, ServiceInv
<1>3. JournalInv'
  BY DEF Publish, JournalInv
<1>4. HelperInv'
  BY DEF Publish, HelperInv
<1>5. StepInv'
  BY DEF Publish, StepInv, SamePending
<1> QED BY <1>1, <1>2, <1>3, <1>4, <1>5

\* Work is only taken while nothing is active.
LEMMA TakeWorkKeeps ==
  ASSUME UpdateInv, TakeWork, Prompt
  PROVE  UpdateInv'
<1>1. TypeOK'
  BY DEF TakeWork, FilesTypeOK, ServiceTypeOK, HelperTypeOK
<1>2. ServiceInv'
  BY DEF TakeWork, ServiceInv
<1>3. JournalInv'
  BY DEF TakeWork, JournalInv
<1>4. HelperInv'
  BY DEF TakeWork, HelperInv
<1>5. StepInv'
  BY DEF TakeWork, StepInv, SamePending
<1> QED BY <1>1, <1>2, <1>3, <1>4, <1>5

\* Work that ends disturbs nothing.
LEMMA FinishWorkKeeps ==
  ASSUME UpdateInv, FinishWork, Prompt
  PROVE  UpdateInv'
<1>1. FilesTypeOK'
  BY DEF FinishWork, FilesTypeOK
<1>2. ServiceTypeOK'
  BY DEF FinishWork, ServiceTypeOK
<1>3. HelperTypeOK'
  BY DEF FinishWork, HelperTypeOK
<1>4. ServiceInv'
  BY DEF FinishWork, ServiceInv
<1>5. JournalInv'
  BY DEF FinishWork, JournalInv
<1>6. HelperInv'
  BY DEF FinishWork, HelperInv
<1>7. StepInv'
  BY DEF FinishWork, StepInv, SamePending
<1> QED BY <1>1, <1>2, <1>3, <1>4, <1>5, <1>6, <1>7

\* The supervisor only makes its workers agree with what the manager says.
LEMMA SuperviseKeeps ==
  ASSUME UpdateInv, Supervise, Prompt
  PROVE  UpdateInv'
<1>1. TypeOK'
  BY DEF Supervise, FilesTypeOK, ServiceTypeOK, HelperTypeOK
<1>2. ServiceInv'
  BY DEF Supervise, ServiceInv
<1>3. JournalInv'
  BY DEF Supervise, JournalInv
<1>4. HelperInv'
  BY DEF Supervise, HelperInv
<1>5. StepInv'
  BY DEF Supervise, StepInv, SamePending
<1> QED BY <1>1, <1>2, <1>3, <1>4, <1>5

\* A service that starts again begins with the state file, and its manager anew.
LEMMA ServiceRestartsKeeps ==
  ASSUME UpdateInv, ServiceRestarts, Prompt
  PROVE  UpdateInv'
<1>1. TypeOK'
  BY DEF ServiceRestarts, Fault, Starts, FilesTypeOK, ServiceTypeOK, HelperTypeOK
<1>2. ServiceInv'
  BY DEF ServiceRestarts, Fault, Starts, FilesTypeOK, ServiceInv
<1>3. JournalInv'
  BY DEF ServiceRestarts, Fault, Starts, JournalInv
<1>4. HelperInv'
  BY DEF ServiceRestarts, Fault, Starts, HelperInv
<1>5. StepInv'
  BY DEF ServiceRestarts, Fault, Starts, StepInv, SamePending
<1> QED BY <1>1, <1>2, <1>3, <1>4, <1>5

\* A helper that dies leaves a journal which another one takes up.
LEMMA HelperDiesKeeps ==
  ASSUME UpdateInv, HelperDies, Prompt
  PROVE  UpdateInv'
<1>1. TypeOK'
  BY DEF HelperDies, Fault, FilesTypeOK, ServiceTypeOK, HelperTypeOK
<1>2. ServiceInv'
  BY DEF HelperDies, Fault, FilesTypeOK, ServiceInv
<1>3. JournalInv'
  BY DEF HelperDies, Fault, JournalInv
<1>4. HelperInv'
  BY DEF HelperDies, Fault, HelperInv
<1>5. StepInv'
  BY DEF HelperDies, Fault, StepInv, SamePending
<1> QED BY <1>1, <1>2, <1>3, <1>4, <1>5

\* So does the machine, which starts the service if its files are there.
LEMMA RebootKeeps ==
  ASSUME UpdateInv, Reboot, Prompt
  PROVE  UpdateInv'
<1>1. FilesTypeOK'
  <2>1. boot' \in 0..MaxFaults /\ faults' \in 0..MaxFaults
    BY DEF Reboot, Fault, FilesTypeOK, ServiceInv
  <2>2. UNCHANGED <<release, tree, backup, staged, journal, state, work, task>>
    BY DEF Reboot
  <2> QED BY <2>1, <2>2 DEF FilesTypeOK
<1>2. ServiceTypeOK'
  <2>1. CASE service.registered /\ tree # Broken
    <3>1. tree \in Versions /\ Starts(tree)
      BY <2>1 DEF Reboot, FilesTypeOK
    <3> QED BY <3>1, StartsType
  <2>2. CASE ~(service.registered /\ tree # Broken)
    BY <2>2 DEF Reboot, Stopped, ServiceTypeOK
  <2> QED BY <2>1, <2>2
<1>3. HelperTypeOK'
  BY DEF Reboot, Fault, Starts, Stopped, HelperTypeOK
<1>4. ServiceInv'
  <2>1. boot' <= faults'
    BY DEF Reboot, Fault, FilesTypeOK, ServiceInv
  <2>2. Running' => service'.version = tree'
    BY DEF Reboot, Starts, Stopped, ServiceTypeOK
  <2> QED BY <2>1, <2>2 DEF ServiceInv
<1>5. JournalInv'
  BY DEF Reboot, Fault, Starts, Stopped, FilesTypeOK, ServiceTypeOK, ServiceInv, JournalInv,
     StepInv
<1>6. HelperInv'
  BY DEF Reboot, Fault, Starts, Stopped, HelperInv
<1>7. StepInv'
  BY DEF Reboot, Fault, Starts, Stopped, StepInv, SamePending
<1> QED BY <1>1, <1>2, <1>3, <1>4, <1>5, <1>6, <1>7

\* A step begins with the state file.
LEMMA StepReadsKeeps ==
  ASSUME UpdateInv, StepReads, Prompt
  PROVE  UpdateInv'
<1>1. TypeOK'
  BY DEF StepReads, At, FilesTypeOK, ServiceTypeOK, HelperTypeOK
<1>2. ServiceInv'
  BY DEF StepReads, At, ServiceInv
<1>3. JournalInv'
  BY DEF StepReads, At, JournalInv
<1>4. HelperInv'
  BY DEF StepReads, At, HelperInv
<1>5. StepInv'
  BY DEF StepReads, At, StepInv, SamePending
<1> QED BY <1>1, <1>2, <1>3, <1>4, <1>5

\* An active journal is left to the helper.
LEMMA StepRecoversKeeps ==
  ASSUME UpdateInv, StepRecovers, Prompt
  PROVE  UpdateInv'
<1>1. TypeOK'
  BY DEF StepRecovers, At, GivesUp, FilesTypeOK, ServiceTypeOK, HelperTypeOK
<1>2. ServiceInv'
  BY DEF StepRecovers, At, GivesUp, ServiceInv
<1>3. JournalInv'
  BY DEF StepRecovers, At, GivesUp, JournalInv
<1>4. HelperInv'
  BY DEF StepRecovers, At, GivesUp, HelperInv
<1>5. StepInv'
  BY DEF StepRecovers, At, GivesUp, StepInv, SamePending
<1> QED BY <1>1, <1>2, <1>3, <1>4, <1>5

\* What is completed is cleared, and only stages of other releases removed.
LEMMA StepClearsKeeps ==
  ASSUME UpdateInv, StepClears, Prompt
  PROVE  UpdateInv'
<1>1. TypeOK'
  BY DEF StepClears, At, GivesUp, ClearCompleted, SamePending, Current, FilesTypeOK,
     ServiceTypeOK, HelperTypeOK
<1>2. ServiceInv'
  BY DEF StepClears, At, GivesUp, ClearCompleted, SamePending, Current, ServiceInv
<1>3. JournalInv'
  BY DEF StepClears, At, GivesUp, ClearCompleted, SamePending, Current, JournalInv
<1>4. HelperInv'
  BY DEF StepClears, At, GivesUp, ClearCompleted, SamePending, Current, HelperInv
<1>5. StepInv'
  BY DEF StepClears, At, GivesUp, ClearCompleted, SamePending, Current, StepInv
<1> QED BY <1>1, <1>2, <1>3, <1>4, <1>5

\* A check chooses a release while no journal is active and no helper lives.
LEMMA StepChecksKeeps ==
  ASSUME UpdateInv, StepChecks, Prompt
  PROVE  UpdateInv'
<1>1. FilesTypeOK'
  BY DEF StepChecks, At, SamePending, Late, FilesTypeOK, ServiceTypeOK
<1>2. ServiceTypeOK'
  <2>1. step.s \in State
    BY StepFields DEF StepChecks, At
  <2>2. PICK s \in State : step' = [at |-> "checked", s |-> s] /\ memory' = s.pending
    BY <2>1, StateFields DEF StepChecks, FilesTypeOK
  <2>3. s.pending \in BOOLEAN
    BY StateFields
  <2>4. step' \in [at : ManagerSteps, s : State] /\ memory' \in BOOLEAN
    BY <2>2, <2>3
  <2>5. UNCHANGED <<service, held>>
    BY DEF StepChecks
  <2> QED BY <2>4, <2>5 DEF ServiceTypeOK
<1>3. HelperTypeOK'
  BY DEF StepChecks, At, SamePending, Late, HelperTypeOK
<1>4. ServiceInv'
  BY DEF StepChecks, At, SamePending, Late, ServiceInv
<1>5. JournalInv'
  BY DEF StepChecks, At, SamePending, Late, JournalInv
<1>6. HelperInv'
  BY DEF StepChecks, At, SamePending, Late, HelperInv
<1>7. StepInv'
  BY DEF StepChecks, At, SamePending, Late, HelperTypeOK, HelperInv, StepInv
<1> QED BY <1>1, <1>2, <1>3, <1>4, <1>5, <1>6, <1>7

\* Without a check the state is the one that was read.
LEMMA StepSkipsKeeps ==
  ASSUME UpdateInv, StepSkips, Prompt
  PROVE  UpdateInv'
<1>1. FilesTypeOK'
  BY DEF StepSkips, FilesTypeOK
<1>2. ServiceTypeOK'
  BY DEF StepSkips, At, SamePending, ServiceTypeOK
<1>3. HelperTypeOK'
  BY DEF StepSkips, At, SamePending, HelperTypeOK
<1>4. ServiceInv'
  BY DEF StepSkips, At, SamePending, ServiceInv
<1>5. JournalInv'
  BY DEF StepSkips, At, SamePending, JournalInv
<1>6. HelperInv'
  BY DEF StepSkips, At, SamePending, HelperInv
<1>7. StepInv'
  <2>1. step.at = "read" /\ step.s \in State /\ Running /\ step.s.pending
    BY StepFields DEF StepSkips, At
  <2>2. step' = [at |-> "checked", s |-> step.s] /\ memory = step.s.pending
    BY <2>1, StepFields DEF StepSkips, StepInv
  <2>3. UNCHANGED <<journal, state, service, memory, held, work, helper, task>>
    BY DEF StepSkips
  <2>4. state.pending = step.s.pending /\ state.target = step.s.target
    BY <2>1 DEF StepSkips, StepInv
  <2>5. helper = Absent
    BY <2>1, <2>4 DEF StepSkips, SamePending, HelperInv, HelperTypeOK
  <2> QED BY <2>1, <2>2, <2>3, <2>4, <2>5 DEF StepSkips, StepInv
<1> QED BY <1>1, <1>2, <1>3, <1>4, <1>5, <1>6, <1>7

\* Nothing is pending, or nothing newer.
LEMMA StepEndsKeeps ==
  ASSUME UpdateInv, StepEnds, Prompt
  PROVE  UpdateInv'
<1>1. FilesTypeOK'
  <2>1. step.s \in State
    BY StepFields DEF StepEnds, At
  <2>2. state' \in State
    BY <2>1, StateFields DEF StepEnds
  <2> QED BY <2>2 DEF StepEnds, FilesTypeOK
<1>2. ServiceTypeOK'
  BY DEF StepEnds, At, GivesUp, ServiceTypeOK
<1>3. HelperTypeOK'
  BY DEF StepEnds, At, GivesUp, HelperTypeOK
<1>4. ServiceInv'
  BY DEF StepEnds, At, GivesUp, ServiceInv
<1>5. JournalInv'
  BY DEF StepEnds, At, GivesUp, FilesTypeOK, ServiceTypeOK, ServiceInv, JournalInv, StepInv
<1>6. HelperInv'
  BY DEF StepEnds, At, GivesUp, FilesTypeOK, ServiceTypeOK, HelperTypeOK, ServiceInv,
     JournalInv, HelperInv, StepInv
<1>7. StepInv'
  BY DEF StepEnds, At, GivesUp, StepInv, SamePending
<1> QED BY <1>1, <1>2, <1>3, <1>4, <1>5, <1>6, <1>7

\* Admission is held from here on.
LEMMA StepDrainsKeeps ==
  ASSUME UpdateInv, StepDrains, Prompt
  PROVE  UpdateInv'
<1>1. FilesTypeOK'
  BY DEF StepDrains, At, FilesTypeOK
<1>2. ServiceTypeOK'
  BY DEF StepDrains, At, ServiceTypeOK
<1>3. HelperTypeOK'
  BY DEF StepDrains, At, HelperTypeOK
<1>4. ServiceInv'
  BY DEF StepDrains, At, ServiceInv
<1>5. JournalInv'
  BY DEF StepDrains, At, JournalInv
<1>6. HelperInv'
  BY DEF StepDrains, At, HelperInv
<1>7. StepInv'
  <2>1. step' = [at |-> "drained", s |-> step.s] /\ step.at = "checked" /\ Running
    BY StepFields DEF StepDrains, At
  <2>2. UNCHANGED <<journal, state, service, memory, work, helper, task>> /\ held'
    BY DEF StepDrains
  <2>3. step.s.pending /\ step.s.target > service.version /\ memory
    BY <2>1 DEF StepDrains, StepInv
  <2>4. /\ ~Active(journal) /\ helper = Absent
        /\ state.pending = step.s.pending /\ state.target = step.s.target
    BY <2>1 DEF StepInv
  <2> QED BY <2>1, <2>2, <2>3, <2>4 DEF StepInv
<1> QED BY <1>1, <1>2, <1>3, <1>4, <1>5, <1>6, <1>7

\* The installer is put on disk.
LEMMA StepStagesKeeps ==
  ASSUME UpdateInv, StepStages, Prompt
  PROVE  UpdateInv'
<1>1. FilesTypeOK'
  <2>1. step.s \in State
    BY StepFields DEF StepStages, At
  <2>2. step.s.target \in Versions
    BY <2>1, StateFields
  <2>3. staged' \subseteq Versions
    BY <2>2 DEF StepStages, FilesTypeOK
  <2> QED BY <2>3 DEF StepStages, FilesTypeOK
<1>2. ServiceTypeOK'
  BY DEF StepStages, At, ServiceTypeOK
<1>3. HelperTypeOK'
  BY DEF StepStages, At, HelperTypeOK
<1>4. ServiceInv'
  BY DEF StepStages, At, ServiceInv
<1>5. JournalInv'
  BY DEF StepStages, At, JournalInv
<1>6. HelperInv'
  BY DEF StepStages, At, HelperInv
<1>7. StepInv'
  BY DEF StepStages, At, StepInv, SamePending
<1> QED BY <1>1, <1>2, <1>3, <1>4, <1>5, <1>6, <1>7

\* A failure leaves what is pending.
LEMMA StepFailsKeeps ==
  ASSUME UpdateInv, StepFails, Prompt
  PROVE  UpdateInv'
<1>1. FilesTypeOK'
  <2>1. step.s \in State
    BY StepFields DEF StepFails, At
  <2>2. state' \in State
    BY <2>1, StateFields DEF StepFails
  <2>4. faults' \in 0..MaxFaults
    BY DEF StepFails, Fault, FilesTypeOK
  <2>5. UNCHANGED <<release, tree, backup, staged, work, task, boot>> /\ journal' = journal
    BY DEF StepFails
  <2> QED BY <2>2, <2>4, <2>5 DEF FilesTypeOK
<1>2. ServiceTypeOK'
  BY DEF StepFails, At, Fault, GivesUp, ServiceTypeOK
<1>3. HelperTypeOK'
  BY DEF StepFails, At, Fault, GivesUp, HelperTypeOK
<1>4. ServiceInv'
  BY DEF StepFails, At, Fault, GivesUp, FilesTypeOK, ServiceInv
<1>5. JournalInv'
  BY DEF StepFails, At, Fault, GivesUp, FilesTypeOK, ServiceTypeOK, ServiceInv, JournalInv,
     StepInv
<1>6. HelperInv'
  <2>1. step.s \in State /\ ((step.at = "read" /\ ~Active(journal)) \/ step.at = "drained")
    BY StepFields DEF StepFails, At
  <2>2. state'.pending = step.s.pending /\ state'.target = step.s.target
    BY <2>1, StateFields DEF StepFails
  <2>3. UNCHANGED <<tree, backup, journal, service, helper, task>>
    BY DEF StepFails
  <2> QED BY <2>1, <2>2, <2>3 DEF HelperInv, StepInv, SamePending, HelperTypeOK
<1>7. StepInv'
  BY DEF StepFails, At, Fault, GivesUp, StepInv, SamePending
<1> QED BY <1>1, <1>2, <1>3, <1>4, <1>5, <1>6, <1>7

\* What is accepted is waited for.
LEMMA StepWaitsKeeps ==
  ASSUME UpdateInv, StepWaits, Prompt
  PROVE  UpdateInv'
<1>1. FilesTypeOK'
  <2>1. step.s \in State
    BY StepFields DEF StepWaits, At
  <2>2. state' \in State
    BY <2>1, StateFields DEF StepWaits
  <2> QED BY <2>2 DEF StepWaits, FilesTypeOK
<1>2. ServiceTypeOK'
  BY DEF StepWaits, At, GivesUp, Idle, ServiceTypeOK
<1>3. HelperTypeOK'
  BY DEF StepWaits, At, GivesUp, Idle, HelperTypeOK
<1>4. ServiceInv'
  BY DEF StepWaits, At, GivesUp, Idle, ServiceInv
<1>5. JournalInv'
  BY DEF StepWaits, At, GivesUp, Idle, JournalInv
<1>6. HelperInv'
  BY DEF StepWaits, At, GivesUp, Idle, FilesTypeOK, ServiceTypeOK, HelperTypeOK, ServiceInv,
     JournalInv, HelperInv, StepInv
<1>7. StepInv'
  BY DEF StepWaits, At, GivesUp, Idle, StepInv, SamePending
<1> QED BY <1>1, <1>2, <1>3, <1>4, <1>5, <1>6, <1>7

\* From here on nothing is accepted.
LEMMA StepInstallsKeeps ==
  ASSUME UpdateInv, StepInstalls, Prompt
  PROVE  UpdateInv'
<1>1. FilesTypeOK'
  <2>1. step.s \in State
    BY StepFields DEF StepInstalls, At
  <2>2. state' \in State
    BY <2>1, StateFields DEF StepInstalls
  <2> QED BY <2>2 DEF StepInstalls, FilesTypeOK
<1>2. ServiceTypeOK'
  BY DEF StepInstalls, At, Idle, ServiceTypeOK
<1>3. HelperTypeOK'
  BY DEF StepInstalls, At, Idle, HelperTypeOK
<1>4. ServiceInv'
  BY DEF StepInstalls, At, Idle, ServiceInv
<1>5. JournalInv'
  BY DEF StepInstalls, At, Idle, FilesTypeOK, ServiceTypeOK, ServiceInv, JournalInv, StepInv
<1>6. HelperInv'
  BY DEF StepInstalls, At, Idle, FilesTypeOK, ServiceTypeOK, HelperTypeOK, ServiceInv,
     JournalInv, HelperInv, StepInv
<1>7. StepInv'
  BY DEF StepInstalls, At, Idle, StepInv, SamePending
<1> QED BY <1>1, <1>2, <1>3, <1>4, <1>5, <1>6, <1>7

\* The journal becomes active for a newer release, while admission is held.
LEMMA PrepareKeeps ==
  ASSUME UpdateInv, Prepare, Prompt
  PROVE  UpdateInv'
<1>1. FilesTypeOK'
  <2>1. step.s \in State /\ Running
    BY StepFields DEF Prepare, At
  <2>2. step.s.target \in Versions /\ service.version \in Versions /\ boot \in Nat
    BY <2>1, StateFields DEF ServiceTypeOK, FilesTypeOK
  <2>3. journal' \in Journal
    BY <2>2 DEF Prepare
  <2> QED BY <2>3 DEF Prepare, FilesTypeOK
<1>2. ServiceTypeOK'
  BY DEF Prepare, At, ServiceTypeOK
<1>3. HelperTypeOK'
  BY DEF Prepare, At, HelperTypeOK
<1>4. ServiceInv'
  BY DEF Prepare, At, ServiceInv
<1>5. JournalInv'
  BY DEF Prepare, At, FilesTypeOK, ServiceTypeOK, ServiceInv, JournalInv, StepInv
<1>6. HelperInv'
  <2>1. helper = Absent
    BY DEF Prepare, At, StepInv
  <2> QED BY <2>1 DEF Prepare, HelperInv
<1>7. StepInv'
  BY DEF Prepare, At, StepInv, SamePending
<1> QED BY <1>1, <1>2, <1>3, <1>4, <1>5, <1>6, <1>7

\* The task is registered.
LEMMA RegisterKeeps ==
  ASSUME UpdateInv, Register, Prompt
  PROVE  UpdateInv'
<1>1. FilesTypeOK'
  BY DEF Register, At, FilesTypeOK
<1>2. ServiceTypeOK'
  BY StepFields DEF Register, At, ServiceTypeOK
<1>3. HelperTypeOK'
  BY DEF Register, At, HelperTypeOK
<1>4. ServiceInv'
  BY DEF Register, At, ServiceInv
<1>5. JournalInv'
  BY DEF Register, At, JournalInv
<1>6. HelperInv'
  BY DEF Register, At, HelperInv
<1>7. StepInv'
  BY DEF Register, At, StepInv, SamePending
<1> QED BY <1>1, <1>2, <1>3, <1>4, <1>5, <1>6, <1>7

\* A prepared update is given up before a helper lives.
LEMMA PrepareFailsKeeps ==
  ASSUME UpdateInv, PrepareFails, Prompt
  PROVE  UpdateInv'
<1>1. FilesTypeOK'
  <2>1. step.s \in State /\ Running
    BY StepFields DEF PrepareFails, At
  <2>2. service.version \in Versions
    BY <2>1 DEF ServiceTypeOK
  <2>3. state' \in State /\ journal' \in Journal
    BY <2>1, <2>2, StateFields DEF PrepareFails, FilesTypeOK
  <2>4. faults' \in 0..MaxFaults
    BY DEF PrepareFails, Fault, FilesTypeOK
  <2>5. UNCHANGED <<release, tree, backup, staged, work, task, boot>>
    BY DEF PrepareFails
  <2> QED BY <2>3, <2>4, <2>5 DEF FilesTypeOK
<1>2. ServiceTypeOK'
  BY DEF PrepareFails, At, Fault, GivesUp, Failed, ServiceTypeOK
<1>3. HelperTypeOK'
  BY DEF PrepareFails, At, Fault, GivesUp, Failed, HelperTypeOK
<1>4. ServiceInv'
  BY DEF PrepareFails, At, Fault, GivesUp, Failed, FilesTypeOK, ServiceInv
<1>5. JournalInv'
  BY DEF PrepareFails, At, Fault, GivesUp, Failed, FilesTypeOK, ServiceTypeOK, ServiceInv,
     JournalInv, StepInv
<1>6. HelperInv'
  BY DEF PrepareFails, At, Fault, GivesUp, Failed, HelperInv
<1>7. StepInv'
  BY DEF PrepareFails, At, Fault, GivesUp, Failed, StepInv, SamePending
<1> QED BY <1>1, <1>2, <1>3, <1>4, <1>5, <1>6, <1>7

\* The helper begins where the journal says.
LEMMA LaunchKeeps ==
  ASSUME UpdateInv, Launch, Prompt
  PROVE  UpdateInv'
<1>1. FilesTypeOK'
  BY DEF Launch, At, GivesUp, Entry, FilesTypeOK
<1>2. ServiceTypeOK'
  BY DEF Launch, At, GivesUp, Entry, ServiceTypeOK
<1>3. HelperTypeOK'
  <2>1. Entry(journal) = Absent \/ Entry(journal) \in [at : HelperSteps, t : Journal]
    BY DEF Entry, FilesTypeOK
  <2> QED BY <2>1 DEF Launch, HelperTypeOK
<1>4. ServiceInv'
  BY DEF Launch, At, GivesUp, Entry, ServiceInv
<1>5. JournalInv'
  BY DEF Launch, At, GivesUp, Entry, JournalInv
<1>6. HelperInv'
  BY DEF Launch, At, GivesUp, Entry, FilesTypeOK, ServiceTypeOK, HelperTypeOK, ServiceInv,
     JournalInv, HelperInv, StepInv
<1>7. StepInv'
  BY DEF Launch, At, GivesUp, Entry, StepInv, SamePending
<1> QED BY <1>1, <1>2, <1>3, <1>4, <1>5, <1>6, <1>7

\* So does the one that the task starts.
LEMMA TaskRunsKeeps ==
  ASSUME UpdateInv, TaskRuns, Prompt
  PROVE  UpdateInv'
<1>1. FilesTypeOK'
  BY DEF TaskRuns, Entry, FilesTypeOK
<1>2. ServiceTypeOK'
  BY DEF TaskRuns, Entry, ServiceTypeOK
<1>3. HelperTypeOK'
  <2>1. Entry(journal) = Absent \/ Entry(journal) \in [at : HelperSteps, t : Journal]
    BY DEF Entry, FilesTypeOK
  <2> QED BY <2>1 DEF TaskRuns, HelperTypeOK
<1>4. ServiceInv'
  BY DEF TaskRuns, Entry, ServiceInv
<1>5. JournalInv'
  BY DEF TaskRuns, Entry, JournalInv
<1>6. HelperInv'
  BY DEF TaskRuns, Entry, HelperInv
<1>7. StepInv'
  BY DEF TaskRuns, Entry, StepInv, SamePending
<1> QED BY <1>1, <1>2, <1>3, <1>4, <1>5, <1>6, <1>7

\* Before anything is changed the helper only gives up.
LEMMA BeforeFailsKeeps ==
  ASSUME UpdateInv, BeforeFails, Prompt
  PROVE  UpdateInv'
<1>1. FilesTypeOK'
  <2>1. helper.t \in Journal
    BY DEF BeforeFails, Doing, HelperTypeOK
  <2>2. journal' \in Journal
    BY <2>1, JournalFields DEF BeforeFails, SaveAndExit
  <2>3. state' \in State
    BY StateFields DEF BeforeFails, FilesTypeOK
  <2>4. faults' \in 0..MaxFaults
    BY DEF BeforeFails, Fault, FilesTypeOK
  <2>5. UNCHANGED <<release, tree, backup, staged, work, task, boot>>
    BY DEF BeforeFails
  <2> QED BY <2>2, <2>3, <2>4, <2>5 DEF FilesTypeOK
<1>2. ServiceTypeOK'
  BY DEF BeforeFails, Doing, SaveAndExit, Fault, Failed, ServiceTypeOK
<1>3. HelperTypeOK'
  BY DEF BeforeFails, Doing, SaveAndExit, Fault, Failed, HelperTypeOK
<1>4. ServiceInv'
  BY DEF BeforeFails, Doing, SaveAndExit, Fault, Failed, FilesTypeOK, ServiceInv
<1>5. JournalInv'
  BY DEF BeforeFails, Doing, SaveAndExit, Fault, Failed, FilesTypeOK, JournalInv, HelperInv
<1>6. HelperInv'
  BY DEF BeforeFails, Doing, SaveAndExit, Fault, Failed, HelperInv
<1>7. StepInv'
  BY DEF BeforeFails, Doing, SaveAndExit, Fault, Failed, FilesTypeOK, ServiceTypeOK,
     HelperTypeOK, ServiceInv, JournalInv, HelperInv, StepInv, SamePending
<1> QED BY <1>1, <1>2, <1>3, <1>4, <1>5, <1>6, <1>7

\* A former copy is removed, which no active journal names.
LEMMA RemoveBackupKeeps ==
  ASSUME UpdateInv, RemoveBackup, Prompt
  PROVE  UpdateInv'
<1>1. FilesTypeOK'
  BY DEF RemoveBackup, Doing, Then, FilesTypeOK
<1>2. ServiceTypeOK'
  BY DEF RemoveBackup, Doing, Then, ServiceTypeOK
<1>3. HelperTypeOK'
  BY DEF RemoveBackup, Doing, Then, HelperTypeOK
<1>4. ServiceInv'
  BY DEF RemoveBackup, Doing, Then, ServiceInv
<1>5. JournalInv'
  BY DEF RemoveBackup, Doing, Then, FilesTypeOK, JournalInv, HelperInv
<1>6. HelperInv'
  BY DEF RemoveBackup, Doing, Then, HelperInv
<1>7. StepInv'
  BY DEF RemoveBackup, Doing, Then, StepInv, SamePending
<1> QED BY <1>1, <1>2, <1>3, <1>4, <1>5, <1>6, <1>7

\* The copy is that of the tree.
LEMMA CopyTreeKeeps ==
  ASSUME UpdateInv, CopyTree, Prompt
  PROVE  UpdateInv'
<1>1. FilesTypeOK'
  BY DEF CopyTree, Doing, Then, FilesTypeOK
<1>2. ServiceTypeOK'
  BY DEF CopyTree, Doing, Then, ServiceTypeOK
<1>3. HelperTypeOK'
  BY DEF CopyTree, Doing, Then, HelperTypeOK
<1>4. ServiceInv'
  BY DEF CopyTree, Doing, Then, ServiceInv
<1>5. JournalInv'
  BY DEF CopyTree, Doing, Then, FilesTypeOK, JournalInv, HelperInv
<1>6. HelperInv'
  BY DEF CopyTree, Doing, Then, FilesTypeOK, HelperTypeOK, HelperInv
<1>7. StepInv'
  BY DEF CopyTree, Doing, Then, StepInv, SamePending
<1> QED BY <1>1, <1>2, <1>3, <1>4, <1>5, <1>6, <1>7

\* The journal names the copy before anything is changed.
LEMMA BeginInstallKeeps ==
  ASSUME UpdateInv, BeginInstall, Prompt
  PROVE  UpdateInv'
<1>1. FilesTypeOK'
  BY DEF BeginInstall, Doing, FilesTypeOK, JournalInv, HelperInv
<1>2. ServiceTypeOK'
  BY DEF BeginInstall, Doing, ServiceTypeOK
<1>3. HelperTypeOK'
  <2>1. helper.t \in Journal /\ tree \in Versions /\ backup[helper.t.target] = tree
    BY DEF BeginInstall, Doing, FilesTypeOK, HelperTypeOK, JournalInv, HelperInv
  <2>2. [helper.t EXCEPT !.phase = "installing", !.snapshot = tree] \in Journal
    BY <2>1
  <2>3. helper' = [at |-> "stop", t |-> [helper.t EXCEPT !.phase = "installing", !.snapshot = tree]]
    BY <2>1 DEF BeginInstall
  <2> QED BY <2>2, <2>3 DEF HelperTypeOK
<1>4. ServiceInv'
  BY DEF BeginInstall, Doing, ServiceInv
<1>5. JournalInv'
  BY DEF BeginInstall, Doing, FilesTypeOK, JournalInv, HelperInv
<1>6. HelperInv'
  BY DEF BeginInstall, Doing, HelperInv
<1>7. StepInv'
  BY DEF BeginInstall, Doing, HelperTypeOK, HelperInv, StepInv, SamePending
<1> QED BY <1>1, <1>2, <1>3, <1>4, <1>5, <1>6, <1>7

\* The service is stopped, and its manager with it.
LEMMA StopServiceKeeps ==
  ASSUME UpdateInv, StopService, Prompt
  PROVE  UpdateInv'
<1>1. FilesTypeOK'
  BY DEF StopService, Doing, Then, Stopped, FilesTypeOK
<1>2. ServiceTypeOK'
  BY DEF StopService, Doing, Then, Stopped, ServiceTypeOK
<1>3. HelperTypeOK'
  BY DEF StopService, Doing, Then, Stopped, HelperTypeOK
<1>4. ServiceInv'
  BY DEF StopService, Doing, Then, Stopped, ServiceInv
<1>5. JournalInv'
  BY DEF StopService, Doing, Then, Stopped, JournalInv
<1>6. HelperInv'
  BY DEF StopService, Doing, Then, Stopped, HelperInv
<1>7. StepInv'
  BY DEF StopService, Doing, Then, Stopped, StepInv, SamePending
<1> QED BY <1>1, <1>2, <1>3, <1>4, <1>5, <1>6, <1>7

\* Setup removes the tree: the copy is there.
LEMMA SetupRemovesKeeps ==
  ASSUME UpdateInv, SetupRemoves, Prompt
  PROVE  UpdateInv'
<1>1. FilesTypeOK'
  BY DEF SetupRemoves, Doing, Then, FilesTypeOK
<1>2. ServiceTypeOK'
  BY DEF SetupRemoves, Doing, Then, ServiceTypeOK
<1>3. HelperTypeOK'
  BY DEF SetupRemoves, Doing, Then, HelperTypeOK
<1>4. ServiceInv'
  BY DEF SetupRemoves, Doing, Then, ServiceInv
<1>5. JournalInv'
  BY DEF SetupRemoves, Doing, Then, FilesTypeOK, JournalInv, HelperInv
<1>6. HelperInv'
  BY DEF SetupRemoves, Doing, Then, HelperInv
<1>7. StepInv'
  BY DEF SetupRemoves, Doing, Then, StepInv, SamePending
<1> QED BY <1>1, <1>2, <1>3, <1>4, <1>5, <1>6, <1>7

\* It writes the new one and starts it, which holds admission.
LEMMA SetupWritesKeeps ==
  ASSUME UpdateInv, SetupWrites, Prompt
  PROVE  UpdateInv'
<1>1. FilesTypeOK'
  <2>1. tree' \in Versions
    BY JournalFields DEF SetupWrites, Doing, HelperTypeOK
  <2>2. UNCHANGED <<release, backup, staged, journal, state, work, task, boot, faults>>
    BY DEF SetupWrites
  <2> QED BY <2>1, <2>2 DEF FilesTypeOK
<1>2. ServiceTypeOK'
  <2>1. helper.t.target \in Versions /\ Starts(helper.t.target)
    BY DEF SetupWrites, Doing, FilesTypeOK, HelperTypeOK
  <2> QED BY <2>1, StartsType
<1>3. HelperTypeOK'
  BY DEF SetupWrites, Doing, Then, Starts, HelperTypeOK
<1>4. ServiceInv'
  BY DEF SetupWrites, Doing, Then, Starts, ServiceInv
<1>5. JournalInv'
  BY DEF SetupWrites, Doing, Then, Starts, FilesTypeOK, JournalInv, HelperInv
<1>6. HelperInv'
  BY DEF SetupWrites, Doing, Then, Starts, HelperInv
<1>7. StepInv'
  BY DEF SetupWrites, Doing, Then, Starts, StepInv, SamePending
<1> QED BY <1>1, <1>2, <1>3, <1>4, <1>5, <1>6, <1>7

\* The journal goes on to the verification.
LEMMA SetupEndsKeeps ==
  ASSUME UpdateInv, SetupEnds, Prompt
  PROVE  UpdateInv'
<1>1. FilesTypeOK'
  BY DEF SetupEnds, Doing, Save, FilesTypeOK, HelperTypeOK
<1>2. ServiceTypeOK'
  BY DEF SetupEnds, Doing, Save, ServiceTypeOK
<1>3. HelperTypeOK'
  BY DEF SetupEnds, Doing, Save, HelperTypeOK
<1>4. ServiceInv'
  BY DEF SetupEnds, Doing, Save, ServiceInv
<1>5. JournalInv'
  BY DEF SetupEnds, Doing, Save, FilesTypeOK, JournalInv, HelperInv
<1>6. HelperInv'
  BY DEF SetupEnds, Doing, Save, HelperInv
<1>7. StepInv'
  BY DEF SetupEnds, Doing, Save, HelperTypeOK, HelperInv, StepInv, SamePending
<1> QED BY <1>1, <1>2, <1>3, <1>4, <1>5, <1>6, <1>7

\* Or to the restart of the machine.
LEMMA RestartRequiredKeeps ==
  ASSUME UpdateInv, RestartRequired, Prompt
  PROVE  UpdateInv'
<1>1. FilesTypeOK'
  <2>1. helper.t \in Journal /\ boot \in Nat
    BY DEF RestartRequired, Doing, FilesTypeOK, HelperTypeOK
  <2>2. [helper.t EXCEPT !.phase = "restart-required", !.boot = boot] \in Journal
    BY <2>1
  <2>3. journal' \in Journal
    BY <2>2 DEF RestartRequired
  <2>4. faults' \in 0..MaxFaults
    BY DEF RestartRequired, Fault, FilesTypeOK
  <2>5. UNCHANGED <<release, tree, backup, staged, state, work, task, boot>>
    BY DEF RestartRequired
  <2> QED BY <2>3, <2>4, <2>5 DEF FilesTypeOK
<1>2. ServiceTypeOK'
  BY DEF RestartRequired, Doing, Fault, ServiceTypeOK
<1>3. HelperTypeOK'
  BY DEF RestartRequired, Doing, Fault, HelperTypeOK
<1>4. ServiceInv'
  BY DEF RestartRequired, Doing, Fault, FilesTypeOK, ServiceInv
<1>5. JournalInv'
  BY DEF RestartRequired, Doing, Fault, FilesTypeOK, JournalInv, HelperInv
<1>6. HelperInv'
  BY DEF RestartRequired, Doing, Fault, HelperInv
<1>7. StepInv'
  BY DEF RestartRequired, Doing, Fault, HelperTypeOK, HelperInv, StepInv, SamePending
<1> QED BY <1>1, <1>2, <1>3, <1>4, <1>5, <1>6, <1>7

\* The tree is that of the release.
LEMMA VerifyKeeps ==
  ASSUME UpdateInv, Verify, Prompt
  PROVE  UpdateInv'
<1>1. FilesTypeOK'
  BY DEF Verify, Doing, Then, Starts, FilesTypeOK
<1>2. ServiceTypeOK'
  <2>1. CASE Running
    BY <2>1 DEF Verify, ServiceTypeOK
  <2>2. CASE ~Running
    <3>1. tree \in Versions /\ Starts(tree)
      BY <2>2 DEF Verify, Doing, FilesTypeOK, HelperTypeOK
    <3> QED BY <3>1, StartsType
  <2> QED BY <2>1, <2>2
<1>3. HelperTypeOK'
  BY DEF Verify, Doing, Then, Starts, HelperTypeOK
<1>4. ServiceInv'
  BY DEF Verify, Doing, Then, Starts, ServiceInv
<1>5. JournalInv'
  BY DEF Verify, Doing, Then, Starts, JournalInv
<1>6. HelperInv'
  BY DEF Verify, Doing, Then, Starts, HelperInv
<1>7. StepInv'
  BY DEF Verify, Doing, Then, Starts, StepInv, SamePending
<1> QED BY <1>1, <1>2, <1>3, <1>4, <1>5, <1>6, <1>7

\* Its service answers, and is of the release.
LEMMA HealthKeeps ==
  ASSUME UpdateInv, Health, Prompt
  PROVE  UpdateInv'
<1>1. FilesTypeOK'
  BY DEF Health, Doing, Then, Healthy, FilesTypeOK
<1>2. ServiceTypeOK'
  BY DEF Health, Doing, Then, Healthy, ServiceTypeOK
<1>3. HelperTypeOK'
  BY DEF Health, Doing, Then, Healthy, HelperTypeOK
<1>4. ServiceInv'
  BY DEF Health, Doing, Then, Healthy, ServiceInv
<1>5. JournalInv'
  BY DEF Health, Doing, Then, Healthy, JournalInv
<1>6. HelperInv'
  BY DEF Health, Doing, Then, Healthy, HelperInv
<1>7. StepInv'
  BY DEF Health, Doing, Then, Healthy, StepInv, SamePending
<1> QED BY <1>1, <1>2, <1>3, <1>4, <1>5, <1>6, <1>7

\* Or it does not, and the copy is restored.
LEMMA UnhealthyKeeps ==
  ASSUME UpdateInv, Unhealthy, Prompt
  PROVE  UpdateInv'
<1>1. FilesTypeOK'
  BY DEF Unhealthy, Doing, Then, Healthy, FilesTypeOK
<1>2. ServiceTypeOK'
  BY DEF Unhealthy, Doing, Then, Healthy, ServiceTypeOK
<1>3. HelperTypeOK'
  BY DEF Unhealthy, Doing, Then, Healthy, HelperTypeOK
<1>4. ServiceInv'
  BY DEF Unhealthy, Doing, Then, Healthy, ServiceInv
<1>5. JournalInv'
  BY DEF Unhealthy, Doing, Then, Healthy, JournalInv
<1>6. HelperInv'
  BY DEF Unhealthy, Doing, Then, Healthy, HelperInv
<1>7. StepInv'
  BY DEF Unhealthy, Doing, Then, Healthy, StepInv, SamePending
<1> QED BY <1>1, <1>2, <1>3, <1>4, <1>5, <1>6, <1>7

\* What is completed is what is there.
LEMMA CompleteKeeps ==
  ASSUME UpdateInv, Complete, Prompt
  PROVE  UpdateInv'
<1>1. FilesTypeOK'
  BY DEF Complete, Doing, Save, FilesTypeOK, HelperTypeOK
<1>2. ServiceTypeOK'
  BY DEF Complete, Doing, Save, ServiceTypeOK
<1>3. HelperTypeOK'
  BY DEF Complete, Doing, Save, HelperTypeOK
<1>4. ServiceInv'
  BY DEF Complete, Doing, Save, ServiceInv
<1>5. JournalInv'
  BY DEF Complete, Doing, Save, FilesTypeOK, JournalInv, HelperInv
<1>6. HelperInv'
  BY DEF Complete, Doing, Save, FilesTypeOK, HelperTypeOK, JournalInv, HelperInv
<1>7. StepInv'
  BY DEF Complete, Doing, Save, HelperTypeOK, HelperInv, StepInv, SamePending
<1> QED BY <1>1, <1>2, <1>3, <1>4, <1>5, <1>6, <1>7

\* The state and the stages of other releases are cleared.
LEMMA ClearKeeps ==
  ASSUME UpdateInv, Clear, Prompt
  PROVE  UpdateInv'
<1>1. FilesTypeOK'
  BY DEF Clear, Doing, Then, ClearCompleted, Current, FilesTypeOK, HelperTypeOK
<1>2. ServiceTypeOK'
  BY DEF Clear, Doing, Then, ClearCompleted, Current, ServiceTypeOK
<1>3. HelperTypeOK'
  BY DEF Clear, Doing, Then, ClearCompleted, Current, HelperTypeOK
<1>4. ServiceInv'
  BY DEF Clear, Doing, Then, ClearCompleted, Current, ServiceInv
<1>5. JournalInv'
  BY DEF Clear, Doing, Then, ClearCompleted, Current, FilesTypeOK, JournalInv, HelperInv
<1>6. HelperInv'
  BY DEF Clear, Doing, Then, ClearCompleted, Current, HelperInv
<1>7. StepInv'
  BY DEF Clear, Doing, Then, ClearCompleted, Current, HelperTypeOK, HelperInv, StepInv,
     SamePending
<1> QED BY <1>1, <1>2, <1>3, <1>4, <1>5, <1>6, <1>7

\* The task goes when no journal is active any more.
LEMMA UnregisterKeeps ==
  ASSUME UpdateInv, Unregister, Prompt
  PROVE  UpdateInv'
<1>1. FilesTypeOK'
  BY DEF Unregister, Doing, FilesTypeOK
<1>2. ServiceTypeOK'
  BY DEF Unregister, Doing, ServiceTypeOK
<1>3. HelperTypeOK'
  BY DEF Unregister, Doing, HelperTypeOK
<1>4. ServiceInv'
  BY DEF Unregister, Doing, ServiceInv
<1>5. JournalInv'
  BY DEF Unregister, Doing, FilesTypeOK, JournalInv, HelperInv
<1>6. HelperInv'
  BY DEF Unregister, Doing, HelperInv
<1>7. StepInv'
  BY DEF Unregister, Doing, StepInv, SamePending
<1> QED BY <1>1, <1>2, <1>3, <1>4, <1>5, <1>6, <1>7

\* A step that fails leads to the restoration.
LEMMA FailsKeeps ==
  ASSUME UpdateInv, Fails, Prompt
  PROVE  UpdateInv'
<1>1. FilesTypeOK'
  BY DEF Fails, Then, Fault, FilesTypeOK
<1>2. ServiceTypeOK'
  BY DEF Fails, Then, Fault, ServiceTypeOK
<1>3. HelperTypeOK'
  BY DEF Fails, Then, Fault, HelperTypeOK
<1>4. ServiceInv'
  BY DEF Fails, Then, Fault, FilesTypeOK, ServiceInv
<1>5. JournalInv'
  BY DEF Fails, Then, Fault, JournalInv
<1>6. HelperInv'
  BY DEF Fails, Then, Fault, HelperInv
<1>7. StepInv'
  BY DEF Fails, Then, Fault, StepInv, SamePending
<1> QED BY <1>1, <1>2, <1>3, <1>4, <1>5, <1>6, <1>7

\* A journal that cannot be written ends the helper.
LEMMA SaveFailsKeeps ==
  ASSUME UpdateInv, SaveFails, Prompt
  PROVE  UpdateInv'
<1>1. TypeOK'
  BY DEF SaveFails, Fault, FilesTypeOK, ServiceTypeOK, HelperTypeOK
<1>2. ServiceInv'
  BY DEF SaveFails, Fault, FilesTypeOK, ServiceInv
<1>3. JournalInv'
  BY DEF SaveFails, Fault, JournalInv
<1>4. HelperInv'
  BY DEF SaveFails, Fault, HelperInv
<1>5. StepInv'
  BY DEF SaveFails, Fault, StepInv, SamePending
<1> QED BY <1>1, <1>2, <1>3, <1>4, <1>5

\* The restoration is journalled first.
LEMMA RecoverKeeps ==
  ASSUME UpdateInv, Recover, Prompt
  PROVE  UpdateInv'
<1>1. FilesTypeOK'
  BY DEF Recover, Doing, Save, FilesTypeOK, HelperTypeOK
<1>2. ServiceTypeOK'
  BY DEF Recover, Doing, Save, ServiceTypeOK
<1>3. HelperTypeOK'
  BY DEF Recover, Doing, Save, HelperTypeOK
<1>4. ServiceInv'
  BY DEF Recover, Doing, Save, ServiceInv
<1>5. JournalInv'
  BY DEF Recover, Doing, Save, FilesTypeOK, JournalInv, HelperInv
<1>6. HelperInv'
  BY DEF Recover, Doing, Save, HelperInv
<1>7. StepInv'
  BY DEF Recover, Doing, Save, HelperTypeOK, HelperInv, StepInv, SamePending
<1> QED BY <1>1, <1>2, <1>3, <1>4, <1>5, <1>6, <1>7

\* It stops the service.
LEMMA UndoKeeps ==
  ASSUME UpdateInv, Undo, Prompt
  PROVE  UpdateInv'
<1>1. FilesTypeOK'
  BY DEF Undo, Doing, Then, Stopped, FilesTypeOK
<1>2. ServiceTypeOK'
  BY DEF Undo, Doing, Then, Stopped, ServiceTypeOK
<1>3. HelperTypeOK'
  BY DEF Undo, Doing, Then, Stopped, HelperTypeOK
<1>4. ServiceInv'
  BY DEF Undo, Doing, Then, Stopped, ServiceInv
<1>5. JournalInv'
  BY DEF Undo, Doing, Then, Stopped, JournalInv
<1>6. HelperInv'
  BY DEF Undo, Doing, Then, Stopped, HelperInv
<1>7. StepInv'
  BY DEF Undo, Doing, Then, Stopped, StepInv, SamePending
<1> QED BY <1>1, <1>2, <1>3, <1>4, <1>5, <1>6, <1>7

\* The tree goes while its copy is whole.
LEMMA RemoveTreeKeeps ==
  ASSUME UpdateInv, RemoveTree, Prompt
  PROVE  UpdateInv'
<1>1. FilesTypeOK'
  BY DEF RemoveTree, Doing, Then, FilesTypeOK
<1>2. ServiceTypeOK'
  BY DEF RemoveTree, Doing, Then, ServiceTypeOK
<1>3. HelperTypeOK'
  BY DEF RemoveTree, Doing, Then, HelperTypeOK
<1>4. ServiceInv'
  BY DEF RemoveTree, Doing, Then, ServiceInv, HelperTypeOK, HelperInv
<1>5. JournalInv'
  BY DEF RemoveTree, Doing, Then, FilesTypeOK, JournalInv, HelperInv
<1>6. HelperInv'
  BY DEF RemoveTree, Doing, Then, HelperInv
<1>7. StepInv'
  BY DEF RemoveTree, Doing, Then, StepInv, SamePending
<1> QED BY <1>1, <1>2, <1>3, <1>4, <1>5, <1>6, <1>7

\* What comes is the copy.
LEMMA RestoreTreeKeeps ==
  ASSUME UpdateInv, RestoreTree, Prompt
  PROVE  UpdateInv'
<1>1. FilesTypeOK'
  <2>1. helper.t.target \in Versions
    BY JournalFields DEF RestoreTree, Doing, HelperTypeOK
  <2>2. tree' \in Versions \union {Broken}
    BY <2>1 DEF RestoreTree, FilesTypeOK
  <2> QED BY <2>2 DEF RestoreTree, FilesTypeOK
<1>2. ServiceTypeOK'
  BY DEF RestoreTree, Doing, Then, ServiceTypeOK
<1>3. HelperTypeOK'
  BY DEF RestoreTree, Doing, Then, HelperTypeOK
<1>4. ServiceInv'
  BY DEF RestoreTree, Doing, Then, ServiceInv, HelperTypeOK, HelperInv
<1>5. JournalInv'
  BY DEF RestoreTree, Doing, Then, FilesTypeOK, JournalInv, HelperInv
<1>6. HelperInv'
  BY DEF RestoreTree, Doing, Then, FilesTypeOK, HelperTypeOK, JournalInv, HelperInv
<1>7. StepInv'
  BY DEF RestoreTree, Doing, Then, StepInv, SamePending
<1> QED BY <1>1, <1>2, <1>3, <1>4, <1>5, <1>6, <1>7

\* The service of the new release is removed.
LEMMA DropServiceKeeps ==
  ASSUME UpdateInv, DropService, Prompt
  PROVE  UpdateInv'
<1>1. FilesTypeOK'
  BY DEF DropService, Doing, Then, FilesTypeOK
<1>2. ServiceTypeOK'
  BY DEF DropService, Doing, Then, ServiceTypeOK
<1>3. HelperTypeOK'
  BY DEF DropService, Doing, Then, HelperTypeOK
<1>4. ServiceInv'
  BY DEF DropService, Doing, Then, ServiceInv
<1>5. JournalInv'
  BY DEF DropService, Doing, Then, JournalInv
<1>6. HelperInv'
  BY DEF DropService, Doing, Then, HelperInv
<1>7. StepInv'
  BY DEF DropService, Doing, Then, StepInv, SamePending
<1> QED BY <1>1, <1>2, <1>3, <1>4, <1>5, <1>6, <1>7

\* The former one is started, and holds admission.
LEMMA InstallOwnerKeeps ==
  ASSUME UpdateInv, InstallOwner, Prompt
  PROVE  UpdateInv'
<1>1. FilesTypeOK'
  BY DEF InstallOwner, Doing, Then, Starts, FilesTypeOK
<1>2. ServiceTypeOK'
  <2>1. tree \in Versions /\ Starts(tree)
    BY DEF InstallOwner, Doing, FilesTypeOK, HelperInv, JournalInv
  <2> QED BY <2>1, StartsType
<1>3. HelperTypeOK'
  BY DEF InstallOwner, Doing, Then, Starts, HelperTypeOK
<1>4. ServiceInv'
  BY DEF InstallOwner, Doing, Then, Starts, ServiceInv
<1>5. JournalInv'
  BY DEF InstallOwner, Doing, Then, Starts, JournalInv
<1>6. HelperInv'
  BY DEF InstallOwner, Doing, Then, Starts, HelperInv
<1>7. StepInv'
  BY DEF InstallOwner, Doing, Then, Starts, StepInv, SamePending
<1> QED BY <1>1, <1>2, <1>3, <1>4, <1>5, <1>6, <1>7

\* What fails is done again from the beginning.
LEMMA UndoFailsKeeps ==
  ASSUME UpdateInv, UndoFails, Prompt
  PROVE  UpdateInv'
<1>1. FilesTypeOK'
  <2>1. state' \in State
    BY StateFields DEF UndoFails, FilesTypeOK
  <2> QED BY <2>1 DEF UndoFails, Fault, FilesTypeOK
<1>2. ServiceTypeOK'
  BY DEF UndoFails, Then, Fault, Failed, ServiceTypeOK
<1>3. HelperTypeOK'
  BY DEF UndoFails, Then, Fault, Failed, HelperTypeOK
<1>4. ServiceInv'
  BY DEF UndoFails, Then, Fault, Failed, FilesTypeOK, ServiceInv
<1>5. JournalInv'
  BY DEF UndoFails, Then, Fault, Failed, JournalInv
<1>6. HelperInv'
  BY DEF UndoFails, Then, Fault, Failed, HelperInv
<1>7. StepInv'
  <2>1. UNCHANGED <<tree, journal, service, memory, held, step, work, task>>
    BY DEF UndoFails
  <2>2. helper'.at = "undo" /\ journal.phase = "recovering" /\ Active(journal)
    BY DEF UndoFails, Then, HelperInv, HelperTypeOK
  <2>3. state'.pending /\ state'.target = state.target
    BY StateFields DEF UndoFails, FilesTypeOK
  <2>4. SamePending(step.s)' = SamePending(step.s)
    BY <2>1 DEF SamePending
  <2> QED BY <2>1, <2>2, <2>3, <2>4 DEF StepInv, JournalInv, FilesTypeOK
<1> QED BY <1>1, <1>2, <1>3, <1>4, <1>5, <1>6, <1>7

\* The failure is reported when the former release runs.
LEMMA ReportKeeps ==
  ASSUME UpdateInv, Report, Prompt
  PROVE  UpdateInv'
<1>1. FilesTypeOK'
  BY DEF Report, Doing, Then, Failed, FilesTypeOK
<1>2. ServiceTypeOK'
  BY DEF Report, Doing, Then, Failed, ServiceTypeOK
<1>3. HelperTypeOK'
  BY DEF Report, Doing, Then, Failed, HelperTypeOK
<1>4. ServiceInv'
  BY DEF Report, Doing, Then, Failed, ServiceInv
<1>5. JournalInv'
  BY DEF Report, Doing, Then, Failed, JournalInv
<1>6. HelperInv'
  BY DEF Report, Doing, Then, Failed, HelperInv
<1>7. StepInv'
  BY DEF Report, Doing, Then, Failed, FilesTypeOK, ServiceTypeOK, JournalInv, StepInv,
     SamePending
<1> QED BY <1>1, <1>2, <1>3, <1>4, <1>5, <1>6, <1>7

\* The journal is closed with the former release there.
LEMMA CloseKeeps ==
  ASSUME UpdateInv, Close, Prompt
  PROVE  UpdateInv'
<1>1. FilesTypeOK'
  BY DEF Close, Doing, SaveAndExit, FilesTypeOK, HelperTypeOK
<1>2. ServiceTypeOK'
  BY DEF Close, Doing, SaveAndExit, ServiceTypeOK
<1>3. HelperTypeOK'
  BY DEF Close, Doing, SaveAndExit, HelperTypeOK
<1>4. ServiceInv'
  BY DEF Close, Doing, SaveAndExit, ServiceInv
<1>5. JournalInv'
  BY DEF Close, Doing, SaveAndExit, FilesTypeOK, JournalInv, HelperInv
<1>6. HelperInv'
  BY DEF Close, Doing, SaveAndExit, HelperInv
<1>7. StepInv'
  BY DEF Close, Doing, SaveAndExit, HelperTypeOK, HelperInv, StepInv, SamePending
<1> QED BY <1>1, <1>2, <1>3, <1>4, <1>5, <1>6, <1>7

HIDE UpdateAssumption DEF UpdateInv, TypeOK, Versions, None, Broken, Journal, State, Phases,
    Active, Replacing, Running, Absent, Waiting, ManagerSteps, HelperSteps, files, daemon

-----------------------------------------------------------------------------
(* Init, Next and the invariant *)

\* The installation that a former update left.
LEMMA InitInvariant == Init => UpdateInv
<1> SUFFICES ASSUME Init PROVE UpdateInv
  OBVIOUS
<1>1. 1 \in Versions /\ 0 \in 0..MaxFaults /\ tree = 1 /\ tree # Broken
  BY UpdateAssumption DEF Init, Versions, Broken
<1>2. FilesTypeOK
  <2>1. journal \in Journal /\ state \in State
    BY <1>1 DEF Init, Journal, Phases, State, Current, None
  <2>2. backup \in [Versions -> Versions \union {Broken}] /\ staged \subseteq Versions
    BY <1>1 DEF Init
  <2> QED BY <1>1, <2>1, <2>2 DEF Init, FilesTypeOK
<1>5. ServiceTypeOK /\ HelperTypeOK
  BY <1>1 DEF Init, ServiceTypeOK, HelperTypeOK
<1> USE <1>1 DEF Init
<1>3. ServiceInv /\ JournalInv
  BY DEF ServiceInv, JournalInv, Running, Active, Replacing
<1>4. HelperInv /\ StepInv
  BY DEF HelperInv, StepInv, Absent, Waiting
<1> QED BY <1>2, <1>3, <1>4, <1>5 DEF UpdateInv, TypeOK

\* Nothing of it speaks of anything but the variables.
LEMMA StutterKeeps ==
  ASSUME UpdateInv, UNCHANGED vars
  PROVE  UpdateInv'
<1> USE DEF vars, files, daemon
<1>1. FilesTypeOK' /\ ServiceTypeOK' /\ HelperTypeOK'
  BY DEF UpdateInv, TypeOK, FilesTypeOK, ServiceTypeOK, HelperTypeOK
<1>2. ServiceInv' /\ JournalInv'
  BY DEF UpdateInv, ServiceInv, JournalInv, Running, Active, Replacing
<1>3. HelperInv'
  BY DEF UpdateInv, HelperInv, Running, Replacing, Active
<1>4. StepInv'
  BY DEF UpdateInv, StepInv, SamePending, Running, Replacing, Active
<1> QED BY <1>1, <1>2, <1>3, <1>4 DEF UpdateInv, TypeOK

\* Every step of the manager keeps it.
LEMMA ManagerKeeps ==
  ASSUME UpdateInv, Manager, Prompt
  PROVE  UpdateInv'
BY StepReadsKeeps, StepRecoversKeeps, StepClearsKeeps, StepChecksKeeps, StepSkipsKeeps,
   StepEndsKeeps, StepDrainsKeeps, StepStagesKeeps, StepWaitsKeeps, StepInstallsKeeps,
   PrepareKeeps, RegisterKeeps, LaunchKeeps DEF Manager

\* Every step of the helper does.
LEMMA HelperKeeps ==
  ASSUME UpdateInv, Helper, Prompt
  PROVE  UpdateInv'
BY RemoveBackupKeeps, CopyTreeKeeps, BeginInstallKeeps, StopServiceKeeps, SetupRemovesKeeps,
   SetupWritesKeeps, SetupEndsKeeps, VerifyKeeps, HealthKeeps, UnhealthyKeeps, CompleteKeeps,
   ClearKeeps, UnregisterKeeps, RecoverKeeps, UndoKeeps, RemoveTreeKeeps, RestoreTreeKeeps,
   DropServiceKeeps, InstallOwnerKeeps, ReportKeeps, CloseKeeps DEF Helper

\* So does whatever goes wrong.
LEMMA DisturbanceKeeps ==
  ASSUME UpdateInv, Disturbance, Prompt
  PROVE  UpdateInv'
BY ServiceRestartsKeeps, RebootKeeps, StepFailsKeeps, PrepareFailsKeeps, HelperDiesKeeps,
   BeforeFailsKeeps, RestartRequiredKeeps, FailsKeeps, SaveFailsKeeps, UndoFailsKeeps DEF Disturbance

\* And so does every step.
LEMMA NextInvariant ==
  ASSUME UpdateInv, [Next]_vars, Prompt
  PROVE  UpdateInv'
<1>1. CASE Publish
  BY <1>1, PublishKeeps
<1>2. CASE TakeWork \/ FinishWork
  BY <1>2, TakeWorkKeeps, FinishWorkKeeps
<1>3. CASE Supervise
  BY <1>3, SuperviseKeeps
<1>4. CASE Manager
  BY <1>4, ManagerKeeps
<1>5. CASE TaskRuns
  BY <1>5, TaskRunsKeeps
<1>6. CASE Helper
  BY <1>6, HelperKeeps
<1>7. CASE Disturbance
  BY <1>7, DisturbanceKeeps
<1>8. CASE UNCHANGED vars
  BY <1>8, StutterKeeps
<1> QED BY <1>1, <1>2, <1>3, <1>4, <1>5, <1>6, <1>7, <1>8 DEF Next

-----------------------------------------------------------------------------
(* The refinement *)

\* A step that leaves the files and the journal leaves what will be there in the end.
LEMMA SameEffective ==
  ASSUME UNCHANGED <<tree, journal>>
  PROVE  Effective' = Effective
BY DEF Effective, Replacing, Active

\* While the installation is replaced or restored, it is the copy that counts.
LEMMA CopyCounts ==
  ASSUME Replacing(journal), Replacing(journal'), journal'.snapshot = journal.snapshot
  PROVE  Effective' = Effective
BY DEF Effective

\* A journal that is prepared changes nothing yet.
LEMMA PrepareEffective ==
  ASSUME UpdateInv, Prepare, Prompt
  PROVE  Effective' = Effective
BY UpdateAssumption DEF Prepare, At, files, daemon, UpdateInv, TypeOK, FilesTypeOK,
   ServiceTypeOK,
   HelperTypeOK, ServiceInv, JournalInv, HelperInv, StepInv, Effective, Replacing, Active, Running,
   Versions, None, Absent, Waiting

\* The attempt is given up before anything was changed.
LEMMA PrepareFailsEffective ==
  ASSUME UpdateInv, PrepareFails, Prompt
  PROVE  Effective' = Effective
BY UpdateAssumption DEF PrepareFails, At, Fault, files, daemon, UpdateInv, TypeOK,
   FilesTypeOK, ServiceTypeOK,
   HelperTypeOK, ServiceInv, JournalInv, HelperInv, StepInv, Effective, Replacing, Active, Running,
   Versions, None, Absent, Waiting

\* So it is by the helper.
LEMMA BeforeFailsEffective ==
  ASSUME UpdateInv, BeforeFails, Prompt
  PROVE  Effective' = Effective
BY UpdateAssumption DEF BeforeFails, Doing, SaveAndExit, Fault, files, daemon, UpdateInv,
   TypeOK, FilesTypeOK, ServiceTypeOK,
   HelperTypeOK, ServiceInv, JournalInv, HelperInv, StepInv, Effective, Replacing, Active, Running,
   Versions, None, Absent, Waiting

\* From here on the copy counts, which is that of the tree.
LEMMA BeginInstallEffective ==
  ASSUME UpdateInv, BeginInstall, Prompt
  PROVE  Effective' = Effective
BY UpdateAssumption DEF BeginInstall, Doing, files, daemon, UpdateInv, TypeOK, FilesTypeOK,
   ServiceTypeOK,
   HelperTypeOK, ServiceInv, JournalInv, HelperInv, StepInv, Effective, Replacing, Active, Running,
   Versions, None, Absent, Waiting

\* Setup removes a tree that does not count any more.
LEMMA SetupRemovesEffective ==
  ASSUME UpdateInv, SetupRemoves
  PROVE  Effective' = Effective
<1>1. Replacing(journal)
  BY DEF SetupRemoves, Doing, UpdateInv, HelperInv, Replacing, Active, Phases
<1>2. UNCHANGED journal
  BY DEF SetupRemoves
<1> QED BY <1>1, <1>2, CopyCounts

\* Setup writes one that does not count yet.
LEMMA SetupWritesEffective ==
  ASSUME UpdateInv, SetupWrites
  PROVE  Effective' = Effective
<1>1. Replacing(journal)
  BY DEF SetupWrites, Doing, UpdateInv, HelperInv, Replacing, Active, Phases
<1>2. UNCHANGED journal
  BY DEF SetupWrites
<1> QED BY <1>1, <1>2, CopyCounts

\* The journal goes on in phases of the replacement.
LEMMA SetupEndsEffective ==
  ASSUME UpdateInv, SetupEnds
  PROVE  Effective' = Effective
<1>1. Replacing(journal) /\ helper.t = journal /\ journal \in Journal
  BY DEF SetupEnds, Doing, UpdateInv, HelperInv, TypeOK, FilesTypeOK, Replacing, Active, Phases
<1>2. journal'.phase = "verifying" /\ journal'.snapshot = journal.snapshot
  BY <1>1 DEF SetupEnds, Save, Journal
<1> QED BY <1>1, <1>2, CopyCounts DEF Replacing, Active, Phases

\* Or waits for the machine in one.
LEMMA RestartRequiredEffective ==
  ASSUME UpdateInv, RestartRequired
  PROVE  Effective' = Effective
<1>1. Replacing(journal) /\ helper.t = journal /\ journal \in Journal
  BY DEF RestartRequired, Doing, UpdateInv, HelperInv, TypeOK, FilesTypeOK, Replacing, Active,
     Phases
<1>2. journal'.phase = "restart-required" /\ journal'.snapshot = journal.snapshot
  BY <1>1 DEF RestartRequired, Save, Journal
<1> QED BY <1>1, <1>2, CopyCounts DEF Replacing, Active, Phases

\* Or turns back in one.
LEMMA RecoverEffective ==
  ASSUME UpdateInv, Recover
  PROVE  Effective' = Effective
<1>1. Replacing(journal) /\ helper.t = journal /\ journal \in Journal
  BY DEF Recover, Doing, UpdateInv, HelperInv, TypeOK, FilesTypeOK, Replacing, Active, Phases
<1>2. journal'.phase = "recovering" /\ journal'.snapshot = journal.snapshot
  BY <1>1 DEF Recover, Save, Journal
<1> QED BY <1>1, <1>2, CopyCounts DEF Replacing, Active, Phases

\* The restored tree does not count yet.
LEMMA RemoveTreeEffective ==
  ASSUME UpdateInv, RemoveTree
  PROVE  Effective' = Effective
<1>1. Replacing(journal)
  BY DEF RemoveTree, Doing, UpdateInv, HelperInv, Replacing, Active, Phases
<1>2. UNCHANGED journal
  BY DEF RemoveTree
<1> QED BY <1>1, <1>2, CopyCounts

\* Nor when it is there.
LEMMA RestoreTreeEffective ==
  ASSUME UpdateInv, RestoreTree
  PROVE  Effective' = Effective
<1>1. Replacing(journal)
  BY DEF RestoreTree, Doing, UpdateInv, HelperInv, Replacing, Active, Phases
<1>2. UNCHANGED journal
  BY DEF RestoreTree
<1> QED BY <1>1, <1>2, CopyCounts

\* At the end it is the copy.
LEMMA CloseEffective ==
  ASSUME UpdateInv, Close, Prompt
  PROVE  Effective' = Effective
BY UpdateAssumption DEF Close, Doing, SaveAndExit, files, daemon, UpdateInv, TypeOK,
   FilesTypeOK, ServiceTypeOK,
   HelperTypeOK, ServiceInv, JournalInv, HelperInv, StepInv, Effective, Replacing, Active, Running,
   Versions, None, Absent, Waiting

\* The completed journal is the moment of the replacement.
LEMMA CompleteInstalls ==
  ASSUME UpdateInv, Complete
  PROVE  ~work /\ work' = work /\ Effective' \in Versions /\ Effective' > Effective
<1>1. Replacing(journal) /\ tree = journal.target /\ helper.t = journal
  BY DEF Complete, Doing, UpdateInv, HelperInv, Replacing, Active, Phases
<1>2. journal' = [journal EXCEPT !.phase = "completed"] /\ UNCHANGED <<tree, work>>
  BY <1>1 DEF Complete, Save, files
<1>3. ~work /\ journal.snapshot < journal.target
  BY <1>1 DEF UpdateInv, JournalInv, Replacing
<1>4. Effective = journal.snapshot /\ Effective' = journal.target
  BY <1>1, <1>2 DEF Effective, Replacing, Active, UpdateInv, TypeOK, FilesTypeOK, Journal
<1>5. journal.target \in Versions
  BY JournalFields DEF UpdateInv, TypeOK, FilesTypeOK
<1>6. journal.target > journal.snapshot
  BY <1>1, <1>3, <1>5 DEF UpdateInv, JournalInv, Versions
<1> QED BY <1>2, <1>3, <1>4, <1>5, <1>6

\* What the steps that leave tree and journal are.
LEMMA OthersLeave ==
  ASSUME \/ Publish \/ Supervise \/ StepReads \/ StepRecovers \/ StepClears \/ StepChecks
         \/ StepSkips \/ StepEnds \/ StepDrains \/ StepStages \/ StepWaits \/ StepInstalls
         \/ Register \/ Launch \/ TaskRuns \/ RemoveBackup \/ CopyTree \/ StopService \/ Verify
         \/ Health \/ Unhealthy \/ Clear \/ Unregister \/ Undo \/ DropService \/ InstallOwner
         \/ Report \/ ServiceRestarts \/ Reboot \/ StepFails \/ HelperDies \/ Fails \/ SaveFails
         \/ UndoFails
  PROVE  UNCHANGED <<tree, journal>> /\ UNCHANGED work
BY DEF files, daemon, ClearCompleted, Publish, Supervise, StepReads, StepRecovers, StepClears,
   StepChecks, StepSkips, StepEnds,
   StepDrains, StepStages, StepWaits, StepInstalls, Register, Launch, TaskRuns, RemoveBackup,
   CopyTree, StopService, Verify, Health, Unhealthy, Clear, Unregister, Undo, DropService,
   InstallOwner, Report, ServiceRestarts, Reboot, StepFails, HelperDies, Fails, SaveFails,
   UndoFails

\* Every step is one of the abstract update, or leaves what that speaks of.
LEMMA NextRefines ==
  ASSUME UpdateInv, UpdateInv', [Next]_vars, Prompt
  PROVE  [Atomic!Next]_<<Effective, work>>
<1>1. CASE UNCHANGED vars
  BY <1>1, SameEffective DEF vars, files
<1>2. CASE TakeWork \/ FinishWork
  <2>1. UNCHANGED <<tree, journal>> /\ work' = ~work
    BY <1>2 DEF TakeWork, FinishWork, files
  <2> QED BY <2>1, SameEffective DEF Atomic!Next, Atomic!Work
<1>3. CASE Complete
  BY <1>3, CompleteInstalls DEF Atomic!Next, Atomic!Install
<1>4. CASE Prepare
  <2>1. UNCHANGED work
    BY <1>4 DEF Prepare, files, daemon
  <2> QED BY <1>4, <2>1, PrepareEffective
<1>5. CASE PrepareFails
  <2>1. UNCHANGED work
    BY <1>5 DEF PrepareFails, files, daemon
  <2> QED BY <1>5, <2>1, PrepareFailsEffective
<1>6. CASE BeforeFails
  <2>1. UNCHANGED work
    BY <1>6 DEF BeforeFails, files, daemon
  <2> QED BY <1>6, <2>1, BeforeFailsEffective
<1>7. CASE BeginInstall
  <2>1. UNCHANGED work
    BY <1>7 DEF BeginInstall, files, daemon
  <2> QED BY <1>7, <2>1, BeginInstallEffective
<1>8. CASE SetupRemoves
  <2>1. UNCHANGED work
    BY <1>8 DEF SetupRemoves, files, daemon
  <2> QED BY <1>8, <2>1, SetupRemovesEffective
<1>9. CASE SetupWrites
  <2>1. UNCHANGED work
    BY <1>9 DEF SetupWrites, files, daemon
  <2> QED BY <1>9, <2>1, SetupWritesEffective
<1>10. CASE SetupEnds
  <2>1. UNCHANGED work
    BY <1>10 DEF SetupEnds, files, daemon
  <2> QED BY <1>10, <2>1, SetupEndsEffective
<1>11. CASE RestartRequired
  <2>1. UNCHANGED work
    BY <1>11 DEF RestartRequired, files, daemon
  <2> QED BY <1>11, <2>1, RestartRequiredEffective
<1>12. CASE Recover
  <2>1. UNCHANGED work
    BY <1>12 DEF Recover, files, daemon
  <2> QED BY <1>12, <2>1, RecoverEffective
<1>13. CASE RemoveTree
  <2>1. UNCHANGED work
    BY <1>13 DEF RemoveTree, files, daemon
  <2> QED BY <1>13, <2>1, RemoveTreeEffective
<1>14. CASE RestoreTree
  <2>1. UNCHANGED work
    BY <1>14 DEF RestoreTree, files, daemon
  <2> QED BY <1>14, <2>1, RestoreTreeEffective
<1>15. CASE Close
  <2>1. UNCHANGED work
    BY <1>15 DEF Close, files, daemon
  <2> QED BY <1>15, <2>1, CloseEffective
<1>16. CASE \/ Publish \/ Supervise \/ StepReads \/ StepRecovers \/ StepClears \/ StepChecks
         \/ StepSkips \/ StepEnds \/ StepDrains \/ StepStages \/ StepWaits \/ StepInstalls
         \/ Register \/ Launch \/ TaskRuns \/ RemoveBackup \/ CopyTree \/ StopService \/ Verify
         \/ Health \/ Unhealthy \/ Clear \/ Unregister \/ Undo \/ DropService \/ InstallOwner
         \/ Report \/ ServiceRestarts \/ Reboot \/ StepFails \/ HelperDies \/ Fails \/ SaveFails
         \/ UndoFails
  BY <1>16, OthersLeave, SameEffective
<1> QED BY <1>1, <1>2, <1>3, <1>4, <1>5, <1>6, <1>7, <1>8, <1>9, <1>10, <1>11, <1>12, <1>13,
   <1>14,
    <1>15, <1>16 DEF Next, Manager, Helper, Disturbance

-----------------------------------------------------------------------------
(* The theorems *)

\* The inductive invariant holds always, whatever stops the service, the helper or the
\* machine (manager.go:89-235, native_windows.go:268-617).
THEOREM InvariantAlways ==
  ASSUME Prompt
  PROVE  Spec => []UpdateInv
BY InitInvariant, NextInvariant, PTL DEF Spec

\* Releases, files, journal and state keep their shape (transaction.go, state.go).
THEOREM TypeSafe ==
  ASSUME Prompt
  PROVE  Spec => []TypeOK
<1>1. UpdateInv => TypeOK
  BY DEF UpdateInv
<1> QED BY <1>1, InvariantAlways, PTL

\* An installation that is removed or half written can be restored: the journal says
\* so, the copy it names is whole, and the task is registered (native_windows.go:529-590).
THEOREM AlwaysRecoverable ==
  ASSUME Prompt
  PROVE  Spec => []Recoverable
<1>1. UpdateInv => Recoverable
  BY UpdateAssumption DEF UpdateInv, JournalInv, Recoverable, Versions, None
<1> QED BY <1>1, InvariantAlways, PTL

\* No worker takes work while the installation is replaced or restored, whatever is
\* started again meanwhile (manager.go:110-235).
THEOREM BarrierAlwaysKept ==
  ASSUME Prompt
  PROVE  Spec => []BarrierKept
<1>1. UpdateInv => BarrierKept
  BY DEF UpdateInv, JournalInv, BarrierKept
<1> QED BY <1>1, InvariantAlways, PTL

\* For who sees only what is there in the end, a release is replaced at once by a newer
\* one, and while nothing is accepted (native_windows.go:429-617).
THEOREM UpdateIsAtomic ==
  ASSUME Prompt
  PROVE  Spec => AtomicSpec
<1>1. Init => Atomic!Init
  BY UpdateAssumption DEF Init, Atomic!Init, Effective, Replacing, Active, Versions
<1>2. UpdateInv /\ UpdateInv' /\ [Next]_vars => [Atomic!Next]_<<Effective, work>>
  BY NextRefines
<1> QED BY <1>1, <1>2, InvariantAlways, PTL DEF Spec, AtomicSpec, Atomic!Spec
=============================================================================
