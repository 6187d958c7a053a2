------------------------- MODULE MediaLibraryProofs -------------------------
(***************************************************************************)
(* Proofs about MediaLibrary, for any files, versions, operations and      *)
(* disturbances: that the cache is true, and that a batch queues what was  *)
(* reviewed and no more than its target.                                   *)
(***************************************************************************)
EXTENDS MediaLibrary, FiniteSetTheorems, SequenceTheorems, TLAPS

-----------------------------------------------------------------------------
(* The inductive invariant *)

\* An entry whose metadata are those of the version that was seen.
Reviewed(e) == e.probe = e.seen /\ e.seen \in Wanted

\* What an operation has in hand was reviewed, and there is room for it.
OpInv(op) ==
    /\ op \in OperationData
    /\ \A e \in op.files \union op.now : Reviewed(e)
    /\ op.at \in {"next", "recheck", "submit"} => \A e \in op.todo : Reviewed(e)
    /\ op.at \in {"recheck", "submit"} => Cardinality(op.queued) < op.target

OpsInv ==
    /\ operations \in [Operations -> OperationData]
    /\ \A o \in Operations : OpInv(operations[o])

EndStates == {"completed", "failed", "canceled"}

\* The operations that have ended, each once.
EndedInv ==
    /\ finished \in Seq(Operations)
    /\ \A i \in DOMAIN finished : operations[finished[i]].state \in EndStates
    /\ \A i, m \in DOMAIN finished : finished[i] = finished[m] => i = m

\* A file that is analysed only gets newer, before and after ffprobe saw it.
ProbeInv(p) ==
    /\ p \in Probe
    /\ p.key <= p.open
    /\ p.at = "probed" => p.key <= p.saw /\ p.saw <= p.open

ProbesInv == \A p \in probes : ProbeInv(p)

FilesInv ==
    /\ disk \in [Files -> [there : BOOLEAN, v : Versions]]
    /\ cache \in [Files -> [key : Versions, probe : Versions]] /\ CacheTrue
    /\ jobs \in [Files -> [state : JobStates, size : Versions, probe : Versions]]
    /\ faults \in 0..MaxFaults

LibraryInv == OpsInv /\ EndedInv /\ ProbesInv /\ FilesInv

\* No operation queues anything in this step.
NothingQueued == \A o \in Operations : operations'[o].queued \subseteq operations[o].queued

-----------------------------------------------------------------------------
(* Facts *)

\* Versions are numbers.
LEMMA VersionsAre == Versions \subseteq Nat /\ 0 \in Versions /\ 1 \in Versions
BY LibraryAssumption DEF Versions

\* Files are counted, and one more of them is at most one more.
LEMMA CountFiles ==
    /\ Cardinality(Files) \in Nat
    /\ \A S \in SUBSET Files : IsFiniteSet(S) /\ Cardinality(S) \in Nat
    /\ \A S \in SUBSET Files, f \in Files : Cardinality(S \union {f}) <= Cardinality(S) + 1
<1>1. ASSUME NEW S \in SUBSET Files
      PROVE  IsFiniteSet(S) /\ Cardinality(S) \in Nat
  BY LibraryAssumption, FS_Subset, FS_CardinalityType
<1>2. ASSUME NEW S \in SUBSET Files, NEW f \in Files
      PROVE  Cardinality(S \union {f}) <= Cardinality(S) + 1
  <2>1. IsFiniteSet(S) /\ Cardinality(S) \in Nat
    BY <1>1
  <2>2. CASE f \in S
    <3>1. S \union {f} = S
      BY <2>2
    <3>2. Cardinality(S) <= Cardinality(S) + 1
      BY <2>1
    <3> QED BY <3>1, <3>2
  <2>3. CASE f \notin S
    <3>1. Cardinality(S \union {f}) = Cardinality(S) + 1
      BY <2>1, <2>3, FS_AddElement
    <3> QED BY <2>1, <3>1
  <2> QED BY <2>2, <2>3
<1> QED BY <1>1, <1>2, LibraryAssumption, FS_CardinalityType

\* An operation that begins, and one that is forgotten, have nothing in hand.
LEMMA NewIs == OpInv(New) /\ OpInv(Forgotten) /\ New.queued = {} /\ Forgotten.queued = {}
<1>1. New \in OperationData
  BY CountFiles DEF New, OperationData
<1>2. Forgotten \in OperationData /\ Forgotten.files = {} /\ Forgotten.now = {} /\ Forgotten.queued = {}
      /\ Forgotten.at = "walk"
  BY <1>1 DEF New, Forgotten, OperationData
<1>3. New.files = {} /\ New.now = {} /\ New.queued = {} /\ New.at = "walk"
  BY DEF New
<1> QED BY <1>1, <1>2, <1>3 DEF OpInv

\* So has one that ended.
LEMMA EndedIs ==
    ASSUME NEW op, OpInv(op), NEW state \in EndStates
    PROVE  /\ OpInv(Ended(op, state)) /\ Ended(op, state).queued = {}
           /\ Ended(op, state).state = state
<1>1. op \in OperationData /\ New \in OperationData
  BY NewIs DEF OpInv
<1>2. CASE op.kind = "scan" /\ state = "completed"
  <2>1. Ended(op, state) = [New EXCEPT !.state = state, !.retry = op.retry, !.files = op.files]
    BY <1>2 DEF Ended
  <2>2. Ended(op, state) \in OperationData
    BY <1>1, <2>1 DEF OperationData, EndStates
  <2>3. /\ Ended(op, state).files = op.files /\ Ended(op, state).now = {} /\ Ended(op, state).at = "walk"
        /\ Ended(op, state).queued = {} /\ Ended(op, state).state = state
    BY <2>1 DEF New
  <2> QED BY <2>2, <2>3 DEF OpInv
<1>3. CASE ~(op.kind = "scan" /\ state = "completed")
  <2>1. Ended(op, state) = [New EXCEPT !.state = state, !.kind = op.kind]
    BY <1>3 DEF Ended
  <2>2. Ended(op, state) \in OperationData
    BY <1>1, <2>1 DEF OperationData, EndStates
  <2>3. /\ Ended(op, state).files = {} /\ Ended(op, state).now = {} /\ Ended(op, state).at = "walk"
        /\ Ended(op, state).queued = {} /\ Ended(op, state).state = state
    BY <2>1 DEF New
  <2> QED BY <2>2, <2>3 DEF OpInv
<1> QED BY <1>2, <1>3

\* The invariant has the properties in it.
LEMMA InvariantHolds == LibraryInv => TypeOK /\ CacheTrue
<1> SUFFICES ASSUME LibraryInv PROVE TypeOK /\ CacheTrue
  OBVIOUS
<1>1. finished \in Seq(InState(EndStates))
  <2>1. \A i \in DOMAIN finished : finished[i] \in InState(EndStates)
    BY DEF LibraryInv, EndedInv, InState
  <2>2. finished \in Seq(Operations)
    BY DEF LibraryInv, EndedInv
  <2>3. Len(finished) \in Nat /\ DOMAIN finished = 1..Len(finished) /\ finished \in [1..Len(finished) -> Operations]
    BY <2>2, LenProperties
  <2>4. finished \in [1..Len(finished) -> InState(EndStates)]
    BY <2>1, <2>3
  <2> QED BY <2>3, <2>4, SeqDef
<1>2. probes \subseteq Probe
  BY DEF LibraryInv, ProbesInv, ProbeInv
<1> QED BY <1>1, <1>2 DEF LibraryInv, OpsInv, FilesInv, TypeOK, EndStates

\* A server that starts with an empty library has it.
LEMMA InitInvariant == Init => LibraryInv
<1> SUFFICES ASSUME Init PROVE LibraryInv
  OBVIOUS
<1> USE DEF Init
<1>1. OpsInv
  BY NewIs DEF OpsInv, OpInv
<1>2. EndedInv
  BY DEF EndedInv
<1>3. ProbesInv
  BY DEF ProbesInv
<1>4. FilesInv
  BY VersionsAre, LibraryAssumption DEF FilesInv, JobStates, CacheTrue
<1> QED BY <1>1, <1>2, <1>3, <1>4 DEF LibraryInv

-----------------------------------------------------------------------------
(* How the operations go on *)

\* A running operation goes on, and none ends.
LEMMA GoesOn ==
    ASSUME LibraryInv, NEW o \in Operations, NEW op, OpInv(op),
           op.state = operations[o].state, operations' = [operations EXCEPT ![o] = op], finished' = finished
    PROVE  OpsInv' /\ EndedInv'
<1>1. OpsInv'
  BY DEF LibraryInv, OpsInv, OpInv
<1>2. EndedInv'
  BY DEF LibraryInv, EndedInv, OpsInv
<1> QED BY <1>1, <1>2

\* A running operation ends.
LEMMA EndsKeeps ==
    ASSUME LibraryInv, NEW o \in Operations, operations[o].state = "running", NEW state \in EndStates,
           Ends(o, state)
    PROVE  OpsInv' /\ EndedInv' /\ NothingQueued
<1>1. OpInv(Ended(operations[o], state)) /\ Ended(operations[o], state).queued = {}
      /\ Ended(operations[o], state).state = state
  BY EndedIs DEF LibraryInv, OpsInv
<1>2. operations' = [operations EXCEPT ![o] = Ended(operations[o], state)] /\ finished' = Append(finished, o)
  BY DEF Ends
<1>3. operations'[o] = Ended(operations[o], state) /\ \A p \in Operations : p # o => operations'[p] = operations[p]
  BY <1>2 DEF LibraryInv, OpsInv
<1>4. OpsInv' /\ NothingQueued
  BY <1>1, <1>2, <1>3 DEF LibraryInv, OpsInv, OpInv, NothingQueued
<1>5. /\ finished \in Seq(Operations) /\ \A i \in DOMAIN finished : finished[i] # o
      /\ \A i \in DOMAIN finished : finished[i] \in Operations
  BY DEF LibraryInv, EndedInv, EndStates
<1>6. /\ finished' \in Seq(Operations) /\ Len(finished) \in Nat
      /\ DOMAIN finished' = 1..(Len(finished) + 1) /\ DOMAIN finished = 1..Len(finished)
      /\ \A i \in DOMAIN finished : finished'[i] = finished[i]
      /\ finished'[Len(finished) + 1] = o
  BY <1>2, <1>5
<1>7. \A i \in DOMAIN finished' : i \in DOMAIN finished \/ i = Len(finished) + 1
  BY <1>6
<1>8. \A i \in DOMAIN finished' : operations'[finished'[i]].state \in EndStates
  BY <1>1, <1>3, <1>5, <1>6, <1>7 DEF LibraryInv, EndedInv
<1>9. \A i, m \in DOMAIN finished' : finished'[i] = finished'[m] => i = m
  BY <1>5, <1>6, <1>7 DEF LibraryInv, EndedInv
<1> QED BY <1>4, <1>6, <1>8, <1>9 DEF EndedInv

\* What has ended first is forgotten.
LEMMA TailKeeps ==
    ASSUME LibraryInv, finished # <<>>
    PROVE  /\ Head(finished) \in Operations /\ operations[Head(finished)].state \in EndStates
           /\ Tail(finished) \in Seq(Operations)
           /\ \A i \in DOMAIN Tail(finished) :
                 /\ Tail(finished)[i] \in Operations /\ Tail(finished)[i] # Head(finished)
                 /\ operations[Tail(finished)[i]].state \in EndStates
           /\ \A i, m \in DOMAIN Tail(finished) : Tail(finished)[i] = Tail(finished)[m] => i = m
<1>1. finished \in Seq(Operations)
  BY DEF LibraryInv, EndedInv
<1>2. /\ Tail(finished) \in Seq(Operations) /\ 1 \in DOMAIN finished /\ Head(finished) = finished[1]
      /\ DOMAIN finished = 1..Len(finished) /\ Len(finished) \in Nat
      /\ DOMAIN Tail(finished) = 1..(Len(finished) - 1)
      /\ \A i \in DOMAIN Tail(finished) : Tail(finished)[i] = finished[i + 1] /\ i + 1 \in DOMAIN finished /\ i + 1 # 1
  BY <1>1
<1>3. /\ \A i \in DOMAIN finished : finished[i] \in Operations /\ operations[finished[i]].state \in EndStates
      /\ \A i, m \in DOMAIN finished : finished[i] = finished[m] => i = m
  BY <1>1 DEF LibraryInv, EndedInv
<1>4. \A i \in DOMAIN Tail(finished) :
         /\ Tail(finished)[i] \in Operations /\ Tail(finished)[i] # Head(finished)
         /\ operations[Tail(finished)[i]].state \in EndStates
  BY <1>2, <1>3
<1>5. \A i, m \in DOMAIN Tail(finished) : Tail(finished)[i] = Tail(finished)[m] => i = m
  BY <1>2, <1>3
<1> QED BY <1>2, <1>3, <1>4, <1>5

\* An operation that is registered may forget the oldest that ended.
LEMMA RegistersKeeps ==
    ASSUME LibraryInv, NEW o \in Operations, NEW op, OpInv(op), op.state = "running", op.queued = {},
           Registers(o, op)
    PROVE  OpsInv' /\ EndedInv' /\ NothingQueued
<1>1. operations[o].state = "new"
  BY DEF Registers
<1>2. \A i \in DOMAIN finished : finished[i] # o
  BY <1>1 DEF LibraryInv, EndedInv, EndStates
<1>3. CASE operations' = [operations EXCEPT ![o] = op] /\ UNCHANGED finished
  <2>1. OpsInv' /\ NothingQueued
    BY <1>3 DEF LibraryInv, OpsInv, OpInv, NothingQueued
  <2>2. EndedInv'
    BY <1>2, <1>3 DEF LibraryInv, OpsInv, EndedInv
  <2> QED BY <2>1, <2>2
<1>4. ASSUME NEW old \in Replaceable, operations' = [operations EXCEPT ![o] = op, ![old] = Forgotten],
             finished' = Tail(finished)
      PROVE  OpsInv' /\ EndedInv' /\ NothingQueued
  <2>1. finished # <<>> /\ old = Head(finished)
    BY DEF Replaceable
  <2>2. old \in Operations /\ old # o
    BY <1>1, <2>1, TailKeeps DEF EndStates
  <2>3. /\ operations'[old] = Forgotten /\ operations'[o] = op
        /\ operations' \in [Operations -> OperationData]
        /\ \A p \in Operations \ {o, old} : operations'[p] = operations[p]
    BY <1>4, <2>2, NewIs DEF LibraryInv, OpsInv, OpInv
  <2>4. OpsInv' /\ NothingQueued
    BY <2>3, NewIs DEF LibraryInv, OpsInv, NothingQueued
  <2>5. \A i \in DOMAIN Tail(finished) : Tail(finished)[i] # o
    BY <1>1, <2>1, TailKeeps DEF EndStates
  <2>6. EndedInv'
    BY <1>4, <2>1, <2>3, <2>5, TailKeeps DEF EndedInv
  <2> QED BY <2>4, <2>6
<1> QED BY <1>3, <1>4 DEF Registers

-----------------------------------------------------------------------------
(* Scans *)

\* Requests keep the invariant, and queue nothing.
LEMMA RequestKeeps ==
    ASSUME LibraryInv, NEW o \in Operations, Request(o)
    PROVE  LibraryInv' /\ NothingQueued
<1> USE DEF LibraryInv
<1>1. ASSUME NEW retry \in Retries, StartScan(o, retry)
      PROVE  LibraryInv' /\ NothingQueued
  <2> DEFINE op == [New EXCEPT !.state = "running", !.retry = retry]
  <2>1. op \in OperationData /\ op.state = "running" /\ op.queued = {} /\ op.files = {} /\ op.now = {}
        /\ op.at = "walk"
    BY NewIs, LibraryAssumption DEF OpInv, OperationData, New
  <2>2. Registers(o, op)
    BY <1>1 DEF StartScan
  <2> HIDE DEF op
  <2>3. OpsInv' /\ EndedInv' /\ NothingQueued
    BY <2>1, <2>2, RegistersKeeps DEF OpInv
  <2> QED BY <1>1, <2>3 DEF StartScan, FilesInv, ProbesInv, CacheTrue
<1>2. ASSUME NEW scan \in Operations, NEW target \in 1..Cardinality(Files),
             NEW selection \in SUBSET operations[scan].files, StartBatch(o, scan, selection, target)
      PROVE  LibraryInv' /\ NothingQueued
  <2> DEFINE op == [New EXCEPT !.kind = "queue", !.state = "running", !.at = "next",
                          !.retry = operations[scan].retry, !.todo = selection, !.target = target]
  <2>1. OpInv(operations[scan])
    BY DEF OpsInv
  <2>2. selection \subseteq Entry /\ operations[scan].retry \in SUBSET {"failed", "canceled"}
        /\ \A e \in selection : Reviewed(e)
    BY <2>1 DEF OpInv, OperationData
  <2>3. op \in OperationData /\ op.state = "running" /\ op.queued = {} /\ op.files = {} /\ op.now = {}
        /\ op.at = "next" /\ op.todo = selection
    <3>1. New \in OperationData
      BY NewIs DEF OpInv
    <3>2. target \in 0..Cardinality(Files) /\ selection \in SUBSET Entry
      BY <2>2, CountFiles
    <3>3. op \in OperationData
      BY <2>2, <3>1, <3>2 DEF OperationData
    <3>4. op.state = "running" /\ op.queued = {} /\ op.files = {} /\ op.now = {}
          /\ op.at = "next" /\ op.todo = selection
      BY DEF New
    <3> QED BY <3>3, <3>4
  <2>4. Registers(o, op)
    BY <1>2 DEF StartBatch
  <2> HIDE DEF op
  <2>5. OpsInv' /\ EndedInv' /\ NothingQueued
    BY <2>2, <2>3, <2>4, RegistersKeeps DEF OpInv
  <2> QED BY <1>2, <2>5 DEF StartBatch, FilesInv, ProbesInv, CacheTrue
<1>3. CASE Cancel(o)
  <2> DEFINE op == [operations[o] EXCEPT !.canceled = TRUE]
  <2>1. OpInv(operations[o]) /\ operations[o] \in OperationData
    BY DEF OpsInv, OpInv
  <2>2. op \in OperationData
    BY <2>1 DEF OperationData
  <2>3. /\ op.state = operations[o].state /\ op.queued = operations[o].queued
        /\ op.files = operations[o].files /\ op.now = operations[o].now
        /\ op.todo = operations[o].todo /\ op.at = operations[o].at
        /\ op.target = operations[o].target
    BY <2>1 DEF OperationData
  <2>4. OpInv(op) /\ op.state = operations[o].state /\ op.queued = operations[o].queued
    BY <2>1, <2>2, <2>3 DEF OpInv
  <2>5. operations' = [operations EXCEPT ![o] = op] /\ finished' = finished
    BY <1>3 DEF Cancel, OpsInv
  <2> HIDE DEF op
  <2>6. OpsInv' /\ EndedInv'
    BY <2>4, <2>5, GoesOn
  <2>7. NothingQueued
    BY <2>4, <2>5 DEF NothingQueued, OpsInv
  <2>8. faults' \in 0..MaxFaults
    BY <1>3, LibraryAssumption DEF Cancel, Fault, FilesInv
  <2> QED BY <1>3, <2>6, <2>7, <2>8 DEF Cancel, FilesInv, ProbesInv, CacheTrue
<1> QED BY <1>1, <1>2, <1>3 DEF Request

\* What a scan makes of an analysis, when that is true of the file it looked at.
LEMMA ExaminedIs ==
    ASSUME NEW op, OpInv(op), NEW e \in Entry, NEW key \in Versions
    PROVE  /\ OpInv(Examined(op, e, key, key)) /\ Examined(op, e, key, key).state = op.state
           /\ Examined(op, e, key, key).queued = op.queued
<1>1. CASE key = e.seen /\ Matches(key)
  <2>1. [e EXCEPT !.probe = key] \in Entry /\ Reviewed([e EXCEPT !.probe = key])
    BY <1>1 DEF Entry, Reviewed, Matches
  <2>2. Examined(op, e, key, key) = [op EXCEPT !.files = @ \union {[e EXCEPT !.probe = key]}]
    BY <1>1 DEF Examined
  <2>3. op \in OperationData
    BY DEF OpInv
  <2> QED BY <2>1, <2>2, <2>3 DEF OpInv, OperationData
<1>2. CASE ~(key = e.seen /\ Matches(key))
  <2>1. Examined(op, e, key, key) = [op EXCEPT !.files = @]
    BY <1>2 DEF Examined
  <2>2. op \in OperationData
    BY DEF OpInv
  <2>3. Examined(op, e, key, key) = op
    BY <2>1, <2>2 DEF OperationData
  <2> QED BY <2>3
<1> QED BY <1>1, <1>2

\* An analysis begins with the version that is there.
LEMMA AnalysisIs ==
    ASSUME FilesInv, NEW o \in Operations \union {0}, NEW e \in Entry
    PROVE  ProbeInv(Analysis(o, e))
<1>1. e.file \in Files
  BY DEF Entry
<1>2. disk[e.file].v \in Versions /\ disk[e.file].v \in Nat /\ 0 \in Versions
  BY <1>1, VersionsAre DEF FilesInv
<1>3. Analysis(o, e) \in Probe
  BY <1>2 DEF Analysis, Probe
<1> QED BY <1>2, <1>3 DEF ProbeInv, Analysis

\* Scans keep it, and queue nothing.
LEMMA ScanKeeps ==
    ASSUME LibraryInv, NEW o \in Operations, ScanStep(o)
    PROVE  LibraryInv' /\ NothingQueued
<1> USE DEF LibraryInv
<1>1. OpInv(operations[o]) /\ operations[o] \in OperationData /\ operations \in [Operations -> OperationData]
  BY DEF OpsInv, OpInv
<1>2. ASSUME NEW op, OpInv(op), op.state = operations[o].state, op.queued = operations[o].queued,
             operations' = [operations EXCEPT ![o] = op], finished' = finished, FilesInv', ProbesInv'
      PROVE  LibraryInv' /\ NothingQueued
  <2>1. OpsInv' /\ EndedInv'
    BY <1>2, GoesOn
  <2>2. NothingQueued
    BY <1>1, <1>2 DEF NothingQueued
  <2> QED BY <1>2, <2>1, <2>2
<1>3. CASE Walk(o)
  <2> DEFINE todo == {[file |-> f, seen |-> disk[f].v, eligible |-> FALSE, probe |-> 0] :
                          f \in {g \in Files : disk[g].there}}
             op == [operations[o] EXCEPT !.at = "annotate", !.todo = todo]
  <2>1. todo \subseteq Entry
    <3>1. ASSUME NEW f \in Files
          PROVE  [file |-> f, seen |-> disk[f].v, eligible |-> FALSE, probe |-> 0] \in Entry
      <4>1. disk[f].v \in Versions /\ 0 \in Versions
        BY VersionsAre DEF FilesInv
      <4> QED BY <4>1 DEF Entry
    <3> QED BY <3>1
  <2> HIDE DEF todo
  <2>2. OpInv(op) /\ op.state = operations[o].state /\ op.queued = operations[o].queued
    BY <1>1, <2>1 DEF OpInv, OperationData
  <2>3. operations' = [operations EXCEPT ![o] = op]
    BY <1>1, <1>3 DEF Walk, todo
  <2>4. FilesInv' /\ ProbesInv' /\ finished' = finished
    BY <1>3 DEF Walk, FilesInv, ProbesInv, CacheTrue
  <2> HIDE DEF op
  <2> QED BY <1>2, <2>2, <2>3, <2>4
<1>4. ASSUME NEW only \in BOOLEAN, NEW candidates \in SUBSET Files, Annotate(o, only, candidates)
      PROVE  LibraryInv' /\ NothingQueued
  <2> DEFINE all  == {[e EXCEPT !.eligible = Eligible(e.file, e.seen, operations[o].retry)] :
                       e \in operations[o].todo}
             open == IF only THEN {e \in all : e.eligible} ELSE all
             todo == {e \in open : e.file \in candidates}
             op == [operations[o] EXCEPT !.at = "probe", !.todo = todo]
  <2>1. operations[o].todo \subseteq Entry
    BY <1>1 DEF OperationData
  <2>2. \A e \in Entry : Eligible(e.file, e.seen, operations[o].retry) \in BOOLEAN
    BY DEF Eligible
  <2>3. all \subseteq Entry
    BY <2>1, <2>2 DEF Entry
  <2> HIDE DEF all
  <2>4. todo \subseteq Entry
    <3>1. open \subseteq Entry
      BY <2>3
    <3> HIDE DEF open
    <3> QED BY <3>1
  <2>5. operations' = [operations EXCEPT ![o] = op]
    BY <1>1, <1>4 DEF Annotate, all
  <2> HIDE DEF todo
  <2>6. OpInv(op) /\ op.state = operations[o].state /\ op.queued = operations[o].queued
    BY <1>1, <2>4 DEF OpInv, OperationData
  <2>7. FilesInv' /\ ProbesInv' /\ finished' = finished
    BY <1>4 DEF Annotate, FilesInv, ProbesInv, CacheTrue
  <2> HIDE DEF op
  <2> QED BY <1>2, <2>5, <2>6, <2>7
<1>5. ASSUME NEW e \in operations[o].todo, Looks(o, e)
      PROVE  LibraryInv' /\ NothingQueued
  <2> DEFINE op == [operations[o] EXCEPT !.todo = @ \ {e}]
             v   == disk[e.file].v
             hit == disk[e.file].there /\ cache[e.file].key = v
             new == IF hit THEN Examined(op, e, v, cache[e.file].probe) ELSE op
  <2>1. e \in Entry /\ e.file \in Files
    BY <1>1 DEF OperationData, Entry
  <2>2. v \in Versions /\ (hit => cache[e.file].probe = v)
    BY <2>1 DEF FilesInv, CacheTrue
  <2>3. OpInv(op) /\ op.state = operations[o].state /\ op.queued = operations[o].queued
    BY <1>1 DEF OpInv, OperationData
  <2>4. operations' = [operations EXCEPT ![o] = new] /\ finished' = finished
        /\ probes' = IF disk[e.file].there /\ ~hit THEN probes \union {Analysis(o, e)} ELSE probes
    BY <1>5 DEF Looks
  <2>5. FilesInv'
    BY <1>5 DEF Looks, FilesInv, CacheTrue
  <2> HIDE DEF op, v, hit
  <2>6. OpInv(new) /\ new.state = operations[o].state /\ new.queued = operations[o].queued
    BY <2>1, <2>2, <2>3, ExaminedIs
  <2>7. ProbesInv'
    BY <2>1, <2>4, AnalysisIs DEF ProbesInv
  <2> HIDE DEF new
  <2> QED BY <1>2, <2>4, <2>5, <2>6, <2>7
<1>6. CASE ScanEnds(o)
  <2>1. PICK state \in EndStates : Ends(o, state)
    BY <1>6 DEF ScanEnds, EndStates
  <2>2. OpsInv' /\ EndedInv' /\ NothingQueued
    BY <1>6, <2>1, EndsKeeps DEF ScanEnds
  <2>3. faults' \in 0..MaxFaults
    BY <1>6, LibraryAssumption DEF ScanEnds, Fault, FilesInv
  <2> QED BY <1>6, <2>2, <2>3 DEF ScanEnds, FilesInv, ProbesInv, CacheTrue
<1> QED BY <1>3, <1>4, <1>5, <1>6 DEF ScanStep

\* Analyses keep it, whatever becomes of the file meanwhile.
LEMMA ProbeKeeps ==
    ASSUME LibraryInv, NEW p \in probes, ProbeStep(p)
    PROVE  LibraryInv' /\ NothingQueued
<1> USE DEF LibraryInv
<1>1. p \in Probe /\ ProbeInv(p) /\ p.key \in Nat /\ p.open \in Nat /\ p.saw \in Nat
  BY VersionsAre DEF ProbesInv, ProbeInv, Probe
<1>2. CASE Analyses(p)
  <2> USE <1>2 DEF Analyses
  <2> DEFINE q == [p EXCEPT !.at = "probed", !.saw = p.open]
  <2>1. q \in Probe /\ q.at = "probed" /\ q.key = p.key /\ q.saw = p.open /\ q.open = p.open
    BY <1>1 DEF Probe
  <2>2. ProbeInv(q)
    BY <1>1, <2>1 DEF ProbeInv
  <2>3. probes' = (probes \ {p}) \union {q}
    OBVIOUS
  <2> HIDE DEF q
  <2>4. ProbesInv'
    BY <2>2, <2>3 DEF ProbesInv
  <2> QED BY <2>4 DEF OpsInv, EndedInv, FilesInv, CacheTrue, NothingQueued
<1>3. CASE Stores(p)
  <2> USE <1>3 DEF Stores
  <2>1. p.saw = p.key /\ p.key \in Versions /\ p.entry \in Entry /\ p.entry.file \in Files
        /\ p.of \in Operations \union {0}
    BY <1>1 DEF Same, ProbeInv, Probe, Entry
  <2>2. FilesInv' /\ finished' = finished
    BY <2>1 DEF FilesInv, CacheTrue
  <2>3. ProbesInv'
    BY DEF ProbesInv
  <2>4. CASE p.of = 0
    BY <2>2, <2>3, <2>4 DEF OpsInv, EndedInv, NothingQueued
  <2>5. CASE p.of # 0
    <3> DEFINE op == Examined(operations[p.of], p.entry, p.key, p.key)
    <3>1. p.of \in Operations /\ OpInv(operations[p.of]) /\ operations \in [Operations -> OperationData]
      BY <2>1, <2>5 DEF OpsInv
    <3>2. OpInv(op) /\ op.state = operations[p.of].state /\ op.queued = operations[p.of].queued
      BY <2>1, <3>1, ExaminedIs
    <3>3. operations' = [operations EXCEPT ![p.of] = op]
      BY <2>1, <2>5
    <3> HIDE DEF op
    <3>4. OpsInv' /\ EndedInv'
      BY <2>2, <3>1, <3>2, <3>3, GoesOn
    <3>5. NothingQueued
      BY <3>1, <3>2, <3>3 DEF NothingQueued
    <3> QED BY <2>2, <2>3, <3>4, <3>5
  <2> QED BY <2>4, <2>5
<1>4. CASE Fails(p)
  <2>1. faults' \in 0..MaxFaults
    BY <1>4, LibraryAssumption DEF Fails, Fault, FilesInv
  <2> QED BY <1>4, <2>1 DEF Fails, OpsInv, EndedInv, FilesInv, ProbesInv, CacheTrue, NothingQueued
<1> QED BY <1>2, <1>3, <1>4 DEF ProbeStep

-----------------------------------------------------------------------------
(* Batches *)

\* A file is queued as it was reviewed, within the target of a batch that runs.
Queues(o, e) ==
    /\ e \in Entry /\ Reviewed(e)
    /\ operations[o].state = "running" /\ ~operations[o].canceled
    /\ Unchanged(e) /\ e.seen \notin Small /\ Accepted(e.file, operations[o].retry)
    /\ jobs' = [jobs EXCEPT ![e.file] = [state |-> "queued", size |-> e.seen, probe |-> e.probe]]
    /\ operations'[o].queued = operations[o].queued \union {e.file}
    /\ operations'[o].target = operations[o].target
    /\ Cardinality(operations[o].queued) < operations[o].target
    /\ \A p \in Operations \ {o} : operations'[p] = operations[p]

\* Batches keep it.
LEMMA BatchKeeps ==
    ASSUME LibraryInv, NEW o \in Operations, BatchStep(o)
    PROVE  LibraryInv' /\ (NothingQueued \/ \E e \in operations[o].now : Queues(o, e))
<1> USE DEF LibraryInv
<1>1. OpInv(operations[o]) /\ operations[o] \in OperationData /\ operations \in [Operations -> OperationData]
  BY DEF OpsInv, OpInv
<1>2. ASSUME NEW op, OpInv(op), op.state = operations[o].state, op.queued = operations[o].queued,
             operations' = [operations EXCEPT ![o] = op], finished' = finished, FilesInv', ProbesInv'
      PROVE  LibraryInv' /\ NothingQueued
  <2>1. OpsInv' /\ EndedInv'
    BY <1>2, GoesOn
  <2>2. NothingQueued
    BY <1>1, <1>2 DEF NothingQueued
  <2> QED BY <1>2, <2>1, <2>2
<1>3. CASE BatchEnds(o)
  <2>1. PICK state \in EndStates : Ends(o, state)
    BY <1>3 DEF BatchEnds, EndStates
  <2>2. OpsInv' /\ EndedInv' /\ NothingQueued
    BY <1>3, <2>1, EndsKeeps DEF BatchEnds, Runs
  <2> QED BY <1>3, <2>2 DEF BatchEnds, FilesInv, ProbesInv, CacheTrue
<1>4. ASSUME NEW e \in operations[o].todo, Compares(o, e)
      PROVE  LibraryInv' /\ NothingQueued
  <2> DEFINE goes == [operations[o] EXCEPT !.at = "recheck", !.now = {e}, !.todo = @ \ {e}]
             left == [operations[o] EXCEPT !.todo = @ \ {e}]
             op   == IF Unchanged(e) THEN goes ELSE left
  <2>1. operations[o].at = "next" /\ operations[o].todo # {}
        /\ Cardinality(operations[o].queued) < operations[o].target
    BY <1>4 DEF Compares, Runs, Left
  <2>2. Reviewed(e) /\ e \in Entry /\ \A d \in operations[o].todo : Reviewed(d)
    BY <1>1, <2>1 DEF OpInv, OperationData
  <2>3. OpInv(goes) /\ goes.state = operations[o].state /\ goes.queued = operations[o].queued
    BY <1>1, <2>1, <2>2 DEF OpInv, OperationData
  <2>4. OpInv(left) /\ left.state = operations[o].state /\ left.queued = operations[o].queued
    BY <1>1, <2>1, <2>2 DEF OpInv, OperationData
  <2>5. operations' = [operations EXCEPT ![o] = op]
    BY <1>1, <1>4 DEF Compares
  <2>6. FilesInv' /\ ProbesInv' /\ finished' = finished
    BY <1>4 DEF Compares, FilesInv, ProbesInv, CacheTrue
  <2> HIDE DEF goes, left
  <2>7. OpInv(op) /\ op.state = operations[o].state /\ op.queued = operations[o].queued
    BY <2>3, <2>4
  <2> HIDE DEF op
  <2> QED BY <1>2, <2>5, <2>6, <2>7
<1>5. ASSUME NEW e \in operations[o].now, Rechecks(o, e)
      PROVE  LibraryInv' /\ NothingQueued
  <2>1. operations[o].state = "running" /\ operations[o].at = "recheck"
    BY <1>5 DEF Rechecks, Runs
  <2>2. UNCHANGED <<disk, cache, jobs, probes>> /\ faults' \in 0..MaxFaults
    BY <1>5, LibraryAssumption DEF Rechecks, Fault, FilesInv
  <2>3. FilesInv' /\ ProbesInv'
    BY <2>2 DEF FilesInv, ProbesInv, CacheTrue
  <2>4. CASE \E state \in EndStates : Ends(o, state)
    BY <2>1, <2>3, <2>4, EndsKeeps
  <2>5. CASE UNCHANGED finished /\
             operations' = IF Eligible(e.file, e.seen, operations[o].retry)
                           THEN [operations EXCEPT ![o].at = "submit"]
                           ELSE [operations EXCEPT ![o].at = "next", ![o].now = {}]
    <3> DEFINE goes == [operations[o] EXCEPT !.at = "submit"]
               left == [operations[o] EXCEPT !.at = "next", !.now = {}]
    <3>1. OpInv(goes) /\ goes.state = operations[o].state /\ goes.queued = operations[o].queued
      BY <1>1, <2>1 DEF OpInv, OperationData
    <3>2. OpInv(left) /\ left.state = operations[o].state /\ left.queued = operations[o].queued
      BY <1>1, <2>1 DEF OpInv, OperationData
    <3>3. operations' = [operations EXCEPT ![o] = goes] \/ operations' = [operations EXCEPT ![o] = left]
      BY <1>1, <2>5
    <3> HIDE DEF goes, left
    <3> QED BY <1>2, <2>3, <2>5, <3>1, <3>2, <3>3
  <2> QED BY <1>5, <2>4, <2>5 DEF Rechecks, EndStates
<1>6. ASSUME NEW e \in operations[o].now, Submit(o, e)
      PROVE  LibraryInv' /\ (NothingQueued \/ Queues(o, e))
  <2> DEFINE ready == Unchanged(e) /\ e.seen \notin Small /\ Accepted(e.file, operations[o].retry)
             next  == [operations[o] EXCEPT !.at = "next", !.now = {}]
             more  == [next EXCEPT !.queued = @ \union {e.file}]
  <2>1. operations[o].state = "running" /\ operations[o].at = "submit"
    BY <1>6 DEF Submit, Runs
  <2>2. Reviewed(e) /\ e \in Entry /\ e.file \in Files /\ e.seen \in Versions /\ e.probe \in Versions
        /\ Cardinality(operations[o].queued) < operations[o].target
    BY <1>1, <2>1 DEF OpInv, OperationData, Entry
  <2>3. UNCHANGED <<disk, cache, probes>> /\ faults' \in 0..MaxFaults
    BY <1>6, LibraryAssumption DEF Submit, Fault, FilesInv
  <2>4. OpInv(next) /\ next.state = operations[o].state /\ next.queued = operations[o].queued
        /\ next.target = operations[o].target /\ next \in OperationData /\ next.at = "next"
    BY <1>1, <2>1 DEF OpInv, OperationData
  <2>5. CASE Ends(o, "canceled") /\ UNCHANGED jobs
    <3>1. FilesInv' /\ ProbesInv'
      BY <2>3, <2>5 DEF FilesInv, ProbesInv, CacheTrue
    <3> QED BY <2>1, <2>5, <3>1, EndsKeeps DEF EndStates
  <2>6. CASE operations' = [operations EXCEPT ![o] = next] /\ UNCHANGED <<jobs, finished>>
    <3>1. FilesInv' /\ ProbesInv'
      BY <2>3, <2>6 DEF FilesInv, ProbesInv, CacheTrue
    <3> HIDE DEF next
    <3> QED BY <1>2, <2>4, <2>6, <3>1
  <2>7. CASE /\ ~operations[o].canceled /\ ready
             /\ jobs' = [jobs EXCEPT ![e.file] = [state |-> "queued", size |-> e.seen, probe |-> e.probe]]
             /\ operations' = [operations EXCEPT ![o] = more]
             /\ UNCHANGED finished
    <3> HIDE DEF next
    <3>1. /\ more \in OperationData /\ more.state = operations[o].state /\ more.at = "next"
          /\ more.queued = operations[o].queued \union {e.file} /\ more.target = operations[o].target
          /\ more.files = next.files /\ more.now = next.now /\ more.todo = next.todo
      BY <2>2, <2>4 DEF OperationData
    <3>2. OpInv(more)
      BY <2>4, <3>1 DEF OpInv
    <3>3. FilesInv' /\ ProbesInv'
      BY <2>2, <2>3, <2>7 DEF FilesInv, ProbesInv, CacheTrue, JobStates
    <3> HIDE DEF more
    <3>4. OpsInv' /\ EndedInv'
      BY <2>7, <3>1, <3>2, GoesOn
    <3>5. operations'[o] = more /\ \A p \in Operations \ {o} : operations'[p] = operations[p]
      BY <1>1, <2>7
    <3>6. Queues(o, e)
      BY <2>1, <2>2, <2>7, <3>1, <3>5 DEF Queues
    <3> QED BY <3>3, <3>4, <3>6
  <2> QED BY <1>6, <2>5, <2>6, <2>7 DEF Submit
<1> QED BY <1>3, <1>4, <1>5, <1>6 DEF BatchStep

-----------------------------------------------------------------------------
(* Files, jobs and other requests *)

\* What others do to files and jobs keeps it.
LEMMA EnvironmentKeeps == LibraryInv /\ Environment => LibraryInv' /\ NothingQueued
<1> SUFFICES ASSUME LibraryInv, Environment PROVE LibraryInv' /\ NothingQueued
  OBVIOUS
<1> USE DEF LibraryInv
<1>1. ASSUME NEW kind, Fault(kind) PROVE faults' \in 0..MaxFaults
  BY <1>1, LibraryAssumption DEF Fault, FilesInv
<1>2. UNCHANGED operations => NothingQueued
  BY DEF NothingQueued
<1>3. UNCHANGED <<operations, finished>> => OpsInv' /\ EndedInv'
  BY DEF OpsInv, EndedInv
<1>4. CASE Expires
  <2> USE <1>4 DEF Expires
  <2>1. Head(finished) \in Operations
    BY TailKeeps
  <2>2. /\ operations'[Head(finished)] = Forgotten /\ operations' \in [Operations -> OperationData]
        /\ \A p \in Operations \ {Head(finished)} : operations'[p] = operations[p]
    BY <2>1, NewIs DEF OpsInv, OpInv
  <2>3. OpsInv' /\ NothingQueued
    BY <2>2, NewIs DEF OpsInv, NothingQueued
  <2>4. EndedInv'
    BY <2>2, TailKeeps DEF EndedInv
  <2> QED BY <1>1, <2>3, <2>4 DEF FilesInv, ProbesInv, CacheTrue
<1>5. CASE Restarts
  <2> USE <1>5 DEF Restarts
  <2>1. OpsInv' /\ NothingQueued
    BY NewIs DEF OpsInv, OpInv, NothingQueued
  <2>2. EndedInv'
    BY DEF EndedInv
  <2> QED BY <1>1, <2>1, <2>2 DEF FilesInv, ProbesInv, CacheTrue
<1>6. ASSUME NEW f \in Files, Asks(f) PROVE LibraryInv' /\ NothingQueued
  <2> USE <1>6 DEF Asks
  <2> DEFINE e == [file |-> f, seen |-> disk[f].v, eligible |-> FALSE, probe |-> 0]
  <2>1. e \in Entry
    BY VersionsAre DEF FilesInv, Entry
  <2>2. probes' = probes \union {Analysis(0, e)}
    OBVIOUS
  <2> HIDE DEF e
  <2>3. ProbesInv'
    BY <2>1, <2>2, AnalysisIs DEF ProbesInv
  <2> QED BY <1>1, <1>2, <1>3, <2>3 DEF FilesInv, CacheTrue
<1>7. ASSUME NEW f \in Files, Vanishes(f) PROVE LibraryInv' /\ NothingQueued
  <2>1. disk' \in [Files -> [there : BOOLEAN, v : Versions]]
    BY <1>7 DEF Vanishes, FilesInv
  <2> QED BY <1>1, <1>2, <1>3, <1>7, <2>1 DEF Vanishes, FilesInv, ProbesInv, CacheTrue
<1>8. ASSUME NEW f \in Files, Intake(f) PROVE LibraryInv' /\ NothingQueued
  <2>1. jobs' \in [Files -> [state : JobStates, size : Versions, probe : Versions]]
    BY <1>8 DEF Intake, FilesInv, JobStates
  <2> QED BY <1>1, <1>2, <1>3, <1>8, <2>1 DEF Intake, FilesInv, ProbesInv, CacheTrue
<1>9. ASSUME NEW f \in Files, Publishes(f) PROVE LibraryInv' /\ NothingQueued
  <2>1. Target[f] \in Files
    BY <1>9, LibraryAssumption DEF Publishes
  <2>2. disk[Target[f]].v + 1 \in Versions
    BY <1>9, <2>1, LibraryAssumption DEF Publishes, FilesInv, Versions
  <2>3. disk' \in [Files -> [there : BOOLEAN, v : Versions]]
    BY <1>9, <2>1, <2>2 DEF Publishes, FilesInv
  <2> QED BY <1>2, <1>3, <1>9, <2>3 DEF Publishes, FilesInv, ProbesInv, CacheTrue
<1>10. ASSUME NEW f \in Files, NEW inPlace \in BOOLEAN, Changes(f, inPlace) PROVE LibraryInv' /\ NothingQueued
  <2> USE <1>10 DEF Changes
  <2> DEFINE Moved(p) == inPlace /\ p.entry.file = f /\ p.open = disk[f].v
  <2>1. disk[f].v + 1 \in Versions /\ disk[f].v \in Nat
    BY LibraryAssumption DEF FilesInv, Versions
  <2>2. disk' \in [Files -> [there : BOOLEAN, v : Versions]]
    BY <2>1 DEF FilesInv
  <2>3. ASSUME NEW p \in probes PROVE ProbeInv(IF Moved(p) THEN [p EXCEPT !.open = @ + 1] ELSE p)
    <3>1. p \in Probe /\ ProbeInv(p) /\ p.key \in Nat /\ p.open \in Nat /\ p.saw \in Nat
      BY VersionsAre DEF ProbesInv, ProbeInv, Probe
    <3>2. CASE Moved(p)
      <4>1. [p EXCEPT !.open = @ + 1] \in Probe
        BY <2>1, <3>1, <3>2 DEF Probe
      <4> QED BY <3>1, <3>2, <4>1 DEF ProbeInv, Probe
    <3> QED BY <3>1, <3>2
  <2>4. ProbesInv'
    <3>1. probes' = {IF Moved(p) THEN [p EXCEPT !.open = @ + 1] ELSE p : p \in probes}
      OBVIOUS
    <3> HIDE DEF Moved
    <3> QED BY <2>3, <3>1 DEF ProbesInv
  <2> QED BY <1>1, <1>2, <1>3, <2>2, <2>4 DEF FilesInv, CacheTrue
<1>11. ASSUME NEW f \in Files, NEW state \in JobStates, Proceeds(f, state) PROVE LibraryInv' /\ NothingQueued
  <2>1. jobs' \in [Files -> [state : JobStates, size : Versions, probe : Versions]]
    BY <1>11 DEF Proceeds, FilesInv
  <2> QED BY <1>2, <1>3, <1>11, <2>1 DEF Proceeds, FilesInv, ProbesInv, CacheTrue
<1> QED BY <1>4, <1>5, <1>6, <1>7, <1>8, <1>9, <1>10, <1>11 DEF Environment

\* Every step keeps it, and who queues is a batch.
LEMMA NextInvariant ==
    LibraryInv /\ [Next]_vars =>
        LibraryInv' /\ (NothingQueued \/ \E o \in Operations : \E e \in operations[o].now : Queues(o, e))
<1> SUFFICES ASSUME LibraryInv, [Next]_vars
             PROVE  LibraryInv' /\ (NothingQueued \/ \E o \in Operations :
                                       \E e \in operations[o].now : Queues(o, e))
  OBVIOUS
<1>1. CASE UNCHANGED vars
  BY <1>1 DEF vars, LibraryInv, OpsInv, EndedInv, ProbesInv, FilesInv, CacheTrue, NothingQueued
<1>2. CASE \E o \in Operations : Request(o)
  BY <1>2, RequestKeeps
<1>3. CASE \E o \in Operations : ScanStep(o)
  BY <1>3, ScanKeeps
<1>4. CASE \E o \in Operations : BatchStep(o)
  BY <1>4, BatchKeeps
<1>5. CASE \E p \in probes : ProbeStep(p)
  BY <1>5, ProbeKeeps
<1>6. CASE Environment
  BY <1>6, EnvironmentKeeps
<1> QED BY <1>1, <1>2, <1>3, <1>4, <1>5, <1>6 DEF Next

-----------------------------------------------------------------------------
(* The theorems *)

\* The inductive invariant holds always, whoever writes to files and queues them
\* (operations.go:60-452, probe.go:66-130, scheduler/media.go:26-66).
THEOREM InvariantAlways == Spec => []LibraryInv
<1>1. LibraryInv /\ [Next]_vars => LibraryInv'
  BY NextInvariant
<1> QED BY <1>1, InitInvariant, PTL DEF Spec

\* Files, jobs, operations and analyses keep their shape (operations.go, probe.go).
THEOREM TypeSafe == Spec => []TypeOK
<1>1. LibraryInv => TypeOK
  BY InvariantHolds
<1> QED BY <1>1, InvariantAlways, PTL

\* Whoever writes to a file and whenever, its cached metadata describe the version
\* they are cached for (probe.go:66-115).
THEOREM CacheAlwaysTrue == Spec => []CacheTrue
<1>1. LibraryInv => CacheTrue
  BY InvariantHolds
<1> QED BY <1>1, InvariantAlways, PTL

\* A batch that queues something has compared it with what was reviewed.
LEMMA QueuesAsReviewed ==
    ASSUME LibraryInv, NEW q \in Operations, NEW e \in operations[q].now, Queues(q, e)
    PROVE  \A o \in Operations : \A f \in operations'[o].queued \ operations[o].queued :
              /\ f = e.file /\ o = q
              /\ disk[f].there /\ disk[f].v \notin Small /\ disk[f].v \in Wanted
              /\ jobs'[f] = [state |-> "queued", size |-> disk[f].v, probe |-> disk[f].v]
              /\ jobs[f].state \notin {"queued", "active", "completed"}
<1>1. e.file \in Files /\ e.probe = e.seen /\ e.seen \in Wanted /\ e.seen \notin Small
  BY DEF Queues, Entry, Reviewed
<1>2. disk[e.file].there /\ disk[e.file].v = e.seen
  BY DEF Queues, Unchanged
<1>3. operations[q].retry \subseteq {"failed", "canceled"}
  BY DEF LibraryInv, OpsInv, OperationData
<1>4. jobs[e.file].state \notin {"queued", "active", "completed"}
  BY <1>3 DEF Queues, Accepted
<1>5. jobs'[e.file] = [state |-> "queued", size |-> e.seen, probe |-> e.seen]
  BY <1>1 DEF Queues, LibraryInv, FilesInv
<1>6. \A o \in Operations : \A f \in operations'[o].queued \ operations[o].queued : o = q /\ f = e.file
  BY DEF Queues
<1> QED BY <1>1, <1>2, <1>4, <1>5, <1>6

\* A batch queues the version that was reviewed, with its metadata, and no file that
\* is queued, active or completed, whatever happened since (scheduler/media.go:26-66).
THEOREM AlwaysQueuedAsReviewed == Spec => QueuedAsReviewed
<1>1. LibraryInv /\ [Next]_vars =>
        [\A o \in Operations : \A f \in operations'[o].queued \ operations[o].queued :
            LET v == disk[f].v
            IN  /\ disk[f].there /\ v \notin Small /\ v \in Wanted
                /\ jobs'[f] = [state |-> "queued", size |-> v, probe |-> v]
                /\ jobs[f].state \notin {"queued", "active", "completed"}]_vars
  BY NextInvariant, QueuesAsReviewed DEF NothingQueued
<1> QED BY <1>1, InvariantAlways, PTL DEF Spec, QueuedAsReviewed

\* A batch queues only while it runs, and never more than its target (operations.go:385-452).
THEOREM AlwaysTargetKept == Spec => TargetKept
<1>1. ASSUME LibraryInv, NEW q \in Operations, NEW e \in operations[q].now, Queues(q, e),
             NEW o \in Operations, operations'[o].queued \ operations[o].queued # {}
      PROVE  /\ operations[o].state = "running" /\ ~operations[o].canceled
             /\ Cardinality(operations'[o].queued) <= operations'[o].target
  <2>1. o = q
    BY <1>1 DEF Queues
  <2>2. e.file \in Files /\ operations[q].queued \subseteq Files /\ operations[q].target \in Nat
    BY <1>1, CountFiles DEF Queues, Entry, LibraryInv, OpsInv, OperationData
  <2>3. Cardinality(operations[q].queued) \in Nat
        /\ Cardinality(operations[q].queued \union {e.file}) \in Nat
        /\ Cardinality(operations[q].queued \union {e.file}) <= Cardinality(operations[q].queued) + 1
    BY <2>2, CountFiles
  <2>4. Cardinality(operations[q].queued \union {e.file}) <= operations[q].target
    BY <1>1, <2>2, <2>3 DEF Queues
  <2> QED BY <1>1, <2>1, <2>4 DEF Queues
<1>2. LibraryInv /\ [Next]_vars =>
        [\A o \in Operations : operations'[o].queued \ operations[o].queued # {} =>
            /\ operations[o].state = "running" /\ ~operations[o].canceled
            /\ Cardinality(operations'[o].queued) <= operations'[o].target]_vars
  BY <1>1, NextInvariant DEF NothingQueued
<1> QED BY <1>2, InvariantAlways, PTL DEF Spec, TargetKept
=============================================================================
