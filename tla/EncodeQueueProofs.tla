-------------------------- MODULE EncodeQueueProofs --------------------------
(***************************************************************************)
(* Proofs about EncodeQueue, for any jobs, limits, commands, failures and  *)
(* restarts.                                                               *)
(***************************************************************************)
EXTENDS EncodeQueue, FiniteSetTheorems, SequenceTheorems, TLAPS

-----------------------------------------------------------------------------
(* Pools and capacities *)

PairAssumption(pair) == pair \in [Kinds -> Numbers] /\ Total(pair) <= MaxInt

\* The numbers are natural numbers.
LEMMA NumbersAre == Numbers \subseteq Nat /\ 0 \in Numbers /\ 1 \in Numbers /\ MaxInt \in Numbers
BY CapacityAssumption DEF Numbers

\* A limit of the only class is a vector of numbers.
LEMMA SoleType == ASSUME NEW n \in Numbers PROVE Sole(n) \in [Kinds -> Numbers]
BY NumbersAre DEF Sole

\* A pool with a new limit is a pool.
LEMMA SetTargetType ==
    ASSUME NEW p \in Pool, NEW n \in Numbers
    PROVE  SetTarget(p, n) \in Pool
BY SoleType, CapacityAssumption DEF SetTarget, Pool

\* So is one with limits per class, whose sum is a number.
LEMMA SetLimitsType ==
    ASSUME NEW p \in Pool, NEW pair, PairAssumption(pair)
    PROVE  SetLimits(p, pair) \in Pool /\ Total(pair) \in Numbers
<1> DEFINE limit == [k \in Kinds |-> IF pair[k] > 0 THEN pair[k] ELSE p.limit[k]]
<1>1. pair \in [Kinds -> Numbers] /\ Total(pair) \in Numbers
  BY CapacityAssumption DEF PairAssumption, Numbers, Total, Kinds
<1>2. limit \in [Kinds -> Numbers]
  BY <1>1 DEF Pool
<1>3. SafeSum(limit["cpu"], limit["gpu"]) \in Numbers
  <2>1. limit["cpu"] \in Numbers /\ limit["gpu"] \in Numbers
    BY <1>2 DEF Kinds
  <2> HIDE DEF limit
  <2> QED BY <2>1, CapacityAssumption DEF SafeSum, Numbers
<1>4. SetLimits(p, pair) = [p EXCEPT !.independent = TRUE, !.jobs = pair, !.limit = limit,
                  !.target = IF Total(pair) > 0 THEN Total(pair)
                             ELSE SafeSum(limit["cpu"], limit["gpu"]),
                  !.last = IF Total(pair) > 0 THEN pair ELSE @]
  BY DEF SetLimits
<1> HIDE DEF limit
<1> QED BY <1>1, <1>2, <1>3, <1>4 DEF Pool

\* A pinned class that is raised to drain leaves what runs.
LEMMA DrainableType ==
    ASSUME NEW p \in Pool, NEW k \in Kinds \union {NoKind}
    PROVE  Drainable(p, k) \in Pool /\ Drainable(p, k).active = p.active
BY NumbersAre DEF Drainable, Pool

\* The attempt of a job at a slot takes one at most.
LEMMA TriedType ==
    ASSUME NEW p \in Pool, NEW k \in Kinds \union {NoKind}
    PROVE  /\ Tried(p, k) \in Pool
           /\ Tried(p, k).paused = p.paused
           /\ StartKind(p, k) \in Kinds \union {NoKind}
           /\ Tried(p, k).active =
                 IF StartKind(p, k) = NoKind THEN p.active
                 ELSE [p.active EXCEPT ![StartKind(p, k)] = @ + 1]
<1>1. StartKind(p, k) \in Kinds \union {NoKind}
  BY CapacityAssumption DEF StartKind, Kinds
<1>2. Drainable(p, k) \in Pool /\ Drainable(p, k).active = p.active /\ Drainable(p, k).paused = p.paused
  BY DrainableType DEF Drainable, Pool
<1> DEFINE q == IF Shut(p) THEN p ELSE Drainable(p, k)
<1>3. q \in Pool /\ q.active = p.active /\ q.paused = p.paused
  BY <1>2
<1>4. Tried(p, k) = IF StartKind(p, k) = NoKind THEN q ELSE [q EXCEPT !.active[StartKind(p, k)] = @ + 1]
  BY DEF Tried
<1> HIDE DEF q
<1>5. NoKind \notin Kinds
  BY DEF NoKind, Kinds
<1> QED BY <1>1, <1>3, <1>4, <1>5 DEF Pool

\* An encode that ended runs no more.
LEMMA FinishedType ==
    ASSUME NEW p \in Pool, NEW k \in Kinds, p.active[k] > 0
    PROVE  /\ Finished(p, k) \in Pool
           /\ Finished(p, k).paused = p.paused
           /\ Finished(p, k).active = [p.active EXCEPT ![k] = @ - 1]
BY DEF Finished, Pool

-----------------------------------------------------------------------------
(* Capacities whose holds agree *)

Sound(c) == c \in Capacity /\ Agrees(c)

\* The operations of Capacity, as a worker's commands use them, make a sound capacity of one.
LEMMA HeldIsSound ==
    ASSUME NEW c \in Capacity
    PROVE  Sound(Held(PoolPaused(c))) /\ Held(PoolPaused(c)).pool.active = c.pool.active
BY DEF Sound, Held, PoolPaused, Capacity, Pool, Agrees, Drains

\* A local limit leaves target and limits in agreement.
LEMMA ApplyLimitSound ==
    ASSUME NEW c, Sound(c), NEW n \in Numbers, NEW mode \in Modes, NEW ram \in BOOLEAN
    PROVE  /\ Sound(ApplyLimit(c, n, mode, ram))
           /\ ApplyLimit(c, n, mode, ram).pool.active = c.pool.active
<1> DEFINE pool == IF n > 0 THEN SetTarget(c.pool, n) ELSE [c.pool EXCEPT !.jobs = Pair(0, 0)]
           d == [c EXCEPT !.max = n, !.mode = mode, !.ram = ram, !.finishing = FALSE, !.pool = pool]
<1>1. c \in Capacity /\ c.pool \in Pool
  BY DEF Sound, Capacity
<1>2. pool \in Pool /\ pool.active = c.pool.active
  <2>1. Pair(0, 0) \in [Kinds -> Numbers]
    BY NumbersAre DEF Pair
  <2>2. SetTarget(c.pool, n) \in Pool /\ SetTarget(c.pool, n).active = c.pool.active
    BY <1>1, SetTargetType DEF SetTarget, Pool
  <2> QED BY <1>1, <2>1, <2>2 DEF Pool
<1>3. ApplyLimit(c, n, mode, ram) = Held(PoolPaused(d))
  BY DEF ApplyLimit
<1> HIDE DEF pool
<1>4. d \in Capacity /\ d.pool.active = c.pool.active
  BY <1>1, <1>2 DEF Capacity
<1> HIDE DEF d
<1> QED BY <1>3, <1>4, HeldIsSound

\* So does the limit of a queue control.
LEMMA AdmissionLimitSound ==
    ASSUME NEW c, Sound(c), NEW n \in Numbers
    PROVE  Sound(AdmissionLimit(c, n)) /\ AdmissionLimit(c, n).pool.active = c.pool.active
<1>1. (c.ram \/ (c.max = 0 /\ c.mode = "ram" /\ ~c.held /\ ~c.finishing)) \in BOOLEAN
  BY DEF Sound, Capacity
<1>2. "finish" \in Modes
  BY DEF Modes
<1> QED BY <1>1, <1>2, ApplyLimitSound DEF AdmissionLimit

\* So do limits per class.
LEMMA SetEncoderLimitsSound ==
    ASSUME NEW c, Sound(c), NEW pair, PairAssumption(pair)
    PROVE  Sound(SetEncoderLimits(c, pair)) /\ SetEncoderLimits(c, pair).pool.active = c.pool.active
<1> DEFINE d == [c EXCEPT !.pool = SetLimits(@, pair), !.max = Total(pair), !.finishing = FALSE]
<1>1. c \in Capacity /\ c.pool \in Pool
  BY DEF Sound, Capacity
<1>2. SetLimits(c.pool, pair) \in Pool /\ Total(pair) \in Numbers
  BY <1>1, SetLimitsType
<1>3. SetLimits(c.pool, pair).active = c.pool.active
  BY <1>1 DEF SetLimits, Pool
<1>4. d \in Capacity /\ d.pool.active = c.pool.active
  BY <1>1, <1>2, <1>3 DEF Capacity
<1>5. SetEncoderLimits(c, pair) = Held(PoolPaused(d))
  BY DEF SetEncoderLimits
<1> HIDE DEF d
<1> QED BY <1>4, <1>5, HeldIsSound

\* The other commands.
LEMMA CommandsSound ==
    ASSUME NEW c, Sound(c)
    PROVE  /\ \A mode \in Modes : Sound(SetPauseMode(c, mode))
                                  /\ SetPauseMode(c, mode).pool.active = c.pool.active
           /\ \A ram \in BOOLEAN : ~Drains(c) => Sound(SetRAMPaused(c, ram))
                                  /\ SetRAMPaused(c, ram).pool.active = c.pool.active
           /\ Sound(FinishAcceptedJobs(c)) /\ FinishAcceptedJobs(c).pool.active = c.pool.active
           /\ Sound(DrainAcceptedJobs(c)) /\ DrainAcceptedJobs(c).pool.active = c.pool.active
           /\ Sound(HoldAdmission(c)) /\ HoldAdmission(c).pool.active = c.pool.active
           /\ Sound(MarkWorkerSettingsResolved(c))
           /\ MarkWorkerSettingsResolved(c).pool.active = c.pool.active
<1>1. c \in Capacity /\ Agrees(c) /\ 0 \in Numbers /\ "finish" \in Modes
  BY NumbersAre DEF Sound, Modes
<1>2. ASSUME NEW mode \in Modes
      PROVE  Sound(SetPauseMode(c, mode)) /\ SetPauseMode(c, mode).pool.active = c.pool.active
  <2>1. [c EXCEPT !.mode = mode] \in Capacity
    BY <1>1 DEF Capacity
  <2> QED BY <1>1, <2>1 DEF Sound, SetPauseMode, Held, Capacity, Pool, Agrees, Drains
<1>3. ASSUME NEW ram \in BOOLEAN, ~Drains(c)
      PROVE  Sound(SetRAMPaused(c, ram)) /\ SetRAMPaused(c, ram).pool.active = c.pool.active
  <2>1. (ram \/ c.max = 0 \/ c.pending) \in BOOLEAN /\ c.pool \in Pool /\ c.pending \in BOOLEAN
    BY <1>1 DEF Capacity
  <2>2. SetRAMPaused(c, ram) \in Capacity /\ SetRAMPaused(c, ram).pool.active = c.pool.active
    BY <1>1, <2>1 DEF SetRAMPaused, Capacity, Pool
  <2>3. Agrees(SetRAMPaused(c, ram))
    BY <1>1, <1>3, <2>1 DEF SetRAMPaused, Capacity, Pool, Agrees, Drains, Modes
  <2> QED BY <2>2, <2>3 DEF Sound
<1>4. Sound(FinishAcceptedJobs(c)) /\ FinishAcceptedJobs(c).pool.active = c.pool.active
  BY <1>1 DEF Sound, FinishAcceptedJobs, Capacity, Pool, Agrees, Drains
<1>5. Sound(DrainAcceptedJobs(c)) /\ DrainAcceptedJobs(c).pool.active = c.pool.active
  BY <1>1 DEF Sound, DrainAcceptedJobs, Capacity, Pool, Agrees, Drains
<1>6. Sound(HoldAdmission(c)) /\ HoldAdmission(c).pool.active = c.pool.active
  BY <1>1 DEF Sound, HoldAdmission, Capacity, Pool, Agrees, Drains
<1>7. Sound(MarkWorkerSettingsResolved(c)) /\ MarkWorkerSettingsResolved(c).pool.active = c.pool.active
  BY <1>1 DEF Sound, MarkWorkerSettingsResolved, PoolPaused, Capacity, Pool, Agrees, Drains
<1> QED BY <1>2, <1>3, <1>4, <1>5, <1>6, <1>7

\* So does a process that starts.
LEMMA NewSound ==
    /\ Sound(NewCapacity) /\ NewCapacity.pool.active = Pair(0, 0)
    /\ Sound(HoldAdmission(NewCapacity)) /\ HoldAdmission(NewCapacity).pool.active = Pair(0, 0)
<1>1. StartTarget \in Numbers
  BY CapacityAssumption, NumbersAre DEF StartTarget
<1>2. Sole(StartTarget) \in [Kinds -> Numbers] /\ Pair(0, 0) \in [Kinds -> Numbers]
      /\ Pair(0, 0) \in [Kinds -> Nat]
  BY <1>1, SoleType, NumbersAre DEF Pair
<1>3. NewPool \in Pool /\ NewPool.active = Pair(0, 0)
  BY <1>1, <1>2, CapacityAssumption DEF NewPool, Pool
<1>4. NewCapacity \in Capacity /\ NewCapacity.pool.active = Pair(0, 0)
  BY <1>3, CapacityAssumption DEF NewCapacity, Capacity, Pool
<1>5. Agrees(NewCapacity)
  BY CapacityAssumption, <1>3 DEF NewCapacity, Agrees, Drains, Pool
<1> QED BY <1>4, <1>5, CommandsSound DEF Sound

-----------------------------------------------------------------------------
(* The inductive invariant *)

Occupied   == {j \in Jobs : phase[j] \notin {"none", "saved"}}
SlotsOf(k) == {j \in Jobs : slot[j] = k}

\* What a goroutine holds tells how far its job is.
JobsInv ==
    /\ phase \in [Jobs -> Phases]
    /\ kind \in [Jobs -> Kinds \union {NoKind}]
    /\ slot \in [Jobs -> Kinds \union {NoKind}]
    /\ \A j \in Jobs : slot[j] # NoKind => phase[j] \in {"starting", "gate", "encode", "after", "none"}

CapInv ==
    /\ Sound(cap)
    /\ \A k \in Kinds : cap.pool.active[k] = Cardinality(SlotsOf(k))

AdmissionInv ==
    /\ loop \in {"idle", "reserved", "checked", "draining"} \union Jobs
    /\ \A j \in Jobs : loop = j => phase[j] = "none" /\ slot[j] = NoKind
    /\ reserved = (IF Reserving THEN 1 ELSE 0)
    /\ accepted = Cardinality(Occupied)

ProcsInv ==
    /\ DOMAIN procs \subseteq Jobs /\ skewed \subseteq Jobs
    /\ \A j \in DOMAIN procs : procs[j] \in Process /\ phase[j] = "encode"
    /\ \A j \in DOMAIN procs \ skewed : procs[j].paused = (cap.hold \/ procs[j].individual)

\* A job that waits for a slot is in one place.
WaitInv ==
    /\ queue \in Seq(Jobs) /\ pending \in Seq(Jobs) /\ scan \in 0..(Len(pending) + 1) /\ token \in BOOLEAN
    /\ \A i \in DOMAIN queue : phase[queue[i]] = "queued"
    /\ \A i \in DOMAIN pending : phase[pending[i]] = "queued"
    /\ \A i, m \in DOMAIN queue : queue[i] = queue[m] => i = m
    /\ \A i, m \in DOMAIN pending : pending[i] = pending[m] => i = m
    /\ \A i \in DOMAIN queue, m \in DOMAIN pending : queue[i] # pending[m]

BoundsInv == given \in 0..MaxCommands /\ restarts \in 0..MaxRestarts

QueueInv == JobsInv /\ CapInv /\ AdmissionInv /\ ProcsInv /\ WaitInv /\ BoundsInv

\* Facts about the jobs and their counts.
LEMMA CountsFinite ==
    /\ \A S \in SUBSET Jobs : IsFiniteSet(S) /\ Cardinality(S) \in Nat
    /\ \A S \in SUBSET Jobs, j \in Jobs :
          /\ j \notin S => Cardinality(S \union {j}) = Cardinality(S) + 1
          /\ j \in S => Cardinality(S \ {j}) = Cardinality(S) - 1 /\ Cardinality(S) > 0
<1>1. ASSUME NEW S \in SUBSET Jobs
      PROVE  IsFiniteSet(S) /\ Cardinality(S) \in Nat
  BY QueueAssumption, FS_Subset, FS_CardinalityType
<1>2. ASSUME NEW S \in SUBSET Jobs, NEW j \in Jobs, j \notin S
      PROVE  Cardinality(S \union {j}) = Cardinality(S) + 1
  BY <1>1, <1>2, FS_AddElement
<1>3. ASSUME NEW S \in SUBSET Jobs, NEW j \in Jobs, j \in S
      PROVE  Cardinality(S \ {j}) = Cardinality(S) - 1 /\ Cardinality(S) > 0
  <2>1. IsFiniteSet(S) /\ IsFiniteSet(S \ {j}) /\ Cardinality(S) \in Nat /\ Cardinality(S \ {j}) \in Nat
    BY <1>1
  <2>2. Cardinality(S \ {j}) = Cardinality(S) - 1
    BY <1>3, <2>1, FS_RemoveElement
  <2> QED BY <2>1, <2>2
<1> QED BY <1>1, <1>2, <1>3

\* Nobody is counted where nobody is.
LEMMA NoneCounted == Cardinality({}) = 0
BY FS_EmptySet

\* The invariant has the properties in it.
LEMMA InvariantHolds == QueueInv => TypeOK /\ Accounted /\ HoldsAgree
<1> SUFFICES ASSUME QueueInv PROVE TypeOK /\ Accounted /\ HoldsAgree
  OBVIOUS
<1>1. accepted \in Int /\ reserved \in Nat
  BY CountsFinite DEF QueueInv, AdmissionInv, Occupied
<1>2. TypeOK
  BY <1>1 DEF QueueInv, JobsInv, CapInv, AdmissionInv, ProcsInv, WaitInv, BoundsInv, TypeOK, Sound
<1>3. Accounted
  BY DEF QueueInv, CapInv, AdmissionInv, Accounted, Occupied, SlotsOf
<1>4. HoldsAgree
  BY DEF QueueInv, CapInv, ProcsInv, HoldsAgree, Sound
<1> QED BY <1>2, <1>3, <1>4

\* A worker that starts for the first time has the invariant.
LEMMA InitInvariant == Init => QueueInv
<1> SUFFICES ASSUME Init PROVE QueueInv
  OBVIOUS
<1> USE DEF Init
<1>1. JobsInv
  BY DEF JobsInv, Phases
<1>2. CapInv
  <2>1. Sound(cap) /\ cap.pool.active = Pair(0, 0)
    BY NewSound
  <2>2. \A k \in Kinds : SlotsOf(k) = {}
    BY DEF SlotsOf, NoKind, Kinds
  <2> QED BY <2>1, <2>2, NoneCounted DEF CapInv, Pair
<1>3. AdmissionInv
  <2>1. Occupied = {}
    BY DEF Occupied
  <2> QED BY <2>1, NoneCounted, QueueAssumption DEF AdmissionInv, Reserving
<1>4. ProcsInv
  BY DEF ProcsInv
<1>5. WaitInv
  <2>1. <<>> \in Seq(Jobs) /\ Len(<<>>) = 0 /\ DOMAIN <<>> = {}
    OBVIOUS
  <2>2. scan \in 0..(Len(pending) + 1)
    BY <2>1
  <2> QED BY <2>1, <2>2 DEF WaitInv
<1>6. BoundsInv
  BY QueueAssumption DEF BoundsInv
<1> QED BY <1>1, <1>2, <1>3, <1>4, <1>5, <1>6 DEF QueueInv
-----------------------------------------------------------------------------
(* Commands and the processes they signal *)

\* A failed command leaves processes changed that are in skewed from then on.
LEMMA FailureKeepsProcs ==
    ASSUME QueueInv, NEW wanted \in [DOMAIN procs -> BOOLEAN], TransitionFails(wanted)
    PROVE  ProcsInv'
<1>1. PICK failing \in Changing(wanted) :
        \E stuck \in SUBSET RolledBack(Changing(wanted) \ {failing}) :
            procs' = Signalled(stuck, wanted) /\ skewed' = skewed \union stuck
  BY DEF TransitionFails
<1>2. PICK stuck \in SUBSET RolledBack(Changing(wanted) \ {failing}) :
            procs' = Signalled(stuck, wanted) /\ skewed' = skewed \union stuck
  BY <1>1
<1>3. stuck \subseteq DOMAIN procs
  BY <1>2 DEF RolledBack, Changing
<1>4. UNCHANGED <<cap, phase>>
  BY DEF TransitionFails, jobs
<1>5. DOMAIN procs' = DOMAIN procs
  BY <1>2 DEF Signalled
<1>6. \A j \in DOMAIN procs : procs'[j] \in Process /\ procs'[j].individual = procs[j].individual
                             /\ (j \notin stuck => procs'[j] = procs[j])
  BY <1>2 DEF Signalled, QueueInv, ProcsInv, Process
<1> QED BY <1>2, <1>3, <1>4, <1>5, <1>6 DEF QueueInv, ProcsInv

\* What a command leaves alone.
LEMMA CommandKeepsRest ==
    ASSUME QueueInv, BoundsInv', ProcsInv', Sound(cap'), cap'.pool.active = cap.pool.active,
           UNCHANGED <<jobs, queue, pending, scan>>, token' \in BOOLEAN, AdmissionInv'
    PROVE  QueueInv'
<1>1. JobsInv' /\ WaitInv'
  BY DEF QueueInv, JobsInv, WaitInv, jobs
<1>2. CapInv'
  BY DEF QueueInv, CapInv, SlotsOf, jobs
<1> QED BY <1>1, <1>2 DEF QueueInv

\* A command takes the capacity to one that is sound, and its processes to its hold.
LEMMA ApplyKeeps ==
    ASSUME QueueInv, BoundsInv', NEW c, Sound(c), c.pool.active = cap.pool.active, Apply(c)
    PROVE  QueueInv'
<1> DEFINE wanted == [j \in DOMAIN procs |-> c.hold \/ procs[j].individual]
<1>1. wanted \in [DOMAIN procs -> BOOLEAN]
  BY DEF Sound, Capacity, QueueInv, ProcsInv, Process
<1>2. AdmissionInv'
  BY DEF Apply, admission, QueueInv, AdmissionInv, Reserving, Occupied, TransitionFails, jobs
<1>3. CASE TransitionFails(wanted)
  <2>1. ProcsInv'
    BY <1>1, <1>3, FailureKeepsProcs
  <2>2. Sound(cap') /\ cap'.pool.active = cap.pool.active
    BY <1>3 DEF TransitionFails, QueueInv, CapInv
  <2>3. UNCHANGED <<jobs, queue, pending, scan, token>>
    BY <1>3 DEF TransitionFails, slots
  <2> QED BY <1>2, <2>1, <2>2, <2>3, CommandKeepsRest DEF QueueInv, WaitInv
<1>4. CASE /\ procs' = Signalled(DOMAIN procs, wanted) /\ skewed' = {} /\ cap' = c /\ token' = TRUE
           /\ UNCHANGED <<jobs, queue, pending, scan>>
  <2>1. DOMAIN procs' = DOMAIN procs /\ phase' = phase
    BY <1>4 DEF Signalled, jobs
  <2>2. \A j \in DOMAIN procs : procs'[j] = [procs[j] EXCEPT !.paused = c.hold \/ procs[j].individual]
    BY <1>4 DEF Signalled
  <2>3. \A j \in DOMAIN procs : procs[j] \in Process /\ phase[j] = "encode"
    BY DEF QueueInv, ProcsInv
  <2>4. \A j \in DOMAIN procs : /\ procs'[j] \in Process
                               /\ procs'[j].paused = (c.hold \/ procs'[j].individual)
    <3> TAKE j \in DOMAIN procs
    <3>1. (c.hold \/ procs[j].individual) \in BOOLEAN
      BY <1>1
    <3> QED BY <2>2, <2>3, <3>1 DEF Process
  <2>5. ProcsInv'
    BY <1>4, <2>1, <2>3, <2>4 DEF ProcsInv, QueueInv
  <2> QED BY <1>2, <1>4, <2>5, CommandKeepsRest
<1> QED BY <1>3, <1>4 DEF Apply

\* The same of the commands that drain.
LEMMA ReleasedKeeps ==
    ASSUME QueueInv, BoundsInv', AdmissionInv', NEW c, Sound(c), c.pool.active = cap.pool.active, ~c.hold,
           Released(c) \/ TransitionFails(Running)
    PROVE  QueueInv'
<1>1. CASE TransitionFails(Running)
  <2>1. Running \in [DOMAIN procs -> BOOLEAN]
    BY DEF Running
  <2>2. ProcsInv'
    BY <1>1, <2>1, FailureKeepsProcs
  <2>3. Sound(cap') /\ cap'.pool.active = cap.pool.active
    BY <1>1 DEF TransitionFails, QueueInv, CapInv
  <2>4. UNCHANGED <<jobs, queue, pending, scan, token>>
    BY <1>1 DEF TransitionFails, slots
  <2> QED BY <2>2, <2>3, <2>4, CommandKeepsRest DEF QueueInv, WaitInv
<1>2. CASE Released(c)
  <2> USE <1>2 DEF Released
  <2>1. DOMAIN procs' = DOMAIN procs /\ phase' = phase
    BY DEF jobs
  <2>2. \A j \in DOMAIN procs : procs[j] \in Process /\ phase[j] = "encode"
    BY DEF QueueInv, ProcsInv
  <2>3. \A j \in DOMAIN procs : procs'[j] \in Process /\ ~procs'[j].paused /\ ~procs'[j].individual
    BY <2>2 DEF Process
  <2>4. \A j \in DOMAIN procs : procs'[j].paused = (c.hold \/ procs'[j].individual)
    <3> TAKE j \in DOMAIN procs
    <3>1. procs'[j].paused = FALSE /\ procs'[j].individual = FALSE /\ c.hold = FALSE
      BY <2>2 DEF Process, Sound, Capacity
    <3> QED BY <3>1
  <2>5. DOMAIN procs \subseteq Jobs /\ skewed' = {} /\ cap' = c /\ token' \in BOOLEAN
        /\ UNCHANGED <<jobs, queue, pending, scan>>
    BY DEF QueueInv, ProcsInv
  <2> HIDE DEF Released
  <2>6. ProcsInv'
    <3>1. \A j \in DOMAIN procs' : procs'[j] \in Process /\ phase'[j] = "encode"
      BY <2>1, <2>2, <2>3
    <3>2. \A j \in DOMAIN procs' \ skewed' : procs'[j].paused = (cap'.hold \/ procs'[j].individual)
      BY <2>1, <2>4, <2>5
    <3> QED BY <2>1, <2>5, <3>1, <3>2 DEF ProcsInv
  <2> QED BY <2>5, <2>6, CommandKeepsRest
<1> QED BY <1>1, <1>2

-----------------------------------------------------------------------------
(* The steps *)

\* Nothing of the first part depends on more than reservations and slots.
LEMMA KeepsCapInv == CapInv /\ UNCHANGED <<cap, slot>> => CapInv'
BY DEF CapInv, SlotsOf

\* Nothing of the second does on more than processes and their phases.
LEMMA KeepsProcsInv ==
    ProcsInv /\ UNCHANGED <<cap, procs, skewed>> /\ (\A j \in DOMAIN procs : phase'[j] = phase[j])
        => ProcsInv'
BY DEF ProcsInv

\* A wakeup may come at any time.
LEMMA KeepsWaitInv ==
    WaitInv /\ UNCHANGED <<queue, pending, scan>> /\ token' \in BOOLEAN
            /\ (\A j \in Jobs : phase[j] = "queued" => phase'[j] = "queued")
        => WaitInv'
<1> SUFFICES ASSUME WaitInv, UNCHANGED <<queue, pending, scan>>, token' \in BOOLEAN,
                    \A j \in Jobs : phase[j] = "queued" => phase'[j] = "queued"
             PROVE  WaitInv'
  OBVIOUS
<1>1. (\A i \in DOMAIN queue : queue[i] \in Jobs) /\ (\A i \in DOMAIN pending : pending[i] \in Jobs)
  BY DEF WaitInv
<1> QED BY <1>1 DEF WaitInv

\* What is left of a sequence without one of its elements.
LEMMA RemoveAtIs ==
    ASSUME NEW S, NEW s \in Seq(S), NEW n \in DOMAIN s
    PROVE  /\ RemoveAt(s, n) \in Seq(S) /\ Len(RemoveAt(s, n)) = Len(s) - 1
           /\ DOMAIN RemoveAt(s, n) = 1..(Len(s) - 1) /\ DOMAIN s = 1..Len(s) /\ Len(s) \in Nat
           /\ \A i \in 1..(Len(s) - 1) : RemoveAt(s, n)[i] = s[IF i < n THEN i ELSE i + 1]
<1>1. Len(s) \in Nat /\ DOMAIN s = 1..Len(s) /\ n \in 1..Len(s)
  OBVIOUS
<1> DEFINE u == SubSeq(s, 1, n - 1)
           v == SubSeq(s, n + 1, Len(s))
<1>2. u \in Seq(S) /\ Len(u) = n - 1 /\ \A i \in 1..(n - 1) : u[i] = s[i]
  BY <1>1, SubSeqProperties
<1>3. v \in Seq(S) /\ Len(v) = Len(s) - n /\ \A i \in 1..(Len(s) - n) : v[i] = s[n + i]
  BY <1>1, SubSeqProperties
<1>4. RemoveAt(s, n) = u \o v
  BY DEF RemoveAt
<1> HIDE DEF u, v
<1>5. u \o v \in Seq(S) /\ Len(u \o v) = Len(s) - 1
  <2>1. Len(u \o v) = Len(u) + Len(v)
    BY <1>2, <1>3, ConcatProperties
  <2> QED BY <1>1, <1>2, <1>3, <2>1, ConcatProperties
<1>6. ASSUME NEW i \in 1..(Len(s) - 1)
      PROVE  (u \o v)[i] = s[IF i < n THEN i ELSE i + 1]
  <2>1. (u \o v)[i] = IF i <= Len(u) THEN u[i] ELSE v[i - Len(u)]
    <3>1. i \in 1..(Len(u) + Len(v))
      BY <1>1, <1>2, <1>3
    <3> QED BY <1>2, <1>3, <3>1, ConcatProperties
  <2>2. CASE i < n
    <3>1. i \in 1..(n - 1) /\ i <= Len(u)
      BY <1>1, <1>2, <2>2
    <3> QED BY <1>2, <2>1, <2>2, <3>1
  <2>3. CASE ~(i < n)
    <3>1. i - (n - 1) \in 1..(Len(s) - n) /\ ~(i <= Len(u)) /\ n + (i - (n - 1)) = i + 1
      BY <1>1, <1>2, <2>3
    <3>2. i - Len(u) = i - (n - 1)
      BY <1>2
    <3>3. v[i - (n - 1)] = s[i + 1]
      BY <1>3, <3>1
    <3> QED BY <2>1, <2>3, <3>1, <3>2, <3>3
  <2> QED BY <2>2, <2>3
<1>7. DOMAIN (u \o v) = 1..(Len(s) - 1)
  BY <1>5, LenProperties
<1> QED BY <1>1, <1>4, <1>5, <1>6, <1>7

\* Commands.
LEMMA CommandInvariant == QueueInv /\ Command => QueueInv'
<1> SUFFICES ASSUME QueueInv, Command PROVE QueueInv'
  OBVIOUS
<1>1. BoundsInv'
  BY QueueAssumption DEF Command, QueueInv, BoundsInv
<1>2. Sound(cap)
  BY DEF QueueInv, CapInv
<1>3. ASSUME NEW n \in Limits, SetMaxActiveJobs(n) \/ PersistAdmissionLimit(n)
      PROVE  QueueInv'
  <2>1. n \in Numbers /\ cap.mode \in Modes /\ cap.ram \in BOOLEAN
    BY <1>2, QueueAssumption DEF Sound, Capacity
  <2>2. CASE SetMaxActiveJobs(n)
    BY <1>1, <1>2, <2>1, <2>2, ApplyLimitSound, ApplyKeeps DEF SetMaxActiveJobs
  <2>3. CASE PersistAdmissionLimit(n)
    BY <1>1, <1>2, <2>1, <2>3, AdmissionLimitSound, ApplyKeeps DEF PersistAdmissionLimit
  <2> QED BY <1>3, <2>2, <2>3
<1>4. ASSUME NEW pair \in Pairs, SetEncoders(pair)
      PROVE  QueueInv'
  <2>1. PairAssumption(pair)
    BY QueueAssumption DEF PairAssumption
  <2> QED BY <1>1, <1>2, <1>4, <2>1, SetEncoderLimitsSound, ApplyKeeps DEF SetEncoders
<1>5. ASSUME NEW mode \in Modes, SetMode(mode)
      PROVE  QueueInv'
  BY <1>1, <1>2, <1>5, CommandsSound, ApplyKeeps DEF SetMode
<1>6. ASSUME NEW b \in BOOLEAN, SetRAM(b)
      PROVE  QueueInv'
  BY <1>1, <1>2, <1>6, CommandsSound, ApplyKeeps DEF SetRAM
<1>7. ASSUME NEW b \in BOOLEAN, NEW j \in Jobs, SetJobPaused(j, b)
      PROVE  QueueInv'
  <2> USE <1>7 DEF SetJobPaused
  <2>1. JobsInv' /\ AdmissionInv' /\ CapInv' /\ WaitInv'
    BY DEF QueueInv, JobsInv, AdmissionInv, CapInv, WaitInv, SlotsOf, Occupied, Reserving, jobs, slots, admission
  <2>2. \A i \in DOMAIN procs : i # j => procs'[i] = procs[i]
    OBVIOUS
  <2>3. (cap.hold \/ b) \in BOOLEAN /\ procs[j] \in Process
    BY <1>2 DEF Sound, Capacity, QueueInv, ProcsInv
  <2>4. procs'[j] \in Process /\ procs'[j].individual = b /\ procs'[j].paused = (cap.hold \/ b)
    BY <2>3 DEF Process
  <2>5. DOMAIN procs' = DOMAIN procs /\ skewed' = skewed \ {j} /\ cap' = cap /\ phase' = phase
    BY DEF jobs
  <2>6. ProcsInv'
    BY <2>2, <2>4, <2>5 DEF QueueInv, ProcsInv
  <2> QED BY <1>1, <2>1, <2>6 DEF QueueInv
<1>8. ASSUME Finish \/ Drain \/ Hold
      PROVE  QueueInv'
  <2>1. AdmissionInv'
    BY <1>8 DEF QueueInv, AdmissionInv, Reserving, Occupied, Finish, Drain, Hold, Release, Released,
                TransitionFails, admission, jobs
  <2>2. ASSUME NEW c, Release(c) PROVE Released(c) \/ TransitionFails(Running)
    BY <2>2 DEF Release
  <2>3. CASE Finish
    <3>1. ~FinishAcceptedJobs(cap).hold
      BY <1>2 DEF FinishAcceptedJobs, Sound, Capacity
    <3> QED BY <1>1, <1>2, <2>1, <2>2, <2>3, <3>1, CommandsSound, ReleasedKeeps DEF Finish
  <2>4. CASE Drain
    <3>1. ~DrainAcceptedJobs(cap).hold
      BY <1>2 DEF DrainAcceptedJobs, Sound, Capacity
    <3> QED BY <1>1, <1>2, <2>1, <2>2, <2>4, <3>1, CommandsSound, ReleasedKeeps DEF Drain
  <2>5. CASE Hold
    <3>1. ~HoldAdmission(cap).hold
      BY <1>2 DEF HoldAdmission, Sound, Capacity
    <3> QED BY <1>1, <1>2, <2>1, <2>2, <2>5, <3>1, CommandsSound, ReleasedKeeps DEF Hold
  <2> QED BY <1>8, <2>3, <2>4, <2>5
<1> QED BY <1>3, <1>4, <1>5, <1>6, <1>7, <1>8 DEF Command

\* The coordinator's loop.
LEMMA CoordinateInvariant == QueueInv /\ Coordinate /\ UNCHANGED bounds => QueueInv'
<1> SUFFICES ASSUME QueueInv, Coordinate, UNCHANGED bounds PROVE QueueInv'
  OBVIOUS
<1> USE DEF QueueInv
<1>1. BoundsInv'
  BY DEF BoundsInv, bounds
<1>2. \A j \in Jobs : j \notin {"idle", "reserved", "checked", "draining"}
  BY QueueAssumption
<1>3. Unreserved = 0
  BY DEF AdmissionInv, Unreserved
<1>4. CASE Reserve \/ NoUpdate
  <2>1. CapInv' /\ JobsInv' /\ ProcsInv' /\ WaitInv'
    BY <1>4 DEF Reserve, NoUpdate, CapInv, SlotsOf, JobsInv, ProcsInv, WaitInv, jobs, slots
  <2>2. AdmissionInv'
    BY <1>2, <1>4 DEF Reserve, NoUpdate, AdmissionInv, Reserving, Occupied, jobs
  <2> QED BY <1>1, <2>1, <2>2
<1>5. CASE GivesUp
  <2>1. CapInv' /\ JobsInv' /\ ProcsInv' /\ WaitInv'
    BY <1>5 DEF GivesUp, CapInv, SlotsOf, JobsInv, ProcsInv, WaitInv, slots
  <2>2. AdmissionInv'
    BY <1>2, <1>3, <1>5 DEF GivesUp, AdmissionInv, Reserving, Occupied
  <2> QED BY <1>1, <2>1, <2>2
<1>6. CASE Updates
  <2>1. AdmissionInv'
    BY <1>2, <1>3, <1>6 DEF Updates, AdmissionInv, Reserving, Occupied, Released, TransitionFails, jobs
  <2>2. Sound(cap) /\ ~DrainAcceptedJobs(cap).hold
    BY DEF CapInv, Sound, DrainAcceptedJobs, Capacity
  <2> QED BY <1>1, <1>6, <2>1, <2>2, CommandsSound, ReleasedKeeps DEF Updates
<1>7. CASE SettingsResolved
  <2> USE <1>7 DEF SettingsResolved
  <2>1. Sound(cap') /\ cap'.pool.active = cap.pool.active
    BY CommandsSound DEF CapInv
  <2>2. AdmissionInv'
    BY DEF AdmissionInv, Reserving, Occupied, admission, jobs
  <2>3. cap'.hold = cap.hold
    BY DEF CapInv, Sound, Capacity, MarkWorkerSettingsResolved, PoolPaused
  <2>4. ProcsInv'
    BY <2>3 DEF ProcsInv, jobs
  <2> QED BY <1>1, <2>1, <2>2, <2>4, CommandKeepsRest
<1>8. ASSUME NEW j \in Jobs, Receives(j)
      PROVE  QueueInv'
  <2> USE <1>8 DEF Receives
  <2>1. AdmissionKind(cap.pool) \in Kinds \union {NoKind}
    BY DEF AdmissionKind, Kinds
  <2>2. JobsInv'
    BY <2>1 DEF JobsInv
  <2>3. CapInv' /\ ProcsInv' /\ WaitInv'
    BY DEF CapInv, SlotsOf, ProcsInv, WaitInv, slots
  <2>4. AdmissionInv'
    BY <1>2 DEF AdmissionInv, Reserving, Occupied
  <2> QED BY <1>1, <2>2, <2>3, <2>4
<1>9. ASSUME NEW j \in Jobs, Accepts(j)
      PROVE  QueueInv'
  <2> USE <1>9 DEF Accepts
  <2>1. phase[j] = "none" /\ slot[j] = NoKind
    BY DEF AdmissionInv
  <2>2. JobsInv'
    BY <2>1 DEF JobsInv, Phases
  <2>3. CapInv'
    BY KeepsCapInv
  <2>4. \A i \in Jobs : i # j => phase'[i] = phase[i]
    BY DEF JobsInv
  <2>5. ProcsInv'
    BY <2>1, <2>4, KeepsProcsInv DEF ProcsInv
  <2>6. WaitInv'
    BY <2>1, <2>4, KeepsWaitInv DEF slots, WaitInv
  <2>7. Occupied' = Occupied \union {j} /\ j \notin Occupied
    BY <2>1 DEF Occupied, JobsInv
  <2>8. AdmissionInv'
    <3>1. accepted' = Cardinality(Occupied')
      BY <2>7, CountsFinite DEF AdmissionInv, Occupied
    <3> QED BY <1>2, <1>3, <3>1 DEF AdmissionInv, Reserving
  <2> QED BY <1>1, <2>2, <2>3, <2>5, <2>6, <2>8
<1> QED BY <1>4, <1>5, <1>6, <1>7, <1>8, <1>9 DEF Coordinate

\* The goroutine that gives slots.
LEMMA StartsInvariant == QueueInv /\ Starts /\ UNCHANGED bounds => QueueInv'
<1> SUFFICES ASSUME QueueInv, Starts, UNCHANGED bounds PROVE QueueInv'
  OBVIOUS
<1> USE DEF QueueInv
<1>1. BoundsInv'
  BY DEF BoundsInv, bounds
<1>2. CASE Wait \/ Wake
  <2>1. UNCHANGED <<cap, admission, jobs, procs, skewed, queue, pending>>
    BY <1>2 DEF Wait, Wake
  <2>2. CapInv' /\ JobsInv' /\ ProcsInv' /\ AdmissionInv'
    BY <2>1 DEF CapInv, SlotsOf, JobsInv, ProcsInv, AdmissionInv, Reserving, Occupied, jobs, admission
  <2>3. scan' \in 0..(Len(pending') + 1) /\ token' \in BOOLEAN /\ UNCHANGED <<queue, pending, phase>>
    <3>1. Len(pending) \in Nat /\ token \in BOOLEAN
      BY DEF WaitInv
    <3>2. (scan' = 0 \/ scan' = 1) /\ (token' = token \/ token' = FALSE)
      BY <1>2 DEF Wait, Wake
    <3>3. scan' \in 0..(Len(pending) + 1)
      BY <3>1, <3>2
    <3>4. token' \in BOOLEAN
      BY <3>1, <3>2
    <3> QED BY <2>1, <3>3, <3>4 DEF jobs
  <2>4. WaitInv'
    BY <2>3 DEF WaitInv
  <2> QED BY <1>1, <2>2, <2>4
<1>3. CASE Take
  <2> USE <1>3 DEF Take
  <2>1. CapInv' /\ JobsInv' /\ ProcsInv' /\ AdmissionInv'
    BY DEF CapInv, SlotsOf, JobsInv, ProcsInv, AdmissionInv, Reserving, Occupied, jobs, admission
  <2>2. queue \in Seq(Jobs) /\ pending \in Seq(Jobs) /\ queue # <<>> /\ token \in BOOLEAN
    BY DEF WaitInv
  <2>3. /\ queue' \in Seq(Jobs) /\ DOMAIN queue' = 1..(Len(queue) - 1)
        /\ \A i \in DOMAIN queue' : queue'[i] = queue[i + 1] /\ i + 1 \in DOMAIN queue
    BY <2>2
  <2>4. /\ pending' \in Seq(Jobs) /\ Len(pending') = Len(pending) + 1
        /\ DOMAIN pending' = 1..(Len(pending) + 1) /\ DOMAIN pending = 1..Len(pending)
        /\ \A i \in DOMAIN pending : pending'[i] = pending[i]
        /\ pending'[Len(pending) + 1] = queue[1]
    BY <2>2
  <2>5. 1 \in DOMAIN queue /\ Len(pending) \in Nat /\ DOMAIN queue \subseteq Nat
    BY <2>2
  <2>6. /\ \A i \in DOMAIN queue : phase[queue[i]] = "queued"
        /\ \A i \in DOMAIN pending : phase[pending[i]] = "queued"
        /\ \A i, m \in DOMAIN queue : queue[i] = queue[m] => i = m
        /\ \A i, m \in DOMAIN pending : pending[i] = pending[m] => i = m
        /\ \A i \in DOMAIN queue, m \in DOMAIN pending : queue[i] # pending[m]
    BY DEF WaitInv
  <2>7. scan' \in 0..(Len(pending') + 1) /\ token' \in BOOLEAN /\ phase' = phase
    BY <2>2, <2>4, <2>5 DEF jobs
  <2> HIDE DEF Take
  <2>8. \A m \in DOMAIN pending' : m \in DOMAIN pending \/ m = Len(pending) + 1
    BY <2>4, <2>5
  <2>9. \A i \in DOMAIN queue' : phase'[queue'[i]] = "queued"
    BY <2>3, <2>6, <2>7
  <2>10. \A i \in DOMAIN pending' : phase'[pending'[i]] = "queued"
    BY <2>4, <2>5, <2>6, <2>7, <2>8
  <2>11. \A i, m \in DOMAIN queue' : queue'[i] = queue'[m] => i = m
    BY <2>3, <2>6
  <2>12. \A i, m \in DOMAIN pending' : pending'[i] = pending'[m] => i = m
    BY <2>4, <2>5, <2>6, <2>8
  <2>13. \A i \in DOMAIN queue', m \in DOMAIN pending' : queue'[i] # pending'[m]
    BY <2>3, <2>4, <2>5, <2>6, <2>8
  <2>14. WaitInv'
    BY <2>3, <2>4, <2>7, <2>9, <2>10, <2>11, <2>12, <2>13 DEF WaitInv
  <2> QED BY <1>1, <2>1, <2>14
<1>4. CASE TryStart
  <2> DEFINE j == pending[scan]
             k == StartKind(cap.pool, kind[j])
  <2>1. cap \in Capacity /\ cap.pool \in Pool
    BY DEF CapInv, Sound, Capacity
  <2>2. pending \in Seq(Jobs) /\ scan \in DOMAIN pending /\ j \in Jobs /\ phase[j] = "queued"
    BY <1>4 DEF TryStart, WaitInv
  <2>3. slot[j] = NoKind
    BY <2>2 DEF JobsInv
  <2>4. kind[j] \in Kinds \union {NoKind}
    BY <2>2 DEF JobsInv
  <2>5. /\ Tried(cap.pool, kind[j]) \in Pool /\ Tried(cap.pool, kind[j]).paused = cap.pool.paused
        /\ k \in Kinds \union {NoKind}
        /\ Tried(cap.pool, kind[j]).active =
                 IF k = NoKind THEN cap.pool.active ELSE [cap.pool.active EXCEPT ![k] = @ + 1]
    BY <2>1, <2>4, TriedType
  <2>6. cap' = [cap EXCEPT !.pool = Tried(cap.pool, kind[j])]
    BY <1>4 DEF TryStart
  <2>7. /\ cap' \in Capacity /\ cap'.hold = cap.hold
        /\ cap'.pool.active = IF k = NoKind THEN cap.pool.active ELSE [cap.pool.active EXCEPT ![k] = @ + 1]
    BY <2>1, <2>5, <2>6 DEF Capacity
  <2>8. Sound(cap')
    <3>1. UNCHANGED <<cap.hold, cap.ram, cap.max, cap.mode, cap.held, cap.finishing, cap.pending, cap.pool.paused>>
      BY <2>1, <2>5, <2>6 DEF Capacity
    <3> QED BY <2>7, <3>1 DEF Sound, CapInv, Agrees, Drains
  <2>9. UNCHANGED <<reserved, accepted, loop, kind, procs, skewed, queue, token>>
    BY <1>4 DEF TryStart, admission
  <2>10. CASE k = NoKind
    <3>1. scan' = scan + 1 /\ UNCHANGED <<pending, phase, slot>>
      BY <1>4, <2>10 DEF TryStart
    <3>2. CapInv' /\ JobsInv' /\ ProcsInv' /\ AdmissionInv'
      BY <2>7, <2>8, <2>9, <2>10, <3>1 DEF CapInv, SlotsOf, JobsInv, ProcsInv, AdmissionInv, Reserving, Occupied
    <3>3. scan' \in 0..(Len(pending') + 1)
      BY <2>2, <3>1
    <3>4. WaitInv'
      BY <2>9, <3>1, <3>3 DEF WaitInv
    <3> QED BY <1>1, <3>2, <3>4
  <2>11. CASE k # NoKind
    <3>1. /\ pending' = RemoveAt(pending, scan) /\ slot' = [slot EXCEPT ![j] = k]
          /\ phase' = [phase EXCEPT ![j] = "starting"] /\ scan' = scan
      BY <1>4, <2>11 DEF TryStart
    <3>2. k \in Kinds
      BY <2>5, <2>11
    <3> HIDE DEF j, k
    <3>3. JobsInv'
      BY <2>2, <2>9, <3>1, <3>2 DEF JobsInv, Phases
    <3>4. CapInv'
      <4>1. ASSUME NEW c \in Kinds
            PROVE  cap'.pool.active[c] = Cardinality(SlotsOf(c)')
        <5>1. cap.pool.active \in [Kinds -> Nat] /\ cap.pool.active[c] = Cardinality(SlotsOf(c))
          BY <2>1 DEF Pool, CapInv
        <5>2. CASE c = k
          <6>1. SlotsOf(c)' = SlotsOf(c) \union {j} /\ j \notin SlotsOf(c)
            BY <2>2, <2>3, <3>1, <3>2, <5>2 DEF SlotsOf, JobsInv, NoKind, Kinds
          <6>2. Cardinality(SlotsOf(c)') = Cardinality(SlotsOf(c)) + 1
            BY <2>2, <6>1, CountsFinite DEF SlotsOf
          <6> QED BY <2>7, <2>11, <5>1, <5>2, <6>2
        <5>3. CASE c # k
          <6>1. SlotsOf(c)' = SlotsOf(c)
            BY <2>2, <2>3, <3>1, <3>2, <5>3 DEF SlotsOf, JobsInv, NoKind, Kinds
          <6> QED BY <2>7, <2>11, <5>1, <5>3, <6>1
        <5> QED BY <5>2, <5>3
      <4> QED BY <2>8, <4>1 DEF CapInv
    <3>5. ProcsInv'
      BY <2>2, <2>7, <2>9, <3>1 DEF ProcsInv
    <3>6. AdmissionInv'
      <4>1. Occupied' = Occupied
        BY <2>2, <3>1 DEF Occupied, JobsInv
      <4> QED BY <2>2, <2>9, <3>1, <4>1 DEF AdmissionInv, Reserving, JobsInv
    <3>7. WaitInv'
      <4>1. /\ pending' \in Seq(Jobs) /\ Len(pending') = Len(pending) - 1
            /\ DOMAIN pending' = 1..(Len(pending) - 1) /\ DOMAIN pending = 1..Len(pending) /\ Len(pending) \in Nat
            /\ \A i \in DOMAIN pending' : pending'[i] = pending[IF i < scan THEN i ELSE i + 1]
        BY <2>2, <3>1, RemoveAtIs
      <4>2. /\ \A i \in DOMAIN queue : phase[queue[i]] = "queued" /\ queue[i] # pending[scan]
            /\ \A i \in DOMAIN pending : phase[pending[i]] = "queued"
            /\ \A i, m \in DOMAIN queue : queue[i] = queue[m] => i = m
            /\ \A i, m \in DOMAIN pending : pending[i] = pending[m] => i = m
            /\ \A i \in DOMAIN queue, m \in DOMAIN pending : queue[i] # pending[m]
        BY <2>2 DEF WaitInv
      <4>3. \A i \in DOMAIN pending' : \E m \in DOMAIN pending :
                m = (IF i < scan THEN i ELSE i + 1) /\ m # scan /\ pending'[i] = pending[m]
        BY <2>2, <4>1
      <4>4. \A i \in DOMAIN pending' : phase'[pending'[i]] = "queued"
        BY <2>2, <3>1, <4>2, <4>3 DEF j, JobsInv
      <4>5. \A i \in DOMAIN queue : queue[i] \in Jobs /\ phase'[queue[i]] = "queued"
        BY <2>2, <3>1, <4>2 DEF j, JobsInv, WaitInv
      <4>6. \A i, m \in DOMAIN pending' : pending'[i] = pending'[m] => i = m
        BY <2>2, <4>1, <4>2, <4>3
      <4>7. \A i \in DOMAIN queue, m \in DOMAIN pending' : queue[i] # pending'[m]
        BY <4>2, <4>3
      <4>8. scan' \in 0..(Len(pending') + 1) /\ queue' = queue /\ queue \in Seq(Jobs) /\ token' \in BOOLEAN
        BY <2>2, <2>9, <3>1, <4>1 DEF WaitInv
      <4> QED BY <4>1, <4>2, <4>4, <4>5, <4>6, <4>7, <4>8 DEF WaitInv
    <3> QED BY <1>1, <3>3, <3>4, <3>5, <3>6, <3>7
  <2> QED BY <2>10, <2>11
<1> QED BY <1>2, <1>3, <1>4 DEF Starts

\* The steps of a job.
LEMMA EncodeInvariant ==
    ASSUME QueueInv, NEW j \in Jobs, Encode(j) \/ EndJob(j) \/ Resume(j), UNCHANGED bounds
    PROVE  QueueInv'
<1> USE DEF QueueInv
<1>1. BoundsInv'
  BY DEF BoundsInv, bounds
<1>2. \A i \in Jobs : i \notin {"idle", "reserved", "checked", "draining"}
  BY QueueAssumption
<1>3. phase \in [Jobs -> Phases] /\ j \in Jobs
  BY DEF JobsInv
\* The job waits in the channel from now on.
<1>4. ASSUME queue' = Append(queue, j), phase' = [phase EXCEPT ![j] = "queued"], phase[j] # "queued",
             UNCHANGED <<pending, scan, token>>
      PROVE  WaitInv'
  <2>1. /\ queue \in Seq(Jobs) /\ pending \in Seq(Jobs) /\ Len(queue) \in Nat
        /\ queue' \in Seq(Jobs) /\ DOMAIN queue' = 1..(Len(queue) + 1) /\ DOMAIN queue = 1..Len(queue)
        /\ \A i \in DOMAIN queue : queue'[i] = queue[i]
        /\ queue'[Len(queue) + 1] = j
    BY <1>4 DEF WaitInv
  <2>2. \A i \in DOMAIN queue' : i \in DOMAIN queue \/ i = Len(queue) + 1
    BY <2>1
  <2>3. /\ \A i \in DOMAIN queue : queue[i] # j /\ queue[i] \in Jobs
        /\ \A i \in DOMAIN pending : pending[i] # j /\ pending[i] \in Jobs
    BY <1>4 DEF WaitInv
  <2>4. phase'[j] = "queued" /\ \A i \in Jobs : i # j => phase'[i] = phase[i]
    BY <1>3, <1>4
  <2>5. /\ \A i \in DOMAIN queue' : phase'[queue'[i]] = "queued"
        /\ \A i \in DOMAIN pending : phase'[pending[i]] = "queued"
    <3>1. /\ \A i \in DOMAIN queue : phase[queue[i]] = "queued"
          /\ \A i \in DOMAIN pending : phase[pending[i]] = "queued"
      BY DEF WaitInv
    <3>2. \A i \in DOMAIN queue' : phase'[queue'[i]] = "queued"
      BY <2>1, <2>2, <2>3, <2>4, <3>1
    <3>3. \A i \in DOMAIN pending : phase'[pending[i]] = "queued"
      BY <2>3, <2>4, <3>1
    <3> QED BY <3>2, <3>3
  <2>6. \A i, m \in DOMAIN queue' : queue'[i] = queue'[m] => i = m
    BY <2>1, <2>2, <2>3 DEF WaitInv
  <2>7. \A i \in DOMAIN queue', m \in DOMAIN pending : queue'[i] # pending[m]
    BY <2>1, <2>2, <2>3 DEF WaitInv
  <2> QED BY <1>4, <2>1, <2>5, <2>6, <2>7 DEF WaitInv
\* The job goes on, or ends.
<1>5. ASSUME NEW p \in Phases \ {"none", "saved"}, phase' = [phase EXCEPT ![j] = p],
             phase[j] \notin {"none", "saved"}, UNCHANGED <<reserved, loop, accepted, slot>>
      PROVE  AdmissionInv'
  <2>1. Occupied' = Occupied
    BY <1>3, <1>5 DEF Occupied
  <2> QED BY <1>3, <1>5, <2>1 DEF AdmissionInv, Reserving
<1>6. ASSUME Cleaned(j), phase[j] \notin {"none", "saved", "queued"}, UNCHANGED <<reserved, loop, slot>>
      PROVE  AdmissionInv' /\ JobsInv'
  <2>1. Occupied' = Occupied \ {j} /\ j \in Occupied
    BY <1>3, <1>6 DEF Occupied, Cleaned
  <2>2. accepted' = Cardinality(Occupied')
    BY <1>6, <2>1, CountsFinite DEF Cleaned, AdmissionInv, Occupied
  <2>3. AdmissionInv'
    BY <1>3, <1>6, <2>2 DEF AdmissionInv, Reserving, Cleaned
  <2>4. JobsInv'
    BY <1>3, <1>6 DEF Cleaned, JobsInv, Phases
  <2> QED BY <2>3, <2>4
<1>7. ASSUME NEW p \in Phases, phase' = [phase EXCEPT ![j] = p], phase[j] # "queued",
             UNCHANGED <<queue, pending, scan>>, token' \in BOOLEAN
      PROVE  WaitInv'
  BY <1>3, <1>7, KeepsWaitInv
<1>8. token \in BOOLEAN
  BY DEF WaitInv
<1>9. CASE Enqueue(j)
  <2> USE <1>9 DEF Enqueue
  <2>1. CapInv' /\ AdmissionInv'
    BY <1>5, KeepsCapInv DEF admission, Phases
  <2>2. JobsInv'
    BY <1>3 DEF JobsInv, Phases
  <2>3. ProcsInv'
    BY <1>3, KeepsProcsInv DEF ProcsInv
  <2> QED BY <1>1, <1>4, <2>1, <2>2, <2>3
<1>10. CASE Pin(j)
  <2> USE <1>10 DEF Pin
  <2>1. CapInv' /\ AdmissionInv'
    BY <1>5, KeepsCapInv DEF admission, Phases
  <2>2. JobsInv'
    BY <1>3 DEF JobsInv, Phases
  <2>3. ProcsInv'
    BY <1>3, KeepsProcsInv DEF ProcsInv
  <2>4. WaitInv'
    BY <1>7, <1>8 DEF slots, Phases
  <2> QED BY <1>1, <2>1, <2>2, <2>3, <2>4
<1>11. CASE StartProcess(j)
  <2> USE <1>11 DEF StartProcess
  <2>1. CapInv' /\ AdmissionInv'
    BY <1>5, KeepsCapInv DEF admission, Phases
  <2>2. JobsInv'
    BY <1>3 DEF JobsInv, Phases
  <2>3. j \notin DOMAIN procs
    BY DEF ProcsInv
  <2>4. DOMAIN procs' = DOMAIN procs \union {j}
        /\ procs'[j] = [paused |-> FALSE, individual |-> FALSE, exited |-> FALSE]
        /\ \A i \in DOMAIN procs : procs'[i] = procs[i]
    BY <2>3
  <2>5. \A i \in DOMAIN procs' : procs'[i] \in Process /\ phase'[i] = "encode"
    BY <1>3, <2>3, <2>4 DEF ProcsInv, Process
  <2>6. \A i \in DOMAIN procs' \ skewed : procs'[i].paused = (cap.hold \/ procs'[i].individual)
    <3>1. cap.hold = FALSE
      BY DEF CapInv, Sound, Capacity
    <3> QED BY <2>3, <2>4, <3>1 DEF ProcsInv
  <2>7. ProcsInv'
    BY <2>4, <2>5, <2>6 DEF ProcsInv
  <2>8. WaitInv'
    BY <1>7, <1>8 DEF slots, Phases
  <2> QED BY <1>1, <2>1, <2>2, <2>7, <2>8
<1>12. CASE Exit(j)
  <2> USE <1>12 DEF Exit
  <2>1. JobsInv' /\ AdmissionInv' /\ CapInv' /\ WaitInv'
    BY DEF JobsInv, AdmissionInv, CapInv, WaitInv, SlotsOf, Occupied, Reserving, jobs, slots, admission
  <2>2. procs[j] \in Process
    BY DEF ProcsInv
  <2>3. /\ DOMAIN procs' = DOMAIN procs /\ \A i \in DOMAIN procs : i # j => procs'[i] = procs[i]
        /\ procs'[j] \in Process /\ procs'[j].paused = procs[j].paused
        /\ procs'[j].individual = procs[j].individual
    BY <2>2 DEF Process
  <2>4. UNCHANGED <<cap, phase, skewed>>
    BY DEF jobs
  <2> HIDE DEF Exit
  <2>5. ProcsInv'
    BY <2>3, <2>4 DEF ProcsInv
  <2> QED BY <1>1, <2>1, <2>5
<1>13. CASE Unregister(j)
  <2> USE <1>13 DEF Unregister
  <2>1. phase[j] = "encode"
    BY DEF ProcsInv
  <2>2. CapInv'
    BY KeepsCapInv
  <2>3. PICK p \in {"after", "none"} : phase' = [phase EXCEPT ![j] = p]
    BY DEF Cleaned
  <2>4. AdmissionInv' /\ JobsInv'
    <3>1. CASE Cleaned(j)
      BY <1>6, <2>1, <3>1
    <3>2. CASE phase' = [phase EXCEPT ![j] = "after"] /\ UNCHANGED <<kind, accepted>>
      <4>1. AdmissionInv'
        BY <1>5, <2>1, <3>2 DEF Phases
      <4>2. JobsInv'
        BY <1>3, <3>2 DEF JobsInv, Phases
      <4> QED BY <4>1, <4>2
    <3> QED BY <3>1, <3>2
  <2>5. ProcsInv'
    BY <1>3, <2>3 DEF ProcsInv
  <2>6. WaitInv'
    BY <1>7, <1>8, <2>1, <2>3 DEF slots, Phases
  <2> QED BY <1>1, <2>2, <2>4, <2>5, <2>6
<1>14. CASE EndJob(j)
  <2> USE <1>14 DEF EndJob
  <2>1. CapInv' /\ AdmissionInv' /\ JobsInv'
    BY <1>6, KeepsCapInv
  <2>2. ProcsInv'
    BY <1>3, KeepsProcsInv DEF ProcsInv, Cleaned
  <2>3. WaitInv'
    BY <1>7, <1>8 DEF slots, Phases, Cleaned
  <2> QED BY <1>1, <2>1, <2>2, <2>3
<1>15. CASE FreeSlot(j)
  <2> USE <1>15 DEF FreeSlot
  <2>1. slot[j] \in Kinds /\ cap \in Capacity /\ cap.pool \in Pool /\ j \in SlotsOf(slot[j])
    BY DEF JobsInv, CapInv, Sound, Capacity, SlotsOf
  <2>2. cap.pool.active[slot[j]] > 0
    BY <2>1, CountsFinite DEF CapInv, SlotsOf
  <2>3. /\ Finished(cap.pool, slot[j]) \in Pool /\ Finished(cap.pool, slot[j]).paused = cap.pool.paused
        /\ Finished(cap.pool, slot[j]).active = [cap.pool.active EXCEPT ![slot[j]] = @ - 1]
    BY <2>1, <2>2, FinishedType
  <2>4. /\ cap' \in Capacity /\ cap'.pool.active = [cap.pool.active EXCEPT ![slot[j]] = @ - 1]
        /\ UNCHANGED <<cap.hold, cap.ram, cap.max, cap.mode, cap.held, cap.finishing, cap.pending, cap.pool.paused>>
    BY <2>1, <2>3 DEF Capacity
  <2>5. Sound(cap')
    BY <2>4 DEF Sound, CapInv, Agrees, Drains
  <2>6. UNCHANGED <<reserved, accepted, loop, phase, kind, procs, skewed, queue, pending, scan>>
        /\ slot' = [slot EXCEPT ![j] = NoKind] /\ token' = TRUE
    BY DEF admission
  <2> HIDE DEF FreeSlot
  <2>7. CapInv'
    <3>1. ASSUME NEW c \in Kinds
          PROVE  cap'.pool.active[c] = Cardinality(SlotsOf(c)')
      <4>1. cap.pool.active \in [Kinds -> Nat] /\ cap.pool.active[c] = Cardinality(SlotsOf(c))
        BY <2>1 DEF Pool, CapInv
      <4>2. CASE c = slot[j]
        <5>1. SlotsOf(c)' = SlotsOf(c) \ {j}
          BY <2>1, <2>6, <4>2 DEF SlotsOf, JobsInv, NoKind, Kinds
        <5>2. Cardinality(SlotsOf(c)') = Cardinality(SlotsOf(c)) - 1
          BY <2>1, <4>2, <5>1, CountsFinite DEF SlotsOf
        <5> QED BY <2>4, <4>1, <4>2, <5>2
      <4>3. CASE c # slot[j]
        <5>1. SlotsOf(c)' = SlotsOf(c)
          BY <2>1, <2>6, <4>3 DEF SlotsOf, JobsInv, NoKind, Kinds
        <5> QED BY <2>4, <4>1, <4>3, <5>1
      <4> QED BY <4>2, <4>3
    <3> QED BY <2>5, <3>1 DEF CapInv
  <2>8. JobsInv' /\ ProcsInv' /\ WaitInv' /\ AdmissionInv'
    BY <2>4, <2>6 DEF JobsInv, ProcsInv, WaitInv, AdmissionInv, Reserving, Occupied
  <2> QED BY <1>1, <2>7, <2>8
<1>16. CASE Resume(j)
  <2> USE <1>16 DEF Resume
  <2>1. CapInv'
    BY KeepsCapInv
  <2>2. JobsInv'
    BY <1>3 DEF JobsInv, Phases
  <2>3. ProcsInv'
    BY <1>3, KeepsProcsInv DEF ProcsInv
  <2>4. Occupied' = Occupied \union {j} /\ j \notin Occupied
    BY <1>3 DEF Occupied
  <2>5. accepted' = Cardinality(Occupied')
    BY <2>4, CountsFinite DEF AdmissionInv, Occupied
  <2>6. AdmissionInv'
    BY <1>2, <1>3, <2>5 DEF AdmissionInv, Reserving
  <2> QED BY <1>1, <1>4, <2>1, <2>2, <2>3, <2>6
<1> QED BY <1>9, <1>10, <1>11, <1>12, <1>13, <1>14, <1>15, <1>16 DEF Encode

\* The worker starts again.
LEMMA RestartInvariant == QueueInv /\ Restart => QueueInv'
<1> SUFFICES ASSUME QueueInv, Restart PROVE QueueInv'
  OBVIOUS
<1> USE DEF QueueInv
<1>1. PICK p \in [Jobs -> Phases] : phase' = p /\ \A j \in Jobs : p[j] \in Saved(j)
  BY DEF Restart
<1>2. \A j \in Jobs : p[j] \in {"none", "saved", "prepare", "after"}
  BY <1>1 DEF Saved, JobsInv, Phases
<1>3. JobsInv'
  BY <1>1 DEF Restart, JobsInv
<1>4. CapInv'
  <2>1. Sound(cap') /\ cap'.pool.active = Pair(0, 0)
    BY NewSound DEF Restart
  <2>2. \A k \in Kinds : SlotsOf(k)' = {}
    BY DEF SlotsOf, NoKind, Kinds, Restart
  <2> QED BY <2>1, <2>2, NoneCounted DEF CapInv, Pair
<1>5. AdmissionInv'
  <2>1. Occupied' = {j \in Jobs : phase'[j] \in {"prepare", "after"}}
    BY <1>1, <1>2 DEF Occupied
  <2> QED BY <2>1, QueueAssumption DEF AdmissionInv, Reserving, Restart
<1>6. ProcsInv'
  BY DEF ProcsInv, Restart
<1>7. WaitInv'
  <2>1. <<>> \in Seq(Jobs) /\ Len(<<>>) = 0 /\ DOMAIN <<>> = {}
    OBVIOUS
  <2>2. queue' = <<>> /\ pending' = <<>> /\ scan' = 1 /\ token' = FALSE
    BY DEF Restart
  <2>3. scan' \in 0..(Len(pending') + 1)
    BY <2>1, <2>2
  <2> QED BY <2>1, <2>2, <2>3 DEF WaitInv
<1>8. BoundsInv'
  BY QueueAssumption DEF Restart, BoundsInv
<1> QED BY <1>3, <1>4, <1>5, <1>6, <1>7, <1>8

\* Every step keeps the invariant.
LEMMA NextInvariant == QueueInv /\ [Next]_vars => QueueInv'
<1> SUFFICES ASSUME QueueInv, [Next]_vars PROVE QueueInv'
  OBVIOUS
<1>1. CASE UNCHANGED vars
  <2> USE <1>1 DEF vars, worker, bounds, admission, jobs, slots
  <2>1. JobsInv' /\ CapInv' /\ AdmissionInv'
    BY DEF QueueInv, JobsInv, CapInv, SlotsOf, AdmissionInv, Reserving, Occupied
  <2>2. ProcsInv' /\ WaitInv' /\ BoundsInv'
    BY DEF QueueInv, ProcsInv, WaitInv, BoundsInv
  <2> QED BY <2>1, <2>2 DEF QueueInv
<1>2. CASE Command
  BY <1>2, CommandInvariant
<1>3. CASE Runs /\ UNCHANGED bounds
  <2>1. CASE Coordinate
    BY <1>3, <2>1, CoordinateInvariant
  <2>2. CASE Starts
    BY <1>3, <2>2, StartsInvariant
  <2>3. ASSUME NEW j \in Jobs, Encode(j) \/ EndJob(j) \/ Resume(j)
        PROVE  QueueInv'
    BY <1>3, <2>3, EncodeInvariant
  <2> QED BY <1>3, <2>1, <2>2, <2>3 DEF Runs
<1>4. CASE Restart
  BY <1>4, RestartInvariant
<1> QED BY <1>1, <1>2, <1>3, <1>4 DEF Next

-----------------------------------------------------------------------------
(* The theorems *)

\* The inductive invariant holds always, over any commands, failures and restarts
\* (executor.go:260-628, encodeConcurrency.go:123-290, pause.go:38-155).
THEOREM InvariantAlways == Spec => []QueueInv
BY InitInvariant, NextInvariant, PTL DEF Spec

\* The state of a worker keeps its shape (executor.go, encodeConcurrency.go, pause.go).
THEOREM TypeSafe == Spec => []TypeOK
<1>1. QueueInv => TypeOK
  BY InvariantHolds
<1> QED BY <1>1, InvariantAlways, PTL

\* Whatever commands, failures and restarts come between its four goroutines, the
\* counts of a worker are those of its jobs (executor.go:581-628, encodeConcurrency.go:123-184).
THEOREM AlwaysAccounted == Spec => []Accounted
<1>1. QueueInv => Accounted
  BY InvariantHolds
<1> QED BY <1>1, InvariantAlways, PTL

\* The holds of queue and processes are always those that the admission state
\* asks for (executor.go:298-577, pause.go:38-155).
THEOREM HoldsAlwaysAgree == Spec => []HoldsAgree
<1>1. QueueInv => HoldsAgree
  BY InvariantHolds
<1> QED BY <1>1, InvariantAlways, PTL
=============================================================================
