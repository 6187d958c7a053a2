------------------------- MODULE RemoteControlProofs -------------------------
(***************************************************************************)
(* Proofs about RemoteControl, for any settings, commands, losses and      *)
(* restarts: its types, and that a command is executed once by a process   *)
(* and shown as applied only when it was.                                  *)
(***************************************************************************)
EXTENDS RemoteControl, TLAPS

-----------------------------------------------------------------------------
(* The capacity of a worker, as commands and settings leave it *)

PairAssumption(pair) == pair \in [Kinds -> Numbers] /\ Total(pair) <= MaxInt

\* The numbers are natural numbers.
LEMMA NumbersAre == Numbers \subseteq Nat /\ 0 \in Numbers /\ 1 \in Numbers /\ MaxInt \in Numbers
BY CapacityAssumption DEF Numbers

\* A limit of the only class is a vector of numbers.
LEMMA SoleType == ASSUME NEW n \in Numbers PROVE Sole(n) \in [Kinds -> Numbers]
BY NumbersAre DEF Sole

\* A pool with a new limit is a pool.
LEMMA SetTargetType ==
    ASSUME NEW p \in Pool, NEW n \in Numbers
    PROVE  SetTarget(p, n) \in Pool
BY SoleType, CapacityAssumption DEF SetTarget, Pool

\* So is one with limits per class, whose sum is a number.
LEMMA SetLimitsType ==
    ASSUME NEW p \in Pool, NEW pair, PairAssumption(pair)
    PROVE  SetLimits(p, pair) \in Pool /\ Total(pair) \in Numbers
<1> DEFINE limit == [k \in Kinds |-> IF pair[k] > 0 THEN pair[k] ELSE p.limit[k]]
<1>1. pair \in [Kinds -> Numbers] /\ Total(pair) \in Numbers
  BY CapacityAssumption DEF PairAssumption, Numbers, Total, Kinds
<1>2. limit \in [Kinds -> Numbers]
  BY <1>1 DEF Pool
<1>3. SafeSum(limit["cpu"], limit["gpu"]) \in Numbers
  <2>1. limit["cpu"] \in Numbers /\ limit["gpu"] \in Numbers
    BY <1>2 DEF Kinds
  <2> HIDE DEF limit
  <2> QED BY <2>1, CapacityAssumption DEF SafeSum, Numbers
<1>4. SetLimits(p, pair) = [p EXCEPT !.independent = TRUE, !.jobs = pair, !.limit = limit,
                  !.target = IF Total(pair) > 0 THEN Total(pair)
                             ELSE SafeSum(limit["cpu"], limit["gpu"]),
                  !.last = IF Total(pair) > 0 THEN pair ELSE @]
  BY DEF SetLimits
<1> HIDE DEF limit
<1> QED BY <1>1, <1>2, <1>3, <1>4 DEF Pool

\* Its parts agree, and the machine can count what is desired of both classes.
Sound(c) == c \in Capacity /\ Agrees(c) /\ Total(c.pool.jobs) <= MaxInt

\* Holding a pool changes no limit.
LEMMA HeldIsSound ==
    ASSUME NEW c \in Capacity, Total(c.pool.jobs) <= MaxInt
    PROVE  Sound(Held(PoolPaused(c)))
<1>1. Held(PoolPaused(c)) \in Capacity /\ Agrees(Held(PoolPaused(c)))
  BY DEF Held, PoolPaused, Capacity, Pool, Agrees, Drains
<1>2. Held(PoolPaused(c)).pool.jobs = c.pool.jobs
  BY DEF Held, PoolPaused, Capacity, Pool
<1> QED BY <1>1, <1>2 DEF Sound

\* No limit, or one for the only class, is a sum that the machine can count.
LEMMA SoleFits ==
    /\ Pair(0, 0) \in [Kinds -> Numbers] /\ Total(Pair(0, 0)) <= MaxInt
    /\ \A n \in Numbers : Total(Sole(n)) <= MaxInt
<1>1. Pair(0, 0) \in [Kinds -> Numbers] /\ Total(Pair(0, 0)) <= MaxInt
  BY NumbersAre, CapacityAssumption DEF Pair, Total, Kinds
<1>2. ASSUME NEW n \in Numbers PROVE Total(Sole(n)) <= MaxInt
  BY CapacityAssumption DEF Sole, Kinds, Numbers, Total
<1> QED BY <1>1, <1>2

\* A local limit leaves target and limits in agreement.
LEMMA ApplyLimitSound ==
    ASSUME NEW c, Sound(c), NEW n \in Numbers, NEW mode \in Modes, NEW ram \in BOOLEAN
    PROVE  Sound(ApplyLimit(c, n, mode, ram))
<1> DEFINE pool == IF n > 0 THEN SetTarget(c.pool, n) ELSE [c.pool EXCEPT !.jobs = Pair(0, 0)]
           d == [c EXCEPT !.max = n, !.mode = mode, !.ram = ram, !.finishing = FALSE, !.pool = pool]
<1>1. c \in Capacity /\ c.pool \in Pool
  BY DEF Sound, Capacity
<1>2. SetTarget(c.pool, n) \in Pool /\ SetTarget(c.pool, n).jobs = Sole(n)
  BY <1>1, SetTargetType DEF SetTarget, Pool
<1>3. [c.pool EXCEPT !.jobs = Pair(0, 0)] \in Pool
      /\ [c.pool EXCEPT !.jobs = Pair(0, 0)].jobs = Pair(0, 0)
  BY <1>1, SoleFits DEF Pool
<1>4. pool \in Pool /\ Total(pool.jobs) <= MaxInt
  BY <1>2, <1>3, SoleFits
<1>5. ApplyLimit(c, n, mode, ram) = Held(PoolPaused(d))
  BY DEF ApplyLimit
<1> HIDE DEF pool
<1>6. d \in Capacity /\ d.pool = pool
  BY <1>1, <1>4 DEF Capacity
<1> HIDE DEF d
<1> QED BY <1>4, <1>5, <1>6, HeldIsSound

\* So does the limit of a queue control.
LEMMA AdmissionLimitSound ==
    ASSUME NEW c, Sound(c), NEW n \in Numbers
    PROVE  Sound(AdmissionLimit(c, n))
<1>1. (c.ram \/ (c.max = 0 /\ c.mode = "ram" /\ ~c.held /\ ~c.finishing)) \in BOOLEAN
  BY DEF Sound, Capacity
<1>2. "finish" \in Modes
  BY DEF Modes
<1> QED BY <1>1, <1>2, ApplyLimitSound DEF AdmissionLimit

\* So do limits per class.
LEMMA SetEncoderLimitsSound ==
    ASSUME NEW c, Sound(c), NEW pair, PairAssumption(pair)
    PROVE  Sound(SetEncoderLimits(c, pair))
<1> DEFINE d == [c EXCEPT !.pool = SetLimits(@, pair), !.max = Total(pair), !.finishing = FALSE]
<1>1. c \in Capacity /\ c.pool \in Pool
  BY DEF Sound, Capacity
<1>2. SetLimits(c.pool, pair) \in Pool /\ Total(pair) \in Numbers
  BY <1>1, SetLimitsType
<1>3. SetLimits(c.pool, pair).jobs = pair
  BY <1>1 DEF SetLimits, Pool
<1>4. d \in Capacity /\ d.pool = SetLimits(c.pool, pair)
  BY <1>1, <1>2 DEF Capacity
<1>5. SetEncoderLimits(c, pair) = Held(PoolPaused(d))
  BY DEF SetEncoderLimits
<1> HIDE DEF d
<1> QED BY <1>3, <1>4, <1>5, HeldIsSound DEF PairAssumption

\* So do the commands that set no limit.
LEMMA CommandsSound ==
    ASSUME NEW c, Sound(c)
    PROVE  /\ \A mode \in Modes : Sound(SetPauseMode(c, mode))
           /\ \A ram \in BOOLEAN : ~Drains(c) => Sound(SetRAMPaused(c, ram))
           /\ Sound(FinishAcceptedJobs(c))
           /\ Sound(DrainAcceptedJobs(c))
           /\ Sound(MarkWorkerSettingsResolved(c))
<1>1. c \in Capacity /\ Agrees(c) /\ 0 \in Numbers /\ "finish" \in Modes
  BY NumbersAre DEF Sound, Modes
<1>2. ASSUME NEW d \in Capacity, Agrees(d), d.pool.jobs = c.pool.jobs PROVE Sound(d)
  BY <1>2 DEF Sound
<1>3. ASSUME NEW mode \in Modes PROVE Sound(SetPauseMode(c, mode))
  <2>1. [c EXCEPT !.mode = mode] \in Capacity
    BY <1>1 DEF Capacity
  <2>2. /\ SetPauseMode(c, mode) \in Capacity /\ Agrees(SetPauseMode(c, mode))
        /\ SetPauseMode(c, mode).pool.jobs = c.pool.jobs
    BY <1>1, <2>1 DEF SetPauseMode, Held, Capacity, Pool, Agrees, Drains
  <2> QED BY <1>2, <2>2
<1>4. ASSUME NEW ram \in BOOLEAN, ~Drains(c) PROVE Sound(SetRAMPaused(c, ram))
  <2>1. (ram \/ c.max = 0 \/ c.pending) \in BOOLEAN /\ c.pool \in Pool /\ c.pending \in BOOLEAN
    BY <1>1 DEF Capacity
  <2>2. SetRAMPaused(c, ram) \in Capacity /\ SetRAMPaused(c, ram).pool.jobs = c.pool.jobs
    BY <1>1, <2>1 DEF SetRAMPaused, Capacity, Pool
  <2>3. Agrees(SetRAMPaused(c, ram))
    BY <1>1, <1>4, <2>1 DEF SetRAMPaused, Capacity, Pool, Agrees, Drains, Modes
  <2> QED BY <1>2, <2>2, <2>3
<1>5. Sound(FinishAcceptedJobs(c))
  <2>1. /\ FinishAcceptedJobs(c) \in Capacity /\ Agrees(FinishAcceptedJobs(c))
        /\ FinishAcceptedJobs(c).pool.jobs = c.pool.jobs
    BY <1>1 DEF FinishAcceptedJobs, Capacity, Pool, Agrees, Drains
  <2> QED BY <1>2, <2>1
<1>6. Sound(DrainAcceptedJobs(c))
  <2>1. /\ DrainAcceptedJobs(c) \in Capacity /\ Agrees(DrainAcceptedJobs(c))
        /\ DrainAcceptedJobs(c).pool.jobs = c.pool.jobs
    BY <1>1 DEF DrainAcceptedJobs, Capacity, Pool, Agrees, Drains
  <2> QED BY <1>2, <2>1
<1>7. Sound(MarkWorkerSettingsResolved(c))
  <2>1. /\ MarkWorkerSettingsResolved(c) \in Capacity /\ Agrees(MarkWorkerSettingsResolved(c))
        /\ MarkWorkerSettingsResolved(c).pool.jobs = c.pool.jobs
    BY <1>1 DEF MarkWorkerSettingsResolved, PoolPaused, Capacity, Pool, Agrees, Drains
  <2> QED BY <1>2, <2>1
<1> QED BY <1>3, <1>4, <1>5, <1>6, <1>7

\* So does a process that starts.
LEMMA NewSound == Sound(NewCapacity)
<1>1. StartTarget \in Numbers
  BY CapacityAssumption, NumbersAre DEF StartTarget
<1>2. Sole(StartTarget) \in [Kinds -> Numbers] /\ Pair(0, 0) \in [Kinds -> Nat]
  BY <1>1, SoleType, NumbersAre DEF Pair
<1>3. NewPool \in Pool /\ Total(NewPool.jobs) <= MaxInt
  BY <1>1, <1>2, SoleFits, CapacityAssumption DEF NewPool, Pool
<1>4. NewCapacity \in Capacity /\ Total(NewCapacity.pool.jobs) <= MaxInt
  <2>1. NewCapacity.pool = [NewPool EXCEPT !.paused = TRUE]
    BY DEF NewCapacity
  <2>2. NewCapacity.pool \in Pool /\ NewCapacity.pool.jobs = NewPool.jobs
    BY <1>3, <2>1 DEF Pool
  <2> QED BY <1>3, <2>2, CapacityAssumption DEF NewCapacity, Capacity
<1>5. Agrees(NewCapacity)
  BY CapacityAssumption, <1>3 DEF NewCapacity, Agrees, Drains, Pool
<1> QED BY <1>4, <1>5 DEF Sound

-----------------------------------------------------------------------------
(* The inductive invariant *)

\* What somebody commands at the dashboard.
Issued == {c \in Control : /\ c.id >= 1 /\ c.action \in AllActions
                           /\ c.action = "resume-queue" => c.limits # Unset}

\* What the holder of settingsMu remembers.
Asking   == [at : {"control", "ping", "ack"}, c : Issued]
Ordered  == [at : {"put", "saved"}, for : {"control"}, c : Issued, settings : Settings]
Own      == [at : {"put", "saved"}, for : {"worker"}, settings : Settings]
Reading  == [at : {"read"}, settings : Settings \union {Unset}]
Comparing == [at : {"converge"}, settings : Settings \union {Unset}, drains : BOOLEAN]
Turns    == {Idle} \union Reading \union Asking \union Comparing \union Ordered \union Own

DataInv ==
    /\ settings \in Settings \union {Unset}
    /\ resume \in Settings \union {Unset}
    /\ runtime \in Runtime /\ Total(runtime.jobs) <= MaxInt
    /\ late \subseteq Settings
    /\ Sound(cap)
    /\ encode \in {"none", "running", "held"}
    /\ loaded \in BOOLEAN

CommandsInv ==
    /\ control \in Issued \union {NoControl}
    /\ drafts \subseteq Issued /\ \A d \in drafts : d.state = "pending"
    /\ turn \in Turns
    /\ applied \in [id : 0..MaxControls, error : BOOLEAN]
    /\ executed \in [1..MaxControls -> {0, 1}]
    /\ done \subseteq 1..MaxControls
    /\ used \in [controls : 0..MaxControls, others : 0..MaxOthers]

\* The worker has the command in hand, and may not have executed it yet.
Pre  == turn \in Ordered \/ (turn \in Asking /\ turn.at = "control")
Post == turn \in Asking /\ turn.at # "control"

\* Each command has an id of its own, and is new until it is written.
IdsInv ==
    /\ control.id <= used.controls
    /\ \A d \in drafts : d.id <= used.controls /\ executed[d.id] = 0 /\ control.id # d.id
    /\ \A d, e \in drafts : d.id = e.id => d = e
    /\ Pre \/ Post => turn.c.id <= used.controls /\ \A d \in drafts : d.id # turn.c.id
    /\ \A i \in 1..MaxControls : i > used.controls => executed[i] = 0

\* What was executed and could be seen again is what the worker remembers.
OnceInv ==
    /\ control # NoControl /\ executed[control.id] = 1 => applied.id = control.id
    /\ Pre /\ executed[turn.c.id] = 1 => turn \in Asking /\ applied.id = turn.c.id
    /\ Pre /\ control.id # turn.c.id => executed[control.id] = 0
    /\ Pre => control # NoControl

AppliedInv ==
    /\ applied.id # 0 /\ ~applied.error => applied.id \in done
    /\ Post => applied.id = turn.c.id
    /\ control.state = "applied" => control.id \in done

IdInv == CommandsInv /\ IdsInv /\ OnceInv /\ AppliedInv

ControlInv == DataInv /\ IdInv

-----------------------------------------------------------------------------
(* Shapes *)

\* The settings that can be wished for.
LEMMA SettingsAre ==
    /\ Unset \notin Settings
    /\ \A s \in Settings : s.kind = "single" => s.max \in Numbers
    /\ \A s \in Settings : s.kind = "pair" => PairAssumption(s.pair)
    /\ \A s \in Settings : s.kind \in {"single", "pair"}
    /\ Unset.kind = "unset"
    /\ Both(Pair(0, 0)) \in Settings
<1>1. Unset \notin Settings /\ Unset.kind = "unset"
  BY DEF Settings, Unset, Single, Both
<1>2. \A s \in Settings : /\ s.kind = "single" => s.max \in Numbers
                          /\ s.kind = "pair" => PairAssumption(s.pair)
                          /\ s.kind \in {"single", "pair"}
  BY DEF Settings, Single, Both, PairAssumption
<1>3. Pair(0, 0) \in [Kinds -> Numbers] /\ Total(Pair(0, 0)) <= MaxInt
  BY NumbersAre, CapacityAssumption DEF Pair, Total, Kinds
<1>4. Both(Pair(0, 0)) \in Settings
  BY <1>3 DEF Settings
<1> QED BY <1>1, <1>2, <1>4

\* What the worker has in hand, by where it is.
LEMMA TurnIs ==
    ASSUME turn \in Turns
    PROVE  /\ turn.at \in {"idle", "read", "control", "converge", "put", "saved", "ping", "ack"}
           /\ turn.at = "idle" => turn = Idle
           /\ turn.at = "read" => turn \in Reading
           /\ turn.at \in {"control", "ping", "ack"} => turn \in Asking
           /\ turn.at = "converge" => turn \in Comparing
           /\ turn.at \in {"put", "saved"} => turn \in Ordered \/ turn \in Own
           /\ turn \in Ordered => turn.for = "control" /\ turn.at \in {"put", "saved"}
           /\ turn \in Own => turn.for = "worker" /\ turn.at \in {"put", "saved"}
           /\ turn \in Asking => turn.at \in {"control", "ping", "ack"}
BY DEF Turns, Idle, Reading, Asking, Comparing, Ordered, Own

\* Nothing is in hand of a worker that is idle.
LEMMA IdleIs == Idle \in Turns /\ Idle \notin Asking /\ Idle \notin Ordered
BY DEF Turns, Idle, Asking, Ordered

\* A control that was issued has an id, and one of the queue says what is wanted.
LEMMA IssuedIs ==
    ASSUME NEW c \in Issued
    PROVE  /\ c \in Control /\ c.id \in 1..MaxControls /\ c.action \in AllActions
           /\ c.limits \in Settings \union {Unset} /\ c # NoControl
           /\ c.action \in QueueActions => Desired(c) \in Settings
<1>1. c \in Control /\ c.id \in 1..MaxControls /\ c.action \in AllActions /\ c.limits \in Settings \union {Unset}
  BY ControlAssumption DEF Issued, Control
<1>2. c # NoControl
  BY DEF Issued, NoControl
<1>3. ASSUME c.action \in QueueActions PROVE Desired(c) \in Settings
  BY <1>1, <1>3, SettingsAre DEF QueueActions, Desired, Issued
<1> QED BY <1>1, <1>2, <1>3

\* No control has no id.
LEMMA NoControlIs == NoControl \in Control /\ NoControl.id = 0 /\ NoControl.state = "none"
BY ControlAssumption DEF NoControl, Control

\* Limits taken over keep a capacity sound.
LEMMA LimitedSound ==
    ASSUME NEW c, Sound(c), NEW s \in Settings \union {Unset}
    PROVE  Sound(Limited(c, s))
<1>1. c \in Capacity /\ c.mode \in Modes /\ c.ram \in BOOLEAN
  BY DEF Sound, Capacity
<1>2. CASE s = Unset
  BY <1>2, SettingsAre DEF Limited
<1>3. CASE s \in Settings /\ s.kind = "pair"
  BY <1>1, <1>3, SettingsAre, SetEncoderLimitsSound DEF Limited
<1>4. CASE s \in Settings /\ s.kind = "single"
  BY <1>1, <1>4, SettingsAre, ApplyLimitSound DEF Limited
<1> QED BY <1>2, <1>3, <1>4, SettingsAre

\* What a worker tells of itself is of its shape.
LEMMA TelemetryIs ==
    ASSUME DataInv
    PROVE  Telemetry \in Runtime /\ Total(Telemetry.jobs) <= MaxInt
<1>1. cap \in Capacity /\ cap.pool.jobs \in [Kinds -> Numbers]
  BY DEF DataInv, Sound, Capacity, Pool
<1>2. cap.held \in BOOLEAN /\ cap.finishing \in BOOLEAN
  BY <1>1 DEF Capacity
<1>3. (encode # "none" /\ ~Drains(cap)) \in BOOLEAN
  OBVIOUS
<1>4. Telemetry \in Runtime
  BY <1>1, <1>2, <1>3 DEF Telemetry, Runtime
<1>5. Telemetry.jobs = cap.pool.jobs
  BY DEF Telemetry
<1> QED BY <1>4, <1>5 DEF DataInv, Sound

\* So is what it finds saved.
LEMMA RestoredIs ==
    ASSUME DataInv, CommandsInv
    PROVE  Restored \in Settings \union {Unset}
<1>1. control.limits \in Settings \union {Unset}
  BY IssuedIs DEF CommandsInv, NoControl
<1>2. Both(runtime.jobs) \in Settings
  BY DEF DataInv, Runtime, Settings
<1> QED BY <1>1, <1>2 DEF Restored, DataInv

\* The invariant has the properties in it.
LEMMA InvariantHolds == ControlInv => TypeOK /\ ExecutedOnce /\ AppliedIsTrue
<1> SUFFICES ASSUME ControlInv PROVE TypeOK /\ ExecutedOnce /\ AppliedIsTrue
  OBVIOUS
<1> USE DEF ControlInv, IdInv
<1>1. control \in Control /\ drafts \subseteq Control
  BY IssuedIs, NoControlIs DEF CommandsInv
<1>2. turn.at \in {"idle", "read", "control", "converge", "put", "saved", "ping", "ack"}
  BY TurnIs DEF CommandsInv
<1>3. executed \in [1..MaxControls -> Nat] /\ ExecutedOnce
  BY DEF CommandsInv, ExecutedOnce
<1>4. TypeOK
  BY <1>1, <1>2, <1>3 DEF TypeOK, DataInv, CommandsInv, Sound
<1>5. AppliedIsTrue
  BY DEF AppliedInv, AppliedIsTrue
<1> QED BY <1>3, <1>4, <1>5

\* A server and a worker that start for the first time have it.
LEMMA InitInvariant == Init => ControlInv
<1> SUFFICES ASSUME Init PROVE ControlInv
  OBVIOUS
<1> USE DEF Init
<1>1. DataInv
  <2>1. settings \in Settings \union {Unset} /\ resume \in Settings \union {Unset}
    BY ControlAssumption
  <2>2. Sound(cap)
    BY NewSound
  <2>3. cap.pool.jobs \in [Kinds -> Numbers] /\ cap.held \in BOOLEAN /\ cap.finishing \in BOOLEAN
    BY <2>2 DEF Sound, Capacity, Pool
  <2>4. runtime \in Runtime /\ runtime.jobs = cap.pool.jobs
    BY <2>3 DEF Telemetry, Runtime
  <2> QED BY <2>1, <2>2, <2>4 DEF DataInv, Sound
<1>2. CommandsInv
  BY ControlAssumption, IdleIs DEF CommandsInv
<1>3. ~Pre /\ ~Post
  BY IdleIs DEF Pre, Post
<1>4. IdsInv /\ OnceInv /\ AppliedInv
  BY <1>3, NoControlIs, ControlAssumption DEF IdsInv, OnceInv, AppliedInv
<1> QED BY <1>1, <1>2, <1>4 DEF ControlInv, IdInv

-----------------------------------------------------------------------------
(* How the history of the commands goes on *)

SameUse == used' \in [controls : 0..MaxControls, others : 0..MaxOthers] /\ used'.controls = used.controls

\* A disturbance uses up what may go wrong and nothing else.
LEMMA DisturbedUse == CommandsInv /\ (Disturbs \/ used' = used) => SameUse
BY ControlAssumption DEF CommandsInv, Disturbs, SameUse

\* Who touches no command leaves what is known of their ids.
LEMMA IdKeeps ==
    ASSUME IdInv, SameUse, UNCHANGED <<control, drafts, turn, applied, executed, done>>
    PROVE  IdInv'
<1>1. CommandsInv' /\ (Pre' <=> Pre) /\ (Post' <=> Post)
  BY DEF IdInv, CommandsInv, SameUse, Pre, Post
<1>2. IdsInv' /\ OnceInv' /\ AppliedInv'
  BY <1>1 DEF IdInv, IdsInv, OnceInv, AppliedInv, SameUse
<1> QED BY <1>1, <1>2 DEF IdInv

\* Whoever has settingsMu goes on to something that is no command, or gives it up.
LEMMA TurnEnds ==
    ASSUME IdInv, SameUse, turn' \in Turns, ~Pre', ~Post',
           UNCHANGED <<control, drafts, applied, executed, done>>
    PROVE  IdInv'
<1>1. CommandsInv'
  BY DEF IdInv, CommandsInv, SameUse
<1>2. IdsInv' /\ OnceInv' /\ AppliedInv'
  BY DEF IdInv, IdsInv, OnceInv, AppliedInv, SameUse
<1> QED BY <1>1, <1>2 DEF IdInv

\* The acknowledgement of a command reaches the server.
LEMMA AcknowledgedKeeps ==
    ASSUME IdInv, SameUse, turn.at = "ack", control' = Acknowledged(turn.c), turn' = Idle,
           UNCHANGED <<drafts, applied, executed, done>>
    PROVE  IdInv'
<1>1. Post /\ turn.c \in Issued
  BY TurnIs DEF IdInv, CommandsInv, Post, Asking
<1>2. turn' \in Turns /\ ~Pre' /\ ~Post'
  BY IdleIs DEF Pre, Post
<1>3. CASE control.id # turn.c.id
  <2>1. control' = control
    BY <1>3 DEF Acknowledged
  <2> QED BY <1>2, <2>1, TurnEnds
<1>4. CASE control.id = turn.c.id
  <2>1. control \in Issued /\ control.id >= 1 /\ control.id \in 1..MaxControls
    BY <1>1, <1>4, IssuedIs, NoControlIs DEF IdInv, CommandsInv
  <2>2. applied.id = control.id /\ applied \in [id : 0..MaxControls, error : BOOLEAN]
    BY <1>1, <1>4 DEF IdInv, AppliedInv, CommandsInv
  <2>3. control' = [control EXCEPT !.state = IF applied.error THEN "failed" ELSE "applied"]
    BY <1>4 DEF Acknowledged
  <2>4. control' \in Issued /\ control'.id = control.id
        /\ (control'.state = "applied" => ~applied.error)
    BY <2>1, <2>3 DEF Issued, Control
  <2>5. CommandsInv'
    BY <1>2, <2>4 DEF IdInv, CommandsInv, SameUse
  <2>6. control' # NoControl /\ control # NoControl
    BY <2>1, <2>4, IssuedIs
  <2>7. IdsInv'
    BY <1>2, <2>4 DEF IdInv, IdsInv, SameUse
  <2>8. OnceInv'
    BY <1>2, <2>4, <2>6 DEF IdInv, OnceInv
  <2>9. AppliedInv'
    BY <1>2, <2>1, <2>2, <2>4 DEF IdInv, AppliedInv
  <2> QED BY <2>5, <2>7, <2>8, <2>9 DEF IdInv
<1> QED BY <1>3, <1>4

\* A command in hand that is new is executed: it was not before.
LEMMA ExecutedKeeps ==
    ASSUME IdInv, SameUse, Pre, turn \in Asking => IsNew(turn.c), NEW failed \in BOOLEAN,
           Executed(turn.c, failed), UNCHANGED <<control, drafts>>
    PROVE  IdInv'
<1>1. turn.c \in Issued /\ turn.c.id \in 1..MaxControls /\ turn.c.id >= 1
  BY IssuedIs DEF Pre, Asking, Ordered
<1>2. executed[turn.c.id] = 0
  BY <1>1 DEF IdInv, OnceInv, CommandsInv, IsNew
<1>3. /\ applied' = [id |-> turn.c.id, error |-> failed]
      /\ executed' = [executed EXCEPT ![turn.c.id] = 1]
      /\ done' = IF failed THEN done ELSE done \union {turn.c.id}
      /\ turn' = [at |-> "ping", c |-> turn.c]
  BY <1>1, <1>2 DEF Executed, IdInv, CommandsInv
<1>4. turn' \in Asking /\ turn'.at = "ping" /\ turn' \in Turns /\ turn'.c = turn.c
  BY <1>1, <1>3 DEF Asking, Turns
<1>5. Post' /\ ~Pre'
  BY <1>4 DEF Pre, Post, Ordered
<1>6. /\ executed' \in [1..MaxControls -> {0, 1}] /\ executed'[turn.c.id] = 1
      /\ \A i \in 1..MaxControls : i # turn.c.id => executed'[i] = executed[i]
  BY <1>1, <1>3 DEF IdInv, CommandsInv
<1>7. CommandsInv'
  BY <1>1, <1>3, <1>4, <1>6 DEF IdInv, CommandsInv, SameUse
<1>8. IdsInv'
  <2>1. \A d \in drafts : d.id \in 1..MaxControls /\ d.id # turn.c.id
    BY IssuedIs DEF IdInv, CommandsInv, IdsInv
  <2>2. turn.c.id <= used.controls /\ used.controls \in Nat
    BY DEF IdInv, IdsInv, CommandsInv
  <2> QED BY <1>1, <1>4, <1>6, <2>1, <2>2 DEF IdInv, IdsInv, SameUse
<1>9. OnceInv'
  <2>1. control # NoControl => control.id \in 1..MaxControls
    BY IssuedIs DEF IdInv, CommandsInv
  <2>2. control # NoControl /\ executed'[control.id] = 1 => control.id = turn.c.id
    BY <1>6, <2>1 DEF IdInv, OnceInv
  <2> QED BY <1>3, <1>5, <2>2 DEF OnceInv
<1>10. AppliedInv'
  BY <1>3, <1>4, <1>5 DEF IdInv, AppliedInv
<1> QED BY <1>7, <1>8, <1>9, <1>10 DEF IdInv

\* The worker goes on with the command it has, before or after it is executed.
LEMMA TurnGoesOn ==
    ASSUME IdInv, SameUse, UNCHANGED <<control, drafts, applied, executed, done>>,
           Pre \/ Post, turn' \in Turns, turn'.c = turn.c,
           \/ Pre /\ Pre' /\ turn' \in Ordered /\ (turn \in Asking => IsNew(turn.c))
           \/ Post' /\ (turn.at = "control" => ~IsNew(turn.c)) /\ turn \in Asking
    PROVE  IdInv'
<1>1. CommandsInv'
  BY DEF IdInv, CommandsInv, SameUse
<1>2. IdsInv'
  BY DEF IdInv, IdsInv, SameUse
<1>3. Pre' => Pre /\ (turn \in Asking => applied.id # turn.c.id)
  <2>1. ~(Pre' /\ Post')
    BY DEF Pre, Post, Ordered, Asking
  <2> QED BY <2>1 DEF IsNew
<1>4. OnceInv'
  BY <1>3 DEF IdInv, OnceInv
<1>5. Post' => Post \/ applied.id = turn.c.id
  BY DEF Post, Pre, IsNew, Ordered, Asking
<1>6. AppliedInv'
  BY <1>5 DEF IdInv, AppliedInv
<1> QED BY <1>1, <1>2, <1>4, <1>6 DEF IdInv

-----------------------------------------------------------------------------
(* The steps of the server *)

\* Settings that are stored are of their shape.
LEMMA StoreKeeps ==
    ASSUME DataInv, NEW s \in Settings, Store(s), runtime' = runtime, late' \subseteq Settings,
           Sound(cap'), encode' = encode, loaded' \in BOOLEAN
    PROVE  DataInv'
BY DEF DataInv, Store

\* The dashboard keeps the invariant.
LEMMA DashboardKeeps == ControlInv /\ Dashboard => ControlInv'
<1> SUFFICES ASSUME ControlInv, Dashboard PROVE ControlInv'
  OBVIOUS
<1> USE DEF ControlInv
<1>1. ASSUME NEW s \in Saved, DashboardSaves(s) PROVE ControlInv'
  <2> USE <1>1 DEF DashboardSaves
  <2>1. IdInv'
    BY DisturbedUse, IdKeeps DEF IdInv, history
  <2>2. DataInv'
    BY StoreKeeps, ControlAssumption DEF DataInv, local, history
  <2> QED BY <2>1, <2>2
<1>2. ASSUME NEW action \in Actions, ControlReads(action) PROVE ControlInv'
  <2> DEFINE n == used.controls + 1
             d == [id |-> n, action |-> action, state |-> "pending", limits |-> Restored]
  <2> USE <1>2 DEF ControlReads
  <2>1. DataInv'
    BY DEF DataInv, local, history
  <2>2. n \in 1..MaxControls /\ used'.controls = n
        /\ used' \in [controls : 0..MaxControls, others : 0..MaxOthers] /\ used.controls \in Nat
    BY ControlAssumption DEF IdInv, CommandsInv
  <2>3. Restored \in Settings \union {Unset} /\ action \in AllActions
        /\ (action = "resume-queue" => Restored # Unset)
    BY RestoredIs, ControlAssumption DEF IdInv
  <2>4. d \in Issued /\ d.state = "pending" /\ d.id = n
    BY <2>2, <2>3, ControlAssumption DEF Issued, Control
  <2>5. drafts' = drafts \union {d} /\ UNCHANGED <<control, applied, turn, executed, done>>
    BY DEF history
  <2> HIDE DEF d, n
  <2> HIDE <1>2
  <2>6. CommandsInv' /\ (Pre' <=> Pre) /\ (Post' <=> Post)
    BY <2>2, <2>4, <2>5 DEF IdInv, CommandsInv, Pre, Post
  <2>7. \A i \in 1..MaxControls : i > used.controls => executed[i] = 0
    BY DEF IdInv, IdsInv
  <2>8. n > used.controls /\ executed[n] = 0
    BY <2>2, <2>7 DEF n
  <2>9. control.id \in Nat /\ (Pre \/ Post => turn.c.id \in Nat) /\ \A e \in drafts : e.id \in Nat
    BY IssuedIs, NoControlIs DEF IdInv, CommandsInv, Pre, Post, Asking, Ordered
  <2>10. control.id <= used.controls /\ (\A e \in drafts : e.id <= used.controls)
         /\ (Pre \/ Post => turn.c.id <= used.controls)
    BY DEF IdInv, IdsInv
  <2>11. control.id # n /\ (\A e \in drafts : e.id # n) /\ (Pre \/ Post => turn.c.id # n)
    BY <2>2, <2>8, <2>9, <2>10
  <2>12. control.id <= n /\ (\A e \in drafts : e.id <= n) /\ (Pre \/ Post => turn.c.id <= n)
    BY <2>2, <2>8, <2>9, <2>10
  <2>13. \A i \in 1..MaxControls : i > n => executed[i] = 0
    BY <2>2, <2>7, <2>8
  <2>14. IdsInv'
    BY <2>2, <2>4, <2>5, <2>6, <2>8, <2>11, <2>12, <2>13 DEF IdInv, IdsInv
  <2>15. OnceInv' /\ AppliedInv'
    BY <2>5, <2>6 DEF IdInv, OnceInv, AppliedInv
  <2> QED BY <2>1, <2>6, <2>14, <2>15 DEF IdInv
<1> QED BY <1>1, <1>2 DEF Dashboard

\* So does a command that is written late.
LEMMA WritesKeeps == ASSUME ControlInv, NEW c \in drafts, ControlWrites(c) PROVE ControlInv'
<1> USE DEF ControlInv, ControlWrites
<1>1. DataInv'
  BY DEF DataInv, local, history
<1>2. control' = c /\ drafts' = drafts \ {c} /\ UNCHANGED <<applied, turn, executed, done, used>>
  BY DEF history
<1>3. c \in Issued /\ c # NoControl /\ c.id \in 1..MaxControls /\ c.state = "pending"
  BY IssuedIs DEF IdInv, CommandsInv
<1>4. CommandsInv' /\ (Pre' <=> Pre) /\ (Post' <=> Post)
  BY <1>2, <1>3 DEF IdInv, CommandsInv, Pre, Post
<1>5. executed[c.id] = 0
  BY DEF IdInv, IdsInv
<1>6. IdsInv'
  BY <1>2, <1>4 DEF IdInv, IdsInv
<1>7. OnceInv'
  BY <1>2, <1>3, <1>4, <1>5 DEF IdInv, OnceInv
<1>8. AppliedInv'
  BY <1>2, <1>3, <1>4 DEF IdInv, AppliedInv
<1> QED BY <1>1, <1>4, <1>6, <1>7, <1>8 DEF IdInv

\* So do settings that come late.
LEMMA LateKeeps == ASSUME ControlInv, NEW s \in late, LatePut(s) PROVE ControlInv'
<1> USE DEF ControlInv, LatePut
<1>1. DataInv'
  BY StoreKeeps DEF DataInv, local, history
<1>2. IdInv'
  BY DisturbedUse, IdKeeps DEF IdInv, history
<1> QED BY <1>1, <1>2

-----------------------------------------------------------------------------
(* The steps of the worker's polls *)

\* So does a worker that synchronizes its own settings.
LEMMA SyncKeeps == ControlInv /\ Sync => ControlInv'
<1> SUFFICES ASSUME ControlInv, Sync PROVE ControlInv'
  OBVIOUS
<1> USE DEF ControlInv
<1>1. CommandsInv /\ turn \in Turns /\ (used' = used => SameUse)
  BY DisturbedUse DEF IdInv, CommandsInv
<1>2. Sound(cap) /\ cap \in Capacity
  BY DEF DataInv, Sound
<1>3. CASE SyncReads
  <2>1. turn' \in Reading /\ turn' \in Turns
    BY <1>3 DEF SyncReads, Reading, Turns, DataInv
  <2>2. ~Pre' /\ ~Post'
    BY <2>1 DEF Pre, Post, Reading, Asking, Ordered
  <2>3. IdInv'
    BY <1>1, <1>3, <2>1, <2>2, TurnEnds DEF SyncReads, server, history
  <2> QED BY <1>3, <2>3 DEF SyncReads, DataInv, server, local, history
<1>4. CASE SyncAnswered
  <2>1. DataInv'
    BY <1>4 DEF SyncAnswered, DataInv, server, local, history
  <2>2. UNCHANGED <<control, drafts, applied, executed, done, used>> /\ turn \in Reading
    BY <1>1, <1>4, TurnIs DEF SyncAnswered, server, history
  <2>3. CASE control.state = "pending"
    <3>1. control \in Issued /\ control # NoControl /\ control.id \in 1..MaxControls
      BY <1>1, <2>3, IssuedIs, NoControlIs DEF CommandsInv
    <3>2. turn' = [at |-> "control", c |-> control]
      BY <1>4, <2>3 DEF SyncAnswered
    <3>3. turn' \in Asking /\ turn' \in Turns /\ turn'.c = control /\ Pre' /\ ~Post' /\ turn' \notin Ordered
      BY <3>1, <3>2 DEF Asking, Turns, Pre, Post, Ordered
    <3>4. CommandsInv'
      BY <1>1, <2>2, <3>3 DEF CommandsInv
    <3>5. IdsInv' /\ OnceInv' /\ AppliedInv'
      BY <2>2, <3>1, <3>3 DEF IdInv, IdsInv, OnceInv, AppliedInv
    <3> QED BY <2>1, <3>4, <3>5 DEF IdInv
  <2>4. CASE control.state # "pending"
    <3>1. turn' \in Comparing /\ turn' \in Turns
      BY <1>4, <2>2, <2>4, <1>2 DEF SyncAnswered, Reading, Comparing, Turns, Drains, Capacity
    <3>2. ~Pre' /\ ~Post'
      BY <3>1 DEF Pre, Post, Comparing, Asking, Ordered
    <3>3. IdInv'
      BY <1>1, <2>2, <3>1, <3>2, TurnEnds
    <3> QED BY <2>1, <3>3
  <2> QED BY <2>3, <2>4
<1>5. CASE Converge
  <2> USE <1>5 DEF Converge
  <2>1. IdInv'
    BY <1>1, IdleIs, TurnEnds DEF server, Pre, Post
  <2>2. turn.settings \in Settings \union {Unset}
    BY <1>1, TurnIs DEF Comparing
  <2> DEFINE c == IF ~turn.drains /\ Differs(turn.settings) THEN Limited(cap, turn.settings) ELSE cap
  <2>3. Sound(c) /\ c \in Capacity
    BY <1>2, <2>2, LimitedSound DEF Sound
  <2>4. cap' = MarkWorkerSettingsResolved(c)
    OBVIOUS
  <2> HIDE DEF c
  <2>5. Sound(cap')
    BY <2>3, <2>4, CommandsSound
  <2> QED BY <2>1, <2>5 DEF DataInv, server
<1>6. ASSUME turn.at = "control"
      PROVE  turn \in Asking /\ Pre /\ ~Post /\ turn.c \in Issued
  BY <1>1, <1>6, TurnIs DEF Pre, Post, Asking
<1>7. CASE AlreadyExecuted
  <2> USE <1>7 DEF AlreadyExecuted
  <2>1. turn' \in Asking /\ turn' \in Turns /\ turn'.c = turn.c /\ Post'
    BY <1>6 DEF Asking, Turns, Post
  <2>2. IdInv'
    BY <1>1, <1>6, <2>1, TurnGoesOn DEF server, history
  <2> QED BY <2>2 DEF DataInv, server, local, history
<1>8. CASE Refused
  <2> USE <1>8 DEF Refused
  <2>1. IdInv'
    BY <1>1, <1>6, ExecutedKeeps DEF server
  <2> QED BY <2>1 DEF DataInv, server, local
<1>9. CASE JobControlled
  <2> USE <1>9 DEF JobControlled
  <2>1. IdInv'
    BY <1>1, <1>6, ExecutedKeeps DEF server
  <2>2. encode' \in {"none", "running", "held"}
    BY DEF DataInv
  <2> QED BY <2>1, <2>2 DEF DataInv, server
<1>10. CASE RAMControlled
  <2> USE <1>10 DEF RAMControlled
  <2>1. IdInv'
    BY <1>1, <1>6, ExecutedKeeps DEF server
  <2>2. ~Drains(cap)
    BY DEF Refuses, Drains
  <2>3. Sound(cap')
    BY <1>2, <2>2, CommandsSound
  <2> QED BY <2>1, <2>3 DEF DataInv, server
<1>11. CASE QueueControlled
  <2> USE <1>11 DEF QueueControlled
  <2>1. turn' \in Ordered /\ turn' \in Turns /\ turn'.c = turn.c /\ Pre'
    BY <1>6, IssuedIs DEF Ordered, Turns, Pre
  <2>2. IdInv'
    BY <1>1, <1>6, <2>1, TurnGoesOn DEF server, history
  <2> QED BY <2>2 DEF DataInv, server, local, history
<1>12. CASE PutExecuted
  <2> USE <1>12 DEF PutExecuted
  <2>1. turn \in Ordered \/ turn \in Own
    BY <1>1, TurnIs
  <2>2. DataInv'
    <3>1. turn.settings \in Settings
      BY <2>1 DEF Ordered, Own
    <3> QED BY <3>1, StoreKeeps DEF DataInv, local, history
  <2>3. CASE turn \in Ordered
    <3>1. turn' \in Ordered /\ turn' \in Turns /\ turn'.c = turn.c /\ Pre' /\ Pre /\ turn \notin Asking
      BY <2>3 DEF Ordered, Turns, Pre, Asking
    <3> QED BY <1>1, <2>2, <3>1, TurnGoesOn DEF history
  <2>4. CASE turn \in Own
    <3>1. turn' \in Own /\ turn' \in Turns
      BY <2>4 DEF Own, Turns
    <3>2. ~Pre' /\ ~Post'
      BY <3>1 DEF Own, Pre, Post, Asking, Ordered
    <3> QED BY <1>1, <2>2, <3>1, <3>2, TurnEnds DEF history
  <2> QED BY <2>1, <2>3, <2>4
<1>13. CASE QueueApplied
  <2> USE <1>13 DEF QueueApplied
  <2>1. turn \in Ordered /\ turn \notin Asking /\ Pre /\ turn.settings \in Settings
    BY <1>1, TurnIs DEF Ordered, Asking, Pre, Own
  <2>2. IdInv'
    BY <1>1, <2>1, ExecutedKeeps DEF server
  <2> DEFINE c == SetPauseMode(cap, "finish")
  <2>3. Sound(c)
    BY <1>2, CommandsSound DEF Modes
  <2> HIDE DEF c
  <2>4. Sound(cap')
    BY <2>1, <2>3, LimitedSound DEF c
  <2> QED BY <2>2, <2>4 DEF DataInv, server
<1>14. CASE Pings
  <2> USE <1>14 DEF Pings
  <2>1. turn \in Asking
    BY <1>1, TurnIs
  <2>2. turn' \in Asking /\ turn' \in Turns /\ turn'.c = turn.c /\ Post' /\ Post
    BY <2>1 DEF Asking, Turns, Post
  <2>3. IdInv'
    BY <1>1, <2>1, <2>2, TurnGoesOn DEF history
  <2>4. Sound(cap')
    BY <1>2, CommandsSound
  <2>5. Telemetry \in Runtime /\ Total(Telemetry.jobs) <= MaxInt
    BY TelemetryIs
  <2> QED BY <2>3, <2>4, <2>5 DEF DataInv, history
<1>15. CASE Acks
  <2> USE <1>15 DEF Acks
  <2>1. IdInv'
    BY <1>1, AcknowledgedKeeps DEF history
  <2> QED BY <2>1 DEF DataInv, local, history
<1>16. CASE Persisted
  <2> USE <1>16 DEF Persisted
  <2>1. IdInv'
    BY <1>1, IdleIs, TurnEnds DEF server, Pre, Post
  <2>2. turn.settings \in Settings
    BY <1>1, TurnIs DEF Ordered, Own
  <2> DEFINE c == IF turn.settings.kind = "pair" THEN SetEncoderLimits(cap, turn.settings.pair)
                  ELSE AdmissionLimit(cap, turn.settings.max)
  <2>3. Sound(c) /\ c \in Capacity
    BY <1>2, <2>2, SettingsAre, SetEncoderLimitsSound, AdmissionLimitSound DEF Sound
  <2>4. cap' = MarkWorkerSettingsResolved(c)
    OBVIOUS
  <2> HIDE DEF c
  <2>5. Sound(cap')
    BY <2>3, <2>4, CommandsSound
  <2> QED BY <2>1, <2>5 DEF DataInv, server
<1> QED BY <1>3, <1>4, <1>5, <1>7, <1>8, <1>9, <1>10, <1>11, <1>12, <1>13, <1>14, <1>15, <1>16 DEF Sync

\* A request, a reply or an acknowledgement is lost.
LEMMA LossKeeps == ControlInv /\ (SyncLost \/ AckLost \/ PutLost) => ControlInv'
<1> SUFFICES ASSUME ControlInv, SyncLost \/ AckLost \/ PutLost PROVE ControlInv'
  OBVIOUS
<1> USE DEF ControlInv
<1>1. CommandsInv /\ turn \in Turns /\ SameUse
  BY DisturbedUse DEF IdInv, CommandsInv, SyncLost, AckLost, PutLost
<1>2. CASE SyncLost
  <2> USE <1>2 DEF SyncLost
  <2>1. IdInv'
    BY <1>1, IdleIs, TurnEnds DEF server, history, Pre, Post
  <2> QED BY <2>1 DEF DataInv, server, local, history
<1>3. CASE AckLost
  <2> USE <1>3 DEF AckLost
  <2>1. IdInv'
    BY <1>1, AcknowledgedKeeps DEF history
  <2> QED BY <2>1 DEF DataInv, local, history
<1>4. CASE PutLost
  <2> USE <1>4 DEF PutLost
  <2>1. (turn \in Ordered \/ turn \in Own) /\ turn.settings \in Settings
    BY <1>1, TurnIs DEF Ordered, Own
  <2>2. DataInv'
    BY <2>1 DEF DataInv, local
  <2>3. CASE turn \in Ordered
    <3>1. turn.for = "control" /\ Pre /\ turn \notin Asking
      BY <2>3 DEF Ordered, Pre, Asking
    <3> QED BY <1>1, <2>2, <3>1, ExecutedKeeps
  <2>4. CASE turn \in Own
    <3>1. turn.for = "worker"
      BY <2>4 DEF Own
    <3>2. IdInv'
      BY <1>1, <3>1, IdleIs, TurnEnds DEF Pre, Post
    <3> QED BY <2>2, <3>2
  <2> QED BY <2>1, <2>3, <2>4
<1> QED BY <1>2, <1>3, <1>4

-----------------------------------------------------------------------------
(* The steps at the worker *)

\* So does every step of the worker.
LEMMA WorkerKeeps ==
    ControlInv /\ ((\E s \in Saved : Persists(s)) \/ Commanded \/ EncodeStarts \/ EncodeEnds \/ Heartbeat)
        => ControlInv'
<1> SUFFICES ASSUME ControlInv,
                    (\E s \in Saved : Persists(s)) \/ Commanded \/ EncodeStarts \/ EncodeEnds \/ Heartbeat
             PROVE  ControlInv'
  OBVIOUS
<1> USE DEF ControlInv
<1>1. CommandsInv /\ turn \in Turns /\ SameUse
  BY DisturbedUse DEF IdInv, CommandsInv, Persists, Commanded, EncodeStarts, EncodeEnds, Heartbeat
<1>2. Sound(cap) /\ cap \in Capacity
  BY DEF DataInv, Sound
<1>3. ASSUME NEW s \in Saved, Persists(s) PROVE ControlInv'
  <2> USE <1>3 DEF Persists
  <2>1. turn' \in Own /\ turn' \in Turns
    BY ControlAssumption DEF Own, Turns
  <2>2. ~Pre' /\ ~Post'
    BY <2>1 DEF Own, Pre, Post, Asking, Ordered
  <2>3. IdInv'
    BY <1>1, <2>1, <2>2, TurnEnds DEF server, history
  <2> QED BY <2>3 DEF DataInv, server, local, history
<1>4. CASE Commanded
  <2> USE <1>4 DEF Commanded
  <2>1. IdInv'
    BY <1>1, IdKeeps DEF server, history
  <2>2. Sound(cap')
    BY <1>2, CommandsSound
  <2>3. encode' \in {"none", "running", "held"}
    BY DEF DataInv
  <2> QED BY <2>1, <2>2, <2>3 DEF DataInv, server, history
<1>5. CASE EncodeStarts \/ EncodeEnds
  <2>1. IdInv'
    BY <1>1, <1>5, IdKeeps DEF server, history, EncodeStarts, EncodeEnds
  <2> QED BY <1>5, <2>1 DEF EncodeStarts, EncodeEnds, DataInv, server, history
<1>6. CASE Heartbeat
  <2> USE <1>6 DEF Heartbeat
  <2>1. IdInv'
    BY <1>1, IdKeeps DEF history
  <2> QED BY <2>1, TelemetryIs DEF DataInv, local, history
<1> QED BY <1>3, <1>4, <1>5, <1>6

\* So does its restart.
LEMMA RestartKeeps == ControlInv /\ Restart => ControlInv'
<1> SUFFICES ASSUME ControlInv, Restart PROVE ControlInv'
  OBVIOUS
<1> USE DEF ControlInv, Restart
<1>1. CommandsInv /\ turn \in Turns /\ SameUse
  BY DisturbedUse DEF IdInv, CommandsInv
<1>2. DataInv'
  <2>1. turn.at = "put" => turn.settings \in Settings
    BY <1>1, TurnIs DEF Ordered, Own
  <2>2. Sound(cap')
    BY NewSound
  <2> QED BY <2>1, <2>2 DEF DataInv
<1>3. ~Pre' /\ ~Post'
  BY IdleIs DEF Pre, Post
<1>4. executed' = [i \in 1..MaxControls |-> 0] /\ applied' = [id |-> 0, error |-> FALSE]
      /\ UNCHANGED <<control, drafts, done>>
  OBVIOUS
<1>5. CommandsInv'
  BY <1>1, <1>4, IdleIs, ControlAssumption DEF CommandsInv, SameUse
<1>6. control # NoControl => control.id \in 1..MaxControls
  BY <1>1, IssuedIs DEF CommandsInv
<1>7. \A d \in drafts : d.id \in 1..MaxControls
  BY <1>1, IssuedIs DEF CommandsInv
<1>8. IdsInv' /\ OnceInv' /\ AppliedInv'
  BY <1>1, <1>3, <1>4, <1>6, <1>7 DEF IdInv, IdsInv, OnceInv, AppliedInv, SameUse
<1> QED BY <1>2, <1>5, <1>8 DEF IdInv

\* So does every step.
LEMMA NextInvariant == ControlInv /\ [Next]_vars => ControlInv'
<1> SUFFICES ASSUME ControlInv, [Next]_vars PROVE ControlInv'
  OBVIOUS
<1>1. CASE UNCHANGED vars
  <2>1. DataInv'
    BY <1>1 DEF vars, server, local, history, ControlInv, DataInv
  <2>2. IdInv'
    BY <1>1, DisturbedUse, IdKeeps DEF vars, server, history, ControlInv, IdInv
  <2> QED BY <2>1, <2>2 DEF ControlInv
<1>2. CASE Dashboard
  BY <1>2, DashboardKeeps
<1>3. CASE \E c \in drafts : ControlWrites(c)
  BY <1>3, WritesKeeps
<1>4. CASE \E s \in late : LatePut(s)
  BY <1>4, LateKeeps
<1>5. CASE Sync
  BY <1>5, SyncKeeps
<1>6. CASE SyncLost \/ AckLost \/ PutLost
  BY <1>6, LossKeeps
<1>7. CASE (\E s \in Saved : Persists(s)) \/ Commanded \/ EncodeStarts \/ EncodeEnds \/ Heartbeat
  BY <1>7, WorkerKeeps
<1>8. CASE Restart
  BY <1>8, RestartKeeps
<1> QED BY <1>1, <1>2, <1>3, <1>4, <1>5, <1>6, <1>7, <1>8 DEF Next

-----------------------------------------------------------------------------
(* The theorems *)

\* The inductive invariant holds always, whatever replies and commands get lost
\* (repository/workerControls.go, remoteControl.go, coordinator.go:145-185).
THEOREM InvariantAlways == Spec => []ControlInv
BY InitInvariant, NextInvariant, PTL DEF Spec

\* The settings, commands and limits of server and worker keep their shape
\* (repository/workerSettings.go, workerControls.go, coordinator.go:145-185).
THEOREM TypeSafe == Spec => []TypeOK
<1>1. ControlInv => TypeOK
  BY InvariantHolds
<1> QED BY <1>1, InvariantAlways, PTL

\* However often an acknowledgement is lost and a command comes again, a process
\* of the worker executes it once (remoteControl.go:13-40).
THEOREM OnceAlways == Spec => []ExecutedOnce
<1>1. ControlInv => ExecutedOnce
  BY InvariantHolds
<1> QED BY <1>1, InvariantAlways, PTL

\* A command is shown as applied only when the worker executed it, whatever other
\* commands were written over it meanwhile (repository/workerControls.go:44-62).
THEOREM AppliedIsAlwaysTrue == Spec => []AppliedIsTrue
<1>1. ControlInv => AppliedIsTrue
  BY InvariantHolds
<1> QED BY <1>1, InvariantAlways, PTL
==============================================================================
