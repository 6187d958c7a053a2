------------------------------ MODULE Capacity ------------------------------
(***************************************************************************)
(* What a worker's capacity is made of, and what each operation makes of   *)
(* it: the pool of encode slots (encodeConcurrency), the admission of the  *)
(* executor (JobExecutor, under admissionMu), and the general hold of its  *)
(* encoding processes (PauseController.paused).  The operators are pure:   *)
(* EncodeQueue uses them for the jobs of a worker, RemoteControl for the   *)
(* settings and commands the server has for it.                            *)
(***************************************************************************)
EXTENDS Integers

CONSTANTS
    Primary,        \* the encoder kind of the configured codec
    StartLimit,     \* the configured worker.maxActiveJobs
    StartMode,      \* the configured worker.pauseMode
    StartRAM,       \* the configured worker.ramPaused
    MaxInt          \* the greatest integer

Kinds    == {"cpu", "gpu"}
NoKind   == "none"
Modes    == {"finish", "ram"}
Numbers  == 0..MaxInt

ASSUME CapacityAssumption ==
    /\ Primary \in Kinds
    /\ MaxInt \in Nat \ {0}
    /\ StartLimit \in Numbers
    /\ StartMode \in Modes
    /\ StartRAM \in BOOLEAN

-----------------------------------------------------------------------------
(* The pool of encode slots *)

Pool == [target : Numbers, independent : BOOLEAN, paused : BOOLEAN,
         jobs   : [Kinds -> Numbers],   \* what is desired
         limit  : [Kinds -> Numbers],   \* what drains: the last positive ones
         last   : [Kinds -> Numbers],   \* what admissions are pinned by
         active : [Kinds -> Nat]]

Pair(cpu, gpu) == [k \in Kinds |-> IF k = "cpu" THEN cpu ELSE gpu]

\* n for the primary kind, and nothing for the other.
Sole(n) == [k \in Kinds |-> IF k = Primary THEN n ELSE 0]

Other(k) == CHOOSE o \in Kinds : o # k

\* A sum that stays at the greatest integer.
SafeSum(m, n) == IF m > MaxInt - n THEN MaxInt ELSE m + n

Total(pair) == pair["cpu"] + pair["gpu"]

\* worker.ffmpegConfig.parallelJobs is not set: it follows maxActiveJobs.
StartTarget == IF StartLimit = 0 THEN 1 ELSE StartLimit

NewPool ==
    [target |-> StartTarget, independent |-> FALSE,
     paused |-> StartLimit = 0 \/ StartRAM,
     jobs   |-> IF StartLimit = 0 THEN Pair(0, 0) ELSE Sole(StartTarget),
     limit  |-> Sole(StartTarget),
     last   |-> Sole(StartTarget),
     active |-> Pair(0, 0)]

SetTarget(p, n) ==
    [p EXCEPT !.target = n, !.independent = FALSE,
              !.jobs = Sole(n), !.last = Sole(n), !.limit[Primary] = n]

\* A class keeps its last positive limit, for work that is pinned to it.
SetLimits(p, pair) ==
    LET limit == [k \in Kinds |-> IF pair[k] > 0 THEN pair[k] ELSE p.limit[k]]
    IN  [p EXCEPT !.independent = TRUE, !.jobs = pair, !.limit = limit,
                  !.target = IF Total(pair) > 0 THEN Total(pair)
                             ELSE SafeSum(limit["cpu"], limit["gpu"]),
                  !.last = IF Total(pair) > 0 THEN pair ELSE @]

\* The class a job is pinned to when it is admitted: none while both may take it.
AdmissionKind(p) ==
    LET pair == IF Total(p.jobs) = 0 THEN p.last ELSE p.jobs
    IN  IF \E k \in Kinds : pair[k] > 0 /\ pair[Other(k)] = 0
        THEN CHOOSE k \in Kinds : pair[k] > 0
        ELSE NoKind

\* A disabled class takes nothing new, unless everything is disabled.
Closed(p, k) == p.independent /\ p.jobs[k] = 0 /\ Total(p.jobs) > 0

\* The pool after a pinned job asked for its class, or before: a limit of zero
\* becomes one, so that the job can drain.
Drainable(p, pinned) ==
    IF pinned # NoKind /\ p.limit[pinned] = 0 THEN [p EXCEPT !.limit[pinned] = 1] ELSE p

Shut(p) == p.paused \/ (~p.independent /\ Total(p.active) >= p.target)

\* The class a job gets a slot of: its own, or the primary one before the other.
StartKind(p, pinned) ==
    LET free   == {k \in Kinds : p.active[k] < Drainable(p, pinned).limit[k]}
        usable == IF pinned # NoKind THEN free \intersect {pinned}
                  ELSE {k \in free : ~Closed(p, k) /\ (k = Primary \/ p.independent)}
    IN  IF Shut(p) \/ usable = {} THEN NoKind
        ELSE IF Primary \in usable THEN Primary ELSE CHOOSE k \in usable : TRUE

\* The pool after such an attempt.
Tried(p, pinned) ==
    LET kind == StartKind(p, pinned)
        q    == IF Shut(p) THEN p ELSE Drainable(p, pinned)
    IN  IF kind = NoKind THEN q ELSE [q EXCEPT !.active[kind] = @ + 1]

\* A wrong variant of the next definition: the slot of the primary class is freed.
FaultyFinished(p, kind) == [p EXCEPT !.active[Primary] = IF @ > 0 THEN @ - 1 ELSE @]

Finished(p, kind) == [p EXCEPT !.active[kind] = IF @ > 0 THEN @ - 1 ELSE @]

\* One job more than the encoders take: it is prepared or uploaded meanwhile.
MaxAccepted(target) ==
    IF target = 0 THEN 0 ELSE IF target > MaxInt - 1 THEN MaxInt ELSE target + 1

-----------------------------------------------------------------------------
(* Admission *)

Capacity == [pool : Pool, max : Numbers, mode : Modes, ram : BOOLEAN,
             pending : BOOLEAN,         \* settingsPending
             held : BOOLEAN,            \* admissionHeld: maintenance drains
             finishing : BOOLEAN,       \* an operator drains
             hold : BOOLEAN]            \* PauseController.paused

\* NewEncodeWorker, then RequireWorkerSettings.
NewCapacity ==
    [pool |-> [NewPool EXCEPT !.paused = TRUE], max |-> StartLimit, mode |-> StartMode,
     ram |-> StartRAM, pending |-> TRUE, held |-> FALSE, finishing |-> FALSE,
     hold |-> StartRAM \/ (StartLimit = 0 /\ StartMode = "ram")]

\* Queued encodes wait: for the settings, for a positive limit, for the RAM hold.
PoolPaused(c) == [c EXCEPT !.pool.paused =
                    (c.ram \/ c.max = 0 \/ c.pending) /\ ~c.held /\ ~c.finishing]

\* Encoding processes are held.
Held(c) == [c EXCEPT !.hold = (c.ram \/ (c.max = 0 /\ c.mode = "ram")) /\ ~c.held /\ ~c.finishing]

\* SetMaxActiveJobs, and persistLimit with another mode.
ApplyLimit(c, n, mode, ram) ==
    LET d == [c EXCEPT !.max = n, !.mode = mode, !.ram = ram, !.finishing = FALSE,
                       !.pool = IF n > 0 THEN SetTarget(@, n)
                                ELSE [@ EXCEPT !.jobs = Pair(0, 0)]]
    IN  Held(PoolPaused(d))

SetEncoderLimits(c, pair) ==
    Held(PoolPaused([c EXCEPT !.pool = SetLimits(@, pair), !.max = Total(pair),
                              !.finishing = FALSE]))

\* PersistAdmissionLimit keeps a RAM hold that stood only by the mode.
AdmissionLimit(c, n) ==
    ApplyLimit(c, n, "finish",
               c.ram \/ (c.max = 0 /\ c.mode = "ram" /\ ~c.held /\ ~c.finishing))

Drains(c) == c.held \/ c.finishing

SetRAMPaused(c, ram) ==
    [c EXCEPT !.hold = ram, !.mode = "finish", !.ram = ram,
              !.pool.paused = ram \/ c.max = 0 \/ c.pending]

SetPauseMode(c, mode) == Held([c EXCEPT !.mode = mode])

FinishAcceptedJobs(c) ==
    [c EXCEPT !.hold = FALSE, !.finishing = TRUE, !.mode = "finish", !.ram = FALSE,
              !.max = 0, !.pool.paused = FALSE]

DrainAcceptedJobs(c) ==
    [c EXCEPT !.hold = FALSE, !.held = TRUE, !.ram = FALSE, !.max = 0,
              !.pool.paused = FALSE]

\* The capacity and its limits stay, for a worker that will be replaced.
HoldAdmission(c) ==
    [c EXCEPT !.hold = FALSE, !.held = TRUE, !.ram = FALSE, !.pool.paused = FALSE]

MarkWorkerSettingsResolved(c) == PoolPaused([c EXCEPT !.pending = FALSE])

\* canReserveJobSlotAt, but for the schedule and the count of jobs.
MayAdmit(c) == ~c.held /\ ~c.finishing /\ ~c.pending /\ ~c.ram /\ c.max > 0

\* The holds of processes and queue are those the rest of the state asks for.
Agrees(c) ==
    /\ c.hold = ((c.ram \/ (c.max = 0 /\ c.mode = "ram")) /\ ~Drains(c))
    /\ c.pool.paused = ((c.ram \/ c.max = 0 \/ c.pending) /\ ~Drains(c))

=============================================================================
