-------------------------- MODULE DownloadsProofs ---------------------------
(***************************************************************************)
(* Theorems about Downloads: its types, and that a source which a worker   *)
(* goes on with is whole.  How much a worker has is counted by the handler *)
(* that reads for it, so the proofs relate the two.                        *)
(***************************************************************************)
EXTENDS Downloads, TLAPS

-----------------------------------------------------------------------------
(* The inductive invariant *)

\* A handler that still reads for a worker.
ReadsFor(s, w) == streams[s].at = "reading" /\ ~All(streams[s].read) /\ streams[s].to = w

\* A worker that has gone on, or may go on, has all of the file.
Complete == \A w \in Workers : workers[w].at \in {"compare", "done"} => All(workers[w].file)

\* One handler reads for a worker at a time, while it receives, and what they have is the same:
\* the worker opens another stream only when the response of the one before has ended.
Together ==
    /\ \A w \in Workers, s \in Streams :
          ReadsFor(s, w) => workers[w].at = "receive" /\ workers[w].file = streams[s].read
    /\ \A w \in Workers, s \in Streams, t \in Streams :
          ReadsFor(s, w) /\ ReadsFor(t, w) => s = t

\* While there are attempts to come, they are not used up.
Attempting ==
    \A w \in Workers :
        workers[w].at \in {"off", "ask", "receive", "compare"} => workers[w].attempts < MaxAttempts

DownloadInv == TypeOK /\ Complete /\ Together /\ Attempting

WorkerType ==
    [at : {"off", "ask", "receive", "compare", "done", "failed"}, file : Part, attempts : 0..MaxAttempts]

StreamType ==
    [at : {"free", "reading", "closing"}, to : Workers \union {Nobody}, read : Part]

\* What the constants are.
LEMMA DownloadConstants ==
    /\ Chunks \in Nat \ {0} /\ MaxVersion \in Nat \ {0} /\ MaxAttempts \in Nat \ {0}
    /\ MaxFaults \in Nat /\ Streams \subseteq Nat
    /\ Nobody \notin Workers /\ Workers # {}
    /\ Nothing \in Part /\ ~All(Nothing)
BY DownloadsAssumption DEF Nothing, Part, All

\* What a worker's file is, and a handler's.
LEMMA DownloadTypes ==
    ASSUME TypeOK
    PROVE  /\ workers \in [Workers -> WorkerType] /\ streams \in [Streams -> StreamType]
           /\ UpdateTypeOK /\ source \in 0..MaxVersion /\ assigned \in Workers
           /\ checksum \in Part /\ faults \in 0..MaxFaults
           /\ routine \in [at : {"select", "store", "maintenance"}, handed : Part]
BY DEF TypeOK, WorkerType, StreamType

\* The types after a step are those of its parts.
LEMMA DownloadTypesNext ==
    ASSUME workers' \in [Workers -> WorkerType], streams' \in [Streams -> StreamType],
           UpdateTypeOK', source' \in 0..MaxVersion, assigned' \in Workers,
           checksum' \in Part, faults' \in 0..MaxFaults,
           routine' \in [at : {"select", "store", "maintenance"}, handed : Part]
    PROVE  TypeOK'
BY DEF TypeOK, WorkerType, StreamType

\* What goes wrong is counted up to its bound.
LEMMA FaultsType ==
    ASSUME TypeOK, faults' = faults \/ (faults < MaxFaults /\ faults' = faults + 1)
    PROVE  faults' \in 0..MaxFaults
BY DownloadConstants DEF TypeOK

\* A step that leaves the update alone keeps its types.
LEMMA UpdateUnchanged ==
    ASSUME TypeOK, UNCHANGED updateVars
    PROVE  UpdateTypeOK'
BY DEF TypeOK, UpdateTypeOK, updateVars, Releases

-----------------------------------------------------------------------------
(* What each step makes of the invariant *)

\* A worker that does not receive becomes another, and no handler begins to read.
LEMMA WorkerMoves ==
    ASSUME DownloadInv, NEW w \in Workers, NEW new \in WorkerType,
           workers' = [workers EXCEPT ![w] = new], streams' = streams,
           \A s \in Streams : ~ReadsFor(s, w),
           new.at \in {"compare", "done"} => All(new.file),
           new.at \in {"off", "ask", "receive", "compare"} => new.attempts < MaxAttempts
    PROVE  workers' \in [Workers -> WorkerType] /\ Complete' /\ Together' /\ Attempting'
<1>1. workers \in [Workers -> WorkerType]
  BY DownloadTypes DEF DownloadInv
<1>2. workers' \in [Workers -> WorkerType] /\ workers'[w] = new
      /\ \A v \in Workers : v # w => workers'[v] = workers[v]
  BY <1>1
<1>3. Complete' /\ Attempting'
  BY <1>2 DEF DownloadInv, Complete, Attempting
<1>4. \A v \in Workers, s \in Streams : ReadsFor(s, v)' <=> ReadsFor(s, v)
  BY DEF ReadsFor
<1>5. Together'
  BY <1>2, <1>4 DEF DownloadInv, Together
<1> QED BY <1>2, <1>3, <1>5

\* Another attempt, or the end of the step.
LEMMA AgainMoves ==
    ASSUME DownloadInv, NEW w \in Workers, workers' = Again(w), streams' = streams,
           workers[w].at \in {"ask", "receive", "compare"},
           \A s \in Streams : ~ReadsFor(s, w)
    PROVE  workers' \in [Workers -> WorkerType] /\ Complete' /\ Together' /\ Attempting'
<1> DEFINE n == workers[w].attempts + 1
           new == [at |-> IF n < MaxAttempts THEN "ask" ELSE "failed", file |-> Nothing, attempts |-> n]
<1>1. workers[w] \in WorkerType /\ workers[w].attempts < MaxAttempts
  BY DownloadTypes DEF DownloadInv, Attempting
<1>2. n \in 0..MaxAttempts
  BY <1>1, DownloadConstants DEF WorkerType
<1>3. new \in WorkerType /\ new.at \in {"ask", "failed"} /\ (new.at = "ask" => n < MaxAttempts)
  <2> HIDE DEF n
  <2> QED BY <1>2, DownloadConstants DEF WorkerType
<1>4. workers' = [workers EXCEPT ![w] = new]
  BY DEF Again
<1>5. new.attempts = n
  OBVIOUS
<1> HIDE DEF new, n
<1> QED BY <1>3, <1>4, <1>5, WorkerMoves

\* No handler reads for a worker that does not receive.
LEMMA NobodyReads ==
    ASSUME DownloadInv, NEW w \in Workers, workers[w].at # "receive"
    PROVE  \A s \in Streams : ~ReadsFor(s, w)
BY DEF DownloadInv, Together

\* A worker that begins has its attempts before it.
LEMMA BeginsStep ==
    ASSUME DownloadInv, NEW w \in Workers, Begins(w)
    PROVE  DownloadInv'
<1> DEFINE new == [workers[w] EXCEPT !.at = "ask"]
<1>1. workers[w] \in WorkerType /\ workers[w].at = "off" /\ workers[w].attempts < MaxAttempts
  BY DownloadTypes DEF DownloadInv, Attempting, Begins
<1>2. new \in WorkerType /\ new.at = "ask" /\ new.attempts < MaxAttempts
  BY <1>1 DEF WorkerType
<1>3. workers' = [workers EXCEPT ![w] = new] /\ streams' = streams
  BY DEF Begins, serverVars
<1> HIDE DEF new
<1>4. workers' \in [Workers -> WorkerType] /\ Complete' /\ Together' /\ Attempting'
  BY <1>1, <1>2, <1>3, NobodyReads, WorkerMoves
<1>5. TypeOK'
  BY <1>4, DownloadTypes, DownloadTypesNext, UpdateUnchanged DEF Begins, serverVars, DownloadInv
<1> QED BY <1>4, <1>5 DEF DownloadInv

\* A worker that is refused has nothing of the file.
LEMMA RefusesStep ==
    ASSUME DownloadInv, NEW w \in Workers, Refuses(w)
    PROVE  DownloadInv'
<1>1. workers[w] \in WorkerType /\ workers[w].at = "ask" /\ streams' = streams
  BY DownloadTypes DEF DownloadInv, Refuses, serverVars
<1>2. workers' \in [Workers -> WorkerType] /\ Complete' /\ Together' /\ Attempting'
  <2>1. CASE workers' = Again(w)
    BY <1>1, <2>1, NobodyReads, AgainMoves
  <2>2. CASE workers' = [workers EXCEPT ![w].at = "failed"]
    <3> DEFINE new == [workers[w] EXCEPT !.at = "failed"]
    <3>1. new \in WorkerType /\ new.at = "failed"
      BY <1>1 DEF WorkerType
    <3>2. workers' = [workers EXCEPT ![w] = new]
      BY <2>2
    <3> HIDE DEF new
    <3> QED BY <1>1, <3>1, <3>2, NobodyReads, WorkerMoves
  <2> QED BY <2>1, <2>2 DEF Refuses
<1>3. TypeOK'
  BY <1>2, DownloadTypes, DownloadTypesNext, UpdateUnchanged DEF Refuses, serverVars, DownloadInv
<1> QED BY <1>2, <1>3 DEF DownloadInv

\* The response has ended with all of the file, and then nobody reads for it, or without.
LEMMA ReceivedStep ==
    ASSUME DownloadInv, NEW w \in Workers, Received(w)
    PROVE  DownloadInv'
<1>1. workers[w] \in WorkerType /\ workers[w].at = "receive" /\ streams' = streams
      /\ workers[w].attempts < MaxAttempts
  BY DownloadTypes DEF DownloadInv, Attempting, Received, serverVars
<1>2. \A s \in Streams : ~ReadsFor(s, w)
  BY DEF Received, DownloadInv, Together, ReadsFor
<1>3. workers' \in [Workers -> WorkerType] /\ Complete' /\ Together' /\ Attempting'
  <2>1. CASE Whole(w)
    <3> DEFINE new == [workers[w] EXCEPT !.at = "compare"]
    <3>1. new \in WorkerType /\ new.at = "compare" /\ new.file = workers[w].file
          /\ new.attempts = workers[w].attempts
      BY <1>1 DEF WorkerType
    <3>2. workers' = [workers EXCEPT ![w] = new]
      BY <2>1 DEF Received
    <3>3. All(new.file)
      BY <2>1, <3>1 DEF Whole
    <3> HIDE DEF new
    <3> QED BY <1>1, <1>2, <3>1, <3>2, <3>3, WorkerMoves
  <2>2. CASE ~Whole(w)
    BY <1>1, <1>2, <2>2, AgainMoves DEF Received
  <2> QED BY <2>1, <2>2
<1>4. TypeOK'
  BY <1>3, DownloadTypes, DownloadTypesNext, UpdateUnchanged DEF Received, serverVars, DownloadInv
<1> QED BY <1>3, <1>4 DEF DownloadInv

\* What is compared is whole, and so is what is accepted.
LEMMA ComparesStep ==
    ASSUME DownloadInv, NEW w \in Workers, Compares(w)
    PROVE  DownloadInv'
<1>1. workers[w] \in WorkerType /\ workers[w].at = "compare" /\ streams' = streams
      /\ All(workers[w].file)
  BY DownloadTypes DEF DownloadInv, Complete, Compares, serverVars
<1>2. workers' \in [Workers -> WorkerType] /\ Complete' /\ Together' /\ Attempting'
  <2>1. CASE workers[w].file = checksum
    <3> DEFINE new == [workers[w] EXCEPT !.at = "done"]
    <3>1. new \in WorkerType /\ new.at = "done" /\ new.file = workers[w].file
      BY <1>1 DEF WorkerType
    <3>2. workers' = [workers EXCEPT ![w] = new]
      BY <2>1 DEF Compares
    <3> HIDE DEF new
    <3> QED BY <1>1, <3>1, <3>2, NobodyReads, WorkerMoves
  <2>2. CASE workers[w].file # checksum
    BY <1>1, <2>2, NobodyReads, AgainMoves DEF Compares
  <2> QED BY <2>1, <2>2
<1>3. TypeOK'
  BY <1>2, DownloadTypes, DownloadTypesNext, UpdateUnchanged DEF Compares, serverVars, DownloadInv
<1> QED BY <1>2, <1>3 DEF DownloadInv

\* A checksum that cannot be had costs an attempt.
LEMMA GivesUpStep ==
    ASSUME DownloadInv, NEW w \in Workers, GivesUp(w)
    PROVE  DownloadInv'
<1>1. workers[w].at = "compare" /\ streams' = streams /\ workers' = Again(w)
  BY DEF GivesUp, serverVars
<1>2. workers' \in [Workers -> WorkerType] /\ Complete' /\ Together' /\ Attempting'
  BY <1>1, NobodyReads, AgainMoves
<1>3. faults' \in 0..MaxFaults
  BY FaultsType DEF GivesUp, Fault, DownloadInv
<1>4. TypeOK'
  BY <1>2, <1>3, DownloadTypes, DownloadTypesNext, UpdateUnchanged DEF GivesUp, serverVars, DownloadInv
<1> QED BY <1>2, <1>4 DEF DownloadInv

\* The worker opens a stream and knows nothing yet of what it will get.
LEMMA OpensStep ==
    ASSUME DownloadInv, NEW w \in Workers, Opens(w)
    PROVE  DownloadInv'
<1>1. workers \in [Workers -> WorkerType] /\ streams \in [Streams -> StreamType] /\ source \in 0..MaxVersion
  BY DownloadTypes DEF DownloadInv
<1>2. workers[w].at = "ask" /\ workers[w].attempts < MaxAttempts
  BY DEF Opens, DownloadInv, Attempting
<1> DEFINE part == [version |-> source, chunks |-> 0]
           new  == [workers[w] EXCEPT !.at = "receive", !.file = part]
<1>3. PICK s \in Streams :
        streams[s].at = "free" /\ streams' = [streams EXCEPT ![s] = [at |-> "reading", to |-> w, read |-> part]]
  BY DEF Opens, StreamsIn
<1>4. part \in Part /\ ~All(part)
  BY <1>1, DownloadConstants DEF Part, All
<1>5. workers' = [workers EXCEPT ![w] = new]
  BY <1>1 DEF Opens
<1> HIDE DEF part
<1>6. new \in WorkerType /\ new.at = "receive" /\ new.file = part /\ new.attempts = workers[w].attempts
  BY <1>1, <1>4 DEF WorkerType
<1> HIDE DEF new
<1>7. /\ workers' \in [Workers -> WorkerType] /\ workers'[w] = new
      /\ \A v \in Workers : v # w => workers'[v] = workers[v]
  BY <1>1, <1>5, <1>6
<1>8. /\ streams' \in [Streams -> StreamType]
      /\ streams'[s] = [at |-> "reading", to |-> w, read |-> part]
      /\ \A t \in Streams : t # s => streams'[t] = streams[t]
  BY <1>1, <1>3, <1>4 DEF StreamType
<1>9. Complete' /\ Attempting'
  BY <1>2, <1>6, <1>7 DEF DownloadInv, Complete, Attempting
<1>10. Together'
  <2>1. \A t \in Streams : ~ReadsFor(t, w)
    BY <1>2, NobodyReads
  <2>2. ASSUME NEW v \in Workers, NEW t \in Streams, ReadsFor(t, v)'
        PROVE  (t = s /\ v = w) \/ (t # s /\ v # w /\ ReadsFor(t, v))
    BY <1>8, <2>1, <2>2 DEF ReadsFor
  <2>3. ASSUME NEW v \in Workers, NEW t \in Streams, ReadsFor(t, v)'
        PROVE  workers'[v].at = "receive" /\ workers'[v].file = streams'[t].read
    BY <1>6, <1>7, <1>8, <2>2, <2>3 DEF DownloadInv, Together
  <2>4. ASSUME NEW v \in Workers, NEW t \in Streams, NEW u \in Streams, ReadsFor(t, v)', ReadsFor(u, v)'
        PROVE  t = u
    BY <2>2, <2>4 DEF DownloadInv, Together
  <2> QED BY <2>3, <2>4 DEF Together
<1>11. faults' \in 0..MaxFaults
  BY FaultsType DEF Opens, Fault, DownloadInv
<1>12. TypeOK'
  BY <1>7, <1>8, <1>11, DownloadTypes, DownloadTypesNext, UpdateUnchanged DEF Opens, DownloadInv
<1> QED BY <1>9, <1>10, <1>12 DEF DownloadInv

\* What the handler reads the worker gets, and nobody else reads for it.
LEMMA ReadsStep ==
    ASSUME DownloadInv, NEW s \in Streams, Reads(s)
    PROVE  DownloadInv'
<1>1. workers \in [Workers -> WorkerType] /\ streams \in [Streams -> StreamType]
  BY DownloadTypes DEF DownloadInv
<1>2. streams[s].at = "reading" /\ ~All(streams[s].read) /\ streams[s].read \in Part
  BY <1>1 DEF Reads, StreamType
<1> DEFINE more(part) == [part EXCEPT !.chunks = @ + 1]
<1>3. /\ streams' = [streams EXCEPT ![s] = [streams[s] EXCEPT !.read = more(streams[s].read)]]
      /\ workers' = [w \in Workers |-> IF streams[s].to = w
                                       THEN [workers[w] EXCEPT !.file = more(workers[w].file)] ELSE workers[w]]
  BY <1>1 DEF Reads
<1>4. more(streams[s].read) \in Part
  BY <1>2, DownloadConstants DEF Part, All
<1> HIDE DEF more
<1>5. /\ streams' \in [Streams -> StreamType]
      /\ streams'[s].at = "reading" /\ streams'[s].to = streams[s].to
      /\ streams'[s].read = more(streams[s].read)
      /\ \A t \in Streams : t # s => streams'[t] = streams[t]
  BY <1>1, <1>2, <1>3, <1>4 DEF StreamType
<1>6. ASSUME NEW w \in Workers, streams[s].to = w
      PROVE  /\ workers[w].at = "receive" /\ workers[w].file = streams[s].read
             /\ workers'[w] \in WorkerType /\ workers'[w].at = "receive"
             /\ workers'[w].file = streams'[s].read /\ workers'[w].attempts = workers[w].attempts
  <2>1. workers[w].at = "receive" /\ workers[w].file = streams[s].read
    BY <1>2, <1>6 DEF DownloadInv, Together, ReadsFor
  <2> QED BY <1>1, <1>3, <1>4, <1>5, <1>6, <2>1 DEF WorkerType
<1>7. ASSUME NEW w \in Workers, streams[s].to # w
      PROVE  workers'[w] = workers[w]
  BY <1>3, <1>7
<1>8. workers' \in [Workers -> WorkerType]
  BY <1>1, <1>3, <1>6, <1>7
<1>9. Complete' /\ Attempting'
  BY <1>6, <1>7 DEF DownloadInv, Complete, Attempting
<1>10. Together'
  <2>1. ASSUME NEW w \in Workers, NEW t \in Streams, ReadsFor(t, w)'
        PROVE  ReadsFor(t, w)
    BY <1>2, <1>5, <2>1 DEF ReadsFor
  <2>2. ASSUME NEW w \in Workers, NEW t \in Streams, ReadsFor(t, w)'
        PROVE  workers'[w].at = "receive" /\ workers'[w].file = streams'[t].read
    <3>1. CASE t = s
      BY <1>6, <2>1, <2>2, <3>1 DEF ReadsFor
    <3>2. CASE t # s
      <4>1. ReadsFor(t, w)
        BY <2>1, <2>2
      <4>2. streams[s].to # w
        BY <1>2, <3>2, <4>1 DEF DownloadInv, Together, ReadsFor
      <4> QED BY <1>5, <1>7, <3>2, <4>1, <4>2 DEF DownloadInv, Together
    <3> QED BY <3>1, <3>2
  <2> QED BY <2>1, <2>2 DEF DownloadInv, Together
<1>11. TypeOK'
  BY <1>5, <1>8, DownloadTypes, DownloadTypesNext, UpdateUnchanged DEF Reads, DownloadInv
<1> QED BY <1>9, <1>10, <1>11 DEF DownloadInv

\* Handlers that end, or are cut off, read for nobody new.
LEMMA StreamsMove ==
    ASSUME DownloadInv, workers' = workers,
           \A s \in Streams : streams'[s] = streams[s] \/ streams'[s].at # "reading" \/ streams'[s].to = Nobody
    PROVE  workers' \in [Workers -> WorkerType] /\ Complete' /\ Together' /\ Attempting'
<1>1. ASSUME NEW w \in Workers, NEW s \in Streams, ReadsFor(s, w)'
      PROVE  ReadsFor(s, w) /\ streams'[s] = streams[s]
  BY <1>1, DownloadConstants DEF ReadsFor
<1>2. Together'
  BY <1>1 DEF DownloadInv, Together
<1> QED BY <1>2, DownloadTypes DEF DownloadInv, Complete, Attempting

\* A handler that is free reads for nobody.
LEMMA FreeType == Free \in StreamType /\ Free.at = "free"
BY DownloadConstants DEF Free, StreamType

\* A handler that closes reads no more.
LEMMA ClosesStep ==
    ASSUME DownloadInv, NEW s \in Streams, Closes(s)
    PROVE  DownloadInv'
<1>1. streams \in [Streams -> StreamType]
  BY DownloadTypes DEF DownloadInv
<1>2. Closed(streams[s]) \in StreamType /\ Closed(streams[s]).at # "reading"
  BY <1>1, FreeType DEF Closed, StreamType
<1>3. streams' = [streams EXCEPT ![s] = Closed(streams[s])]
  BY DEF Closes
<1>4. streams' \in [Streams -> StreamType]
  BY <1>1, <1>2, <1>3
<1>5. workers' \in [Workers -> WorkerType] /\ Complete' /\ Together' /\ Attempting'
  BY <1>1, <1>2, <1>3, StreamsMove DEF Closes
<1>6. TypeOK'
  BY <1>4, <1>5, DownloadTypes, DownloadTypesNext, UpdateUnchanged DEF Closes, DownloadInv
<1> QED BY <1>5, <1>6 DEF DownloadInv

\* Nor does one that has handed over its checksum.
LEMMA HandsStep ==
    ASSUME DownloadInv, NEW s \in Streams, Hands(s)
    PROVE  DownloadInv'
<1>1. streams \in [Streams -> StreamType]
  BY DownloadTypes DEF DownloadInv
<1>2. streams' \in [Streams -> StreamType]
      /\ \A t \in Streams : streams'[t] = streams[t] \/ streams'[t].at # "reading"
  BY <1>1, FreeType DEF Hands
<1>3. routine' \in [at : {"select", "store", "maintenance"}, handed : Part]
  BY <1>1 DEF Hands, StreamType
<1>4. workers' \in [Workers -> WorkerType] /\ Complete' /\ Together' /\ Attempting'
  BY <1>2, StreamsMove DEF Hands
<1>5. TypeOK'
  BY <1>2, <1>3, <1>4, DownloadTypes, DownloadTypesNext, UpdateUnchanged DEF Hands, DownloadInv
<1> QED BY <1>4, <1>5 DEF DownloadInv

\* The routine of the scheduler touches no file.
LEMMA RoutineSteps ==
    ASSUME DownloadInv, Stores \/ MaintenanceStarts \/ MaintenanceEnds
    PROVE  DownloadInv'
<1>1. /\ UNCHANGED <<updateVars, source, assigned, streams, workers, faults>>
      /\ routine \in [at : {"select", "store", "maintenance"}, handed : Part] /\ checksum \in Part
  BY DownloadTypes DEF Stores, MaintenanceStarts, MaintenanceEnds, DownloadInv
<1>2. routine' \in [at : {"select", "store", "maintenance"}, handed : Part] /\ checksum' \in Part
  BY <1>1, DownloadConstants DEF Stores, MaintenanceStarts, MaintenanceEnds
<1>3. workers' \in [Workers -> WorkerType] /\ Complete' /\ Together' /\ Attempting'
  BY <1>1, StreamsMove
<1>4. TypeOK'
  BY <1>1, <1>2, <1>3, DownloadTypes, DownloadTypesNext, UpdateUnchanged DEF DownloadInv
<1> QED BY <1>3, <1>4 DEF DownloadInv

\* A process of the server that ends leaves no handler, and the workers as they are.
LEMMA LostStep ==
    ASSUME DownloadInv, Lost, UNCHANGED <<source, assigned, workers>>, UpdateTypeOK',
           faults' \in 0..MaxFaults
    PROVE  DownloadInv'
<1>1. streams' \in [Streams -> StreamType] /\ \A s \in Streams : streams'[s].at # "reading"
  BY FreeType DEF Lost
<1>2. routine' \in [at : {"select", "store", "maintenance"}, handed : Part] /\ checksum' \in Part
  BY DownloadConstants DEF Lost
<1>3. workers' \in [Workers -> WorkerType] /\ Complete' /\ Together' /\ Attempting'
  BY <1>1, StreamsMove
<1>4. TypeOK'
  BY <1>1, <1>2, <1>3, DownloadTypes, DownloadTypesNext DEF DownloadInv
<1> QED BY <1>3, <1>4 DEF DownloadInv

\* Versions come from the releases, whoever checks, installs, starts or ends.
LEMMA UpdateTypes ==
    ASSUME UpdateTypeOK,
           \/ \E answered \in BOOLEAN : SupervisorChecks(answered) \/ Stays(answered)
           \/ UpdateFails \/ Updates \/ Starts \/ Looks(Requests) \/ Boots
           \/ Publish \/ Dies \/ Exits
    PROVE  UpdateTypeOK'
<1>1. latest \in Releases /\ binary \in Releases
  BY DEF UpdateTypeOK
<1>2. ASSUME NEW answered \in BOOLEAN, SupervisorChecks(answered) PROVE UpdateTypeOK'
  BY <1>2 DEF UpdateTypeOK, SupervisorChecks
<1>3. ASSUME NEW answered \in BOOLEAN, Stays(answered) PROVE UpdateTypeOK'
  BY <1>3 DEF UpdateTypeOK, Stays
<1>4. CASE UpdateFails
  BY <1>4 DEF UpdateTypeOK, UpdateFails
<1>5. CASE Updates
  BY <1>5 DEF UpdateTypeOK, Updates, Installed
<1>6. CASE Starts \/ Looks(Requests)
  BY <1>6 DEF UpdateTypeOK, Starts, Looks
<1>7. CASE Boots
  BY <1>7 DEF UpdateTypeOK, Boots
<1>8. CASE Publish
  <2>1. latest' \in Releases
    BY <1>1, <1>8, ReleaseAssumption DEF Publish, Releases
  <2> QED BY <1>8, <2>1 DEF UpdateTypeOK, Publish
<1>9. CASE Dies
  BY <1>9 DEF UpdateTypeOK, Dies
<1>10. CASE Exits
  BY <1>10 DEF UpdateTypeOK, Exits, Invalidated
<1> QED BY <1>2, <1>3, <1>4, <1>5, <1>6, <1>7, <1>8, <1>9, <1>10

\* The other steps of the update and the release of a version leave the downloads alone.
LEMMA UpdateSteps ==
    ASSUME DownloadInv, Update \/ Release
    PROVE  DownloadInv'
<1>1. UNCHANGED <<source, assigned, serverVars, workers>>
  BY DEF Update, Release
<1>2. UpdateTypeOK'
  BY UpdateTypes, DownloadTypes DEF DownloadInv, Update, Release
<1>3. workers' \in [Workers -> WorkerType] /\ Complete' /\ Together' /\ Attempting'
  BY <1>1, StreamsMove DEF serverVars
<1>4. faults' \in 0..MaxFaults
  BY FaultsType DEF Update, Release, Fault, DownloadInv
<1>5. TypeOK'
  BY <1>1, <1>2, <1>3, <1>4, DownloadTypes, DownloadTypesNext DEF serverVars, DownloadInv
<1> QED BY <1>3, <1>5 DEF DownloadInv

\* The server dies, or exits for an update while it still serves.
LEMMA EndSteps ==
    ASSUME DownloadInv, Crashes \/ ServerExits
    PROVE  DownloadInv'
<1>1. Lost /\ UNCHANGED <<source, assigned, workers>>
  BY DEF Crashes, ServerExits
<1>2. UpdateTypeOK'
  BY UpdateTypes, DownloadTypes DEF DownloadInv, Crashes, ServerExits
<1>3. faults' \in 0..MaxFaults
  BY FaultsType DEF Crashes, ServerExits, Fault, DownloadInv
<1> QED BY <1>1, <1>2, <1>3, LostStep

\* A handler whose connection was cut reads for nobody.
LEMMA CutStep ==
    ASSUME DownloadInv, NEW w \in Workers, Cut(w)
    PROVE  DownloadInv'
<1>1. streams \in [Streams -> StreamType]
  BY DownloadTypes DEF DownloadInv
<1>2. PICK s \in Streams : streams' = [streams EXCEPT ![s].to = Nobody]
  BY DEF Cut
<1>3. /\ streams' \in [Streams -> StreamType]
      /\ \A t \in Streams : streams'[t] = streams[t] \/ streams'[t].to = Nobody
  BY <1>1, <1>2 DEF StreamType
<1>4. workers' \in [Workers -> WorkerType] /\ Complete' /\ Together' /\ Attempting'
  BY <1>3, StreamsMove DEF Cut
<1>5. faults' \in 0..MaxFaults
  BY FaultsType DEF Cut, Fault, DownloadInv
<1>6. TypeOK'
  BY <1>3, <1>4, <1>5, DownloadTypes, DownloadTypesNext, UpdateUnchanged DEF Cut, DownloadInv
<1> QED BY <1>4, <1>6 DEF DownloadInv

\* Another worker gets the job, or the source is another: what is open stays open.
LEMMA SourceSteps ==
    ASSUME DownloadInv, Replace \/ \E w \in Workers : Reassign(w)
    PROVE  DownloadInv'
<1>1. UNCHANGED <<updateVars, serverVars, workers>>
  BY DEF Replace, Reassign
<1>2. source' \in 0..MaxVersion /\ assigned' \in Workers
  BY DownloadTypes, DownloadConstants DEF Replace, Reassign, DownloadInv
<1>3. workers' \in [Workers -> WorkerType] /\ Complete' /\ Together' /\ Attempting'
  BY <1>1, StreamsMove DEF serverVars
<1>4. faults' \in 0..MaxFaults
  BY FaultsType DEF Replace, Reassign, Fault, DownloadInv
<1>5. TypeOK'
  BY <1>1, <1>2, <1>3, <1>4, DownloadTypes, DownloadTypesNext, UpdateUnchanged DEF serverVars, DownloadInv
<1> QED BY <1>3, <1>5 DEF DownloadInv

-----------------------------------------------------------------------------
(* The theorems *)

\* Nothing is downloaded in the beginning.
LEMMA DownloadInit == Init => DownloadInv
<1> SUFFICES ASSUME Init PROVE DownloadInv
  OBVIOUS
<1>1. Off \in WorkerType /\ Off.at = "off" /\ Off.attempts < MaxAttempts
  BY DownloadConstants DEF Off, WorkerType
<1>2. workers \in [Workers -> WorkerType] /\ \A w \in Workers : workers[w] = Off
  BY <1>1 DEF Init
<1>3. streams \in [Streams -> StreamType] /\ \A s \in Streams : streams[s] = Free
  BY FreeType DEF Init
<1>4. UpdateTypeOK
  BY ReleaseAssumption DEF Init, UpdateInit, UpdateTypeOK, Releases
<1>5. assigned \in Workers /\ source \in 0..MaxVersion /\ checksum \in Part /\ faults \in 0..MaxFaults
      /\ routine \in [at : {"select", "store", "maintenance"}, handed : Part]
  BY DownloadConstants DEF Init
<1>6. TypeOK
  BY <1>2, <1>3, <1>4, <1>5 DEF TypeOK, WorkerType, StreamType
<1>7. Complete /\ Together /\ Attempting
  BY <1>1, <1>2, <1>3, FreeType DEF Complete, Together, Attempting, ReadsFor
<1> QED BY <1>6, <1>7 DEF DownloadInv

\* Every step keeps the inductive invariant.
LEMMA DownloadNext == DownloadInv /\ [Next]_vars => DownloadInv'
<1> SUFFICES ASSUME DownloadInv, [Next]_vars PROVE DownloadInv'
  OBVIOUS
<1>1. ASSUME NEW w \in Workers, WorkerStep(w) PROVE DownloadInv'
  BY <1>1, BeginsStep, OpensStep, RefusesStep, ReceivedStep, ComparesStep, GivesUpStep DEF WorkerStep
<1>2. CASE Handlers \/ Routine \/ MaintenanceStarts
  BY <1>2, ReadsStep, ClosesStep, HandsStep, RoutineSteps DEF Handlers, Routine
<1>3. CASE Update \/ ServerExits \/ Release
  BY <1>3, UpdateSteps, EndSteps
<1>4. CASE Disturbance
  BY <1>4, EndSteps, CutStep, SourceSteps DEF Disturbance
<1>5. CASE UNCHANGED vars
  <2>1. workers' \in [Workers -> WorkerType] /\ Complete' /\ Together' /\ Attempting'
    BY <1>5, StreamsMove DEF vars, serverVars
  <2>2. TypeOK'
    BY <1>5, <2>1, DownloadTypes, DownloadTypesNext, UpdateUnchanged DEF vars, serverVars, DownloadInv
  <2> QED BY <2>1, <2>2 DEF DownloadInv
<1> QED BY <1>1, <1>2, <1>3, <1>4, <1>5 DEF Next

\* The inductive invariant holds whatever is cut, replaced or reassigned, and whenever the
\* server ends.
THEOREM DownloadInvariant == Spec => []DownloadInv
BY DownloadInit, DownloadNext, PTL DEF Spec

\* Files, checksums, attempts and versions have their types: in particular no handler and no
\* worker ever counts more of a file than there is (streams.go:121-134, downloadStep.go:64-148).
THEOREM TypeSafe == Spec => []TypeOK
<1>1. DownloadInv => TypeOK
  BY DEF DownloadInv
<1> QED BY <1>1, DownloadInvariant, PTL

\* A source that a worker goes on with is whole, although checksums of parts that were cut off
\* are kept for its path (downloadStep.go:115-132).
THEOREM AlwaysIntact == Spec => []Intact
<1>1. DownloadInv => Intact
  BY DEF DownloadInv, Complete, Intact
<1> QED BY <1>1, DownloadInvariant, PTL
=============================================================================
