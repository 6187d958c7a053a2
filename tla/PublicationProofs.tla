-------------------------- MODULE PublicationProofs -------------------------
(***************************************************************************)
(* Proofs about Publication, for any jobs, workers, files, names and       *)
(* disturbances: no file of the library is lost, a completion records what *)
(* it published, and only a review that writes back an old target loses    *)
(* the output of a completed job.                                          *)
(***************************************************************************)
EXTENDS Publication, TLAPS

\* A job that is queued may still be assigned, and so may the one under review,
\* which nobody queues meanwhile.
TurnsLeft ==
    /\ \A j \in Jobs : status[j] = "queued" => turn[j] < MaxTurns
    /\ \A r \in review : status[r.job] \in {"failed", "canceled"} /\ turn[r.job] < MaxTurns

\* handleEventMu: one completion at a time.
OneCompletion == \A g, h \in fin : g = h

\* What workers upload is never what others have put there.
UploadsOwn ==
    /\ \A k \in work \union net : k.content # Foreign
    /\ \A u \in uploads : u.file.content # Foreign /\ u.by.content # Foreign
    /\ \A j \in Jobs : staged[j] # NoFile => staged[j].content # Foreign

\* Between probe and link the staged file stays, and at the probed target stands
\* the probed video; others take away only what others had put there.
Probed(h) ==
    IF h.staged
    THEN staged[h.msg.job] # NoFile /\ staged[h.msg.job].content \in Videos
    ELSE \/ library[h.name] # NoFile /\ library[h.name].content \in Videos \ {Foreign}
         \/ /\ Foreign \in Videos
            /\ library[h.name] # NoFile => library[h.name].content = Foreign

\* What was linked has a second name until UpdateJob has recorded the first.
Linked(h) ==
    LET f == library[h.name]
    IN  IF h.staged
        THEN f # NoFile /\ f = staged[h.msg.job]
        ELSE h.undo => \/ f = NoFile
                       \/ f.content = Foreign
                       \/ \E m \in Names \ {h.name} : library[m] = f

FileInv ==
    /\ TypeOK /\ Lease!HeldByHolder /\ TurnsLeft /\ OneCompletion /\ UploadsOwn
    /\ \A h \in fin : /\ h.pc = "link" => Probed(h)
                      /\ h.pc = "update" => Linked(h)

-----------------------------------------------------------------------------
(* Lemmas about the operators of the model *)

\* Work at another stage is still work on the same assignment.
LEMMA StageType ==
    ASSUME NEW k \in Work, NEW s \in {"encode", "upload", "report"}
    PROVE  /\ [k EXCEPT !.stage = s] \in Work
           /\ [k EXCEPT !.stage = s].stage = s
           /\ [k EXCEPT !.stage = s].worker = k.worker
           /\ [k EXCEPT !.stage = s].job = k.job
           /\ [k EXCEPT !.stage = s].turn = k.turn
           /\ [k EXCEPT !.stage = s].content = k.content
  BY DEF Work

\* A job somebody holds is neither queued nor ended.
LEMMA HoldsHeld ==
    ASSUME TypeOK, Lease!HeldByHolder, NEW k \in Work, Holds(k)
    PROVE  k.job \in Jobs /\ status[k.job] \in {"assigned", "working"}
  BY OutputAssumption DEF TypeOK, Lease!HeldByHolder, Work, Holds

\* A link is made only under a name that is tried, and where it changes nothing or
\* nothing is.
LEMMA LinkNameFree ==
    ASSUME NEW names \in Seq(Names), NEW file, NEW n \in LinkName(names, file)
    PROVE  /\ \E i \in DOMAIN names : names[i] = n
           /\ n \in Names
           /\ library[n] \in {NoFile, file}
  BY DEF LinkName

\* What is linked is a video, and there are names to try for it.
LEMMA LinkedFile ==
    ASSUME FileInv, NEW h \in fin, h.pc = "link", Path(h) # NoFile
    PROVE  /\ Path(h) \in File
           /\ Path(h).content \in Videos
           /\ Outputs[h.msg.job][Path(h).content] \in Seq(Names)
<1>1. h.msg.job \in Jobs /\ h.name \in Names /\ h.staged \in BOOLEAN
  BY DEF FileInv, TypeOK, Work
<1>2. Path(h) \in File
  BY <1>1 DEF FileInv, TypeOK, Path
<1>3. Path(h).content \in Videos
  BY DEF FileInv, Probed, Path
<1> QED BY <1>1, <1>2, <1>3, OutputAssumption

-----------------------------------------------------------------------------
(* FileInv is inductive *)

\* Assignments and what comes of them keep the invariant of the files.
LEMMA LeaseKeepsFileInv ==
    ASSUME FileInv, LeaseStep
    PROVE  FileInv'
<1> USE DEF FileInv
<1>1. ASSUME NEW j \in Jobs, Queue(j) PROVE FileInv'
  BY <1>1 DEF TypeOK, TurnsLeft, OneCompletion, UploadsOwn, Probed, Linked, Queue, fileVars,
              Lease!Take, Lease!Unheld, Lease!HeldByHolder
<1>2. ASSUME NEW j \in Jobs, Cancel(j) PROVE FileInv'
  BY <1>2 DEF TypeOK, TurnsLeft, OneCompletion, UploadsOwn, Probed, Linked, Cancel, fileVars,
              Lease!Take, Lease!Unheld, Lease!HeldByHolder
<1>3. ASSUME NEW j \in Jobs, ReviewRead(j) PROVE FileInv'
  BY <1>3 DEF TypeOK, TurnsLeft, OneCompletion, UploadsOwn, Probed, Linked, ReviewRead,
              leaseVars, fileVars, Lease!HeldByHolder
<1>4. CASE ReviewCommit
  BY <1>4 DEF TypeOK, TurnsLeft, OneCompletion, UploadsOwn, Probed, Linked, ReviewCommit,
              Lease!Take, Lease!Unheld, Lease!HeldByHolder
<1>5. CASE ReviewAbort
  BY <1>5 DEF TypeOK, TurnsLeft, OneCompletion, UploadsOwn, Probed, Linked, ReviewAbort,
              leaseVars, fileVars, Lease!HeldByHolder
<1>6. ASSUME NEW w \in Workers, NEW j \in Jobs, Assign(w, j) PROVE FileInv'
  <2>1. /\ turn' \in [Jobs -> 0..MaxTurns]
        /\ turn'[j] \in 1..MaxTurns
        /\ \A i \in Jobs : i # j => turn'[i] = turn[i]
    BY <1>6, OutputAssumption DEF TypeOK, TurnsLeft, Assign
  <2>2. PICK c \in Contents \ {Foreign} :
          work' = work \union {[worker |-> w, job |-> j, turn |-> turn'[j], content |-> c,
                                stage |-> "encode"]}
    BY <1>6 DEF Assign
  <2>3. work' \subseteq Work /\ \A k \in work' : k.content # Foreign
    BY <2>1, <2>2 DEF TypeOK, UploadsOwn, Work
  <2>4. TypeOK' /\ UploadsOwn'
    BY <1>6, <2>1, <2>3 DEF TypeOK, UploadsOwn, Assign, Lease!Grant, fileVars
  <2>5. TurnsLeft' /\ Lease!HeldByHolder'
    BY <1>6, <2>1, OutputAssumption
       DEF TypeOK, TurnsLeft, Assign, Lease!Grant, Lease!HeldByHolder
  <2> QED BY <1>6, <2>4, <2>5 DEF OneCompletion, Probed, Linked, Assign, fileVars
<1>7. ASSUME NEW k \in work, Encode(k) PROVE FileInv'
  <2>1. k \in Work /\ k.content # Foreign
    BY DEF TypeOK, UploadsOwn
  <2>2. /\ [k EXCEPT !.stage = "upload"] \in Work
        /\ [k EXCEPT !.stage = "upload"].content # Foreign
    BY <2>1, StageType
  <2>3. work' \subseteq Work /\ \A i \in work' : i.content # Foreign
    BY <1>7, <2>2 DEF TypeOK, UploadsOwn, Encode
  <2>4. k.job \in Jobs /\ status[k.job] \in {"assigned", "working"}
    BY <1>7, <2>1, HoldsHeld DEF Encode
  <2>5. /\ status' = [status EXCEPT ![k.job] = "working"]
        /\ UNCHANGED <<holder, turn, uploads, net, fileVars, review, fin, finished>>
    BY <1>7 DEF Encode, Lease!Report
  <2>6. TypeOK' /\ UploadsOwn'
    BY <2>3, <2>4, <2>5 DEF TypeOK, UploadsOwn, fileVars
  <2>7. TurnsLeft' /\ Lease!HeldByHolder'
    BY <2>4, <2>5 DEF TypeOK, TurnsLeft, Lease!HeldByHolder
  <2> QED BY <2>5, <2>6, <2>7 DEF OneCompletion, Probed, Linked, fileVars
<1>8. ASSUME NEW k \in work, Fail(k) PROVE FileInv'
  <2>1. k.job \in Jobs /\ status[k.job] \in {"assigned", "working"}
    BY <1>8, HoldsHeld DEF TypeOK, Fail
  <2>2. /\ status' = [status EXCEPT ![k.job] = "failed"]
        /\ holder' = [holder EXCEPT ![k.job] = NoWorker]
        /\ work' = work \ {k}
        /\ UNCHANGED <<turn, uploads, net, fileVars, review, fin, finished>>
    BY <1>8 DEF Fail, Lease!Finish
  <2>3. TypeOK' /\ UploadsOwn'
    BY <2>1, <2>2 DEF TypeOK, UploadsOwn, fileVars, Lease!Unheld
  <2>4. TurnsLeft' /\ Lease!HeldByHolder'
    BY <2>1, <2>2 DEF TypeOK, TurnsLeft, Lease!HeldByHolder
  <2> QED BY <2>2, <2>3, <2>4 DEF OneCompletion, Probed, Linked, fileVars
<1> QED BY <1>1, <1>2, <1>3, <1>4, <1>5, <1>6, <1>7, <1>8 DEF LeaseStep

\* So does an upload, whoever's it is.
LEMMA UploadKeepsFileInv ==
    ASSUME FileInv, UploadStep
    PROVE  FileInv'
<1> USE DEF FileInv
<1>1. ASSUME NEW k \in work, UploadBegin(k) PROVE FileInv'
  <2>1. PICK i \in Inodes \ Used :
          uploads' = uploads \union
              {[file |-> [inode |-> i, content |-> k.content], by |-> k, waiting |-> TRUE]}
    BY <1>1 DEF UploadBegin
  <2>2. k \in Work /\ k.content # Foreign
    BY DEF TypeOK, UploadsOwn
  <2> DEFINE v == [file |-> [inode |-> i, content |-> k.content], by |-> k, waiting |-> TRUE]
  <2>3. /\ v \in [file : File, by : Work, waiting : BOOLEAN]
        /\ v.file.content # Foreign /\ v.by.content # Foreign
    BY <2>2 DEF Work, File
  <2> HIDE DEF v
  <2>4. /\ uploads' \subseteq [file : File, by : Work, waiting : BOOLEAN]
        /\ \A u \in uploads' : u.file.content # Foreign /\ u.by.content # Foreign
    BY <2>1, <2>3 DEF TypeOK, UploadsOwn, v
  <2>5. UNCHANGED <<leaseVars, work, net, fileVars, review, fin, finished>>
    BY <1>1 DEF UploadBegin
  <2> QED BY <2>4, <2>5 DEF TypeOK, TurnsLeft, OneCompletion, UploadsOwn, Probed, Linked,
                            leaseVars, fileVars, Lease!HeldByHolder
<1>2. ASSUME NEW k \in work, Report(k) PROVE FileInv'
  BY <1>2 DEF TypeOK, TurnsLeft, OneCompletion, UploadsOwn, Probed, Linked, Report,
              leaseVars, fileVars, Lease!HeldByHolder
<1>3. ASSUME NEW u \in uploads, UploadFails(u) PROVE FileInv'
  BY <1>3 DEF TypeOK, TurnsLeft, OneCompletion, UploadsOwn, Probed, Linked, UploadFails,
              leaseVars, fileVars, Lease!HeldByHolder
<1>4. ASSUME NEW u \in uploads, UploadAbandoned(u) PROVE FileInv'
  <2> DEFINE v == [u EXCEPT !.waiting = FALSE]
  <2>1. /\ uploads' = (uploads \ {u}) \union {v}
        /\ UNCHANGED <<leaseVars, work, net, fileVars, review, fin, finished>>
    BY <1>4 DEF UploadAbandoned
  <2>2. /\ v \in [file : File, by : Work, waiting : BOOLEAN]
        /\ v.file = u.file /\ v.by = u.by
    BY DEF TypeOK
  <2> HIDE DEF v
  <2>3. /\ uploads' \subseteq [file : File, by : Work, waiting : BOOLEAN]
        /\ \A i \in uploads' : i.file.content # Foreign /\ i.by.content # Foreign
    BY <2>1, <2>2 DEF TypeOK, UploadsOwn
  <2> QED BY <2>1, <2>3 DEF TypeOK, TurnsLeft, OneCompletion, UploadsOwn, Probed, Linked,
                            leaseVars, fileVars, Lease!HeldByHolder
<1>5. ASSUME NEW u \in uploads, UploadAccepted(u) PROVE FileInv'
  <2>1. /\ u.by \in Work /\ u.by.job \in Jobs /\ u.file \in File
        /\ u.by.content # Foreign /\ u.file.content # Foreign
    BY DEF TypeOK, UploadsOwn, Work
  <2>2. /\ [u.by EXCEPT !.stage = "report"] \in Work
        /\ [u.by EXCEPT !.stage = "report"].content # Foreign
    BY <2>1, StageType
  <2>3. work' \subseteq Work /\ \A k \in work' : k.content # Foreign
    BY <1>5, <2>2 DEF TypeOK, UploadsOwn, UploadAccepted
  <2>4. /\ staged' \in [Jobs -> File \union {NoFile}]
        /\ \A j \in Jobs : /\ staged'[j] # NoFile => staged'[j].content # Foreign
                           /\ staged[j] # NoFile => staged'[j] = staged[j]
    BY <1>5, <2>1, FileAssumption DEF TypeOK, UploadsOwn, UploadAccepted
  <2>5. /\ uploads' \subseteq uploads
        /\ UNCHANGED <<leaseVars, net, library, target, review, fin, finished>>
    BY <1>5 DEF UploadAccepted
  <2>6. TypeOK' /\ UploadsOwn'
    BY <2>3, <2>4, <2>5 DEF TypeOK, UploadsOwn, leaseVars
  <2>7. ASSUME NEW h \in fin
        PROVE  (h.pc = "link" => Probed(h)') /\ (h.pc = "update" => Linked(h)')
    <3>1. h.msg.job \in Jobs
      BY DEF TypeOK, Work
    <3> QED BY <2>4, <2>5, <3>1 DEF Probed, Linked
  <2> QED BY <2>5, <2>6, <2>7 DEF TurnsLeft, OneCompletion, leaseVars, Lease!HeldByHolder
<1>6. ASSUME NEW u \in uploads, UploadRefused(u) PROVE FileInv'
  BY <1>6 DEF TypeOK, TurnsLeft, OneCompletion, UploadsOwn, Probed, Linked, UploadRefused,
              leaseVars, fileVars, Lease!HeldByHolder
<1>7. ASSUME NEW w \in Workers, Crash(w) PROVE FileInv'
  <2> DEFINE mine == {k \in work \union net : k.worker = w /\ k.stage # "encode"}
             back(k) == [k EXCEPT !.stage = "upload"]
             left(u) == [u EXCEPT !.waiting = @ /\ u.by.worker # w]
  <2>1. /\ work' = (work \ mine) \union {back(k) : k \in mine}
        /\ net' = net \ mine
        /\ uploads' = {left(u) : u \in uploads}
        /\ UNCHANGED <<leaseVars, fileVars, review, fin, finished>>
    BY <1>7 DEF Crash
  <2>2. \A k \in mine : back(k) \in Work /\ back(k).content # Foreign
    BY StageType DEF TypeOK, UploadsOwn
  <2>3. \A u \in uploads : /\ left(u) \in [file : File, by : Work, waiting : BOOLEAN]
                           /\ left(u).file = u.file /\ left(u).by = u.by
    BY DEF TypeOK
  <2>4. mine \subseteq work \union net
    OBVIOUS
  <2> HIDE DEF mine, back, left
  <2>5. /\ work' \subseteq Work /\ net' \subseteq Work
        /\ uploads' \subseteq [file : File, by : Work, waiting : BOOLEAN]
        /\ \A k \in work' \union net' : k.content # Foreign
        /\ \A u \in uploads' : u.file.content # Foreign /\ u.by.content # Foreign
    BY <2>1, <2>2, <2>3 DEF TypeOK, UploadsOwn
  <2> QED BY <2>1, <2>5 DEF TypeOK, TurnsLeft, OneCompletion, UploadsOwn, Probed, Linked,
                            leaseVars, fileVars, Lease!HeldByHolder
<1> QED BY <1>1, <1>2, <1>3, <1>4, <1>5, <1>6, <1>7 DEF UploadStep

\* So does every step of a completion.
LEMMA CompletionKeepsFileInv ==
    ASSUME FileInv, CompletionStep
    PROVE  FileInv'
<1> USE DEF FileInv
<1>1. ASSUME NEW k \in net, CompleteProbe(k) PROVE FileInv'
  <2> DEFINE h == [msg |-> k, pc |-> "link", staged |-> staged[k.job] # NoFile,
                   name |-> target[k.job], undo |-> FALSE]
  <2>1. /\ fin' = {h} /\ Path(h) # NoFile /\ Path(h).content \in Videos
        /\ UNCHANGED <<leaseVars, work, uploads, net, fileVars, review, finished>>
    BY <1>1 DEF CompleteProbe
  <2>2. k \in Work /\ k.job \in Jobs
    BY DEF TypeOK, Work
  <2>3. /\ h.msg = k /\ h.pc = "link" /\ h.name = target[k.job]
        /\ h.staged = (staged[k.job] # NoFile)
        /\ h \in [msg : Work, pc : {"link", "update", "clean", "record"},
                  staged : BOOLEAN, name : Names, undo : BOOLEAN]
    BY <2>2 DEF TypeOK
  <2> HIDE DEF h
  <2>4. Probed(h)
    BY <2>1, <2>3 DEF Path, Probed
  <2>5. TypeOK' /\ OneCompletion' /\ UploadsOwn'
    BY <2>1, <2>3 DEF TypeOK, OneCompletion, UploadsOwn, leaseVars, fileVars
  <2> QED BY <2>1, <2>3, <2>4, <2>5 DEF TurnsLeft, Probed, leaseVars, fileVars, Lease!HeldByHolder
<1>2. CASE CompleteLink
  <2>1. PICK h \in fin : CompleteLink!(h)
    BY <1>2 DEF CompleteLink
  <2>2. /\ Path(h) \in File /\ Path(h).content \in Videos
        /\ Outputs[h.msg.job][Path(h).content] \in Seq(Names)
    BY <2>1, LinkedFile
  <2>3. PICK n \in LinkName(Outputs[h.msg.job][Path(h).content], Path(h)) :
              /\ library' = [library EXCEPT ![n] = Path(h)]
              /\ fin' = {[h EXCEPT !.pc = "update", !.name = n,
                                   !.undo = h.staged \/ n # h.name]}
    BY <2>1
  <2>4. n \in Names
    BY <2>2, <2>3, LinkNameFree
  <2> DEFINE g == [h EXCEPT !.pc = "update", !.name = n, !.undo = h.staged \/ n # h.name]
  <2>5. /\ g \in [msg : Work, pc : {"link", "update", "clean", "record"},
                  staged : BOOLEAN, name : Names, undo : BOOLEAN]
        /\ g.msg = h.msg /\ g.pc = "update" /\ g.staged = h.staged /\ g.name = n
        /\ g.undo = (h.staged \/ n # h.name)
        /\ h.msg.job \in Jobs /\ h.name \in Names /\ h.staged \in BOOLEAN
    BY <2>4 DEF TypeOK, Work
  <2>6. fin' = {g}
    BY <2>3
  <2> HIDE DEF g
  <2>7. /\ library' \in [Names -> File \union {NoFile}] /\ library'[n] = Path(h)
        /\ \A m \in Names : m # n => library'[m] = library[m]
        /\ UNCHANGED <<leaseVars, work, uploads, net, staged, target, review, finished>>
    BY <2>1, <2>2, <2>3, <2>4 DEF TypeOK
  <2>8. Linked(g)'
    <3>1. CASE h.staged
      BY <2>1, <2>5, <2>7, <3>1 DEF Linked, Path
    <3>2. CASE ~h.staged
      BY <2>5, <2>7, <3>2 DEF Linked, Path
    <3> QED BY <3>1, <3>2
  <2>9. TypeOK' /\ UploadsOwn'
    BY <2>5, <2>6, <2>7 DEF TypeOK, UploadsOwn, leaseVars
  <2> QED BY <2>5, <2>6, <2>7, <2>8, <2>9 DEF TurnsLeft, OneCompletion, leaseVars,
                                               Lease!HeldByHolder
<1>3. CASE CompleteFails
  BY <1>3 DEF TypeOK, TurnsLeft, OneCompletion, UploadsOwn, CompleteFails,
              leaseVars, fileVars, Lease!HeldByHolder
<1>4. CASE CompleteUpdate
  <2>1. PICK h \in fin : CompleteUpdate!(h)
    BY <1>4 DEF CompleteUpdate
  <2>2. h.name \in Names
    BY DEF TypeOK
  <2> DEFINE g == [h EXCEPT !.pc = "clean"]
  <2>3. /\ g \in [msg : Work, pc : {"link", "update", "clean", "record"},
                  staged : BOOLEAN, name : Names, undo : BOOLEAN]
        /\ g.pc = "clean"
    BY DEF TypeOK
  <2> HIDE DEF g
  <2>4. fin' = {g} /\ target' \in [Jobs -> Names]
        /\ UNCHANGED <<leaseVars, work, uploads, net, staged, library, review, finished>>
    BY <2>1, <2>2 DEF TypeOK, g
  <2>5. TypeOK'
    BY <2>3, <2>4 DEF TypeOK, leaseVars
  <2> QED BY <2>3, <2>4, <2>5 DEF TurnsLeft, OneCompletion, UploadsOwn, leaseVars,
                                  Lease!HeldByHolder
<1>5. CASE CompleteUpdateFails
  BY <1>5 DEF TypeOK, TurnsLeft, OneCompletion, UploadsOwn, CompleteUpdateFails,
              leaseVars, Lease!HeldByHolder
<1>6. CASE CompleteClean
  <2>1. PICK h \in fin : CompleteClean!(h)
    BY <1>6 DEF CompleteClean
  <2> DEFINE g == [h EXCEPT !.pc = "record"]
  <2>2. /\ g \in [msg : Work, pc : {"link", "update", "clean", "record"},
                  staged : BOOLEAN, name : Names, undo : BOOLEAN]
        /\ g.pc = "record"
    BY DEF TypeOK
  <2> HIDE DEF g
  <2>3. /\ fin' = {g}
        /\ UNCHANGED <<leaseVars, work, uploads, net, library, target, review, finished>>
    BY <2>1 DEF g
  <2>4. /\ staged' \in [Jobs -> File \union {NoFile}]
        /\ \A j \in Jobs : staged'[j] = staged[j] \/ staged'[j] = NoFile
    BY <2>1 DEF TypeOK
  <2>5. TypeOK'
    BY <2>2, <2>3, <2>4 DEF TypeOK, leaseVars
  <2>6. UploadsOwn'
    BY <2>3, <2>4 DEF UploadsOwn
  <2>7. TurnsLeft' /\ OneCompletion' /\ Lease!HeldByHolder'
    BY <2>3 DEF TurnsLeft, OneCompletion, leaseVars, Lease!HeldByHolder
  <2> QED BY <2>2, <2>3, <2>5, <2>6, <2>7
<1>7. CASE CompleteRecord
  <2>1. PICK h \in fin : CompleteRecord!(h)
    BY <1>7 DEF CompleteRecord
  <2>2. h.msg \in Work
    BY DEF TypeOK
  <2>3. h.msg.job \in Jobs /\ status[h.msg.job] \in {"assigned", "working"}
    BY <2>1, <2>2, HoldsHeld
  <2>4. /\ holder' = [holder EXCEPT ![h.msg.job] = NoWorker]
        /\ status' = [status EXCEPT ![h.msg.job] = "completed"]
        /\ finished' = finished \union {Completion(h.msg)}
        /\ net' \subseteq net /\ fin' = {}
        /\ UNCHANGED <<turn, work, uploads, fileVars, review>>
    BY <2>1 DEF Lease!Finish
  <2>5. Completion(h.msg) \in Message
    BY <2>2 DEF Completion, Message, Work
  <2>6. TypeOK' /\ UploadsOwn'
    BY <2>3, <2>4, <2>5 DEF TypeOK, UploadsOwn, fileVars
  <2>7. TurnsLeft' /\ Lease!HeldByHolder'
    BY <2>3, <2>4 DEF TypeOK, TurnsLeft, Lease!HeldByHolder
  <2> QED BY <2>4, <2>6, <2>7 DEF OneCompletion
<1>8. CASE CompleteRepeated
  BY <1>8 DEF TypeOK, TurnsLeft, OneCompletion, UploadsOwn, CompleteRepeated,
              leaseVars, fileVars, Lease!HeldByHolder
<1>9. CASE CompleteRejected
  BY <1>9 DEF TypeOK, TurnsLeft, OneCompletion, UploadsOwn, CompleteRejected,
              leaseVars, fileVars, Lease!HeldByHolder
<1> QED BY <1>1, <1>2, <1>3, <1>4, <1>5, <1>6, <1>7, <1>8, <1>9 DEF CompletionStep

\* What others do to a name.
LEMMA ForeignNames ==
    ASSUME TypeOK, NEW n \in Names, ForeignFile(n)
    PROVE  /\ library' \in [Names -> File \union {NoFile}]
           /\ \A m \in Names : m # n => library'[m] = library[m]
           /\ library[n] = NoFile \/ library[n].content = Foreign
           /\ library'[n] = NoFile \/ library'[n].content = Foreign
<1>1. CASE library[n] = NoFile /\ \E i \in Inodes \ Used :
                library' = [library EXCEPT ![n] = [inode |-> i, content |-> Foreign]]
  <2>1. PICK i \in Inodes \ Used :
          library' = [library EXCEPT ![n] = [inode |-> i, content |-> Foreign]]
    BY <1>1
  <2>2. [inode |-> i, content |-> Foreign] \in File
    BY OutputAssumption DEF File
  <2> QED BY <1>1, <2>1, <2>2 DEF TypeOK
<1>2. CASE library[n].content = Foreign /\ library' = [library EXCEPT ![n] = NoFile]
  BY <1>2 DEF TypeOK
<1> QED BY <1>1, <1>2 DEF ForeignFile

\* So do crashes, and the files of others.
LEMMA EnvironmentKeepsFileInv ==
    ASSUME FileInv, EnvironmentStep
    PROVE  FileInv'
<1> USE DEF FileInv
<1>1. CASE Restart
  BY <1>1 DEF TypeOK, TurnsLeft, OneCompletion, UploadsOwn, Restart,
              leaseVars, fileVars, Lease!HeldByHolder
<1>2. ASSUME NEW n \in Names, ForeignFile(n) PROVE FileInv'
  <2>1. /\ library' \in [Names -> File \union {NoFile}]
        /\ \A m \in Names : m # n => library'[m] = library[m]
        /\ library[n] = NoFile \/ library[n].content = Foreign
        /\ library'[n] = NoFile \/ library'[n].content = Foreign
    BY <1>2, ForeignNames
  <2>2. UNCHANGED <<leaseVars, work, uploads, net, staged, target, review, fin, finished>>
    BY <1>2 DEF ForeignFile
  <2>3. ASSUME NEW h \in fin
        PROVE  (h.pc = "link" => Probed(h)') /\ (h.pc = "update" => Linked(h)')
    <3>1. h.name \in Names /\ h.msg.job \in Jobs
      BY DEF TypeOK, Work
    <3>2. h.pc = "link" => Probed(h)'
      BY <2>1, <2>2, <3>1 DEF Probed
    <3>3. h.pc = "update" => Linked(h)'
      <4>1. CASE h.staged
        BY <2>1, <2>2, <3>1, <4>1 DEF Linked, UploadsOwn
      <4>2. CASE ~h.staged
        BY <2>1, <2>2, <3>1, <4>2 DEF Linked
      <4> QED BY <4>1, <4>2
    <3> QED BY <3>2, <3>3
  <2>4. TypeOK' /\ UploadsOwn'
    BY <2>1, <2>2 DEF TypeOK, UploadsOwn, leaseVars
  <2> QED BY <2>2, <2>3, <2>4 DEF TurnsLeft, OneCompletion, leaseVars, Lease!HeldByHolder
<1> QED BY <1>1, <1>2 DEF EnvironmentStep

\* So does every step.
LEMMA FileInvStep ==
    ASSUME FileInv, [Next]_vars
    PROVE  FileInv'
<1>1. CASE UNCHANGED vars
  BY <1>1 DEF FileInv, TypeOK, TurnsLeft, OneCompletion, UploadsOwn, Probed, Linked,
              vars, leaseVars, fileVars, Lease!HeldByHolder
<1> QED BY <1>1, LeaseKeepsFileInv, UploadKeepsFileInv, CompletionKeepsFileInv,
           EnvironmentKeepsFileInv DEF Next

\* Whatever fails, is repeated or crashes: what is in flight stays typed, and a file
\* that was linked has another name until its own is recorded.
THEOREM FileInvariant == Spec => []FileInv
<1>1. Init => FileInv
  BY OutputAssumption DEF Init, Lease!Init, FileInv, TypeOK, TurnsLeft, OneCompletion, UploadsOwn,
                          Lease!HeldByHolder
<1> QED BY <1>1, FileInvStep, PTL DEF Spec

\* Type correctness of uploads and completions.
THEOREM TypeSafe == Spec => []TypeOK
  BY FileInvariant, PTL DEF FileInv

-----------------------------------------------------------------------------
(* What is known of assignments and of outputs *)

\* Where an assignment is known.
Copies == work \union net \union {u.by : u \in uploads} \union {h.msg : h \in fin}

\* Assignments are of the past or present, and whoever sends a completion has come
\* to the report.
CopiesKnown ==
    /\ \A k \in Copies : k.turn <= turn[k.job]
    /\ \A k \in net : k.stage = "report"
    /\ \A h \in fin : h.msg.stage = "report"
    /\ \A u \in uploads : u.by.stage = "upload"

\* A file that a worker encoded has the name n.
Ours(n) == library[n] # NoFile /\ library[n].content # Foreign

-----------------------------------------------------------------------------
(* No file of the library is lost *)

\* What a step of a completion takes out of the library has another name.
LEMMA LibrarySteps ==
    ASSUME FileInv, [Next]_vars, NEW n \in Names,
           fin' # fin, library[n] # NoFile, library'[n] # library[n]
    PROVE  /\ library'[n] = NoFile
           /\ \/ \E j \in Jobs : staged'[j] = library[n]
              \/ \E m \in Names : library'[m] = library[n]
              \/ library[n].content = Foreign /\ \E h \in fin : ~h.staged
<1> USE DEF FileInv
<1>1. ~CompleteLink
  <2>1. SUFFICES ASSUME NEW h \in fin, CompleteLink!(h) PROVE FALSE
    BY DEF CompleteLink
  <2>2. Outputs[h.msg.job][Path(h).content] \in Seq(Names)
    BY <2>1, LinkedFile
  <2>3. PICK m \in LinkName(Outputs[h.msg.job][Path(h).content], Path(h)) :
              library' = [library EXCEPT ![m] = Path(h)]
    BY <2>1
  <2>4. m \in Names /\ library[m] \in {NoFile, Path(h)}
    BY <2>2, <2>3, LinkNameFree
  <2> QED BY <2>3, <2>4 DEF TypeOK
<1>2. CompleteUpdateFails
  BY <1>1 DEF Next, vars, LeaseStep, Queue, Cancel, ReviewRead, Assign, Encode, Fail,
              ReviewCommit, ReviewAbort, UploadStep, UploadBegin, Report, UploadFails,
              UploadAbandoned, UploadAccepted, UploadRefused, Crash, CompletionStep,
              CompleteProbe, CompleteFails, CompleteUpdate, CompleteClean, CompleteRecord,
              CompleteRepeated, CompleteRejected, EnvironmentStep, Restart, ForeignFile, fileVars
<1>3. PICK h \in fin : CompleteUpdateFails!(h)
  BY <1>2 DEF CompleteUpdateFails
<1>4. /\ h.undo /\ n = h.name
      /\ library' = [library EXCEPT ![n] = NoFile]
  BY <1>3 DEF TypeOK
<1>5. Linked(h) /\ h.msg.job \in Jobs /\ staged' = staged
  BY <1>3 DEF TypeOK, Work
<1>6. library'[n] = NoFile /\ \A m \in Names \ {n} : library'[m] = library[m]
  BY <1>4 DEF TypeOK
<1> QED BY <1>4, <1>5, <1>6 DEF Linked

\* The server overwrites no file of the library, and no rollback removes the last
\* name of a file that a worker encoded.
THEOREM LibraryFilesKept == Spec => LibraryKept
<1>1. FileInv /\ [Next]_vars =>
         [\A n \in Names :
            fin' # fin /\ library[n] # NoFile /\ library'[n] # library[n] =>
              /\ library'[n] = NoFile
              /\ \/ \E j \in Jobs : staged'[j] = library[n]
                 \/ \E m \in Names : library'[m] = library[n]
                 \/ library[n].content = Foreign /\ \E h \in fin : ~h.staged]_vars
  BY LibrarySteps
<1> QED BY <1>1, FileInvariant, PTL DEF Spec, LibraryKept

-----------------------------------------------------------------------------
(* Who holds a job, and what is known of assignments, from step to step *)

\* A worker holds the job as before, or nobody does, or it was assigned anew.
LEMMA LeaseMoves ==
    ASSUME FileInv, [Next]_vars, NEW j \in Jobs
    PROVE  /\ turn[j] \in Nat /\ turn'[j] \in Nat /\ turn[j] <= turn'[j]
           /\ \/ holder'[j] = holder[j] /\ turn'[j] = turn[j]
              \/ holder'[j] = NoWorker
              \/ turn'[j] = turn[j] + 1
           /\ status'[j] = "completed" =>
                 \/ status[j] = "completed"
                 \/ \E h \in fin : h.msg.job = j /\ Holds(h.msg)
<1> USE OutputAssumption DEF FileInv, TypeOK
<1> DEFINE Moves == /\ turn[j] \in Nat /\ turn'[j] \in Nat /\ turn[j] <= turn'[j]
                    /\ \/ holder'[j] = holder[j] /\ turn'[j] = turn[j]
                       \/ holder'[j] = NoWorker
                       \/ turn'[j] = turn[j] + 1
                    /\ status'[j] = "completed" =>
                          \/ status[j] = "completed"
                          \/ \E h \in fin : h.msg.job = j /\ Holds(h.msg)
<1>1. ASSUME NEW i \in Jobs, Queue(i) \/ Cancel(i) PROVE Moves
  BY <1>1 DEF Queue, Cancel, Lease!Take
<1>2. ASSUME ReviewCommit PROVE Moves
  BY <1>2 DEF ReviewCommit, Lease!Take
<1>3. ASSUME NEW w \in Workers, NEW i \in Jobs, Assign(w, i) PROVE Moves
  BY <1>3 DEF Assign, Lease!Grant
<1>4. ASSUME NEW k \in work, Encode(k) \/ Fail(k) PROVE Moves
  BY <1>4 DEF Encode, Fail, Lease!Report, Lease!Finish, Work
<1>5. ASSUME CompleteRecord PROVE Moves
  BY <1>5 DEF CompleteRecord, Lease!Finish, Work
<1>6. ASSUME UNCHANGED leaseVars PROVE Moves
  BY <1>6 DEF leaseVars
<1>7. \/ \E i \in Jobs : Queue(i) \/ Cancel(i) \/ \E w \in Workers : Assign(w, i)
      \/ \E k \in work : Encode(k) \/ Fail(k)
      \/ ReviewCommit \/ CompleteRecord \/ UNCHANGED leaseVars
  BY DEF Next, vars, LeaseStep, ReviewRead, ReviewAbort, UploadStep, UploadBegin, Report,
         UploadFails, UploadAbandoned, UploadAccepted, UploadRefused, Crash, CompletionStep,
         CompleteProbe, CompleteLink, CompleteFails, CompleteUpdate, CompleteUpdateFails,
         CompleteClean, CompleteRepeated, CompleteRejected, EnvironmentStep, Restart, ForeignFile
<1> QED BY <1>1, <1>2, <1>3, <1>4, <1>5, <1>6, <1>7

\* The same assignment, at whatever stage.
SameTurn(i, k) == i.worker = k.worker /\ i.job = k.job /\ i.turn = k.turn

\* Where an assignment is known after a step, it was before, unless it is new.  It
\* comes to its report with an upload that is staged.
ComesFrom(k) ==
    \/ k.stage = "encode" /\ k.turn = turn'[k.job]
    \/ \E i \in Copies :
          /\ SameTurn(i, k)
          /\ k.stage = "report" => i.stage = "report" \/ staged'[k.job] # NoFile

\* Where an assignment is known, it is one of a worker for a job, at a stage.
LEMMA CopiesType ==
    ASSUME TypeOK
    PROVE  /\ Copies \subseteq Work
           /\ \A k \in Work : /\ k.worker \in Workers /\ k.job \in Jobs /\ k.turn \in Nat
                              /\ k.stage \in {"encode", "upload", "report"}
  BY OutputAssumption DEF TypeOK, Copies, Work

\* They are so after the step as well.
LEMMA CopiesTypeNext ==
    ASSUME FileInv, [Next]_vars
    PROVE  Copies' \subseteq Work
<1>1. TypeOK'
  BY FileInvStep DEF FileInv
<1> QED BY <1>1 DEF TypeOK, Copies

\* What a completion that goes on finalizes is the same.
LEMMA FinMessage ==
    ASSUME FileInv, CompleteLink \/ CompleteUpdate \/ CompleteClean
    PROVE  /\ \A g \in fin' : \E h \in fin : g.msg = h.msg
           /\ UNCHANGED <<leaseVars, work, uploads, net>>
  BY DEF FileInv, TypeOK, CompleteLink, CompleteUpdate, CompleteClean

\* Where an assignment is known after a step, it comes from where it was before.
LEMMA CopiesFrom ==
    ASSUME FileInv, CopiesKnown, [Next]_vars, NEW k \in Copies'
    PROVE  ComesFrom(k)
<1> USE DEF FileInv
<1>1. ASSUME NEW i \in Copies, i = k PROVE ComesFrom(k)
  BY <1>1 DEF ComesFrom, SameTurn
<1>2. ASSUME NEW w \in Workers, NEW j \in Jobs, Assign(w, j) PROVE ComesFrom(k)
  <2>1. PICK c \in Contents :
          work' = work \union {[worker |-> w, job |-> j, turn |-> turn'[j], content |-> c,
                                stage |-> "encode"]}
    BY <1>2 DEF Assign
  <2> DEFINE new == [worker |-> w, job |-> j, turn |-> turn'[j], content |-> c,
                     stage |-> "encode"]
  <2>2. new.stage = "encode" /\ new.turn = turn'[new.job]
    OBVIOUS
  <2> HIDE DEF new
  <2>3. k \in Copies \/ k = new
    BY <1>2, <2>1 DEF Assign, Copies, new
  <2> QED BY <1>1, <2>2, <2>3 DEF ComesFrom
<1>3. ASSUME NEW i \in work, Encode(i) PROVE ComesFrom(k)
  <2>1. i \in Work /\ i \in Copies
    BY DEF TypeOK, Copies
  <2>2. k \in Copies \/ k = [i EXCEPT !.stage = "upload"]
    BY <1>3 DEF Encode, Copies
  <2>3. fin' = {}
    BY <1>3 DEF Encode
  <2>4. ASSUME k = [i EXCEPT !.stage = "upload"] PROVE SameTurn(i, k) /\ k.stage = "upload"
    BY <2>1, <2>4, StageType DEF SameTurn
  <2> QED BY <1>1, <2>1, <2>2, <2>3, <2>4 DEF ComesFrom
<1>4. ASSUME NEW i \in work, UploadBegin(i) PROVE ComesFrom(k)
  <2>1. PICK a \in Inodes :
          uploads' = uploads \union
              {[file |-> [inode |-> a, content |-> i.content], by |-> i, waiting |-> TRUE]}
    BY <1>4 DEF UploadBegin
  <2> DEFINE u == [file |-> [inode |-> a, content |-> i.content], by |-> i, waiting |-> TRUE]
  <2>2. u.by = i
    OBVIOUS
  <2> HIDE DEF u
  <2>3. uploads' = uploads \union {u} /\ UNCHANGED <<work, net, fin>>
    BY <1>4, <2>1 DEF UploadBegin, u
  <2>4. k \in Copies
    BY <2>2, <2>3 DEF Copies
  <2> QED BY <1>1, <2>4
<1>5. ASSUME NEW u \in uploads, UploadAbandoned(u) PROVE ComesFrom(k)
  <2>1. [u EXCEPT !.waiting = FALSE].by = u.by
    BY DEF TypeOK
  <2>2. k \in Copies
    BY <1>5, <2>1 DEF UploadAbandoned, Copies
  <2> QED BY <1>1, <2>2
<1>6. ASSUME NEW u \in uploads, UploadAccepted(u) PROVE ComesFrom(k)
  <2>1. u.by \in Work /\ u.by \in Copies /\ u.by.job \in Jobs /\ u.file \in File
        /\ u.by.stage = "upload"
    BY DEF TypeOK, Copies, CopiesKnown, Work
  <2>2. k \in Copies \/ k = [u.by EXCEPT !.stage = "report"]
    BY <1>6 DEF UploadAccepted, Copies
  <2>3. staged'[u.by.job] # NoFile
    BY <1>6, <2>1, FileAssumption DEF UploadAccepted, TypeOK
  <2>4. ASSUME k = [u.by EXCEPT !.stage = "report"] PROVE SameTurn(u.by, k) /\ k.job = u.by.job
    BY <2>1, <2>4, StageType DEF SameTurn
  <2> QED BY <1>1, <2>1, <2>2, <2>3, <2>4 DEF ComesFrom
<1>7. ASSUME NEW i \in work, Report(i) PROVE ComesFrom(k)
  <2>1. k \in Copies
    BY <1>7 DEF Report, Copies
  <2> QED BY <1>1, <2>1
<1>8. ASSUME NEW w \in Workers, Crash(w) PROVE ComesFrom(k)
  <2> DEFINE mine == {i \in work \union net : i.worker = w /\ i.stage # "encode"}
             back(i) == [i EXCEPT !.stage = "upload"]
             left(u) == [u EXCEPT !.waiting = @ /\ u.by.worker # w]
  <2>1. /\ work' = (work \ mine) \union {back(i) : i \in mine}
        /\ net' = net \ mine
        /\ uploads' = {left(u) : u \in uploads}
        /\ fin' = fin
    BY <1>8 DEF Crash
  <2>2. \A i \in mine : i \in Copies /\ i \in Work /\ i.stage # "encode"
    BY DEF TypeOK, Copies
  <2>3. \A i \in mine : SameTurn(i, back(i)) /\ back(i).stage = "upload"
    BY <2>2, StageType DEF SameTurn
  <2>4. \A u \in uploads : left(u).by = u.by
    BY DEF TypeOK
  <2> HIDE DEF mine, back, left
  <2>5. k \in Copies \/ \E i \in mine : k = back(i)
    BY <2>1, <2>4 DEF Copies
  <2> QED BY <1>1, <2>2, <2>3, <2>5 DEF ComesFrom
<1>9. ASSUME NEW i \in net, CompleteProbe(i) PROVE ComesFrom(k)
  <2>1. fin' = {[msg |-> i, pc |-> "link", staged |-> staged[i.job] # NoFile,
                 name |-> target[i.job], undo |-> FALSE]}
    BY <1>9 DEF CompleteProbe
  <2>2. \A h \in fin' : h.msg = i
    BY <2>1
  <2>3. k \in Copies
    BY <1>9, <2>2 DEF CompleteProbe, Copies
  <2> QED BY <1>1, <2>3
<1>10. ASSUME CompleteLink \/ CompleteUpdate \/ CompleteClean PROVE ComesFrom(k)
  <2>1. k \in Copies
    BY <1>10, FinMessage DEF Copies
  <2> QED BY <1>1, <2>1
<1>11. ASSUME work' \subseteq work, uploads' \subseteq uploads, net' \subseteq net,
              fin' \subseteq fin
       PROVE  ComesFrom(k)
  <2>1. k \in Copies
    BY <1>11 DEF Copies
  <2> QED BY <1>1, <2>1
<1>12. \/ \E w \in Workers : \/ Crash(w)
                             \/ \E j \in Jobs : Assign(w, j)
       \/ \E i \in work : Encode(i) \/ UploadBegin(i) \/ Report(i)
       \/ \E u \in uploads : UploadAbandoned(u) \/ UploadAccepted(u)
       \/ \E i \in net : CompleteProbe(i)
       \/ CompleteLink \/ CompleteUpdate \/ CompleteClean
       \/ /\ work' \subseteq work /\ uploads' \subseteq uploads /\ net' \subseteq net
          /\ fin' \subseteq fin
  BY DEF Next, vars, LeaseStep, Queue, Cancel, ReviewRead, Fail, ReviewCommit, ReviewAbort,
         UploadStep, UploadFails, UploadRefused, CompletionStep, CompleteFails,
         CompleteUpdateFails, CompleteRecord, CompleteRepeated, CompleteRejected,
         EnvironmentStep, Restart, ForeignFile
<1> QED BY <1>2, <1>3, <1>4, <1>5, <1>6, <1>7, <1>8, <1>9, <1>10, <1>11, <1>12

\* Every step keeps what is known of the assignments.
LEMMA CopiesKnownStep ==
    ASSUME FileInv, CopiesKnown, [Next]_vars
    PROVE  CopiesKnown'
<1>1. Copies \subseteq Work /\ Copies' \subseteq Work
  BY CopiesType, CopiesTypeNext DEF FileInv
<1>2. ASSUME NEW k \in Copies' PROVE k.turn <= turn'[k.job]
  <2>1. k.job \in Jobs /\ k.turn \in Nat
    BY <1>1, CopiesType DEF FileInv
  <2>2. turn[k.job] \in Nat /\ turn'[k.job] \in Nat /\ turn[k.job] <= turn'[k.job]
    BY <2>1, LeaseMoves
  <2>3. k.turn = turn'[k.job] \/ k.turn <= turn[k.job]
    BY CopiesFrom DEF ComesFrom, SameTurn, CopiesKnown
  <2> QED BY <2>1, <2>2, <2>3
<1>3. \A k \in net' : k.stage = "report"
  BY DEF CopiesKnown, Next, vars, LeaseStep, Queue, Cancel, ReviewRead, Assign, Encode, Fail,
         ReviewCommit, ReviewAbort, UploadStep, UploadBegin, Report, UploadFails,
         UploadAbandoned, UploadAccepted, UploadRefused, Crash, CompletionStep,
         CompleteProbe, CompleteLink, CompleteFails, CompleteUpdate, CompleteUpdateFails,
         CompleteClean, CompleteRecord, CompleteRepeated, CompleteRejected,
         EnvironmentStep, Restart, ForeignFile
<1>4. \A h \in fin' : h.msg.stage = "report"
  <2>1. ASSUME NEW k \in net, CompleteProbe(k) PROVE \A h \in fin' : h.msg = k
    BY <2>1 DEF CompleteProbe
  <2>2. \/ \E k \in net : CompleteProbe(k)
        \/ CompleteLink \/ CompleteUpdate \/ CompleteClean
        \/ fin' \subseteq fin
    BY DEF Next, vars, LeaseStep, Queue, Cancel, ReviewRead, Assign, Encode, Fail,
           ReviewCommit, ReviewAbort, UploadStep, UploadBegin, Report, UploadFails,
           UploadAbandoned, UploadAccepted, UploadRefused, Crash, CompletionStep,
           CompleteFails, CompleteUpdateFails, CompleteRecord, CompleteRepeated,
           CompleteRejected, EnvironmentStep, Restart, ForeignFile
  <2> QED BY <2>1, <2>2, FinMessage DEF CopiesKnown
<1>5. \A v \in uploads' : v.by.stage = "upload"
  <2>1. ASSUME NEW k \in work, UploadBegin(k), NEW v \in uploads'
        PROVE  v \in uploads \/ v.by.stage = "upload"
    BY <2>1 DEF UploadBegin
  <2>2. ASSUME NEW u \in uploads, UploadAbandoned(u), NEW v \in uploads'
        PROVE  v \in uploads \/ v.by = u.by
    <3>1. [u EXCEPT !.waiting = FALSE].by = u.by
      BY DEF FileInv, TypeOK
    <3> QED BY <2>2, <3>1 DEF UploadAbandoned
  <2>3. ASSUME NEW w \in Workers, Crash(w), NEW v \in uploads'
        PROVE  \E u \in uploads : v.by = u.by
    <3> DEFINE left(u) == [u EXCEPT !.waiting = @ /\ u.by.worker # w]
    <3>1. uploads' = {left(u) : u \in uploads}
      BY <2>3 DEF Crash
    <3>2. \A u \in uploads : left(u).by = u.by
      BY DEF FileInv, TypeOK
    <3> HIDE DEF left
    <3> QED BY <2>3, <3>1, <3>2
  <2>4. \/ \E k \in work : UploadBegin(k)
        \/ \E u \in uploads : UploadAbandoned(u)
        \/ \E w \in Workers : Crash(w)
        \/ uploads' \subseteq uploads
    BY DEF Next, vars, LeaseStep, Queue, Cancel, ReviewRead, Assign, Encode, Fail,
           ReviewCommit, ReviewAbort, UploadStep, Report, UploadFails, UploadAccepted,
           UploadRefused, CompletionStep, CompleteProbe, CompleteLink, CompleteFails,
           CompleteUpdate, CompleteUpdateFails, CompleteClean, CompleteRecord,
           CompleteRepeated, CompleteRejected, EnvironmentStep, Restart, ForeignFile
  <2> QED BY <2>1, <2>2, <2>3, <2>4 DEF CopiesKnown
<1> QED BY <1>2, <1>3, <1>4, <1>5 DEF CopiesKnown

\* Who holds a job after a step on an assignment known before held it before.
LEMMA HeldBefore ==
    ASSUME FileInv, CopiesKnown, [Next]_vars, NEW i \in Copies, NEW k \in Work,
           SameTurn(i, k), Holds(k)'
    PROVE  Holds(i)
<1>1. k.worker \in Workers /\ k.job \in Jobs /\ k.turn \in Nat
  BY CopiesType DEF FileInv
<1>2. holder'[k.job] = k.worker /\ turn'[k.job] = k.turn
  BY DEF Holds
<1>3. i.turn <= turn[k.job]
  BY DEF CopiesKnown, SameTurn
<1>4. holder'[k.job] # NoWorker
  BY <1>1, <1>2, OutputAssumption
<1>5. turn'[k.job] # turn[k.job] + 1
  BY <1>1, <1>2, <1>3, LeaseMoves DEF SameTurn
<1> QED BY <1>1, <1>2, <1>4, <1>5, LeaseMoves DEF Holds, SameTurn

\* Others leave alone what a worker encoded.
LEMMA ForeignLeavesOurs ==
    ASSUME FileInv, NEW n \in Names, ForeignFile(n), NEW m \in Names, Ours(m)
    PROVE  library'[m] = library[m]
  BY ForeignNames DEF FileInv, Ours

\* What a completion links is the video it probed, under a name that nothing else has,
\* and it goes on with that name.
LEMMA LinkStep ==
    ASSUME FileInv, NEW h \in fin, CompleteLink!(h)
    PROVE  /\ Path(h) \in File /\ Path(h) # NoFile /\ Path(h).content \in Videos
           /\ h.msg.job \in Jobs /\ h.name \in Names
           /\ \E n \in Names :
                 /\ library[n] \in {NoFile, Path(h)} /\ library'[n] = Path(h)
                 /\ \A m \in Names \ {n} : library'[m] = library[m]
                 /\ \A g \in fin' : /\ g.msg = h.msg /\ g.pc = "update" /\ g.name = n
                                    /\ g.staged = h.staged
                                    /\ (g.undo => h.staged \/ n # h.name)
<1>1. /\ Path(h) \in File /\ Path(h).content \in Videos
      /\ Outputs[h.msg.job][Path(h).content] \in Seq(Names)
  BY LinkedFile
<1>2. PICK n \in LinkName(Outputs[h.msg.job][Path(h).content], Path(h)) :
              /\ library' = [library EXCEPT ![n] = Path(h)]
              /\ fin' = {[h EXCEPT !.pc = "update", !.name = n,
                                   !.undo = h.staged \/ n # h.name]}
  OBVIOUS
<1>3. n \in Names /\ library[n] \in {NoFile, Path(h)}
  BY <1>1, <1>2, LinkNameFree
<1>4. h.msg.job \in Jobs /\ h.name \in Names
  BY DEF FileInv, TypeOK, Work
<1>5. library'[n] = Path(h) /\ \A m \in Names \ {n} : library'[m] = library[m]
  BY <1>2, <1>3 DEF FileInv, TypeOK
<1>6. ASSUME NEW g \in fin'
      PROVE  /\ g.msg = h.msg /\ g.pc = "update" /\ g.name = n /\ g.staged = h.staged
             /\ (g.undo => h.staged \/ n # h.name)
  BY <1>2 DEF FileInv, TypeOK
<1> QED BY <1>1, <1>3, <1>4, <1>5, <1>6, FileAssumption

-----------------------------------------------------------------------------
(* A completion is recorded with its output *)

\* Between UpdateJob and the record of a completion the log accepts, the row keeps the
\* name; and a link stays where it was made, unless others might have made it.
Recorded(h) ==
    /\ h.pc \in {"clean", "record"} /\ Holds(h.msg) => target[h.msg.job] = h.name
    /\ h.pc # "link" => Ours(h.name) \/ Foreign \in Videos

RecordInv ==
    /\ FileInv /\ CopiesKnown
    /\ \A h \in fin : Recorded(h)

\* A review writes the row of a job that nobody holds then, and no other.
LEMMA ReviewedUnheld ==
    ASSUME FileInv, NEW r \in review, ReviewCommit!(r)
    PROVE  /\ r.job \in Jobs
           /\ holder'[r.job] = NoWorker
           /\ \A j \in Jobs : j # r.job => target'[j] = target[j]
           /\ fin' = fin /\ library' = library
  BY DEF FileInv, TypeOK, Lease!Take

\* A completion the log would accept after a step it would have accepted before.
LEMMA HeldMessage ==
    ASSUME FileInv, CopiesKnown, [Next]_vars, NEW h \in fin, Holds(h.msg)'
    PROVE  Holds(h.msg)
<1>1. h.msg \in Copies /\ h.msg \in Work /\ SameTurn(h.msg, h.msg)
  BY DEF Copies, FileInv, TypeOK, SameTurn
<1> QED BY <1>1, HeldBefore

\* Every step keeps what is known of the completion.
LEMMA RecordedStep ==
    ASSUME RecordInv, [Next]_vars, NEW g \in fin'
    PROVE  Recorded(g)'
<1> USE DEF RecordInv
<1>1. ASSUME ReviewCommit PROVE Recorded(g)'
  <2>1. PICK r \in review : ReviewCommit!(r)
    BY <1>1 DEF ReviewCommit
  <2>2. /\ holder'[r.job] = NoWorker
        /\ \A j \in Jobs : j # r.job => target'[j] = target[j]
        /\ fin' = fin /\ library' = library
    BY <2>1, ReviewedUnheld
  <2>3. g \in fin /\ g.msg \in Work /\ g.msg.job \in Jobs /\ g.msg.worker # NoWorker
    BY <2>2, OutputAssumption DEF FileInv, TypeOK, Work
  <2>4. Holds(g.msg)' => Holds(g.msg) /\ g.msg.job # r.job
    BY <2>2, <2>3, HeldMessage DEF Holds
  <2> QED BY <2>2, <2>3, <2>4 DEF Recorded, Ours
<1>2. ASSUME NEW n \in Names, ForeignFile(n) PROVE Recorded(g)'
  <2>1. UNCHANGED <<leaseVars, target, fin>>
    BY <1>2 DEF ForeignFile
  <2>2. g \in fin /\ g.name \in Names
    BY <2>1 DEF FileInv, TypeOK
  <2>3. Ours(g.name) => Ours(g.name)'
    BY <1>2, <2>2, ForeignLeavesOurs DEF Ours
  <2> QED BY <2>1, <2>2, <2>3 DEF Recorded, Holds, leaseVars
<1>3. ASSUME NEW k \in net, CompleteProbe(k) PROVE Recorded(g)'
  <2>1. g.pc = "link"
    BY <1>3 DEF CompleteProbe
  <2> QED BY <2>1 DEF Recorded
<1>4. ASSUME CompleteLink PROVE Recorded(g)'
  <2>1. PICK h \in fin : CompleteLink!(h)
    BY <1>4 DEF CompleteLink
  <2>2. /\ Path(h) # NoFile /\ Path(h).content \in Videos
        /\ \E n \in Names : g.pc = "update" /\ g.name = n /\ library'[n] = Path(h)
    BY <2>1, LinkStep
  <2>3. g.pc = "update" /\ library'[g.name] = Path(h)
    BY <2>2
  <2>4. Ours(g.name)' \/ Foreign \in Videos
    BY <2>2, <2>3 DEF Ours
  <2> QED BY <2>3, <2>4 DEF Recorded
<1>5. ASSUME CompleteUpdate PROVE Recorded(g)'
  <2>1. PICK h \in fin : CompleteUpdate!(h)
    BY <1>5 DEF CompleteUpdate
  <2>2. g.msg = h.msg /\ g.name = h.name /\ h.msg.job \in Jobs
    BY <2>1 DEF FileInv, TypeOK, Work
  <2>3. target'[h.msg.job] = h.name /\ library' = library
    BY <2>1, <2>2 DEF FileInv, TypeOK
  <2>4. Ours(h.name) \/ Foreign \in Videos
    BY <2>1 DEF Recorded
  <2> QED BY <2>2, <2>3, <2>4 DEF Recorded, Ours
<1>6. ASSUME CompleteClean PROVE Recorded(g)'
  <2>1. PICK h \in fin : CompleteClean!(h)
    BY <1>6 DEF CompleteClean
  <2>2. g.msg = h.msg /\ g.name = h.name
    BY <2>1 DEF FileInv, TypeOK
  <2>3. UNCHANGED <<leaseVars, library, target>>
    BY <2>1
  <2>4. Holds(h.msg)' <=> Holds(h.msg)
    BY <2>3 DEF Holds, leaseVars
  <2>5. Holds(h.msg) => target[h.msg.job] = h.name
    BY <2>1 DEF Recorded
  <2>6. Ours(h.name) \/ Foreign \in Videos
    BY <2>1 DEF Recorded
  <2> QED BY <2>2, <2>3, <2>4, <2>5, <2>6 DEF Recorded, Ours
<1>7. ASSUME fin' = fin, library' = library, target' = target PROVE Recorded(g)'
  BY <1>7, HeldMessage DEF Recorded, Ours
<1>8. \/ \E n \in Names : ForeignFile(n)
      \/ \E k \in net : CompleteProbe(k)
      \/ ReviewCommit \/ CompleteLink \/ CompleteUpdate \/ CompleteClean
      \/ fin' = {}
      \/ fin' = fin /\ library' = library /\ target' = target
  BY DEF Next, vars, fileVars, LeaseStep, Queue, Cancel, ReviewRead, Assign, Encode, Fail,
         ReviewAbort, UploadStep, UploadBegin, Report, UploadFails, UploadAbandoned,
         UploadAccepted, UploadRefused, Crash, CompletionStep, CompleteFails,
         CompleteUpdateFails, CompleteRecord, CompleteRepeated, CompleteRejected,
         EnvironmentStep, Restart
<1> QED BY <1>1, <1>2, <1>3, <1>4, <1>5, <1>6, <1>7, <1>8

\* When a completion comes into the log, the row of the job has the name under which
\* this completion found or linked the output; and it still stands there, or it was a
\* video that others had put there and could remove.
RecordsOutput ==
    [][\A j \in Jobs :
          status[j] # "completed" /\ status'[j] = "completed" =>
              \E h \in fin : /\ h.msg.job = j /\ h.pc = "record"
                             /\ target[j] = h.name
                             /\ HasOutput(j) \/ Foreign \in Videos]_vars

\* Only CompleteRecord completes a job, and only one whose worker still holds it.
LEMMA CompletedByRecord ==
    ASSUME FileInv, [Next]_vars, NEW j \in Jobs, status[j] # "completed", status'[j] = "completed"
    PROVE  \E h \in fin : h.pc = "record" /\ h.msg.job = j /\ Holds(h.msg)
<1> USE DEF FileInv, TypeOK
<1>1. ASSUME NEW i \in Jobs, Queue(i) \/ Cancel(i) PROVE FALSE
  BY <1>1 DEF Queue, Cancel, Lease!Take
<1>2. ASSUME ReviewCommit PROVE FALSE
  BY <1>2 DEF ReviewCommit, Lease!Take
<1>3. ASSUME NEW w \in Workers, NEW i \in Jobs, Assign(w, i) PROVE FALSE
  BY <1>3 DEF Assign, Lease!Grant
<1>4. ASSUME NEW k \in work, Encode(k) \/ Fail(k) PROVE FALSE
  BY <1>4 DEF Encode, Fail, Lease!Report, Lease!Finish, Work
<1>5. ASSUME CompleteRecord
      PROVE  \E h \in fin : h.pc = "record" /\ h.msg.job = j /\ Holds(h.msg)
  BY <1>5 DEF CompleteRecord, Lease!Finish, Work
<1>6. ~UNCHANGED leaseVars
  BY DEF leaseVars
<1>7. \/ \E i \in Jobs : Queue(i) \/ Cancel(i) \/ \E w \in Workers : Assign(w, i)
      \/ \E k \in work : Encode(k) \/ Fail(k)
      \/ ReviewCommit \/ CompleteRecord \/ UNCHANGED leaseVars
  BY DEF Next, vars, LeaseStep, ReviewRead, ReviewAbort, UploadStep, UploadBegin, Report,
         UploadFails, UploadAbandoned, UploadAccepted, UploadRefused, Crash, CompletionStep,
         CompleteProbe, CompleteLink, CompleteFails, CompleteUpdate, CompleteUpdateFails,
         CompleteClean, CompleteRepeated, CompleteRejected, EnvironmentStep, Restart, ForeignFile
<1> QED BY <1>1, <1>2, <1>3, <1>4, <1>5, <1>6, <1>7

\* Whatever reviews, other jobs and others do between the steps of a completion: what
\* it records is what it published, for no review writes the row of a job that is held.
THEOREM CompletionRecordsOutput == Spec => RecordsOutput
<1>1. Init => RecordInv
  <2>1. Init => FileInv
    BY OutputAssumption DEF Init, Lease!Init, FileInv, TypeOK, TurnsLeft, OneCompletion,
                            UploadsOwn, Lease!HeldByHolder
  <2> QED BY <2>1 DEF Init, CopiesKnown, Copies, RecordInv
<1>2. RecordInv /\ [Next]_vars => RecordInv'
  BY FileInvStep, CopiesKnownStep, RecordedStep DEF RecordInv
<1>3. ASSUME RecordInv, [Next]_vars, NEW j \in Jobs,
             status[j] # "completed", status'[j] = "completed"
      PROVE  \E h \in fin : /\ h.msg.job = j /\ h.pc = "record"
                            /\ target[j] = h.name
                            /\ HasOutput(j) \/ Foreign \in Videos
  <2>1. PICK h \in fin : h.pc = "record" /\ h.msg.job = j /\ Holds(h.msg)
    BY <1>3, CompletedByRecord DEF RecordInv
  <2>2. target[j] = h.name /\ (Ours(h.name) \/ Foreign \in Videos)
    BY <1>3, <2>1 DEF RecordInv, Recorded
  <2> QED BY <2>1, <2>2 DEF HasOutput, Ours
<1>4. RecordInv /\ [Next]_vars =>
         [\A j \in Jobs :
            status[j] # "completed" /\ status'[j] = "completed" =>
              \E h \in fin : /\ h.msg.job = j /\ h.pc = "record"
                             /\ target[j] = h.name
                             /\ HasOutput(j) \/ Foreign \in Videos]_vars
  BY <1>3
<1> QED BY <1>1, <1>2, <1>4, PTL DEF Spec, RecordsOutput

-----------------------------------------------------------------------------
(* Only a review that writes back an old target loses an output *)

\* A review writes the target that the row has.
WritesTarget == ReviewCommit => \A r \in review : r.target = target[r.job]

\* No review writes back a target it had read before a completion recorded another.
NoLostUpdate == [][WritesTarget]_vars

\* An upload of j was accepted, and its completion is recorded or may be sent.
Submitted(j) ==
    status[j] = "completed" \/ \E k \in Copies : k.job = j /\ k.stage = "report"

\* Nothing of it is staged any more: its output is in the library.
Settled(j) == Submitted(j) /\ staged[j] = NoFile

\* The completion has found the output in the library, or linked it there.
Published(h) == h.pc \in {"update", "clean"} \/ (h.pc = "link" /\ ~h.staged)

\* f is a file that workers upload for j, that is staged for it or its output.
FileOf(f, j) ==
    \/ \E u \in uploads : u.by.job = j /\ u.file = f
    \/ staged[j] = f
    \/ Settled(j) /\ library[target[j]] = f
    \/ \E h \in fin : h.msg.job = j /\ Published(h) /\ library[h.name] = f

\* Whatever names jobs share, no file is the output of two of them.
Apart == \A f \in File : \A i, j \in Jobs : FileOf(f, i) /\ FileOf(f, j) => i = j

Kept == \A j \in Jobs : Settled(j) => Ours(target[j])

\* A completion publishes an output, and undoes no link at the recorded target.
Finalizing(h) ==
    LET j == h.msg.job
    IN  /\ Published(h) => Ours(h.name)
        /\ h.pc = "link" /\ ~h.staged => target[j] = h.name
        /\ h.pc = "update" /\ ~h.staged /\ h.undo => target[j] # h.name
        /\ h.pc = "clean" => target[j] = h.name

OutputInv ==
    /\ FileInv
    /\ CopiesKnown /\ Kept /\ Apart
    /\ \A h \in fin : Finalizing(h)

\* So a review changes no target.
LEMMA ReviewKeepsTarget ==
    ASSUME FileInv, ReviewCommit, WritesTarget
    PROVE  UNCHANGED fileVars
<1>1. PICK r \in review : ReviewCommit!(r)
  BY DEF ReviewCommit
<1>2. r.target = target[r.job]
  BY DEF WritesTarget
<1>3. target \in [Jobs -> Names] /\ target' = [target EXCEPT ![r.job] = target[r.job]]
  BY <1>1, <1>2 DEF FileInv, TypeOK
<1>4. target' = target
  BY <1>3
<1> QED BY <1>1, <1>4 DEF fileVars

\* What is submitted was submitted before, or is staged now.
LEMMA SubmittedBefore ==
    ASSUME FileInv, CopiesKnown, [Next]_vars, NEW j \in Jobs, Submitted(j)'
    PROVE  Submitted(j) \/ staged'[j] # NoFile
<1>1. CASE status'[j] = "completed"
  <2>1. CASE status[j] = "completed"
    BY <2>1 DEF Submitted
  <2>2. CASE \E h \in fin : h.msg.job = j /\ Holds(h.msg)
    BY <2>2 DEF Submitted, Copies, CopiesKnown
  <2> QED BY <1>1, <2>1, <2>2, LeaseMoves
<1>2. ASSUME NEW k \in Copies', k.job = j, k.stage = "report"
      PROVE  Submitted(j) \/ staged'[j] # NoFile
  <2>1. PICK i \in Copies : SameTurn(i, k) /\ (i.stage = "report" \/ staged'[j] # NoFile)
    BY <1>2, CopiesFrom DEF ComesFrom
  <2> QED BY <1>2, <2>1 DEF Submitted, SameTurn
<1> QED BY <1>1, <1>2 DEF Submitted

\* Which steps change the staged files, and that only the cleanup removes one.
LEMMA StagedBefore ==
    ASSUME FileInv, [Next]_vars, NEW j \in Jobs, staged'[j] # staged[j]
    PROVE  \/ \E u \in uploads : /\ UploadAccepted(u) /\ u.by.job = j
                                 /\ staged'[j] = u.file /\ staged[j] = NoFile
           \/ \E h \in fin : CompleteClean!(h) /\ h.msg.job = j /\ staged'[j] = NoFile
<1> USE DEF FileInv, TypeOK
<1>1. ASSUME NEW u \in uploads, UploadAccepted(u)
      PROVE  u.by.job = j /\ staged'[j] = u.file /\ staged[j] = NoFile
  BY <1>1 DEF UploadAccepted
<1>2. ASSUME NEW h \in fin, CompleteClean!(h)
      PROVE  h.msg.job = j /\ staged'[j] = NoFile
  BY <1>2
<1>3. (\E u \in uploads : UploadAccepted(u)) \/ CompleteClean
  BY DEF Next, vars, fileVars, LeaseStep, Queue, Cancel, ReviewRead, Assign, Encode, Fail,
         ReviewCommit, ReviewAbort, UploadStep, UploadBegin, Report, UploadFails,
         UploadAbandoned, UploadRefused, Crash, CompletionStep, CompleteProbe, CompleteLink,
         CompleteFails, CompleteUpdate, CompleteUpdateFails, CompleteRecord,
         CompleteRepeated, CompleteRejected, EnvironmentStep, Restart, ForeignFile
<1> QED BY <1>1, <1>2, <1>3 DEF CompleteClean

\* What is settled was settled before, or the cleanup settles it.
LEMMA SettledBefore ==
    ASSUME FileInv, CopiesKnown, [Next]_vars, NEW j \in Jobs, Settled(j)'
    PROVE  Settled(j) \/ \E h \in fin : CompleteClean!(h) /\ h.msg.job = j
<1>1. staged'[j] = NoFile /\ Submitted(j)
  BY SubmittedBefore DEF Settled
<1>2. CASE staged[j] = NoFile
  BY <1>1, <1>2 DEF Settled
<1>3. CASE staged[j] # NoFile
  <2>1. \A u \in uploads : u.file # NoFile
    BY FileAssumption DEF FileInv, TypeOK
  <2> QED BY <1>1, <1>3, <2>1, StagedBefore
<1> QED BY <1>2, <1>3

\* What a probe finds in the library, where nothing is staged, is the output.
LEMMA ProbeSettled ==
    ASSUME FileInv, CopiesKnown, NEW k \in net, staged[k.job] = NoFile
    PROVE  k.job \in Jobs /\ Settled(k.job)
  BY DEF FileInv, TypeOK, Work, CopiesKnown, Copies, Submitted, Settled

\* A rollback leaves the outputs of other jobs alone, for the file is its own.
LEMMA UndoesOwn ==
    ASSUME OutputInv, NEW h \in fin, CompleteUpdateFails!(h), NEW j \in Jobs, Settled(j)
    PROVE  library'[target[j]] = library[target[j]]
<1> USE DEF OutputInv
<1>1. h.msg.job \in Jobs /\ h.name \in Names /\ target[j] \in Names
  BY DEF FileInv, TypeOK, Work
<1>2. Ours(target[j])
  BY DEF Kept
<1>3. ASSUME h.undo, target[j] = h.name PROVE FALSE
  <2> DEFINE f == library[h.name]
  <2>1. f \in File
    BY <1>1, <1>2, <1>3 DEF FileInv, TypeOK, Ours
  <2>2. FileOf(f, j)
    BY <1>3 DEF FileOf
  <2>3. FileOf(f, h.msg.job)
    BY DEF FileOf, Published
  <2>4. h.msg.job = j
    BY <1>1, <2>1, <2>2, <2>3 DEF Apart
  <2>5. ~h.staged
    BY <2>4 DEF FileInv, Linked, Settled
  <2> QED BY <1>3, <2>4, <2>5 DEF Finalizing
<1> QED BY <1>1, <1>3 DEF FileInv, TypeOK

\* A settled job keeps its output.
LEMMA KeptStep ==
    ASSUME OutputInv, [Next]_vars, WritesTarget
    PROVE  Kept'
<1> USE DEF OutputInv
<1> SUFFICES ASSUME NEW j \in Jobs, Settled(j)' PROVE Ours(target[j])'
  BY DEF Kept
<1>1. ASSUME NEW h \in fin, CompleteClean!(h), h.msg.job = j PROVE Ours(target[j])'
  BY <1>1 DEF Finalizing, Published, Ours
<1>2. ASSUME Settled(j) PROVE Ours(target[j])'
  <2>1. target[j] \in Names /\ Ours(target[j])
    BY <1>2 DEF FileInv, TypeOK, Kept
  <2>2. ASSUME CompleteLink PROVE Ours(target[j])'
    <3>1. PICK h \in fin : CompleteLink!(h)
      BY <2>2 DEF CompleteLink
    <3>2. library'[target[j]] = library[target[j]]
      BY <2>1, <3>1, LinkStep DEF Ours
    <3> QED BY <2>1, <3>1, <3>2 DEF Ours
  <2>3. ASSUME CompleteUpdate PROVE Ours(target[j])'
    <3>1. PICK h \in fin : CompleteUpdate!(h)
      BY <2>3 DEF CompleteUpdate
    <3>2. Ours(h.name)
      BY <3>1 DEF Finalizing, Published
    <3>3. target'[j] = target[j] \/ target'[j] = h.name
      BY <3>1 DEF FileInv, TypeOK
    <3> QED BY <2>1, <3>1, <3>2, <3>3 DEF Ours
  <2>4. ASSUME CompleteUpdateFails PROVE Ours(target[j])'
    <3>1. PICK h \in fin : CompleteUpdateFails!(h)
      BY <2>4 DEF CompleteUpdateFails
    <3>2. library'[target[j]] = library[target[j]]
      BY <1>2, <3>1, UndoesOwn
    <3> QED BY <2>1, <3>1, <3>2 DEF Ours
  <2>5. ASSUME NEW n \in Names, ForeignFile(n) PROVE Ours(target[j])'
    <3>1. library'[target[j]] = library[target[j]]
      BY <2>1, <2>5, ForeignLeavesOurs
    <3> QED BY <2>1, <2>5, <3>1 DEF Ours, ForeignFile
  <2>6. ASSUME UNCHANGED <<library, target>> PROVE Ours(target[j])'
    BY <2>1, <2>6 DEF Ours
  <2>7. ReviewCommit => UNCHANGED <<library, target>>
    BY ReviewKeepsTarget DEF fileVars
  <2>8. \/ \E n \in Names : ForeignFile(n)
        \/ ReviewCommit \/ CompleteLink \/ CompleteUpdate \/ CompleteUpdateFails
        \/ UNCHANGED <<library, target>>
    BY DEF Next, vars, fileVars, LeaseStep, Queue, Cancel, ReviewRead, Assign, Encode, Fail,
           ReviewAbort, UploadStep, UploadBegin, Report, UploadFails, UploadAbandoned,
           UploadAccepted, UploadRefused, Crash, CompletionStep, CompleteProbe, CompleteFails,
           CompleteClean, CompleteRecord, CompleteRepeated, CompleteRejected,
           EnvironmentStep, Restart
  <2> QED BY <2>2, <2>3, <2>4, <2>5, <2>6, <2>7, <2>8
<1> QED BY <1>1, <1>2, SettledBefore

\* What a completion knows of its job stays true while it goes on.
LEMMA FinalizingStep ==
    ASSUME OutputInv, [Next]_vars, WritesTarget, NEW g \in fin'
    PROVE  Finalizing(g)'
<1> USE DEF OutputInv
<1>1. ASSUME fin' = fin, target' = target,
             \A n \in Names : Ours(n) => library'[n] = library[n]
      PROVE  Finalizing(g)'
  <2>1. g \in fin /\ g.name \in Names
    BY <1>1 DEF FileInv, TypeOK
  <2>2. Ours(g.name) => Ours(g.name)'
    BY <1>1, <2>1 DEF Ours
  <2> QED BY <1>1, <2>1, <2>2 DEF Finalizing, Published
<1>2. ASSUME NEW n \in Names, ForeignFile(n) PROVE Finalizing(g)'
  <2>1. UNCHANGED <<fin, target>>
    BY <1>2 DEF ForeignFile
  <2>2. \A m \in Names : Ours(m) => library'[m] = library[m]
    BY <1>2, ForeignLeavesOurs
  <2> QED BY <1>1, <2>1, <2>2
<1>3. ASSUME NEW k \in net, CompleteProbe(k) PROVE Finalizing(g)'
  <2>1. /\ g.msg = k /\ g.pc = "link" /\ g.name = target[k.job]
        /\ g.staged = (staged[k.job] # NoFile) /\ UNCHANGED fileVars
    BY <1>3 DEF CompleteProbe
  <2>2. ~g.staged => Ours(target[k.job])
    BY <2>1, ProbeSettled DEF Kept
  <2> QED BY <2>1, <2>2 DEF Finalizing, Published, Ours, fileVars
<1>4. ASSUME CompleteLink PROVE Finalizing(g)'
  <2>1. PICK h \in fin : CompleteLink!(h)
    BY <1>4 DEF CompleteLink
  <2>2. \E n \in Names : /\ g.msg = h.msg /\ g.pc = "update" /\ g.name = n
                         /\ g.staged = h.staged /\ (g.undo => h.staged \/ n # h.name)
                         /\ library'[n] = Path(h)
    BY <2>1, LinkStep
  <2>3. /\ g.msg = h.msg /\ g.pc = "update" /\ g.staged = h.staged
        /\ (g.undo => h.staged \/ g.name # h.name) /\ library'[g.name] = Path(h)
    BY <2>2
  <2>4. Path(h).content # Foreign
    <3>1. h.msg.job \in Jobs
      BY DEF FileInv, TypeOK, Work
    <3>2. CASE h.staged
      BY <2>1, <3>1, <3>2 DEF Path, FileInv, UploadsOwn
    <3>3. CASE ~h.staged
      BY <2>1, <3>3 DEF Path, Finalizing, Published, Ours
    <3> QED BY <3>2, <3>3
  <2>5. Ours(g.name)'
    BY <2>1, <2>3, <2>4 DEF Ours
  <2>6. ~h.staged => target'[h.msg.job] = h.name
    BY <2>1 DEF Finalizing
  <2> QED BY <2>3, <2>5, <2>6 DEF Finalizing, Published
<1>5. ASSUME CompleteUpdate PROVE Finalizing(g)'
  <2>1. PICK h \in fin : CompleteUpdate!(h)
    BY <1>5 DEF CompleteUpdate
  <2>2. g.msg = h.msg /\ g.pc = "clean" /\ g.name = h.name /\ h.msg.job \in Jobs
    BY <2>1 DEF FileInv, TypeOK, Work
  <2>3. target'[h.msg.job] = h.name /\ library' = library
    BY <2>1, <2>2 DEF FileInv, TypeOK
  <2>4. Ours(h.name)
    BY <2>1 DEF Finalizing, Published
  <2> QED BY <2>2, <2>3, <2>4 DEF Finalizing, Published, Ours
<1>6. ASSUME CompleteClean PROVE Finalizing(g)'
  <2>1. g.pc = "record"
    BY <1>6 DEF CompleteClean, FileInv, TypeOK
  <2> QED BY <2>1 DEF Finalizing, Published
<1>7. ASSUME fin' = fin, UNCHANGED <<library, target>> PROVE Finalizing(g)'
  BY <1>1, <1>7
<1>8. ReviewCommit => fin' = fin /\ UNCHANGED <<library, target>>
  BY ReviewKeepsTarget DEF fileVars, ReviewCommit
<1>9. \/ \E n \in Names : ForeignFile(n)
      \/ \E k \in net : CompleteProbe(k)
      \/ ReviewCommit \/ CompleteLink \/ CompleteUpdate \/ CompleteClean
      \/ fin' = {}
      \/ fin' = fin /\ UNCHANGED <<library, target>>
  BY DEF Next, vars, fileVars, LeaseStep, Queue, Cancel, ReviewRead, Assign, Encode, Fail,
         ReviewAbort, UploadStep, UploadBegin, Report, UploadFails, UploadAbandoned,
         UploadAccepted, UploadRefused, Crash, CompletionStep, CompleteFails,
         CompleteUpdateFails, CompleteRecord, CompleteRepeated, CompleteRejected,
         EnvironmentStep, Restart
<1> QED BY <1>2, <1>3, <1>4, <1>5, <1>6, <1>7, <1>8, <1>9

\* A file that the server receives for a job was received before, unless the attempt
\* begins: it has an inode of its own then.
LEMMA UploadsBefore ==
    ASSUME FileInv, [Next]_vars, NEW v \in uploads'
    PROVE  \/ \E u \in uploads : v.file = u.file /\ v.by = u.by
           \/ v.file.inode \notin Used /\ \A w \in uploads' \ {v} : w \in uploads
<1>1. ASSUME NEW k \in work, UploadBegin(k), v \notin uploads
      PROVE  v.file.inode \notin Used /\ \A w \in uploads' \ {v} : w \in uploads
  <2>1. PICK i \in Inodes \ Used :
          uploads' = uploads \union
              {[file |-> [inode |-> i, content |-> k.content], by |-> k, waiting |-> TRUE]}
    BY <1>1 DEF UploadBegin
  <2> DEFINE new == [file |-> [inode |-> i, content |-> k.content], by |-> k, waiting |-> TRUE]
  <2>2. new.file.inode \notin Used
    BY <2>1
  <2> HIDE DEF new
  <2>3. uploads' = uploads \union {new} /\ v = new
    BY <1>1, <2>1 DEF new
  <2> QED BY <2>2, <2>3
<1>2. ASSUME NEW u \in uploads, UploadAbandoned(u)
      PROVE  \E w \in uploads : v.file = w.file /\ v.by = w.by
  <2>1. [u EXCEPT !.waiting = FALSE].by = u.by /\ [u EXCEPT !.waiting = FALSE].file = u.file
    BY DEF FileInv, TypeOK
  <2> QED BY <1>2, <2>1 DEF UploadAbandoned
<1>3. ASSUME NEW w \in Workers, Crash(w)
      PROVE  \E u \in uploads : v.file = u.file /\ v.by = u.by
  <2> DEFINE left(u) == [u EXCEPT !.waiting = @ /\ u.by.worker # w]
  <2>1. uploads' = {left(u) : u \in uploads}
    BY <1>3 DEF Crash
  <2>2. \A u \in uploads : left(u).by = u.by /\ left(u).file = u.file
    BY DEF FileInv, TypeOK
  <2> HIDE DEF left
  <2> QED BY <2>1, <2>2
<1>4. \/ \E k \in work : UploadBegin(k)
      \/ \E u \in uploads : UploadAbandoned(u)
      \/ \E w \in Workers : Crash(w)
      \/ uploads' \subseteq uploads
  BY DEF Next, vars, LeaseStep, Queue, Cancel, ReviewRead, Assign, Encode, Fail,
         ReviewCommit, ReviewAbort, UploadStep, Report, UploadFails, UploadAccepted,
         UploadRefused, CompletionStep, CompleteProbe, CompleteLink, CompleteFails,
         CompleteUpdate, CompleteUpdateFails, CompleteClean, CompleteRecord,
         CompleteRepeated, CompleteRejected, EnvironmentStep, Restart, ForeignFile
<1> QED BY <1>1, <1>2, <1>3, <1>4

\* What is a file of some job has an inode that no new file gets.
LEMMA FileOfUsed ==
    ASSUME FileInv, NEW f \in File, NEW j \in Jobs, FileOf(f, j)
    PROVE  f.inode \in Used
<1> USE FileAssumption DEF Used
<1>1. CASE \E u \in uploads : u.by.job = j /\ u.file = f
  BY <1>1
<1>2. CASE staged[j] = f
  BY <1>2
<1>3. CASE library[target[j]] = f
  BY <1>3 DEF FileInv, TypeOK
<1>4. CASE \E h \in fin : library[h.name] = f
  BY <1>4 DEF FileInv, TypeOK
<1> QED BY <1>1, <1>2, <1>3, <1>4 DEF FileOf

\* A file of a job was one before the step, unless the server begins to receive it.
LEMMA FileOfBefore ==
    ASSUME OutputInv, [Next]_vars, WritesTarget, NEW f \in File, NEW j \in Jobs, FileOf(f, j)'
    PROVE  \/ FileOf(f, j)
           \/ \E v \in uploads' : v.by.job = j /\ v.file = f /\ f.inode \notin Used
<1> USE DEF OutputInv
<1>1. ASSUME NEW v \in uploads', v.by.job = j, v.file = f
      PROVE  FileOf(f, j) \/ f.inode \notin Used
  BY <1>1, UploadsBefore DEF FileOf
<1>2. ASSUME staged'[j] = f PROVE FileOf(f, j)
  <2>1. CASE staged[j] = f
    BY <2>1 DEF FileOf
  <2>2. CASE \E u \in uploads : u.by.job = j /\ staged'[j] = u.file
    BY <1>2, <2>2 DEF FileOf
  <2> QED BY <1>2, <2>1, <2>2, StagedBefore, FileAssumption
<1>3. ASSUME Settled(j)', library'[target'[j]] = f PROVE FileOf(f, j)
  <2>1. ASSUME NEW h \in fin, CompleteClean!(h), h.msg.job = j PROVE FileOf(f, j)
    BY <1>3, <2>1 DEF FileOf, Published, Finalizing
  <2>2. ASSUME Settled(j), target'[j] = target[j],
               Ours(target[j]) => library'[target[j]] = library[target[j]]
        PROVE  FileOf(f, j)
    BY <1>3, <2>2 DEF FileOf, Kept
  <2>3. target[j] \in Names
    BY DEF FileInv, TypeOK
  <2>4. ASSUME Settled(j), CompleteLink PROVE FileOf(f, j)
    <3>1. PICK h \in fin : CompleteLink!(h)
      BY <2>4 DEF CompleteLink
    <3>2. Ours(target[j]) => library'[target[j]] = library[target[j]]
      BY <2>3, <3>1, LinkStep DEF Ours
    <3> QED BY <2>2, <2>4, <3>1, <3>2
  <2>5. ASSUME Settled(j), CompleteUpdate PROVE FileOf(f, j)
    <3>1. PICK h \in fin : CompleteUpdate!(h)
      BY <2>5 DEF CompleteUpdate
    <3>2. CASE h.msg.job = j
      <4>1. library[h.name] = f
        BY <1>3, <3>1, <3>2 DEF FileInv, TypeOK
      <4> QED BY <3>1, <3>2, <4>1 DEF FileOf, Published
    <3>3. CASE h.msg.job # j
      BY <2>2, <2>5, <3>1, <3>3 DEF FileInv, TypeOK
    <3> QED BY <3>2, <3>3
  <2>6. ASSUME Settled(j), CompleteUpdateFails PROVE FileOf(f, j)
    <3>1. PICK h \in fin : CompleteUpdateFails!(h)
      BY <2>6 DEF CompleteUpdateFails
    <3>2. library'[target[j]] = library[target[j]]
      BY <2>6, <3>1, UndoesOwn
    <3> QED BY <2>2, <2>6, <3>1, <3>2
  <2>7. ASSUME Settled(j), NEW n \in Names, ForeignFile(n) PROVE FileOf(f, j)
    BY <2>2, <2>3, <2>7, ForeignLeavesOurs DEF ForeignFile
  <2>8. ASSUME Settled(j), UNCHANGED <<library, target>> PROVE FileOf(f, j)
    BY <2>2, <2>8
  <2>9. ReviewCommit => UNCHANGED <<library, target>>
    BY ReviewKeepsTarget DEF fileVars
  <2>10. \/ \E n \in Names : ForeignFile(n)
         \/ ReviewCommit \/ CompleteLink \/ CompleteUpdate \/ CompleteUpdateFails
         \/ UNCHANGED <<library, target>>
    BY DEF Next, vars, fileVars, LeaseStep, Queue, Cancel, ReviewRead, Assign, Encode, Fail,
           ReviewAbort, UploadStep, UploadBegin, Report, UploadFails, UploadAbandoned,
           UploadAccepted, UploadRefused, Crash, CompletionStep, CompleteProbe, CompleteFails,
           CompleteClean, CompleteRecord, CompleteRepeated, CompleteRejected,
           EnvironmentStep, Restart
  <2> QED BY <1>3, <2>1, <2>4, <2>5, <2>6, <2>7, <2>8, <2>9, <2>10, SettledBefore
<1>4. ASSUME NEW g \in fin', g.msg.job = j, Published(g)', library'[g.name] = f
      PROVE  FileOf(f, j)
  <2>1. g.pc \in {"update", "clean"} \/ (g.pc = "link" /\ ~g.staged)
    BY <1>4 DEF Published
  <2>2. ASSUME NEW k \in net, CompleteProbe(k) PROVE FileOf(f, j)
    <3>1. /\ g.msg = k /\ g.pc = "link" /\ g.name = target[k.job]
          /\ g.staged = (staged[k.job] # NoFile) /\ UNCHANGED fileVars
      BY <2>2 DEF CompleteProbe
    <3>2. Settled(j)
      BY <1>4, <2>1, <3>1, ProbeSettled
    <3> QED BY <1>4, <3>1, <3>2 DEF FileOf, fileVars
  <2>3. ASSUME CompleteLink PROVE FileOf(f, j)
    <3>1. PICK h \in fin : CompleteLink!(h)
      BY <2>3 DEF CompleteLink
    <3>2. g.msg = h.msg /\ library'[g.name] = Path(h)
      BY <3>1, LinkStep
    <3>3. CASE h.staged
      BY <1>4, <3>2, <3>3 DEF Path, FileOf
    <3>4. CASE ~h.staged
      BY <1>4, <3>1, <3>2, <3>4 DEF Path, FileOf, Published
    <3> QED BY <3>3, <3>4
  <2>4. ASSUME CompleteUpdate PROVE FileOf(f, j)
    <3>1. PICK h \in fin : CompleteUpdate!(h)
      BY <2>4 DEF CompleteUpdate
    <3>2. g.msg = h.msg /\ g.name = h.name
      BY <3>1 DEF FileInv, TypeOK
    <3> QED BY <1>4, <3>1, <3>2 DEF FileOf, Published
  <2>5. ~CompleteClean
    BY <2>1 DEF CompleteClean, FileInv, TypeOK
  <2>6. ASSUME fin' = fin, \A n \in Names : Ours(n) => library'[n] = library[n]
        PROVE  FileOf(f, j)
    <3>1. g \in fin /\ g.name \in Names /\ Published(g)
      BY <1>4, <2>1, <2>6 DEF FileInv, TypeOK, Published
    <3>2. library[g.name] = f
      BY <1>4, <2>6, <3>1 DEF Finalizing
    <3> QED BY <1>4, <3>1, <3>2 DEF FileOf
  <2>7. ASSUME NEW n \in Names, ForeignFile(n) PROVE FileOf(f, j)
    <3>1. fin' = fin
      BY <2>7 DEF ForeignFile
    <3> QED BY <2>6, <2>7, <3>1, ForeignLeavesOurs
  <2>8. \/ \E n \in Names : ForeignFile(n)
        \/ \E k \in net : CompleteProbe(k)
        \/ CompleteLink \/ CompleteUpdate \/ CompleteClean
        \/ fin' = {}
        \/ fin' = fin /\ library' = library
    BY DEF Next, vars, fileVars, LeaseStep, Queue, Cancel, ReviewRead, Assign, Encode, Fail,
           ReviewCommit, ReviewAbort, UploadStep, UploadBegin, Report, UploadFails,
           UploadAbandoned, UploadAccepted, UploadRefused, Crash, CompletionStep,
           CompleteFails, CompleteUpdateFails, CompleteRecord, CompleteRepeated,
           CompleteRejected, EnvironmentStep, Restart
  <2> QED BY <2>2, <2>3, <2>4, <2>5, <2>6, <2>7, <2>8
<1> QED BY <1>1, <1>2, <1>3, <1>4 DEF FileOf

\* No step gives a file to two jobs.
LEMMA ApartStep ==
    ASSUME OutputInv, [Next]_vars, WritesTarget
    PROVE  Apart'
<1> SUFFICES ASSUME NEW f \in File, NEW i \in Jobs, NEW j \in Jobs, FileOf(f, i)', FileOf(f, j)'
             PROVE  i = j
  BY DEF Apart
<1> DEFINE Received(k) == \E v \in uploads' : v.by.job = k /\ v.file = f /\ f.inode \notin Used
<1>1. FileInv /\ (FileOf(f, i) \/ Received(i)) /\ (FileOf(f, j) \/ Received(j))
  BY FileOfBefore DEF OutputInv
<1>2. CASE f.inode \in Used
  BY <1>1, <1>2 DEF OutputInv, Apart
<1>3. CASE f.inode \notin Used
  <2>1. Received(i) /\ Received(j)
    BY <1>1, <1>3, FileOfUsed
  <2>2. PICK v \in uploads' : v.by.job = i /\ v.file = f
    BY <2>1
  <2>3. PICK w \in uploads' : w.by.job = j /\ w.file = f
    BY <2>1
  <2>4. \A u \in uploads : u.file # f
    BY <1>3 DEF Used
  <2>5. v = w
    BY <1>1, <2>2, <2>3, <2>4, UploadsBefore
  <2> QED BY <2>2, <2>3, <2>5
<1> QED BY <1>2, <1>3

\* The output of a completed job is at its recorded target or, after a rollback, an
\* upload of it is staged, whatever fails, comes late or is repeated, whichever names
\* jobs share and whatever others put into the library: only a review that writes back
\* a target it had read before a completion recorded another can lose an output.
THEOREM OutputsKept == Spec /\ NoLostUpdate => []CompletedNotLost
<1>1. Init => OutputInv
  <2>1. Init => FileInv
    BY OutputAssumption DEF Init, Lease!Init, FileInv, TypeOK, TurnsLeft, OneCompletion,
                            UploadsOwn, Lease!HeldByHolder
  <2>2. Init => CopiesKnown /\ \A h \in fin : Finalizing(h)
    BY DEF Init, CopiesKnown, Copies
  <2>3. Init => \A j \in Jobs : ~Submitted(j) /\ staged[j] = NoFile
    BY DEF Init, Lease!Init, Submitted, Copies
  <2>4. Init => Kept /\ Apart
    BY <2>3, FileAssumption DEF Init, Kept, Apart, Settled, FileOf
  <2> QED BY <2>1, <2>2, <2>4 DEF OutputInv
<1>2. OutputInv /\ [Next]_vars /\ [WritesTarget]_vars => OutputInv'
  <2>1. UNCHANGED vars => WritesTarget
    BY DEF vars, WritesTarget, ReviewCommit
  <2>2. ASSUME OutputInv, [Next]_vars, WritesTarget PROVE OutputInv'
    BY <2>2, FileInvStep, CopiesKnownStep, KeptStep, ApartStep, FinalizingStep DEF OutputInv
  <2> QED BY <2>1, <2>2
<1>3. OutputInv => CompletedNotLost
  BY DEF OutputInv, Kept, Settled, Submitted, CompletedNotLost, HasOutput, Ours
<1> QED BY <1>1, <1>2, <1>3, PTL DEF Spec, NoLostUpdate

=============================================================================
