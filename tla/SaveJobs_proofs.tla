-------------------------- MODULE SaveJobs_proofs --------------------------
(***************************************************************************)
(* Whatever fails, restarts or writes the file beside them: a named        *)
(* checkpoint that was answered is in the history.  As long as nothing     *)
(* fails and the server does not stop, the text of every save that         *)
(* completed is.  If nothing else writes the file either, an older save    *)
(* never replaces a newer one and the last one stays.  All for any number  *)
(* of saves, workers, texts and retries.                                   *)
(***************************************************************************)
EXTENDS SaveJobs, FiniteSetTheorems, SequenceTheorems, TLAPS

Row(j) == [job |-> j, source |-> text[j]]

\* The revision of a checkpoint is stored before its job is past it.
StoredBeforeActivity ==
    \A j \in Jobs : labelled[j] /\ step[j] = "activity" => Row(j) \in revisions

Inv == TypeOK /\ StoredBeforeActivity /\ CheckpointListed

-----------------------------------------------------------------------------
LEMMA InitInv == Init => Inv
<1> SUFFICES ASSUME Init PROVE Inv
  OBVIOUS
<1> USE DEF Init
<1>1. state \in [Jobs -> QueueStates] /\ step \in [Jobs -> JobSteps]
  BY DEF QueueStates, JobSteps
<1>2. <<>> \in Seq(Jobs)
  BY EmptySeq
<1>3. collab \in Texts \cup {NoText}
  BY Zenon
<1>4. text \in [Jobs -> Texts] /\ labelled \in [Jobs -> BOOLEAN] /\ disk \in Texts
  OBVIOUS
<1>5. attempts \in [Jobs -> Nat] /\ answer \in [Jobs -> {"none", "pending", "ok", "error"}]
  OBVIOUS
<1>6. TypeOK
  BY <1>1, <1>2, <1>3, <1>4, <1>5 DEF TypeOK
<1>7. StoredBeforeActivity /\ CheckpointListed
  BY DEF StoredBeforeActivity, CheckpointListed
<1> QED
  BY <1>6, <1>7 DEF Inv

\* The lists of jobs stay lists of jobs.
LEMMA TailType == ASSUME NEW s \in Seq(Jobs), s # <<>> PROVE Tail(s) \in Seq(Jobs) /\ Head(s) \in Jobs
OBVIOUS

LEMMA SettleType ==
    ASSUME TypeOK, NEW j \in Jobs, NEW result \in QueueStates, HoldsLock(j), Settle(j, result)
    PROVE  /\ state' \in [Jobs -> QueueStates]
           /\ step' \in [Jobs -> JobSteps]
           /\ lock' \in Seq(Jobs)
           /\ answer' \in [Jobs -> {"none", "pending", "ok", "error"}]
BY TailType DEF TypeOK, Settle, HoldsLock, QueueStates, JobSteps

\* Settling answers a checkpoint with ok only when the job completed.
LEMMA SettleAnswer ==
    ASSUME Inv, NEW j \in Jobs, NEW result \in QueueStates, HoldsLock(j), Settle(j, result),
           UNCHANGED <<text, labelled, revisions>>,
           result = "completed" /\ labelled[j] => Row(j) \in revisions
    PROVE  StoredBeforeActivity' /\ CheckpointListed'
<1>1. \A i \in Jobs : answer'[i] = "ok" =>
          answer[i] = "ok" \/ (i = j /\ result = "completed")
  BY DEF Settle, Inv, TypeOK
<1>2. \A i \in Jobs : step'[i] = "activity" => step[i] = "activity"
  BY DEF Settle, Inv, TypeOK
<1> QED
  BY <1>1, <1>2 DEF Inv, StoredBeforeActivity, CheckpointListed, Row

\* A step of saveFile that goes on to its next await.
LEMMA ContinueInv ==
    ASSUME Inv, NEW j \in Jobs, NEW from \in JobSteps, NEW to \in JobSteps, Continue(j, from, to),
           disk' \in Texts, collab' \in Texts \cup {NoText}, lastHash' \in Texts \cup {NoText},
           writers' \in Seq(Jobs), revisions \subseteq revisions',
           revisions' \subseteq [job : Jobs, source : Texts],
           to = "activity" => Row(j) \in revisions'
    PROVE  Inv'
<1>1. TypeOK'
  BY DEF Inv, TypeOK, Continue, queueVars, boundVars
<1>2. \A i \in Jobs : step'[i] = "activity" => step[i] = "activity" \/ (i = j /\ to = "activity")
  BY DEF Inv, TypeOK, Continue
<1>3. text' = text /\ labelled' = labelled /\ answer' = answer
  BY DEF Continue, queueVars
<1> QED
  BY <1>1, <1>2, <1>3 DEF Inv, StoredBeforeActivity, CheckpointListed, Row

LEMMA WorkInv == ASSUME Inv, NEW j \in Jobs, Work(j) PROVE Inv'
<1> USE DEF Inv
<1>a. TypeOK /\ text[j] \in Texts
  BY DEF TypeOK
<1>1. CASE CheckUnchanged(j)
  <2>1. StoredBeforeActivity' /\ CheckpointListed'
    BY <1>1, SettleAnswer DEF CheckUnchanged, fileVars, QueueStates
  <2>2. TypeOK'
    BY <1>1, <1>a, SettleType DEF CheckUnchanged, TypeOK, fileVars, boundVars, QueueStates
  <2> QED
    BY <2>1, <2>2
<1>2. CASE LogActivity(j)
  <2>1. labelled[j] => Row(j) \in revisions
    BY <1>2 DEF LogActivity, StoredBeforeActivity
  <2>2. StoredBeforeActivity' /\ CheckpointListed'
    BY <1>2, <2>1, SettleAnswer DEF LogActivity, fileVars, QueueStates
  <2>3. TypeOK'
    BY <1>2, <1>a, SettleType DEF LogActivity, TypeOK, fileVars, boundVars, QueueStates
  <2> QED
    BY <2>2, <2>3
<1>3. CASE Check(j)
  <2> DEFINE to == IF lastHash = text[j] THEN "snapshot" ELSE "openCheck"
  <2>1. to \in JobSteps /\ to # "activity" /\ "check" \in JobSteps
    BY DEF JobSteps
  <2>2. Continue(j, "check", to) /\ UNCHANGED fileVars
    BY <1>3 DEF Check
  <2> HIDE DEF to
  <2> QED
    BY <1>a, <2>1, <2>2, ContinueInv DEF TypeOK, fileVars
<1>4. CASE OpenCheck(j)
  <2> DEFINE to == IF open THEN "hash" ELSE "write"
  <2>1. to \in JobSteps /\ to # "activity" /\ "openCheck" \in JobSteps
    BY DEF JobSteps
  <2>2. Continue(j, "openCheck", to) /\ UNCHANGED fileVars
    BY <1>4 DEF OpenCheck
  <2> HIDE DEF to
  <2> QED
    BY <1>a, <2>1, <2>2, ContinueInv DEF TypeOK, fileVars
<1>5. CASE WriteDisk(j)
  BY <1>5, <1>a, ContinueInv DEF WriteDisk, TypeOK, JobSteps
<1>6. CASE WriteCollab(j)
  BY <1>6, <1>a, ContinueInv DEF WriteCollab, TypeOK, JobSteps
<1>7. CASE WriteHash(j)
  BY <1>7, <1>a, ContinueInv DEF WriteHash, TypeOK, JobSteps
<1>8. CASE Snapshot(j)
  <2>1. revisions' = revisions \cup {Row(j)} /\ Continue(j, "snapshot", "activity")
    BY <1>8 DEF Snapshot, Row
  <2>2. Row(j) \in [job : Jobs, source : Texts]
    BY <1>a DEF Row
  <2>3. revisions' \subseteq [job : Jobs, source : Texts]
    BY <1>a, <2>1, <2>2 DEF TypeOK
  <2>4. "snapshot" \in JobSteps /\ "activity" \in JobSteps
    BY DEF JobSteps
  <2>5. UNCHANGED <<disk, collab, lastHash, writers>>
    BY <1>8 DEF Snapshot
  <2> HIDE DEF Inv
  <2> QED
    BY <1>a, <2>1, <2>3, <2>4, <2>5, ContinueInv DEF TypeOK
<1> QED
  BY <1>1, <1>2, <1>3, <1>4, <1>5, <1>6, <1>7, <1>8 DEF Work

LEMMA FailInv == ASSUME Inv, NEW j \in Jobs, Fail(j) PROVE Inv'
<1> DEFINE result == IF LastAttempt(j) THEN "failed" ELSE "delayed"
<1>1. result \in QueueStates /\ result # "completed"
  BY DEF QueueStates
<1>2. HoldsLock(j) /\ Settle(j, result) /\ UNCHANGED <<text, labelled, revisions>>
  BY DEF Fail, fileVars
<1> HIDE DEF result
<1>3. StoredBeforeActivity' /\ CheckpointListed'
  BY <1>1, <1>2, SettleAnswer
<1>4. TypeOK'
  BY <1>1, <1>2, SettleType DEF Fail, Inv, TypeOK, fileVars
<1> QED
  BY <1>3, <1>4 DEF Inv

\* The jobs a restart gives back form a list of jobs.
LEMMA CrashInv == ASSUME Inv, Crash PROVE Inv'
<1> USE DEF Inv
<1>1. PICK again \in SetToSeqs(Active \ stalled) : waiting' = again \o waiting
  BY DEF Crash
<1>2. again \in Seq(Jobs)
  <2>1. IsFiniteSet(Active \ stalled)
    BY SaveJobsAssumption, FS_Subset DEF Active
  <2>2. Cardinality(Active \ stalled) \in Nat
    BY <2>1, FS_CardinalityType
  <2>3. again \in [1 .. Cardinality(Active \ stalled) -> Active \ stalled]
    BY <1>1 DEF SetToSeqs
  <2> QED
    <3>1. again \in [1 .. Cardinality(Active \ stalled) -> Jobs]
      BY <2>3 DEF Active
    <3>2. Seq(Jobs) = UNION {[1 .. n -> Jobs] : n \in Nat}
      BY SeqDef
    <3> QED
      BY <2>2, <3>1, <3>2, Zenon
<1>3. TypeOK'
  <2>1. waiting' \in Seq(Jobs)
    BY <1>1, <1>2, ConcatProperties DEF TypeOK
  <2>2. state' \in [Jobs -> QueueStates] /\ stalled' \subseteq Jobs
    BY DEF Crash, TypeOK, QueueStates, Active
  <2>3. answer' \in [Jobs -> {"none", "pending", "ok", "error"}] /\ step' \in [Jobs -> JobSteps]
    BY DEF Crash, TypeOK, JobSteps
  <2>4. lock' \in Seq(Jobs) /\ open' \in BOOLEAN /\ crashes' \in Nat
    <3>1. lock' = <<>> /\ open' = FALSE
      BY DEF Crash
    <3>2. crashes' \in Nat
      BY DEF Crash, TypeOK
    <3>3. lock' \in Seq(Jobs)
      BY <3>1, EmptySeq
    <3>4. open' \in BOOLEAN
      BY <3>1, Zenon
    <3> QED
      BY <3>2, <3>3, <3>4
  <2>5. UNCHANGED <<text, labelled, requested, attempts, fileVars, failures, elsewhere>>
    BY DEF Crash
  <2> QED
    BY <2>1, <2>2, <2>3, <2>4, <2>5 DEF TypeOK, fileVars
<1>4. \A i \in Jobs : step'[i] # "activity" /\ (answer'[i] = "ok" => answer[i] = "ok")
  BY DEF Crash, TypeOK
<1> QED
  BY <1>3, <1>4 DEF Crash, StoredBeforeActivity, CheckpointListed, Row, fileVars

\* The steps of the queue and of the other writers leave the history alone
\* and bring no job to its last step.
LEMMA QueueInv ==
    ASSUME Inv, NEW j \in Jobs, Request(j) \/ Promote(j) \/ TimeOut(j)
    PROVE  Inv'
<1> USE DEF Inv
<1>1. TypeOK'
  <2>1. CASE Request(j)
    BY <2>1 DEF Request, TypeOK, fileVars, boundVars, QueueStates
  <2>2. CASE Promote(j)
    BY <2>2 DEF Promote, TypeOK, fileVars, boundVars, QueueStates
  <2>3. CASE TimeOut(j)
    BY <2>3 DEF TimeOut, TypeOK, queueVars, fileVars, boundVars
  <2> QED
    BY <2>1, <2>2, <2>3
<1>2. \A i \in Jobs : labelled[i] /\ answer'[i] = "ok" => answer[i] = "ok"
  BY DEF Request, Promote, TimeOut, TypeOK
<1>3. UNCHANGED <<text, labelled, revisions, step>>
  BY DEF Request, Promote, TimeOut, queueVars, fileVars
<1> QED
  BY <1>1, <1>2, <1>3 DEF StoredBeforeActivity, CheckpointListed, Row

LEMMA TakeInv == ASSUME Inv, Take PROVE Inv'
<1> USE DEF Inv
<1>1. waiting \in Seq(Jobs) /\ waiting # <<>>
  BY DEF Take, TypeOK
<1>2. Head(waiting) \in Jobs /\ Tail(waiting) \in Seq(Jobs)
  BY <1>1, TailType
<1>3. TypeOK'
  BY <1>2 DEF Take, TypeOK, fileVars, boundVars, QueueStates, JobSteps
<1>4. \A i \in Jobs : step'[i] = "activity" => step[i] = "activity"
  BY <1>2 DEF Take, TypeOK
<1>5. UNCHANGED <<text, labelled, revisions, answer>>
  BY DEF Take, fileVars
<1> QED
  BY <1>3, <1>4, <1>5 DEF StoredBeforeActivity, CheckpointListed, Row

\* Taking an entry out of a list of jobs leaves a list of jobs.
LEMMA RemoveAtType ==
    ASSUME NEW s \in Seq(Jobs), NEW m \in DOMAIN s
    PROVE  RemoveAt(s, m) \in Seq(Jobs)
<1>1. m \in 1 .. Len(s) /\ Len(s) \in Nat
  OBVIOUS
<1>2. SubSeq(s, 1, m - 1) \in Seq(Jobs)
  <2>1. \A i \in 1 .. m - 1 : s[i] \in Jobs
    BY <1>1
  <2> QED
    BY <1>1, <2>1, SubSeqProperties
<1>3. SubSeq(s, m + 1, Len(s)) \in Seq(Jobs)
  <2>1. \A i \in m + 1 .. Len(s) : s[i] \in Jobs
    BY <1>1
  <2> QED
    BY <1>1, <2>1, SubSeqProperties
<1> QED
  BY <1>2, <1>3, ConcatProperties DEF RemoveAt

LEMMA AdministratorInv == ASSUME Inv, NEW j \in Jobs, Cancel(j) \/ Retry(j) PROVE Inv'
<1> USE DEF Inv
<1>1. waiting' \in Seq(Jobs)
  <2>1. CASE Cancel(j)
    BY <2>1, RemoveAtType DEF Cancel, TypeOK
  <2>2. CASE Retry(j)
    BY <2>2 DEF Retry, TypeOK
  <2> QED
    BY <2>1, <2>2
<1>2. state' \in [Jobs -> QueueStates] /\ elsewhere' \in Nat
  <2>1. elsewhere' = elsewhere + 1 /\ elsewhere \in Nat /\ state \in [Jobs -> QueueStates]
    BY DEF Cancel, Retry, Bounded, TypeOK
  <2>2. \E s \in QueueStates : state' = [state EXCEPT ![j] = s]
    BY DEF Cancel, Retry, QueueStates
  <2> HIDE DEF Inv
  <2> QED
    BY <2>1, <2>2
<1>3. UNCHANGED <<text, labelled, requested, attempts, stalled, lock, step, answer, open, fileVars, failures, crashes>>
  BY DEF Cancel, Retry
<1>4. TypeOK'
  BY <1>1, <1>2, <1>3 DEF TypeOK, fileVars
<1> QED
  BY <1>3, <1>4 DEF StoredBeforeActivity, CheckpointListed, Row, fileVars

LEMMA OpenInv == ASSUME Inv, Open PROVE Inv'
BY DEF Inv, Open, Bounded, TypeOK, StoredBeforeActivity, CheckpointListed, Row,
       queueVars, fileVars

LEMMA WriterInv == ASSUME Inv, NEW t \in Texts, Close(t) \/ Replace(t) PROVE Inv'
<1> USE DEF Inv
<1>1. TypeOK'
  <2>1. CASE Close(t)
    BY <2>1 DEF Close, TypeOK, queueVars, boundVars
  <2>2. CASE Replace(t)
    BY <2>2 DEF Replace, Bounded, TypeOK, queueVars
  <2> QED
    BY <2>1, <2>2
<1>2. UNCHANGED <<text, labelled, revisions, answer, step>>
  BY DEF Close, Replace, queueVars
<1> QED
  BY <1>1, <1>2 DEF StoredBeforeActivity, CheckpointListed, Row

LEMMA StutterInv == ASSUME Inv, UNCHANGED vars PROVE Inv'
BY DEF Inv, vars, queueVars, fileVars, boundVars, TypeOK, StoredBeforeActivity, CheckpointListed, Row

LEMMA NextInv == Inv /\ [Next]_vars => Inv'
<1> SUFFICES ASSUME Inv, [Next]_vars PROVE Inv'
  OBVIOUS
<1>1. CASE UNCHANGED vars
  BY <1>1, StutterInv
<1>2. CASE Finished
  BY <1>2, StutterInv DEF Finished
<1>3. ASSUME NEW j \in Jobs, Request(j) \/ Promote(j) \/ TimeOut(j) PROVE Inv'
  BY <1>3, QueueInv
<1>4. ASSUME NEW j \in Jobs, Work(j) \/ Fail(j) PROVE Inv'
  BY <1>4, WorkInv, FailInv
<1>8. ASSUME NEW j \in Jobs, Cancel(j) \/ Retry(j) PROVE Inv'
  BY <1>8, AdministratorInv
<1>5. CASE Take \/ Open
  BY <1>5, TakeInv, OpenInv
<1>6. CASE Crash
  BY <1>6, CrashInv
<1>7. ASSUME NEW t \in Texts, Close(t) \/ Replace(t) PROVE Inv'
  BY <1>7, WriterInv
<1> QED
  BY <1>1, <1>2, <1>3, <1>4, <1>5, <1>6, <1>7, <1>8 DEF Next

\* Every state of the queue and of the file has its types.
THEOREM TypeCorrect == Spec => []TypeOK
<1>1. Spec => []Inv
  BY InitInv, NextInv, PTL DEF Spec
<1> QED
  BY <1>1, PTL DEF Inv

\* "A named checkpoint: answer once it is stored, so the history lists it":
\* the answer implies the revision, whatever fails, restarts or interleaves.
THEOREM CheckpointsAreListed == Spec => []CheckpointListed
<1>1. Spec => []Inv
  BY InitInv, NextInv, PTL DEF Spec
<1> QED
  BY <1>1, PTL DEF Inv
-----------------------------------------------------------------------------
(* The history holds the text of every save that completed, while no call  *)
(* fails and the server does not stop, whoever else writes the file.       *)

NoFaults == MaxFailures = 0 /\ MaxCrashes = 0

InHistory(t) == \E r \in revisions : r.source = t

\* Only the holder of the lock is past the first await of saveFile.
OneAtWork == \A j \in Jobs : step[j] \notin {"none", "check"} => HoldsLock(j)

\* The list of the queue holds each waiting job once.
QueueWaits ==
    /\ \A m \in DOMAIN waiting : state[waiting[m]] = "waiting"
    /\ \A m, n \in DOMAIN waiting : waiting[m] = waiting[n] => m = n

WorkersActive == \A j \in Jobs : step[j] # "none" => state[j] = "active"

QueueParts == OneAtWork /\ QueueWaits /\ WorkersActive

\* Whoever logs the activity of a save has stored its revision.
ActivityStored == \A j \in Jobs : step[j] = "activity" => InHistory(text[j])

\* The text of the stored hash is in the history, or the job that wrote the
\* hash is about to put it there.
HashInHistory ==
    lastHash # NoText =>
        \/ InHistory(lastHash)
        \/ \E j \in Jobs : step[j] = "snapshot" /\ text[j] = lastHash

HistoryParts == ActivityStored /\ HashInHistory /\ EverySaveInHistory

HistoryInv == Inv /\ QueueParts /\ HistoryParts


\* A step of saveFile that goes on to its next await keeps the holder alone.
LEMMA ContinueAtWork ==
    ASSUME TypeOK, OneAtWork, NEW j \in Jobs, NEW from, NEW to, Continue(j, from, to)
    PROVE  /\ OneAtWork'
           /\ step'[j] = to
           /\ \A i \in Jobs \ {j} : step'[i] = step[i] /\ step[i] \in {"none", "check"}
<1>1. lock' = lock /\ HoldsLock(j) /\ step' = [step EXCEPT ![j] = to]
  BY DEF Continue
<1>2. \A i \in Jobs \ {j} : ~ HoldsLock(i)
  BY <1>1 DEF HoldsLock
<1>3. step'[j] = to /\ \A i \in Jobs \ {j} : step'[i] = step[i] /\ step[i] \in {"none", "check"}
  BY <1>1, <1>2 DEF TypeOK, OneAtWork
<1> QED
  BY <1>1, <1>3 DEF OneAtWork, HoldsLock

\* Once the holder has settled nobody is past the first await.
LEMMA SettleAtWork ==
    ASSUME TypeOK, OneAtWork, NEW j \in Jobs, NEW result, HoldsLock(j), Settle(j, result)
    PROVE  \A i \in Jobs : step'[i] \in {"none", "check"}
<1>1. \A i \in Jobs \ {j} : ~ HoldsLock(i)
  BY DEF HoldsLock
<1> QED
  BY <1>1 DEF Settle, TypeOK, OneAtWork

LEMMA WorkHistory ==
    ASSUME TypeOK, QueueParts, HistoryParts, NEW j \in Jobs, Work(j)
    PROVE  HistoryParts'
<1> USE DEF HistoryParts, QueueParts
<1>a. text[j] \in Texts /\ NoText \notin Texts
  BY SaveJobsAssumption DEF TypeOK
<1>1. CASE CheckUnchanged(j)
  <2>1. /\ HoldsLock(j) /\ Settle(j, "completed") /\ UNCHANGED <<text, lastHash, revisions>>
        /\ step[j] = "check" /\ lastHash = text[j]
    BY <1>1 DEF CheckUnchanged, fileVars
  <2>2. \A i \in Jobs : step'[i] \in {"none", "check"}
    BY <2>1, SettleAtWork
  <2>3. \A i \in Jobs : step[i] # "snapshot"
    BY <2>1 DEF OneAtWork, HoldsLock
  <2>4. InHistory(lastHash)
    BY <1>a, <2>1, <2>3 DEF HashInHistory
  <2>5. EverySaveInHistory'
    <3>1. \A i \in Jobs : state'[i] = "completed" => state[i] = "completed" \/ i = j
      BY <2>1 DEF Settle, TypeOK
    <3> QED
      BY <2>1, <2>4, <3>1 DEF EverySaveInHistory, InHistory
  <2>6. ActivityStored'
    BY <2>2 DEF ActivityStored
  <2>7. HashInHistory'
    BY <2>1, <2>4 DEF HashInHistory, InHistory
  <2> QED
    BY <2>5, <2>6, <2>7
<1>2. CASE LogActivity(j)
  <2>1. /\ HoldsLock(j) /\ Settle(j, "completed") /\ UNCHANGED <<text, lastHash, revisions>>
        /\ step[j] = "activity"
    BY <1>2 DEF LogActivity, fileVars
  <2>2. \A i \in Jobs : step'[i] \in {"none", "check"}
    BY <2>1, SettleAtWork
  <2>3. \A i \in Jobs : step[i] # "snapshot"
    BY <2>1 DEF OneAtWork, HoldsLock
  <2>4. InHistory(text[j])
    BY <2>1 DEF ActivityStored
  <2>5. EverySaveInHistory'
    <3>1. \A i \in Jobs : state'[i] = "completed" => state[i] = "completed" \/ i = j
      BY <2>1 DEF Settle, TypeOK
    <3> QED
      BY <2>1, <2>4, <3>1 DEF EverySaveInHistory, InHistory
  <2>6. ActivityStored'
    BY <2>2 DEF ActivityStored
  <2>7. HashInHistory'
    BY <2>1, <2>3 DEF HashInHistory, InHistory
  <2> QED
    BY <2>5, <2>6, <2>7
<1>3. CASE Check(j) \/ OpenCheck(j) \/ WriteDisk(j) \/ WriteCollab(j)
  <2>1. PICK from \in {"check", "openCheck", "write", "collab"},
             to \in {"openCheck", "write", "collab", "hash", "snapshot"} :
             /\ Continue(j, from, to)
             /\ UNCHANGED <<lastHash, revisions>>
    BY <1>3 DEF Check, OpenCheck, WriteDisk, WriteCollab, fileVars
  <2>2. UNCHANGED <<text, state>> /\ step[j] = from
    BY <2>1 DEF Continue, queueVars
  <2>3. step'[j] = to /\ \A i \in Jobs \ {j} : step'[i] = step[i]
    BY <2>1, ContinueAtWork
  <2>4. ActivityStored'
    BY <2>1, <2>2, <2>3 DEF ActivityStored, InHistory
  <2>5. HashInHistory'
    <3>1. \A i \in Jobs : step[i] = "snapshot" => step'[i] = "snapshot"
      BY <2>1, <2>2, <2>3
    <3> QED
      BY <2>1, <2>2, <3>1 DEF HashInHistory, InHistory
  <2>6. EverySaveInHistory'
    BY <2>1, <2>2 DEF EverySaveInHistory
  <2> QED
    BY <2>4, <2>5, <2>6
<1>4. CASE WriteHash(j)
  <2>1. Continue(j, "hash", "snapshot") /\ lastHash' = text[j] /\ revisions' = revisions
    BY <1>4 DEF WriteHash
  <2>2. UNCHANGED <<text, state>>
    BY <2>1 DEF Continue, queueVars
  <2>3. step'[j] = "snapshot" /\ \A i \in Jobs \ {j} : step'[i] = step[i]
    BY <2>1, ContinueAtWork
  <2>4. ActivityStored'
    BY <2>1, <2>2, <2>3 DEF ActivityStored, InHistory
  <2>5. HashInHistory'
    BY <2>1, <2>2, <2>3 DEF HashInHistory, InHistory
  <2>6. EverySaveInHistory'
    BY <2>1, <2>2 DEF EverySaveInHistory
  <2> QED
    BY <2>4, <2>5, <2>6
<1>5. CASE Snapshot(j)
  <2> DEFINE row == [job |-> j, source |-> text[j]]
  <2>1. Continue(j, "snapshot", "activity") /\ lastHash' = lastHash /\ revisions' = revisions \cup {row}
    BY <1>5 DEF Snapshot
  <2>2. UNCHANGED <<text, state>> /\ row.source = text[j] /\ row \in revisions'
    BY <2>1 DEF Continue, queueVars
  <2> HIDE DEF row
  <2>3. /\ step'[j] = "activity"
        /\ \A i \in Jobs \ {j} : step'[i] = step[i] /\ step[i] \in {"none", "check"}
    BY <2>1, ContinueAtWork
  <2>4. InHistory(text[j])' /\ \A t : InHistory(t) => InHistory(t)'
    BY <2>1, <2>2 DEF InHistory
  <2>5. ActivityStored'
    BY <2>2, <2>3, <2>4 DEF ActivityStored, InHistory
  <2>6. HashInHistory'
    BY <2>1, <2>2, <2>3, <2>4 DEF HashInHistory, InHistory
  <2>7. EverySaveInHistory'
    BY <2>1, <2>2 DEF EverySaveInHistory
  <2> QED
    BY <2>5, <2>6, <2>7
<1> QED
  BY <1>1, <1>2, <1>3, <1>4, <1>5 DEF Work

\* The other steps leave the history, the hash and the jobs at work alone and
\* complete no job.
LEMMA OtherHistory ==
    ASSUME TypeOK, HistoryParts, UNCHANGED <<text, lastHash, revisions>>,
           \A i \in Jobs : state'[i] = "completed" => state[i] = "completed",
           \A i \in Jobs : step'[i] = "activity" => step[i] = "activity",
           \A i \in Jobs : step[i] = "snapshot" => step'[i] = "snapshot"
    PROVE  HistoryParts'
<1>1. ActivityStored'
  BY DEF HistoryParts, ActivityStored, InHistory
<1>2. HashInHistory'
  BY DEF HistoryParts, HashInHistory, InHistory
<1>3. EverySaveInHistory'
  BY DEF HistoryParts, EverySaveInHistory
<1> QED
  BY <1>1, <1>2, <1>3 DEF HistoryParts

\* The head of a list of jobs and what comes after it.
LEMMA Heads ==
    ASSUME NEW s \in Seq(Jobs), s # <<>>
    PROVE  /\ Head(s) = s[1] /\ 1 \in DOMAIN s /\ Head(s) \in Jobs
           /\ \A m \in DOMAIN Tail(s) : m + 1 \in DOMAIN s /\ m + 1 # 1 /\ Tail(s)[m] = s[m + 1]
OBVIOUS

\* Work settles the job that holds the lock or moves it to its next await.
LEMMA WorkQueue == ASSUME TypeOK, QueueParts, NEW j \in Jobs, Work(j) PROVE QueueParts'
<1> USE DEF QueueParts
<1>1. CASE CheckUnchanged(j) \/ LogActivity(j)
  <2>1. /\ HoldsLock(j) /\ Settle(j, "completed") /\ waiting' = waiting /\ step[j] # "none"
    BY <1>1 DEF CheckUnchanged, LogActivity
  <2>2. \A i \in Jobs : step'[i] \in {"none", "check"}
    BY <2>1, SettleAtWork
  <2>3. state[j] = "active" /\ state' = [state EXCEPT ![j] = "completed"]
    BY <2>1 DEF WorkersActive, Settle
  <2>4. WorkersActive'
    BY <2>1, <2>3 DEF Settle, WorkersActive, TypeOK
  <2>5. QueueWaits'
    BY <2>1, <2>3 DEF QueueWaits, TypeOK
  <2> QED
    BY <2>2, <2>4, <2>5 DEF OneAtWork
<1>2. CASE ~ (CheckUnchanged(j) \/ LogActivity(j))
  <2>1. PICK from \in JobSteps \ {"none"}, to \in JobSteps : Continue(j, from, to)
    BY <1>2 DEF Work, Check, OpenCheck, WriteDisk, WriteCollab, WriteHash, Snapshot, JobSteps
  <2>2. OneAtWork' /\ step'[j] = to /\ \A i \in Jobs \ {j} : step'[i] = step[i]
    BY <2>1, ContinueAtWork
  <2>3. UNCHANGED <<state, waiting>> /\ step[j] # "none"
    BY <2>1 DEF Continue, queueVars
  <2>4. QueueWaits'
    BY <2>3 DEF QueueWaits
  <2>5. WorkersActive'
    BY <2>2, <2>3 DEF WorkersActive
  <2> QED
    BY <2>2, <2>4, <2>5
<1> QED
  BY <1>1, <1>2

\* A job that joins the list was nowhere at work.
LEMMA JoinQueue ==
    ASSUME TypeOK, QueueParts, NEW j \in Jobs, state[j] \in {"none", "delayed", "failed"},
           state' = [state EXCEPT ![j] = "waiting"], waiting' = Append(waiting, j),
           UNCHANGED <<step, lock>>
    PROVE  QueueParts'
<1>1. \A m \in DOMAIN waiting : waiting[m] # j /\ waiting[m] \in Jobs
  BY DEF QueueParts, QueueWaits, TypeOK
<1>2. waiting \in Seq(Jobs) /\ Len(waiting') = Len(waiting) + 1 /\ Len(waiting) \in Nat
      /\ waiting'[Len(waiting) + 1] = j
      /\ \A m \in DOMAIN waiting : waiting'[m] = waiting[m]
      /\ DOMAIN waiting = 1 .. Len(waiting) /\ DOMAIN waiting' = 1 .. Len(waiting) + 1
  BY DEF TypeOK
<1>3. \A m \in DOMAIN waiting' : m \in DOMAIN waiting \/ m = Len(waiting) + 1
  BY <1>2
<1>4. QueueWaits'
  <2>1. \A m \in DOMAIN waiting' : state'[waiting'[m]] = "waiting"
    BY <1>1, <1>2, <1>3 DEF QueueParts, QueueWaits, TypeOK
  <2>2. \A m, n \in DOMAIN waiting' : waiting'[m] = waiting'[n] => m = n
    BY <1>1, <1>2, <1>3 DEF QueueParts, QueueWaits
  <2> QED
    BY <2>1, <2>2 DEF QueueWaits
<1>5. WorkersActive'
  BY DEF QueueParts, WorkersActive, TypeOK
<1>6. OneAtWork'
  BY DEF QueueParts, OneAtWork, HoldsLock
<1> QED
  BY <1>4, <1>5, <1>6 DEF QueueParts

\* A caller that queues for a held lock leaves its holder in front.
LEMMA AppendHead ==
    ASSUME NEW s \in Seq(Jobs), NEW j \in Jobs, s # <<>>
    PROVE  Head(Append(s, j)) = Head(s) /\ Append(s, j) # <<>>
OBVIOUS

LEMMA TakeQueue ==
    ASSUME TypeOK, QueueParts, Take
    PROVE  QueueParts' /\ step[Head(waiting)] = "none"
<1> USE DEF QueueParts
<1> DEFINE j == Head(waiting)
<1>1. /\ waiting \in Seq(Jobs) /\ waiting # <<>> /\ waiting' = Tail(waiting)
      /\ state' = [state EXCEPT ![j] = "active"] /\ step' = [step EXCEPT ![j] = "check"]
      /\ lock' = Append(lock, j)
  BY DEF Take, TypeOK
<1>2. /\ j = waiting[1] /\ 1 \in DOMAIN waiting /\ j \in Jobs
      /\ \A m \in DOMAIN Tail(waiting) :
             m + 1 \in DOMAIN waiting /\ m + 1 # 1 /\ Tail(waiting)[m] = waiting[m + 1]
  BY <1>1, Heads
<1>3. state[j] = "waiting"
  BY <1>2 DEF QueueWaits
<1> HIDE DEF j
<1>4. step[j] = "none"
  BY <1>2, <1>3 DEF WorkersActive
<1>5. \A m \in DOMAIN waiting' :
          m + 1 \in DOMAIN waiting /\ waiting[m + 1] # j /\ waiting'[m] = waiting[m + 1]
          /\ waiting[m + 1] \in Jobs /\ m \in Nat
  <2>1. \A m \in DOMAIN Tail(waiting) : m \in Nat
    BY <1>1
  <2>2. \A m \in DOMAIN waiting : waiting[m] \in Jobs
    BY <1>1
  <2> QED
    BY <1>1, <1>2, <2>1, <2>2 DEF QueueWaits
<1>6. QueueWaits'
  <2>1. \A m \in DOMAIN waiting' : state'[waiting'[m]] = "waiting"
    BY <1>1, <1>5 DEF QueueWaits, TypeOK
  <2>2. \A m, n \in DOMAIN waiting' : waiting'[m] = waiting'[n] => m = n
    BY <1>5 DEF QueueWaits
  <2> QED
    BY <2>1, <2>2 DEF QueueWaits
<1>7. WorkersActive'
  BY <1>1, <1>2 DEF WorkersActive, TypeOK
<1>8. OneAtWork'
  <2>1. \A i \in Jobs : step'[i] \notin {"none", "check"} => step'[i] = step[i]
    BY <1>1, <1>2 DEF TypeOK
  <2>2. lock # <<>> => Head(lock') = Head(lock) /\ lock' # <<>>
    <3>1. lock \in Seq(Jobs)
      BY DEF TypeOK
    <3> QED
      BY <1>1, <1>2, <3>1, AppendHead
  <2> QED
    BY <2>1, <2>2 DEF OneAtWork, HoldsLock
<1> QED
  BY <1>4, <1>6, <1>7, <1>8 DEF j

\* What is left of a list after an entry was taken out.
LEMMA RemoveAtEntries ==
    ASSUME NEW s \in Seq(Jobs), NEW m \in DOMAIN s
    PROVE  \A i \in DOMAIN RemoveAt(s, m) :
               LET j == IF i < m THEN i ELSE i + 1
               IN  j \in DOMAIN s /\ j # m /\ RemoveAt(s, m)[i] = s[j]
<1>1. m \in 1 .. Len(s) /\ Len(s) \in Nat
  OBVIOUS
<1> DEFINE a == SubSeq(s, 1, m - 1)
           b == SubSeq(s, m + 1, Len(s))
<1>2. /\ a \in Seq(Jobs) /\ Len(a) = m - 1 /\ \A i \in 1 .. m - 1 : a[i] = s[i]
  <2>1. \A i \in 1 .. m - 1 : s[i] \in Jobs
    BY <1>1
  <2> QED
    BY <1>1, <2>1, SubSeqProperties
<1>3. /\ b \in Seq(Jobs) /\ Len(b) = Len(s) - m
      /\ \A i \in 1 .. Len(s) - m : b[i] = s[m + i]
  <2>1. \A i \in m + 1 .. Len(s) : s[i] \in Jobs
    BY <1>1
  <2> QED
    BY <1>1, <2>1, SubSeqProperties
<1> HIDE DEF a, b
<1>4. /\ Len(a \o b) = Len(s) - 1 /\ a \o b \in Seq(Jobs)
      /\ \A i \in 1 .. Len(s) - 1 : (a \o b)[i] = IF i < m THEN a[i] ELSE b[i - (m - 1)]
  <2>1. /\ a \o b \in Seq(Jobs) /\ Len(a \o b) = Len(a) + Len(b)
        /\ \A i \in 1 .. Len(a) + Len(b) : (a \o b)[i] = IF i <= Len(a) THEN a[i] ELSE b[i - Len(a)]
    BY <1>2, <1>3, ConcatProperties
  <2>2. Len(a) + Len(b) = Len(s) - 1 /\ Len(a) = m - 1
    BY <1>1, <1>2, <1>3
  <2>3. \A i \in 1 .. Len(s) - 1 : i <= m - 1 <=> i < m
    BY <1>1
  <2> QED
    BY <2>1, <2>2, <2>3
<1>5. RemoveAt(s, m) = a \o b
  BY DEF RemoveAt, a, b
<1> SUFFICES ASSUME NEW i \in 1 .. Len(s) - 1
             PROVE  LET j == IF i < m THEN i ELSE i + 1
                    IN  j \in DOMAIN s /\ j # m /\ (a \o b)[i] = s[j]
  BY <1>1, <1>4, <1>5
<1>6. CASE i < m
  BY <1>1, <1>2, <1>4, <1>6
<1>7. CASE ~ (i < m)
  <2>1. i - (m - 1) \in 1 .. Len(s) - m /\ m + (i - (m - 1)) = i + 1
    BY <1>1, <1>7
  <2> QED
    <3>1. (a \o b)[i] = b[i - (m - 1)]
      BY <1>4, <1>7
    <3>2. b[i - (m - 1)] = s[m + (i - (m - 1))]
      BY <1>3, <2>1
    <3>3. i + 1 \in DOMAIN s /\ i + 1 # m
      BY <1>1, <1>7
    <3> QED
      BY <1>7, <2>1, <3>1, <3>2, <3>3
<1> QED
  BY <1>6, <1>7

\* A cancelled job was in the list once, or in a backoff.
LEMMA CancelQueue == ASSUME TypeOK, QueueParts, NEW j \in Jobs, Cancel(j) PROVE QueueParts'
<1> USE DEF QueueParts
<1>1. /\ state[j] \in {"waiting", "delayed"} /\ state' = [state EXCEPT ![j] = "removed"]
      /\ UNCHANGED <<step, lock>>
  BY DEF Cancel
<1>2. WorkersActive' /\ OneAtWork'
  BY <1>1 DEF WorkersActive, OneAtWork, HoldsLock, TypeOK
<1>3. CASE state[j] = "delayed"
  <2>1. waiting' = waiting
    BY <1>3 DEF Cancel
  <2>2. QueueWaits'
    BY <1>1, <1>3, <2>1 DEF QueueWaits, TypeOK
  <2> QED
    BY <1>2, <2>2
<1>4. CASE state[j] = "waiting"
  <2>1. PICK m \in DOMAIN waiting : waiting[m] = j /\ waiting' = RemoveAt(waiting, m)
    BY <1>4 DEF Cancel
  <2>2. waiting \in Seq(Jobs) /\ RemoveAt(waiting, m) \in Seq(Jobs)
    BY RemoveAtType DEF TypeOK
  <2>3. \A i \in DOMAIN waiting' :
            LET k == IF i < m THEN i ELSE i + 1
            IN  k \in DOMAIN waiting /\ k # m /\ waiting'[i] = waiting[k]
    BY <2>1, <2>2, RemoveAtEntries
  <2>4. \A i \in DOMAIN waiting' : state'[waiting'[i]] = "waiting"
    <3> SUFFICES ASSUME NEW i \in DOMAIN waiting' PROVE state'[waiting'[i]] = "waiting"
      OBVIOUS
    <3>1. PICK k \in DOMAIN waiting : k # m /\ waiting'[i] = waiting[k]
      BY <2>3
    <3>2. waiting[k] # j /\ waiting[k] \in Jobs
      BY <2>1, <2>2, <3>1 DEF QueueWaits
    <3> QED
      BY <1>1, <3>1, <3>2 DEF QueueWaits, TypeOK
  <2>5. \A i, n \in DOMAIN waiting' : waiting'[i] = waiting'[n] => i = n
    <3> SUFFICES ASSUME NEW i \in DOMAIN waiting', NEW n \in DOMAIN waiting', waiting'[i] = waiting'[n]
                 PROVE  i = n
      OBVIOUS
    <3>1. (IF i < m THEN i ELSE i + 1) = (IF n < m THEN n ELSE n + 1)
      BY <2>3 DEF QueueWaits
    <3>2. i \in Nat /\ n \in Nat /\ m \in Nat
      BY <2>1, <2>2
    <3> QED
      BY <3>1, <3>2
  <2>6. QueueWaits'
    BY <2>4, <2>5 DEF QueueWaits
  <2> QED
    BY <1>2, <2>6
<1> QED
  BY <1>1, <1>3, <1>4

LEMMA HistoryStep ==
    ASSUME NoFaults, TypeOK, QueueParts, HistoryParts, [Next]_vars
    PROVE  QueueParts' /\ HistoryParts'
<1>1. ASSUME NEW j \in Jobs, Work(j) PROVE QueueParts' /\ HistoryParts'
  BY <1>1, WorkQueue, WorkHistory
<1>2. ASSUME NEW j \in Jobs, Request(j) \/ Promote(j) \/ Retry(j) PROVE QueueParts' /\ HistoryParts'
  <2>1. /\ state[j] \in {"none", "delayed", "failed"} /\ waiting' = Append(waiting, j)
        /\ state' = [state EXCEPT ![j] = "waiting"]
        /\ UNCHANGED <<step, lock, text, lastHash, revisions>>
    BY <1>2 DEF Request, Promote, Retry, fileVars
  <2>2. \A i \in Jobs : state'[i] = "completed" => state[i] = "completed"
    BY <2>1 DEF TypeOK
  <2> QED
    BY <2>1, <2>2, JoinQueue, OtherHistory
<1>3. ASSUME NEW j \in Jobs, Cancel(j) PROVE QueueParts' /\ HistoryParts'
  <2>1. state' = [state EXCEPT ![j] = "removed"] /\ UNCHANGED <<step, text, lastHash, revisions>>
    BY <1>3 DEF Cancel, fileVars
  <2>2. \A i \in Jobs : state'[i] = "completed" => state[i] = "completed"
    BY <2>1 DEF TypeOK
  <2> QED
    BY <1>3, <2>1, <2>2, CancelQueue, OtherHistory
<1>4. CASE Take
  <2>1. QueueParts' /\ step[Head(waiting)] = "none"
    BY <1>4, TakeQueue
  <2>2. waiting # <<>> /\ waiting \in Seq(Jobs)
    BY <1>4 DEF Take, TypeOK
  <2>3. Head(waiting) \in Jobs
    BY <2>2, Heads
  <2>4. /\ state' = [state EXCEPT ![Head(waiting)] = "active"]
        /\ step' = [step EXCEPT ![Head(waiting)] = "check"]
        /\ UNCHANGED <<text, lastHash, revisions>>
    BY <1>4 DEF Take, fileVars
  <2>5. \A i \in Jobs : state'[i] = "completed" => state[i] = "completed"
    BY <2>3, <2>4 DEF TypeOK
  <2>6. \A i \in Jobs : /\ step'[i] = "activity" => step[i] = "activity"
                        /\ step[i] = "snapshot" => step'[i] = "snapshot"
    BY <2>1, <2>3, <2>4 DEF TypeOK
  <2> QED
    BY <2>1, <2>4, <2>5, <2>6, OtherHistory
<1>5. CASE \/ \E j \in Jobs : TimeOut(j)
           \/ Open
           \/ \E t \in Texts : Close(t) \/ Replace(t)
           \/ Finished
           \/ UNCHANGED vars
  <2>1. UNCHANGED <<state, waiting, lock, step, text, lastHash, revisions>>
    BY <1>5 DEF TimeOut, Open, Close, Replace, Finished, vars, queueVars, fileVars
  <2>2. QueueParts'
    BY <2>1 DEF QueueParts, OneAtWork, QueueWaits, WorkersActive, HoldsLock
  <2> QED
    BY <2>1, <2>2, OtherHistory
<1>6. ASSUME NEW j \in Jobs PROVE ~ Fail(j)
  BY DEF Fail, NoFaults, TypeOK
<1>7. ~ Crash
  BY DEF Crash, NoFaults, TypeOK
<1> QED
  BY <1>1, <1>2, <1>3, <1>4, <1>5, <1>6, <1>7 DEF Next

LEMMA InitHistory == Init => QueueParts /\ HistoryParts
<1> SUFFICES ASSUME Init PROVE QueueParts /\ HistoryParts
  OBVIOUS
<1> QED
  BY DEF Init, QueueParts, HistoryParts, OneAtWork, QueueWaits, WorkersActive, ActivityStored,
         HashInHistory, EverySaveInHistory

LEMMA AlwaysHistory == ASSUME NoFaults PROVE Spec => [](Inv /\ QueueParts /\ HistoryParts)
<1>1. Init => Inv /\ QueueParts /\ HistoryParts
  BY InitInv, InitHistory
<1>2. Inv /\ QueueParts /\ HistoryParts /\ [Next]_vars => (Inv /\ QueueParts /\ HistoryParts)'
  BY NextInv, HistoryStep DEF Inv
<1> QED
  BY <1>1, <1>2, PTL DEF Spec

\* "Version snapshots created automatically during manual saves": while no
\* call fails and the server does not stop, the text of every save that
\* completed is in the history, also of one skipped for its hash, whoever
\* else opens, replaces, cancels or retries.
THEOREM SavesInHistory == ASSUME NoFaults PROVE Spec => []EverySaveInHistory
<1>1. Inv /\ QueueParts /\ HistoryParts => EverySaveInHistory
  BY DEF HistoryParts
<1> QED
  BY <1>1, AlwaysHistory, PTL

-----------------------------------------------------------------------------
(* When nothing else writes the file either, the jobs run in the order     *)
(* their requests were queued.                                             *)

NothingElse == MaxElsewhere = 0

\* The saves that are over: those of the first Done requests.
Done == Len(requested) - Len(lock) - Len(waiting)

\* A job is requested once.
RequestedOnce ==
    /\ \A m, n \in DOMAIN requested : requested[m] = requested[n] => m = n
    /\ \A m \in DOMAIN requested : state[requested[m]] # "none"

\* The lock, and behind it the list of the queue, hold the requests that are
\* not over, in order.
InRequestOrder ==
    /\ Done \in Nat
    /\ \A i \in 1 .. Len(lock) :
          lock[i] = requested[Done + i] /\ state[lock[i]] = "active"
    /\ \A i \in 1 .. Len(waiting) :
          waiting[i] = requested[Done + Len(lock) + i] /\ state[waiting[i]] = "waiting"

NeverDelayed == \A j \in Jobs : state[j] # "delayed"

Stored(t) == disk = t /\ collab = t

\* What the file holds between two saves, and at each await of a save.
FileAgrees ==
    IF lock # <<>> /\ step[lock[1]] \notin {"none", "check", "openCheck", "write"}
    THEN LET t == text[lock[1]]
         IN  /\ disk = t
             /\ step[lock[1]] # "collab" => collab = t
             /\ step[lock[1]] \in {"snapshot", "activity"} => lastHash = t
    ELSE IF Done = 0 THEN lastHash = NoText
    ELSE Stored(text[requested[Done]]) /\ lastHash = text[requested[Done]]

\* Every save that wrote the drive copy is over, or is the one at work.
WritersDone ==
    \A m \in DOMAIN writers : \E i \in 1 .. Len(requested) :
        i <= Done + (IF lock = <<>> THEN 0 ELSE 1) /\ writers[m] = requested[i]

OrderParts ==
    /\ open = FALSE /\ NeverDelayed
    /\ RequestedOnce /\ InRequestOrder
    /\ FileAgrees /\ WritersDone /\ OlderNeverAfterNewer

LEMMA Lengths ==
    ASSUME TypeOK, InRequestOrder
    PROVE  /\ Len(requested) \in Nat /\ Len(lock) \in Nat /\ Len(waiting) \in Nat /\ Done \in Nat
           /\ Len(requested) = Done + Len(lock) + Len(waiting)
           /\ DOMAIN requested = 1 .. Len(requested) /\ DOMAIN writers = 1 .. Len(writers)
           /\ Len(writers) \in Nat
           /\ \A i \in 1 .. Len(requested) : requested[i] \in Jobs
           /\ \A i \in 1 .. Len(lock) : lock[i] \in Jobs
           /\ \A i \in 1 .. Len(waiting) : waiting[i] \in Jobs
<1>1. /\ Len(requested) \in Nat /\ Len(lock) \in Nat /\ Len(waiting) \in Nat
      /\ Len(writers) \in Nat
      /\ DOMAIN requested = 1 .. Len(requested) /\ DOMAIN writers = 1 .. Len(writers)
      /\ \A i \in 1 .. Len(requested) : requested[i] \in Jobs
      /\ \A i \in 1 .. Len(lock) : lock[i] \in Jobs
      /\ \A i \in 1 .. Len(waiting) : waiting[i] \in Jobs
  BY DEF TypeOK
<1>2. Done \in Nat
  BY DEF InRequestOrder
<1> QED
  BY <1>1, <1>2 DEF Done

\* The job that holds the lock is the first request that is not over.
LEMMA HolderNext ==
    ASSUME TypeOK, InRequestOrder, NEW j \in Jobs, HoldsLock(j)
    PROVE  /\ lock # <<>> /\ lock[1] = j /\ Len(lock) >= 1
           /\ Done + 1 \in 1 .. Len(requested) /\ j = requested[Done + 1]
           /\ state[j] = "active"
<1>1. lock \in Seq(Jobs) /\ lock # <<>> /\ Head(lock) = j
  BY DEF HoldsLock, TypeOK
<1>2. lock[1] = j /\ Len(lock) >= 1
  BY <1>1
<1>3. 1 \in 1 .. Len(lock) /\ Done + 1 \in 1 .. Len(requested)
  BY <1>2, Lengths
<1> QED
  BY <1>1, <1>2, <1>3 DEF InRequestOrder

\* A step of the holder changes no list of the queue.
LEMMA ContinueOrder ==
    ASSUME TypeOK, OneAtWork, OrderParts, NEW j \in Jobs, NEW from, NEW to, Continue(j, from, to)
    PROVE  /\ open' = FALSE /\ NeverDelayed' /\ RequestedOnce' /\ InRequestOrder'
           /\ Done' = Done /\ UNCHANGED <<requested, lock, text>>
           /\ lock # <<>> /\ lock[1] = j /\ step[lock[1]] = from /\ step'[lock[1]] = to
           /\ text[j] \in Texts
<1>1. UNCHANGED <<state, text, requested, waiting, lock, open>>
  BY DEF Continue, queueVars
<1>2. Done' = Done
  BY <1>1 DEF Done
<1>3. NeverDelayed' /\ RequestedOnce' /\ InRequestOrder'
  BY <1>1, <1>2 DEF OrderParts, NeverDelayed, RequestedOnce, InRequestOrder
<1>4. lock # <<>> /\ lock[1] = j
  BY HolderNext DEF Continue, OrderParts
<1>5. step[j] = from /\ step'[j] = to /\ text[j] \in Texts
  BY DEF Continue, TypeOK
<1> QED
  BY <1>1, <1>2, <1>3, <1>4, <1>5 DEF OrderParts

\* The writers of the drive copy, when it is not written and the saves that
\* are over stay over.
LEMMA SameWriters ==
    ASSUME TypeOK, OrderParts, UNCHANGED <<requested, writers, lock, waiting>>
    PROVE  WritersDone' /\ OlderNeverAfterNewer'
<1>1. Done' = Done
  BY DEF Done
<1> QED
  BY <1>1 DEF OrderParts, WritersDone, OlderNeverAfterNewer, RequestedAfter

\* The job at work was requested after all that wrote before it.
LEMMA WriteOrder ==
    ASSUME TypeOK, OneAtWork, OrderParts, NEW j \in Jobs, HoldsLock(j),
           writers' = Append(writers, j), UNCHANGED <<requested, lock, waiting>>
    PROVE  WritersDone' /\ OlderNeverAfterNewer'
<1>1. /\ lock # <<>> /\ Done + 1 \in 1 .. Len(requested) /\ j = requested[Done + 1]
  BY HolderNext DEF OrderParts
<1>2. /\ Len(writers) \in Nat /\ DOMAIN writers = 1 .. Len(writers)
      /\ DOMAIN requested = 1 .. Len(requested) /\ Len(requested) \in Nat /\ Done \in Nat
  BY Lengths DEF OrderParts
<1>3. /\ DOMAIN writers' = 1 .. Len(writers) + 1
      /\ writers'[Len(writers) + 1] = j
      /\ \A m \in DOMAIN writers : writers'[m] = writers[m]
  BY <1>2 DEF TypeOK
<1>4. Done' = Done
  BY DEF Done
<1>5. \A m \in DOMAIN writers' : m \in DOMAIN writers \/ m = Len(writers) + 1
  BY <1>2, <1>3
<1>6. \A m \in DOMAIN writers : \E i \in 1 .. Len(requested) :
          i <= Done + 1 /\ writers[m] = requested[i]
  BY <1>1 DEF OrderParts, WritersDone
<1>7. WritersDone'
  <2> SUFFICES ASSUME NEW m \in DOMAIN writers'
               PROVE  \E i \in 1 .. Len(requested) : i <= Done + 1 /\ writers'[m] = requested[i]
    BY <1>1, <1>4 DEF WritersDone
  <2>1. CASE m \in DOMAIN writers
    BY <1>3, <1>6, <2>1
  <2>2. CASE m = Len(writers) + 1
    BY <1>1, <1>2, <1>3, <2>2
  <2> QED
    BY <1>5, <2>1, <2>2
<1>8. \A m \in DOMAIN writers : ~ RequestedAfter(writers[m], j)
  <2> SUFFICES ASSUME NEW m \in DOMAIN writers,
                      NEW p \in DOMAIN requested, NEW q \in DOMAIN requested,
                      requested[p] = j, requested[q] = writers[m], p < q
               PROVE  FALSE
    BY DEF RequestedAfter
  <2>1. PICK i \in 1 .. Len(requested) : i <= Done + 1 /\ writers[m] = requested[i]
    BY <1>6
  <2>2. p = Done + 1 /\ q = i
    BY <1>1, <1>2, <2>1 DEF OrderParts, RequestedOnce
  <2> QED
    BY <1>2, <2>1, <2>2
<1>9. OlderNeverAfterNewer'
  <2> SUFFICES ASSUME NEW m \in DOMAIN writers', NEW n \in DOMAIN writers', m < n
               PROVE  ~ RequestedAfter(writers'[m], writers'[n])
    BY DEF OlderNeverAfterNewer, RequestedAfter
  <2>1. m \in DOMAIN writers
    BY <1>2, <1>3, <1>5
  <2>2. CASE n \in DOMAIN writers
    BY <1>3, <2>1, <2>2 DEF OrderParts, OlderNeverAfterNewer
  <2>3. CASE n = Len(writers) + 1
    BY <1>3, <1>8, <2>1, <2>3
  <2> QED
    BY <1>5, <2>2, <2>3
<1> QED
  BY <1>7, <1>9

LEMMA ContinueFile ==
    ASSUME TypeOK, OneAtWork, OrderParts, NEW j \in Jobs,
           Check(j) \/ OpenCheck(j) \/ WriteDisk(j) \/ WriteCollab(j) \/ WriteHash(j) \/ Snapshot(j)
    PROVE  OrderParts'
<1>a. NoText \notin Texts /\ text[j] \in Texts
  BY SaveJobsAssumption DEF TypeOK
<1>1. PICK from \in JobSteps, to \in JobSteps : Continue(j, from, to)
  BY DEF Check, OpenCheck, WriteDisk, WriteCollab, WriteHash, Snapshot, JobSteps
<1>2. /\ open' = FALSE /\ NeverDelayed' /\ RequestedOnce' /\ InRequestOrder'
      /\ Done' = Done /\ UNCHANGED <<requested, lock, text>>
      /\ lock # <<>> /\ lock[1] = j
  BY <1>1, ContinueOrder
<1>3. step[j] = step[lock[1]] /\ step'[j] = step'[lock[1]] /\ waiting' = waiting /\ HoldsLock(j)
  BY <1>1, <1>2 DEF Continue, queueVars
<1>4. WritersDone' /\ OlderNeverAfterNewer'
  <2>1. CASE WriteDisk(j)
    BY <1>2, <1>3, <2>1, WriteOrder DEF WriteDisk
  <2>2. CASE ~ WriteDisk(j)
    <3>1. writers' = writers
      BY <2>2 DEF Check, OpenCheck, WriteCollab, WriteHash, Snapshot, fileVars
    <3> QED
      BY <1>2, <1>3, <3>1, SameWriters
  <2> QED
    BY <2>1, <2>2
<1>5. FileAgrees'
  <2> USE DEF OrderParts, FileAgrees, Stored
  <2>1. CASE Check(j)
    <3>1. step[j] = "check" /\ UNCHANGED <<disk, collab, lastHash>>
      BY <2>1 DEF Check, Continue, fileVars
    <3>2. step'[j] = IF lastHash = text[j] THEN "snapshot" ELSE "openCheck"
      BY <2>1 DEF Check, Continue, TypeOK
    <3>3. CASE lastHash = text[j]
      <4>1. disk = text[j] /\ collab = text[j]
        BY <1>a, <1>2, <3>1, <3>3
      <4>2. step'[j] = "snapshot"
        BY <3>2, <3>3
      <4> QED
        BY <1>2, <3>1, <3>3, <4>1, <4>2
    <3>4. CASE lastHash # text[j]
      <4>1. step'[j] = "openCheck"
        BY <3>2, <3>4
      <4> QED
        BY <1>2, <3>1, <4>1
    <3> QED
      BY <3>3, <3>4
  <2>2. CASE OpenCheck(j)
    <3>1. step[j] = "openCheck" /\ step'[j] = "write" /\ UNCHANGED <<disk, collab, lastHash>>
      BY <2>2 DEF OpenCheck, Continue, TypeOK, fileVars
    <3> QED
      BY <1>2, <3>1
  <2>3. CASE WriteDisk(j)
    <3>1. step[j] = "write" /\ step'[j] = "collab" /\ disk' = text[j]
      BY <2>3 DEF WriteDisk, Continue, TypeOK
    <3> QED
      BY <1>2, <3>1
  <2>4. CASE WriteCollab(j)
    <3>1. step[j] = "collab" /\ step'[j] = "hash" /\ disk' = disk /\ collab' = text[j]
      BY <2>4 DEF WriteCollab, Continue, TypeOK
    <3> QED
      BY <1>2, <3>1
  <2>5. CASE WriteHash(j)
    <3>1. /\ step[j] = "hash" /\ step'[j] = "snapshot" /\ lastHash' = text[j]
          /\ UNCHANGED <<disk, collab>>
      BY <2>5 DEF WriteHash, Continue, TypeOK
    <3> QED
      BY <1>2, <3>1
  <2>6. CASE Snapshot(j)
    <3>1. step[j] = "snapshot" /\ step'[j] = "activity" /\ UNCHANGED <<disk, collab, lastHash>>
      BY <2>6 DEF Snapshot, Continue, TypeOK
    <3> QED
      BY <1>2, <3>1
  <2> QED
    BY <2>1, <2>2, <2>3, <2>4, <2>5, <2>6
<1> QED
  BY <1>2, <1>4, <1>5 DEF OrderParts

\* The holder that completes makes one more request be over.
LEMMA CompleteOrder ==
    ASSUME TypeOK, OneAtWork, OrderParts, NEW j \in Jobs, CheckUnchanged(j) \/ LogActivity(j)
    PROVE  OrderParts'
<1>a. NoText \notin Texts /\ text[j] \in Texts
  BY SaveJobsAssumption DEF TypeOK
<1>1. /\ HoldsLock(j) /\ Settle(j, "completed")
      /\ UNCHANGED <<text, requested, waiting, open, disk, collab, lastHash, writers>>
      /\ step[j] \in {"check", "activity"} /\ (step[j] = "check" => lastHash = text[j])
  BY DEF CheckUnchanged, LogActivity, fileVars
<1>2. /\ state' = [state EXCEPT ![j] = "completed"] /\ lock' = Tail(lock)
      /\ lock \in Seq(Jobs) /\ state \in [Jobs -> QueueStates]
  BY <1>1 DEF Settle, TypeOK
<1>3. /\ lock # <<>> /\ lock[1] = j /\ Len(lock) >= 1
      /\ Done + 1 \in 1 .. Len(requested) /\ j = requested[Done + 1]
  BY <1>1, HolderNext DEF OrderParts
<1>4. /\ Len(requested) \in Nat /\ Len(lock) \in Nat /\ Len(waiting) \in Nat /\ Done \in Nat
      /\ Len(requested) = Done + Len(lock) + Len(waiting)
      /\ DOMAIN requested = 1 .. Len(requested)
      /\ \A i \in 1 .. Len(requested) : requested[i] \in Jobs
  BY Lengths DEF OrderParts
<1>5. /\ Len(lock') = Len(lock) - 1
      /\ \A i \in 1 .. Len(lock) - 1 : lock'[i] = lock[i + 1] /\ i + 1 \in 1 .. Len(lock)
  BY <1>2, <1>3
<1>6. Done' = Done + 1
  BY <1>1, <1>4, <1>5 DEF Done
<1>7. \A i \in 1 .. Len(requested) : i # Done + 1 => requested[i] # j
  BY <1>3, <1>4 DEF OrderParts, RequestedOnce
<1>8. InRequestOrder'
  <2>1. \A i \in 1 .. Len(lock') : lock'[i] = requested'[Done' + i] /\ state'[lock'[i]] = "active"
    <3> SUFFICES ASSUME NEW i \in 1 .. Len(lock) - 1
                 PROVE  lock'[i] = requested[Done + 1 + i] /\ state'[lock'[i]] = "active"
      BY <1>1, <1>5, <1>6
    <3>1. lock'[i] = lock[i + 1] /\ i + 1 \in 1 .. Len(lock)
      BY <1>5
    <3>2. lock[i + 1] = requested[Done + (i + 1)] /\ state[lock[i + 1]] = "active"
      BY <3>1 DEF OrderParts, InRequestOrder
    <3>3. Done + (i + 1) = Done + 1 + i /\ Done + (i + 1) \in 1 .. Len(requested) /\ Done + (i + 1) # Done + 1
      BY <1>4, <3>1
    <3>4. lock[i + 1] # j
      BY <1>7, <3>2, <3>3
    <3>5. lock[i + 1] \in Jobs
      BY <1>2, <3>1
    <3> QED
      BY <1>2, <3>1, <3>2, <3>3, <3>4, <3>5
  <2>2. \A i \in 1 .. Len(waiting') :
            waiting'[i] = requested'[Done' + Len(lock') + i] /\ state'[waiting'[i]] = "waiting"
    <3> SUFFICES ASSUME NEW i \in 1 .. Len(waiting)
                 PROVE  /\ waiting[i] = requested[Done + 1 + (Len(lock) - 1) + i]
                        /\ state'[waiting[i]] = "waiting"
      BY <1>1, <1>5, <1>6
    <3>1. Done + 1 + (Len(lock) - 1) + i = Done + Len(lock) + i
      BY <1>4
    <3>2. waiting[i] = requested[Done + Len(lock) + i] /\ state[waiting[i]] = "waiting"
      BY DEF OrderParts, InRequestOrder
    <3>3. Done + Len(lock) + i \in 1 .. Len(requested) /\ Done + Len(lock) + i # Done + 1
      BY <1>3, <1>4
    <3>4. waiting[i] # j /\ waiting[i] \in Jobs
      BY <1>4, <1>7, <3>2, <3>3
    <3> QED
      BY <1>2, <3>1, <3>2, <3>4
  <2>3. Done' \in Nat
    BY <1>4, <1>6
  <2> QED
    BY <2>1, <2>2, <2>3 DEF InRequestOrder
<1>9. RequestedOnce' /\ NeverDelayed' /\ open' = FALSE
  BY <1>1, <1>2 DEF OrderParts, RequestedOnce, NeverDelayed
<1>10. FileAgrees'
  <2>1. disk = text[j] /\ collab = text[j] /\ lastHash = text[j]
    <3>1. CASE step[j] = "activity"
      BY <1>3, <3>1 DEF OrderParts, FileAgrees
    <3>2. CASE step[j] = "check"
      <4>1. lastHash = text[j] /\ lastHash # NoText
        BY <1>1, <1>a, <3>2
      <4> QED
        BY <1>3, <3>2, <4>1 DEF OrderParts, FileAgrees, Stored
    <3> QED
      BY <1>1, <3>1, <3>2
  <2>2. lock' # <<>> => step'[lock'[1]] \in {"none", "check"}
    <3>1. \A i \in Jobs : step'[i] \in {"none", "check"}
      BY <1>1, SettleAtWork
    <3>2. lock' # <<>> => lock'[1] \in Jobs
      BY <1>2, <1>3
    <3> QED
      BY <3>1, <3>2
  <2>3. Done' # 0 /\ text'[requested'[Done']] = text[j]
    BY <1>1, <1>3, <1>4, <1>6
  <2> QED
    BY <1>1, <2>1, <2>2, <2>3 DEF FileAgrees, Stored
<1>11. WritersDone'
  <2>1. \A m \in DOMAIN writers : \E i \in 1 .. Len(requested) :
            i <= Done + 1 /\ writers[m] = requested[i]
    BY <1>3 DEF OrderParts, WritersDone
  <2>2. \A i \in 1 .. Len(requested) : i <= Done + 1 => i <= Done' + (IF lock' = <<>> THEN 0 ELSE 1)
    BY <1>4, <1>6
  <2> QED
    BY <1>1, <2>1, <2>2 DEF WritersDone
<1>12. OlderNeverAfterNewer'
  BY <1>1 DEF OrderParts, OlderNeverAfterNewer, RequestedAfter
<1> QED
  BY <1>8, <1>9, <1>10, <1>11, <1>12 DEF OrderParts

LEMMA RequestOrder ==
    ASSUME TypeOK, OneAtWork, OrderParts, NEW j \in Jobs, Request(j)
    PROVE  OrderParts'
<1>1. /\ state[j] = "none" /\ state' = [state EXCEPT ![j] = "waiting"]
      /\ waiting' = Append(waiting, j) /\ requested' = Append(requested, j)
      /\ UNCHANGED <<text, lock, step, open, disk, collab, lastHash, writers>>
      /\ state \in [Jobs -> QueueStates] /\ waiting \in Seq(Jobs) /\ requested \in Seq(Jobs)
  BY DEF Request, fileVars, TypeOK
<1>2. /\ Len(requested) \in Nat /\ Len(lock) \in Nat /\ Len(waiting) \in Nat /\ Done \in Nat
      /\ Len(requested) = Done + Len(lock) + Len(waiting)
      /\ DOMAIN requested = 1 .. Len(requested) /\ DOMAIN writers = 1 .. Len(writers)
      /\ \A i \in 1 .. Len(requested) : requested[i] \in Jobs
      /\ \A i \in 1 .. Len(lock) : lock[i] \in Jobs
      /\ \A i \in 1 .. Len(waiting) : waiting[i] \in Jobs
  BY Lengths DEF OrderParts
<1>3. /\ Len(requested') = Len(requested) + 1 /\ Len(waiting') = Len(waiting) + 1
      /\ DOMAIN requested' = 1 .. Len(requested) + 1
      /\ requested'[Len(requested) + 1] = j /\ waiting'[Len(waiting) + 1] = j
      /\ \A i \in 1 .. Len(requested) : requested'[i] = requested[i]
      /\ \A i \in 1 .. Len(waiting) : waiting'[i] = waiting[i]
  BY <1>1
<1>4. Done' = Done
  BY <1>1, <1>2, <1>3 DEF Done
<1>5. \A i \in 1 .. Len(requested) : requested[i] # j
  BY <1>1, <1>2 DEF OrderParts, RequestedOnce
<1>6. \A i \in 1 .. Len(requested) + 1 : i \in 1 .. Len(requested) \/ i = Len(requested) + 1
  BY <1>2
<1>7. RequestedOnce'
  <2>1. \A m, n \in DOMAIN requested' : requested'[m] = requested'[n] => m = n
    BY <1>2, <1>3, <1>5, <1>6 DEF OrderParts, RequestedOnce
  <2>2. \A m \in DOMAIN requested' : state'[requested'[m]] # "none"
    BY <1>1, <1>2, <1>3, <1>5, <1>6 DEF OrderParts, RequestedOnce
  <2> QED
    BY <2>1, <2>2 DEF RequestedOnce
<1>8. InRequestOrder'
  <2>1. \A i \in 1 .. Len(lock) : lock[i] = requested'[Done + i] /\ state'[lock[i]] = "active"
    <3> SUFFICES ASSUME NEW i \in 1 .. Len(lock)
                 PROVE  lock[i] = requested'[Done + i] /\ state'[lock[i]] = "active"
      OBVIOUS
    <3>1. lock[i] = requested[Done + i] /\ state[lock[i]] = "active"
      BY DEF OrderParts, InRequestOrder
    <3>2. Done + i \in 1 .. Len(requested)
      BY <1>2
    <3> QED
      BY <1>1, <1>2, <1>3, <3>1, <3>2
  <2>2. \A i \in 1 .. Len(waiting) + 1 :
            waiting'[i] = requested'[Done + Len(lock) + i] /\ state'[waiting'[i]] = "waiting"
    <3> SUFFICES ASSUME NEW i \in 1 .. Len(waiting) + 1
                 PROVE  waiting'[i] = requested'[Done + Len(lock) + i] /\ state'[waiting'[i]] = "waiting"
      OBVIOUS
    <3>1. CASE i \in 1 .. Len(waiting)
      <4>1. waiting[i] = requested[Done + Len(lock) + i] /\ state[waiting[i]] = "waiting"
        BY <3>1 DEF OrderParts, InRequestOrder
      <4>2. Done + Len(lock) + i \in 1 .. Len(requested)
        BY <1>2, <3>1
      <4> QED
        BY <1>1, <1>2, <1>3, <3>1, <4>1, <4>2
    <3>2. CASE i = Len(waiting) + 1
      <4>1. Done + Len(lock) + i = Len(requested) + 1
        BY <1>2, <3>2
      <4> QED
        BY <1>1, <1>3, <3>2, <4>1
    <3> QED
      BY <1>2, <3>1, <3>2
  <2> QED
    BY <1>1, <1>2, <1>3, <1>4, <2>1, <2>2 DEF InRequestOrder
<1>9. NeverDelayed' /\ open' = FALSE
  BY <1>1 DEF OrderParts, NeverDelayed
<1>10. FileAgrees'
  <2>1. Done # 0 => Done \in 1 .. Len(requested)
    BY <1>2
  <2>2. Done # 0 => requested'[Done] = requested[Done]
    BY <1>3, <2>1
  <2> QED
    BY <1>1, <1>4, <2>2 DEF OrderParts, FileAgrees, Stored
<1>11. \A m \in DOMAIN writers : \E i \in 1 .. Len(requested) :
           i <= Done + (IF lock = <<>> THEN 0 ELSE 1) /\ writers[m] = requested[i]
  BY DEF OrderParts, WritersDone
<1>12. WritersDone'
  <2>1. \A i \in 1 .. Len(requested) : i \in 1 .. Len(requested')
    BY <1>2, <1>3
  <2> SUFFICES ASSUME NEW m \in DOMAIN writers
               PROVE  \E i \in 1 .. Len(requested') :
                          i <= Done + (IF lock = <<>> THEN 0 ELSE 1) /\ writers[m] = requested'[i]
    BY <1>1, <1>4 DEF WritersDone
  <2>2. PICK i \in 1 .. Len(requested) :
            i <= Done + (IF lock = <<>> THEN 0 ELSE 1) /\ writers[m] = requested[i]
    BY <1>11
  <2> QED
    BY <1>3, <2>1, <2>2
<1>13. OlderNeverAfterNewer'
  <2> SUFFICES ASSUME NEW m \in DOMAIN writers, NEW n \in DOMAIN writers, m < n,
                      NEW p \in DOMAIN requested', NEW q \in DOMAIN requested',
                      requested'[p] = writers[n], requested'[q] = writers[m], p < q
               PROVE  FALSE
    BY <1>1 DEF OlderNeverAfterNewer, RequestedAfter
  <2>1. writers[n] # j /\ writers[m] # j
    BY <1>5, <1>11
  <2>2. p \in DOMAIN requested /\ q \in DOMAIN requested
    BY <1>2, <1>3, <1>6, <2>1
  <2>3. requested[p] = writers[n] /\ requested[q] = writers[m]
    BY <1>2, <1>3, <2>2
  <2> QED
    BY <2>2, <2>3 DEF OrderParts, OlderNeverAfterNewer, RequestedAfter
<1> QED
  BY <1>7, <1>8, <1>9, <1>10, <1>12, <1>13 DEF OrderParts

LEMMA TakeOrder == ASSUME TypeOK, OneAtWork, OrderParts, Take PROVE OrderParts'
<1> DEFINE j == Head(waiting)
<1>1. /\ waiting \in Seq(Jobs) /\ waiting # <<>> /\ waiting' = Tail(waiting)
      /\ state' = [state EXCEPT ![j] = "active"] /\ step' = [step EXCEPT ![j] = "check"]
      /\ lock' = Append(lock, j) /\ lock \in Seq(Jobs)
      /\ UNCHANGED <<text, requested, open, disk, collab, lastHash, writers>>
      /\ state \in [Jobs -> QueueStates] /\ step \in [Jobs -> JobSteps]
  BY DEF Take, TypeOK, fileVars
<1>2. j = waiting[1] /\ j \in Jobs
  BY <1>1, Heads
<1> HIDE DEF j
<1>3. /\ Len(requested) \in Nat /\ Len(lock) \in Nat /\ Len(waiting) \in Nat /\ Done \in Nat
      /\ Len(requested) = Done + Len(lock) + Len(waiting)
      /\ DOMAIN requested = 1 .. Len(requested)
      /\ \A i \in 1 .. Len(lock) : lock[i] \in Jobs
      /\ \A i \in 1 .. Len(waiting) : waiting[i] \in Jobs
  BY Lengths DEF OrderParts
<1>4. /\ Len(waiting) >= 1 /\ Len(waiting') = Len(waiting) - 1
      /\ \A i \in 1 .. Len(waiting) - 1 : waiting'[i] = waiting[i + 1]
  BY <1>1
<1>5. /\ Len(lock') = Len(lock) + 1 /\ lock'[Len(lock) + 1] = j
      /\ \A i \in 1 .. Len(lock) : lock'[i] = lock[i]
  BY <1>1, <1>2
<1>6. Done' = Done
  BY <1>1, <1>3, <1>4, <1>5 DEF Done
<1>7. j = requested[Done + Len(lock) + 1]
  BY <1>2, <1>3, <1>4 DEF OrderParts, InRequestOrder
<1>8. \A i \in 1 .. Len(requested) : i # Done + Len(lock) + 1 => requested[i] # j
  BY <1>3, <1>4, <1>7 DEF OrderParts, RequestedOnce
<1>9. InRequestOrder'
  <2>1. \A i \in 1 .. Len(lock) + 1 : lock'[i] = requested[Done + i] /\ state'[lock'[i]] = "active"
    <3> SUFFICES ASSUME NEW i \in 1 .. Len(lock) + 1
                 PROVE  lock'[i] = requested[Done + i] /\ state'[lock'[i]] = "active"
      OBVIOUS
    <3>1. CASE i \in 1 .. Len(lock)
      <4>1. lock[i] = requested[Done + i] /\ state[lock[i]] = "active"
        BY <3>1 DEF OrderParts, InRequestOrder
      <4> QED
        BY <1>1, <1>2, <1>3, <1>5, <3>1, <4>1
    <3>2. CASE i = Len(lock) + 1
      <4>1. Done + i = Done + Len(lock) + 1
        BY <1>3, <3>2
      <4> QED
        BY <1>1, <1>2, <1>5, <1>7, <3>2, <4>1
    <3> QED
      BY <1>3, <3>1, <3>2
  <2>2. \A i \in 1 .. Len(waiting) - 1 :
            /\ waiting'[i] = requested[Done + (Len(lock) + 1) + i]
            /\ state'[waiting'[i]] = "waiting"
    <3> SUFFICES ASSUME NEW i \in 1 .. Len(waiting) - 1
                 PROVE  /\ waiting'[i] = requested[Done + (Len(lock) + 1) + i]
                        /\ state'[waiting'[i]] = "waiting"
      OBVIOUS
    <3>1. waiting'[i] = waiting[i + 1] /\ i + 1 \in 1 .. Len(waiting)
      BY <1>3, <1>4
    <3>2. waiting[i + 1] = requested[Done + Len(lock) + (i + 1)] /\ state[waiting[i + 1]] = "waiting"
      BY <3>1 DEF OrderParts, InRequestOrder
    <3>3. /\ Done + Len(lock) + (i + 1) = Done + (Len(lock) + 1) + i
          /\ Done + Len(lock) + (i + 1) \in 1 .. Len(requested)
          /\ Done + Len(lock) + (i + 1) # Done + Len(lock) + 1
      BY <1>3, <3>1
    <3>4. waiting[i + 1] # j /\ waiting[i + 1] \in Jobs
      BY <1>3, <1>8, <3>1, <3>2, <3>3
    <3> QED
      BY <1>1, <1>2, <3>1, <3>2, <3>3, <3>4
  <2> QED
    BY <1>1, <1>3, <1>4, <1>5, <1>6, <2>1, <2>2 DEF InRequestOrder
<1>10. RequestedOnce' /\ NeverDelayed' /\ open' = FALSE
  BY <1>1, <1>2, <1>3 DEF OrderParts, RequestedOnce, NeverDelayed, TypeOK
<1>11. FileAgrees'
  <2>1. CASE lock = <<>>
    <3>1. lock'[1] = j /\ step'[j] = "check"
      BY <1>1, <1>2, <1>5, <2>1
    <3> QED
      BY <1>1, <1>6, <2>1, <3>1 DEF OrderParts, FileAgrees, Stored
  <2>2. CASE lock # <<>>
    <3>1. 1 \in 1 .. Len(lock)
      BY <1>1, <2>2
    <3>2. lock'[1] = lock[1] /\ lock' # <<>> /\ lock[1] \in Jobs
      BY <1>3, <1>5, <3>1
    <3>3. state[lock[1]] = "active" /\ state[j] = "waiting"
      BY <1>2, <1>3, <1>4, <3>1 DEF OrderParts, InRequestOrder
    <3>4. step'[lock[1]] = step[lock[1]]
      BY <1>1, <1>2, <3>2, <3>3
    <3> QED
      BY <1>1, <1>6, <2>2, <3>2, <3>4 DEF OrderParts, FileAgrees, Stored
  <2> QED
    BY <2>1, <2>2
<1>12. WritersDone'
  <2>1. lock' # <<>>
    BY <1>1, <1>2, <1>3, <1>5
  <2>2. \A i \in 1 .. Len(requested) : i <= Done + (IF lock = <<>> THEN 0 ELSE 1) => i <= Done + 1
    BY <1>3
  <2> QED
    BY <1>1, <1>6, <2>1, <2>2 DEF OrderParts, WritersDone
<1>13. OlderNeverAfterNewer'
  BY <1>1 DEF OrderParts, OlderNeverAfterNewer, RequestedAfter
<1> QED
  BY <1>9, <1>10, <1>11, <1>12, <1>13 DEF OrderParts

LEMMA OrderStep ==
    ASSUME NoFaults, NothingElse, TypeOK, OneAtWork, OrderParts, [Next]_vars
    PROVE  OrderParts'
<1>1. ASSUME NEW j \in Jobs, Work(j) PROVE OrderParts'
  BY <1>1, ContinueFile, CompleteOrder DEF Work
<1>2. ASSUME NEW j \in Jobs, Request(j) PROVE OrderParts'
  BY <1>2, RequestOrder
<1>3. CASE Take
  BY <1>3, TakeOrder
<1>4. ASSUME NEW j \in Jobs PROVE ~ Promote(j) /\ ~ Fail(j) /\ ~ Cancel(j) /\ ~ Retry(j)
  <2>1. ~ Promote(j)
    BY DEF Promote, OrderParts, NeverDelayed
  <2>2. ~ Fail(j)
    BY DEF Fail, NoFaults, TypeOK
  <2>3. ~ Bounded
    BY DEF Bounded, NothingElse, TypeOK
  <2> QED
    BY <2>1, <2>2, <2>3 DEF Cancel, Retry
<1>5. ~ Crash /\ ~ Open /\ \A t \in Texts : ~ Close(t) /\ ~ Replace(t)
  <2>1. ~ Crash
    BY DEF Crash, NoFaults, TypeOK
  <2>2. ~ Bounded
    BY DEF Bounded, NothingElse, TypeOK
  <2> QED
    BY <2>1, <2>2 DEF Open, Close, Replace, OrderParts
<1>6. CASE (\E j \in Jobs : TimeOut(j)) \/ Finished \/ UNCHANGED vars
  <2>1. UNCHANGED <<state, text, requested, waiting, lock, step, open, disk, collab, lastHash, writers>>
    BY <1>6 DEF TimeOut, Finished, vars, queueVars, fileVars
  <2>2. Done' = Done
    BY <2>1 DEF Done
  <2>3. WritersDone' /\ OlderNeverAfterNewer'
    BY <2>1, SameWriters
  <2>4. RequestedOnce' /\ InRequestOrder' /\ NeverDelayed' /\ open' = FALSE
    BY <2>1, <2>2 DEF OrderParts, NeverDelayed, RequestedOnce, InRequestOrder
  <2>5. FileAgrees'
    BY <2>1, <2>2 DEF OrderParts, FileAgrees, Stored
  <2> QED
    BY <2>3, <2>4, <2>5 DEF OrderParts
<1> QED
  BY <1>1, <1>2, <1>3, <1>4, <1>5, <1>6 DEF Next

LEMMA InitOrder == Init => OrderParts
<1> SUFFICES ASSUME Init PROVE OrderParts
  OBVIOUS
<1>1. requested = <<>> /\ lock = <<>> /\ waiting = <<>> /\ writers = <<>> /\ lastHash = NoText
      /\ open = FALSE
  BY DEF Init
<1>2. Len(requested) = 0 /\ Len(lock) = 0 /\ Len(waiting) = 0 /\ DOMAIN requested = {} /\ DOMAIN writers = {}
  BY <1>1
<1>3. Done = 0
  BY <1>2 DEF Done
<1>4. RequestedOnce /\ WritersDone /\ OlderNeverAfterNewer
  BY <1>2 DEF RequestedOnce, WritersDone, OlderNeverAfterNewer
<1>5. InRequestOrder
  BY <1>2, <1>3 DEF InRequestOrder
<1>6. FileAgrees
  BY <1>1, <1>3 DEF FileAgrees
<1>7. NeverDelayed
  BY DEF Init, NeverDelayed
<1> QED
  BY <1>1, <1>4, <1>5, <1>6, <1>7 DEF OrderParts

LEMMA AlwaysOrder == ASSUME NoFaults, NothingElse PROVE Spec => [](TypeOK /\ OrderParts)
<1> DEFINE All == Inv /\ QueueParts /\ HistoryParts /\ OrderParts
<1>1. Init => All
  BY InitInv, InitHistory, InitOrder
<1>2. All /\ [Next]_vars => All'
  BY NextInv, HistoryStep, OrderStep DEF Inv, QueueParts
<1>3. All => TypeOK /\ OrderParts
  BY DEF Inv
<1> HIDE DEF All
<1> QED
  BY <1>1, <1>2, <1>3, PTL DEF Spec

\* "in the order they were requested, so an older copy can never be written
\* after a newer one": so it is while no call fails, the server does not stop
\* and nothing else touches the queue, for any number of workers.  (A retry
\* breaks it: the run that looks for its counterexample.)
THEOREM OldestFirst ==
    ASSUME NoFaults, NothingElse PROVE Spec => []OlderNeverAfterNewer
<1>1. TypeOK /\ OrderParts => OlderNeverAfterNewer
  BY DEF OrderParts
<1> QED
  BY <1>1, AlwaysOrder, PTL

\* When no save is under way, the drive copy and the collaboration state hold
\* the text of the save requested last, for any number of saves and workers.
THEOREM LastRequestStored ==
    ASSUME NoFaults, NothingElse PROVE Spec => []LastSaveStored
<1>1. ASSUME TypeOK, OrderParts PROVE LastSaveStored
  <2> SUFFICES ASSUME Idle, requested # <<>>
               PROVE  disk = text[requested[Len(requested)]] /\ collab = text[requested[Len(requested)]]
    BY DEF LastSaveStored
  <2>1. /\ Len(requested) \in Nat /\ Len(lock) \in Nat /\ Len(waiting) \in Nat /\ Done \in Nat
        /\ Len(requested) = Done + Len(lock) + Len(waiting)
        /\ \A i \in 1 .. Len(lock) : lock[i] \in Jobs
        /\ \A i \in 1 .. Len(waiting) : waiting[i] \in Jobs
    BY <1>1, Lengths DEF OrderParts
  <2>2. ~ (1 \in 1 .. Len(lock)) /\ ~ (1 \in 1 .. Len(waiting))
    BY <1>1, <2>1 DEF OrderParts, InRequestOrder, Idle, Settled
  <2>3. Len(lock) = 0 /\ Len(waiting) = 0
    BY <2>1, <2>2
  <2>4. lock = <<>> /\ Done = Len(requested) /\ Done # 0
    <3>1. lock \in Seq(Jobs) /\ requested \in Seq(Jobs)
      BY <1>1 DEF TypeOK
    <3> QED
      BY <2>1, <2>3, <3>1
  <2> QED
    BY <1>1, <2>4 DEF OrderParts, FileAgrees, Stored
<1> QED
  BY <1>1, AlwaysOrder, PTL
=============================================================================
