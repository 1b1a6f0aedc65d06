------------------------------ MODULE SaveJobs ------------------------------
(***************************************************************************)
(* The saves of one file: POST .../files/:fileId/save puts a job in the    *)
(* queue, the worker runs it under the lock of the file, and the job       *)
(* writes the drive copy, the collaboration state, the content hash and a  *)
(* revision, one await after the other (backend/src/routes/projects.ts,    *)
(* backend/src/services/reliability.ts and queueManager.ts).               *)
(*                                                                         *)
(* A text stands for its own hash.  The lock is the queue of its callers:  *)
(* module KeyedLock shows that withKeyedLock serves them in that order.    *)
(* The collaboration server and the other writers of the file are here     *)
(* only what they do to the stored copies (module FileStorage has them).   *)
(***************************************************************************)
EXTENDS Naturals, Sequences, FiniteSets, SequencesExt

CONSTANTS
    Jobs,          \* the save requests, each made at most once
    Texts,         \* the texts a file can hold
    NoText,        \* no collaboration state, no hash yet
    Concurrency,   \* jobs the worker runs at a time (10 in the code)
    MaxAttempts,   \* attempts of a job without a label (3 in the code)
    MaxFailures,   \* bound: how many database or drive calls may fail
    MaxCrashes,    \* bound: how many times the server stops and restarts
    MaxElsewhere   \* bound: how many times something else writes the file,
                   \* or an administrator cancels or retries a job

ASSUME SaveJobsAssumption ==
    /\ IsFiniteSet(Jobs)
    /\ NoText \notin Texts
    /\ Concurrency \in Nat \ {0}
    /\ MaxAttempts \in Nat \ {0}
    /\ MaxFailures \in Nat /\ MaxCrashes \in Nat /\ MaxElsewhere \in Nat

VARIABLES
    state,       \* state[j]: where the queue holds job j
    text,        \* text[j]: the source the request carried
    labelled,    \* labelled[j]: the request named a checkpoint
    requested,   \* the jobs in the order their requests were queued
    attempts,    \* attempts[j]: attempts of j that failed
    stalled,     \* jobs that already lost their worker once
    waiting,     \* the queue's list of waiting jobs
    lock,        \* callers of the lock save-file:<id>; the first one holds it
    step,        \* step[j]: the await that an active job is at
    answer,      \* answer[j]: what the request was told
    open,        \* whether the collaboration server has the file open
    disk,        \* the drive copy
    collab,      \* the text of project_files.collaboration_state
    lastHash,    \* project_files.last_content_hash
    revisions,   \* rows of project_revisions: which job stored which text
    writers,     \* the jobs that wrote the drive copy, in order
    failures, crashes, elsewhere   \* what the bounds count

queueVars == <<state, text, labelled, requested, attempts, stalled, waiting>>
fileVars == <<disk, collab, lastHash, revisions, writers>>
boundVars == <<failures, crashes, elsewhere>>
vars == <<queueVars, lock, step, answer, open, fileVars, boundVars>>

QueueStates == {"none", "waiting", "delayed", "active", "completed", "failed", "removed"}
JobSteps == {"none", "check", "openCheck", "write", "collab", "hash", "snapshot", "activity"}

Init ==
    /\ state = [j \in Jobs |-> "none"]
    /\ text \in [Jobs -> Texts]
    /\ labelled \in [Jobs -> BOOLEAN]
    /\ requested = <<>>
    /\ attempts = [j \in Jobs |-> 0]
    /\ stalled = {}
    /\ waiting = <<>>
    /\ lock = <<>>
    /\ step = [j \in Jobs |-> "none"]
    /\ answer = [j \in Jobs |-> "none"]
    /\ open = FALSE
    /\ disk \in Texts
    /\ collab \in {disk, NoText}
    /\ lastHash = NoText
    /\ revisions = {}
    /\ writers = <<>>
    /\ failures = 0 /\ crashes = 0 /\ elsewhere = 0

Active == {j \in Jobs : state[j] = "active"}
\* Mutant: saves of a file do not wait for each other.
HoldsNoLock(j) == step[j] # "none"

HoldsLock(j) == lock # <<>> /\ Head(lock) = j

-----------------------------------------------------------------------------
(* The request and the queue. *)

\* The route queues the job.  A save without a label is answered at once; a
\* named checkpoint is answered when its job has settled.
Request(j) ==
    /\ state[j] = "none"
    /\ state' = [state EXCEPT ![j] = "waiting"]
    /\ waiting' = Append(waiting, j)
    /\ requested' = Append(requested, j)
    /\ answer' = [answer EXCEPT ![j] = IF labelled[j] THEN "pending" ELSE "ok"]
    /\ UNCHANGED <<text, labelled, attempts, stalled, lock, step, open, fileVars, boundVars>>

\* The worker takes the first waiting job; executeSaveFileJob queues for the
\* lock of the file before its first await.
Take ==
    /\ waiting # <<>>
    /\ Cardinality(Active) < Concurrency
    /\ LET j == Head(waiting)
       IN  /\ state' = [state EXCEPT ![j] = "active"]
           /\ step' = [step EXCEPT ![j] = "check"]
           /\ lock' = Append(lock, j)
    /\ waiting' = Tail(waiting)
    /\ UNCHANGED <<text, labelled, requested, attempts, stalled, answer, open, fileVars, boundVars>>

\* The exponential backoff of a failed attempt is over.
Promote(j) ==
    /\ state[j] = "delayed"
    /\ state' = [state EXCEPT ![j] = "waiting"]
    /\ waiting' = Append(waiting, j)
    /\ UNCHANGED <<text, labelled, requested, attempts, stalled, lock, step, answer, open, fileVars, boundVars>>

\* runBackgroundJobAndWait gives up after timeoutMs; the job goes on.
TimeOut(j) ==
    /\ answer[j] = "pending"
    /\ answer' = [answer EXCEPT ![j] = "error"]
    /\ UNCHANGED <<queueVars, lock, step, open, fileVars, boundVars>>

\* Mutant: an attempt that fails keeps the lock.
SettleKeepingLock(j, result) ==
    /\ state' = [state EXCEPT ![j] = result]
    /\ step' = [step EXCEPT ![j] = "none"]
    /\ lock' = IF result = "completed" THEN Tail(lock) ELSE lock
    /\ answer' = IF answer[j] = "pending" /\ result # "delayed"
                 THEN [answer EXCEPT ![j] = IF result = "completed" THEN "ok" ELSE "error"]
                 ELSE answer

\* What a job that settles, holding the lock, does to the queue, the lock and
\* its request.
Settle(j, result) ==
    /\ state' = [state EXCEPT ![j] = result]
    /\ step' = [step EXCEPT ![j] = "none"]
    /\ lock' = Tail(lock)
    /\ answer' = IF answer[j] = "pending" /\ result # "delayed"
                 THEN [answer EXCEPT ![j] = IF result = "completed" THEN "ok" ELSE "error"]
                 ELSE answer

-----------------------------------------------------------------------------
(* saveFile, by the job that holds the lock: one action per await. *)

Continue(j, from, to) ==
    /\ HoldsLock(j)
    /\ step[j] = from
    /\ step' = [step EXCEPT ![j] = to]
    /\ UNCHANGED <<queueVars, lock, answer, open, boundVars>>

\* Mutant: a checkpoint of an unchanged text is skipped as well.
CheckUnchangedOnly(j) ==
    /\ HoldsLock(j)
    /\ step[j] = "check"
    /\ lastHash = text[j]
    /\ Settle(j, "completed")
    /\ UNCHANGED <<text, labelled, requested, attempts, stalled, waiting, open, fileVars, boundVars>>

\* The hash is that of the last save, and no checkpoint was asked for: the
\* job is done.
CheckUnchanged(j) ==
    /\ HoldsLock(j)
    /\ step[j] = "check"
    /\ lastHash = text[j]
    /\ ~ labelled[j]
    /\ Settle(j, "completed")
    /\ UNCHANGED <<text, labelled, requested, attempts, stalled, waiting, open, fileVars, boundVars>>

\* Otherwise the text is written if its hash is new; a checkpoint of an
\* unchanged text goes straight to the revision.
Check(j) ==
    /\ lastHash = text[j] => labelled[j]
    /\ Continue(j, "check", IF lastHash = text[j] THEN "snapshot" ELSE "openCheck")
    /\ UNCHANGED fileVars

\* While the file is open the collaboration server stores it.
OpenCheck(j) ==
    /\ Continue(j, "openCheck", IF open THEN "hash" ELSE "write")
    /\ UNCHANGED fileVars

WriteDisk(j) ==
    /\ Continue(j, "write", "collab")
    /\ disk' = text[j]
    /\ writers' = Append(writers, j)
    /\ UNCHANGED <<collab, lastHash, revisions>>

\* Mutant: only a file that already has a collaboration state gets the new one.
WriteCollabIfAny(j) ==
    /\ Continue(j, "collab", "hash")
    /\ collab' = IF collab = NoText THEN NoText ELSE text[j]
    /\ UNCHANGED <<disk, lastHash, revisions, writers>>

\* getProjectFileStorage, applySourceToCollaborationState and the update.
WriteCollab(j) ==
    /\ Continue(j, "collab", "hash")
    /\ collab' = text[j]
    /\ UNCHANGED <<disk, lastHash, revisions, writers>>

\* Mutants: the history keeps checkpoints only; the hash is that of the job.
WriteHashSkippingHistory(j) ==
    /\ Continue(j, "hash", IF labelled[j] THEN "snapshot" ELSE "activity")
    /\ lastHash' = text[j]
    /\ UNCHANGED <<disk, collab, revisions, writers>>

WriteHashOfJob(j) ==
    /\ Continue(j, "hash", "snapshot")
    /\ lastHash' = j
    /\ UNCHANGED <<disk, collab, revisions, writers>>

WriteHash(j) ==
    /\ Continue(j, "hash", "snapshot")
    /\ lastHash' = text[j]
    /\ UNCHANGED <<disk, collab, revisions, writers>>

Snapshot(j) ==
    /\ Continue(j, "snapshot", "activity")
    /\ revisions' = revisions \cup {[job |-> j, source |-> text[j]]}
    /\ UNCHANGED <<disk, collab, lastHash, writers>>

LogActivity(j) ==
    /\ HoldsLock(j)
    /\ step[j] = "activity"
    /\ Settle(j, "completed")
    /\ UNCHANGED <<text, labelled, requested, attempts, stalled, waiting, open, fileVars, boundVars>>

-----------------------------------------------------------------------------
(* What goes wrong. *)

\* A checkpoint gets one attempt (maxAttempts: 1), any other save three.
LastAttempt(j) == attempts[j] + 1 >= (IF labelled[j] THEN 1 ELSE MaxAttempts)

\* The call that the job awaits rejects: the quota, the database or the
\* drive.  The lock passes on; the queue retries the job later or gives up.
Fail(j) ==
    /\ failures < MaxFailures
    /\ HoldsLock(j)
    /\ failures' = failures + 1
    /\ attempts' = [attempts EXCEPT ![j] = @ + 1]
    /\ Settle(j, IF LastAttempt(j) THEN "failed" ELSE "delayed")
    /\ UNCHANGED <<text, labelled, requested, stalled, waiting, open, fileVars, crashes, elsewhere>>

\* The server stops.  Memory is lost: the lock, the open documents and the
\* pending answers.  The queue gives the jobs that had a worker back to the
\* front of its list, once for each job.
Crash ==
    /\ crashes < MaxCrashes
    /\ crashes' = crashes + 1
    /\ \E again \in SetToSeqs(Active \ stalled) : waiting' = again \o waiting
    /\ state' = [j \in Jobs |->
                    IF j \notin Active THEN state[j]
                    ELSE IF j \in stalled THEN "failed" ELSE "waiting"]
    /\ stalled' = stalled \cup Active
    /\ step' = [j \in Jobs |-> "none"]
    /\ answer' = [j \in Jobs |-> IF answer[j] = "pending" THEN "error" ELSE answer[j]]
    /\ lock' = <<>>
    /\ open' = FALSE
    /\ UNCHANGED <<text, labelled, requested, attempts, fileVars, failures, elsewhere>>

-----------------------------------------------------------------------------
(* The administrator, and the other writers of the file: none of them
   touches the hash. *)

Bounded == elsewhere < MaxElsewhere /\ elsewhere' = elsewhere + 1

\* cancelJob: a job that has no worker is taken out of the queue.  Whoever
\* waits for it goes on waiting, until the timeout.
Cancel(j) ==
    /\ Bounded
    /\ state[j] \in {"waiting", "delayed"}
    /\ state' = [state EXCEPT ![j] = "removed"]
    /\ IF state[j] = "waiting"
       THEN \E m \in DOMAIN waiting : waiting[m] = j /\ waiting' = RemoveAt(waiting, m)
       ELSE UNCHANGED waiting
    /\ UNCHANGED <<text, labelled, requested, attempts, stalled, lock, step, answer, open, fileVars, failures, crashes>>

\* retryJob: only a job that failed, which joins the queue again.
Retry(j) ==
    /\ Bounded
    /\ state[j] = "failed"
    /\ state' = [state EXCEPT ![j] = "waiting"]
    /\ waiting' = Append(waiting, j)
    /\ UNCHANGED <<text, labelled, requested, attempts, stalled, lock, step, answer, open, fileVars, failures, crashes>>

\* An editor opens the file.
Open ==
    /\ Bounded
    /\ ~ open
    /\ open' = TRUE
    /\ UNCHANGED <<queueVars, lock, step, answer, fileVars, failures, crashes>>

\* The last editor leaves: the shared document was stored and is unloaded.
Close(t) ==
    /\ open
    /\ open' = FALSE
    /\ disk' = t
    /\ collab' = t
    /\ UNCHANGED <<queueVars, lock, step, answer, lastHash, revisions, writers, boundVars>>

\* replaceProjectFileText on the closed file: an API client, an upload over
\* the file, a restore of a revision.
Replace(t) ==
    /\ Bounded
    /\ ~ open
    /\ disk' = t
    /\ collab' = t
    /\ UNCHANGED <<queueVars, lock, step, answer, open, lastHash, revisions, writers, failures, crashes>>

Work(j) ==
    \/ CheckUnchanged(j) \/ Check(j) \/ OpenCheck(j) \/ WriteDisk(j)
    \/ WriteCollab(j) \/ WriteHash(j) \/ Snapshot(j) \/ LogActivity(j)

Settled(j) == state[j] \in {"completed", "failed", "removed"}

\* Every save was requested and settled, and nothing else happens.
Finished ==
    /\ \A j \in Jobs : Settled(j)
    /\ UNCHANGED vars

Next ==
    \/ \E j \in Jobs : Request(j) \/ Promote(j) \/ TimeOut(j) \/ Work(j) \/ Fail(j)
    \/ \E j \in Jobs : Cancel(j) \/ Retry(j)
    \/ Take
    \/ Crash
    \/ Open
    \/ \E t \in Texts : Close(t) \/ Replace(t)
    \/ Finished

Spec == Init /\ [][Next]_vars

\* The worker polls its queue, a backoff ends, and the calls a job awaits
\* return (or reject: Fail needs no fairness).
Fairness ==
    /\ WF_vars(Take)
    /\ WF_vars(\E j \in Jobs : Promote(j))
    /\ WF_vars(\E j \in Jobs : Work(j))

FairSpec == Spec /\ Fairness

-----------------------------------------------------------------------------
TypeOK ==
    /\ state \in [Jobs -> QueueStates]
    /\ text \in [Jobs -> Texts]
    /\ labelled \in [Jobs -> BOOLEAN]
    /\ requested \in Seq(Jobs)
    /\ attempts \in [Jobs -> Nat]
    /\ stalled \subseteq Jobs
    /\ waiting \in Seq(Jobs)
    /\ lock \in Seq(Jobs)
    /\ step \in [Jobs -> JobSteps]
    /\ answer \in [Jobs -> {"none", "pending", "ok", "error"}]
    /\ open \in BOOLEAN
    /\ disk \in Texts
    /\ collab \in Texts \cup {NoText}
    /\ lastHash \in Texts \cup {NoText}
    /\ revisions \subseteq [job : Jobs, source : Texts]
    /\ writers \in Seq(Jobs)
    /\ failures \in Nat /\ crashes \in Nat /\ elsewhere \in Nat

\* "A named checkpoint: answer once it is stored, so the history lists it":
\* whatever failed, restarted or interleaved, a checkpoint answered with ok
\* has its revision, holding the text that was sent.
CheckpointListed ==
    \A j \in Jobs : labelled[j] /\ answer[j] = "ok" =>
        [job |-> j, source |-> text[j]] \in revisions

RequestedAfter(i, j) ==
    \E m, n \in DOMAIN requested : requested[m] = j /\ requested[n] = i /\ m < n

\* "in the order they were requested, so an older copy can never be written
\* after a newer one": the drive copy is never written by a save that was
\* requested before one that already wrote it.
OlderNeverAfterNewer ==
    \A m, n \in DOMAIN writers : m < n => ~ RequestedAfter(writers[m], writers[n])

Idle == \A j \in Jobs : state[j] = "none" \/ Settled(j)

\* When no save is under way, both stored copies hold the text of the save
\* requested last, also when that one was skipped for its hash.
LastSaveStored ==
    Idle /\ requested # <<>> =>
        LET last == text[requested[Len(requested)]] IN disk = last /\ collab = last

\* "a second save of the file was dropped": a save of a closed file that is
\* skipped because its text was the last one saved finds that text stored.
SkippedOnlyIfStored ==
    [][\A j \in Jobs : CheckUnchanged(j) /\ ~ open => disk = text[j]]_vars

\* "Version snapshots created automatically during manual saves": the text
\* of every save that completed can be found in the history.
EverySaveInHistory ==
    \A j \in Jobs : state[j] = "completed" => \E r \in revisions : r.source = text[j]

\* Every save that was answered "saved" comes to an end: it does not stay in
\* the queue, in a backoff or behind the lock for ever.
EverySaveSettles == \A j \in Jobs : state[j] = "waiting" ~> Settled(j)
=============================================================================
