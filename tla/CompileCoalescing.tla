------------------------- MODULE CompileCoalescing -------------------------
(***************************************************************************)
(* Compiles on the server: POST /api/compile (backend/src/routes/          *)
(* compile.ts) and its way through backend/src/services/reliability.ts.    *)
(* Requests for one document wait for a moment and share one compile of    *)
(* the newest source; the compile is a job of the queue, takes one of few  *)
(* places of a pool, and cancels the compile of its session that runs.     *)
(*                                                                         *)
(* A request stands for its payload.  A job is named after the request     *)
(* whose payload it carries: each payload is queued at most once.  All     *)
(* requests are those of one user.                                         *)
(***************************************************************************)
EXTENDS Naturals, Sequences, FiniteSets, SequencesExt

CONSTANTS
    Requests,     \* calls of the route, each made at most once
    Keys,         \* documents: what compileCoalescingKey tells apart
    KeyOf,        \* the document of a request
    Sessions,     \* what getCompileSessionKey tells apart
    SessionOf,    \* the session of a document
    NoRequest,    \* no payload, no session
    Concurrency,  \* jobs the worker runs at a time (10 in the code)
    PoolSize,     \* compiles at a time (2 by default)
    MaxQueued     \* queued jobs of a user that make the route refuse (3)

ASSUME CompileCoalescingAssumption ==
    /\ IsFiniteSet(Requests)
    /\ KeyOf \in [Requests -> Keys]
    /\ SessionOf \in [Keys -> Sessions]
    /\ NoRequest \notin Requests
    /\ Concurrency \in Nat \ {0} /\ PoolSize \in Nat \ {0} /\ MaxQueued \in Nat \ {0}

VARIABLES
    status,       \* status[r]: what the caller of r knows
    servedFrom,   \* servedFrom[r]: the payload its result was made from
    after,        \* after[r]: the requests that were let in before r
    entries,      \* the keys of coalescedCompileStates
    timer,        \* the entries whose timer runs
    latest,       \* latest[k]: latestPayload
    waiters,      \* waiters[k]: who waits for the next compile
    flight,       \* flight[k]: the await of the flush that is active
    payload,      \* payload[k]: its payload
    batch,        \* batch[k]: who waits for it
    job,          \* job[r]: where the queue holds the job
    queue, pool,  \* the waiting jobs; those that wait for a place
    session,      \* session[s]: activeCompileSessions
    cancelled     \* the compiles whose signal was aborted

callerVars == <<status, servedFrom, after>>
entryVars == <<entries, timer, latest, waiters>>
flightVars == <<flight, payload, batch>>
jobVars == <<job, queue, pool, session, cancelled>>
vars == <<callerVars, entryVars, flightVars, jobVars>>

Init ==
    /\ status = [r \in Requests |-> "none"]
    /\ servedFrom = [r \in Requests |-> {}]
    /\ after = [r \in Requests |-> {}]
    /\ entries = {} /\ timer = {}
    /\ latest = [k \in Keys |-> NoRequest]
    /\ waiters = [k \in Keys |-> {}]
    /\ flight = [k \in Keys |-> "none"]
    /\ payload = [k \in Keys |-> NoRequest]
    /\ batch = [k \in Keys |-> {}]
    /\ job = [r \in Requests |-> "none"]
    /\ queue = <<>> /\ pool = <<>>
    /\ session = [s \in Sessions |-> NoRequest]
    /\ cancelled = {}

Active(k) == flight[k] # "none"
SessionOfRequest(r) == SessionOf[KeyOf[r]]
InState(states) == {r \in Requests : job[r] \in states}

-----------------------------------------------------------------------------
(* The route. *)

\* The count of the user's queued jobs is read; then there is an await.
Admit(r) ==
    /\ status[r] = "none"
    /\ status' = [status EXCEPT ![r] =
            IF Cardinality(InState({"waiting", "active", "running"})) >= MaxQueued
            THEN "refused" ELSE "admitted"]
    /\ UNCHANGED <<servedFrom, after, entryVars, flightVars, jobVars>>

\* Mutant: the first payload of a moment is the one that is compiled.
CoalesceKeepingFirst(r) ==
    LET k == KeyOf[r] IN
    /\ status[r] = "admitted"
    /\ status' = [status EXCEPT ![r] = "pending"]
    /\ after' = [after EXCEPT ![r] = {q \in Requests : status[q] \in {"pending", "served", "error"}}]
    /\ entries' = entries \cup {k}
    /\ latest' = IF latest[k] = NoRequest THEN [latest EXCEPT ![k] = r] ELSE latest
    /\ waiters' = [waiters EXCEPT ![k] = @ \cup {r}]
    /\ timer' = IF Active(k) THEN timer ELSE timer \cup {k}
    /\ UNCHANGED <<servedFrom, flightVars, jobVars>>

\* runCoalescedCompileJobAndWait.
Coalesce(r) ==
    LET k == KeyOf[r] IN
    /\ status[r] = "admitted"
    /\ status' = [status EXCEPT ![r] = "pending"]
    /\ after' = [after EXCEPT ![r] = {q \in Requests : status[q] \in {"pending", "served", "error"}}]
    /\ entries' = entries \cup {k}
    /\ latest' = [latest EXCEPT ![k] = r]
    /\ waiters' = [waiters EXCEPT ![k] = @ \cup {r}]
    /\ timer' = IF Active(k) THEN timer ELSE timer \cup {k}
    /\ UNCHANGED <<servedFrom, flightVars, jobVars>>

-----------------------------------------------------------------------------
(* flushCoalescedCompile. *)

\* Mutant: the payload is cleared before it is read.
FlushClearedFirst(k) ==
    /\ k \in timer
    /\ timer' = timer \ {k}
    /\ IF Active(k) \/ waiters[k] = {}
       THEN UNCHANGED <<latest, waiters, flightVars>>
       ELSE /\ latest' = [latest EXCEPT ![k] = NoRequest]
            /\ payload' = [payload EXCEPT ![k] = latest'[k]]
            /\ batch' = [batch EXCEPT ![k] = waiters[k]]
            /\ waiters' = [waiters EXCEPT ![k] = {}]
            /\ flight' = [flight EXCEPT ![k] = "quota"]
    /\ UNCHANGED <<callerVars, entries, jobVars>>

\* The timer fires: payload and waiters are taken, the quota is consumed.
Flush(k) ==
    /\ k \in timer
    /\ timer' = timer \ {k}
    /\ IF Active(k) \/ latest[k] = NoRequest \/ waiters[k] = {}
       THEN UNCHANGED <<latest, waiters, flightVars>>
       ELSE /\ payload' = [payload EXCEPT ![k] = latest[k]]
            /\ batch' = [batch EXCEPT ![k] = waiters[k]]
            /\ latest' = [latest EXCEPT ![k] = NoRequest]
            /\ waiters' = [waiters EXCEPT ![k] = {}]
            /\ flight' = [flight EXCEPT ![k] = "quota"]
    /\ UNCHANGED <<callerVars, entries, jobVars>>

\* The quota is not used up: the job is queued.
Enqueue(k) ==
    /\ flight[k] = "quota"
    /\ flight' = [flight EXCEPT ![k] = "job"]
    /\ job' = [job EXCEPT ![payload[k]] = "waiting"]
    /\ queue' = Append(queue, payload[k])
    /\ UNCHANGED <<callerVars, entryVars, payload, batch, pool, session, cancelled>>

\* Mutants: nothing is started for those who came meanwhile; the entry of
\* the document stays.
AnswerForgetting(k, result) ==
    /\ status' = [r \in Requests |-> IF r \in batch[k] THEN result ELSE status[r]]
    /\ servedFrom' = [r \in Requests |->
                         IF r \in batch[k] /\ result = "served" THEN {payload[k]} ELSE servedFrom[r]]
    /\ flight' = [flight EXCEPT ![k] = "none"]
    /\ entries' = IF waiters[k] = {} THEN entries \ {k} ELSE entries
    /\ UNCHANGED <<timer, after, latest, waiters, payload, batch>>

AnswerLeavingEntry(k, result) ==
    /\ status' = [r \in Requests |-> IF r \in batch[k] THEN result ELSE status[r]]
    /\ servedFrom' = [r \in Requests |->
                         IF r \in batch[k] /\ result = "served" THEN {payload[k]} ELSE servedFrom[r]]
    /\ flight' = [flight EXCEPT ![k] = "none"]
    /\ timer' = IF waiters[k] # {} THEN timer \cup {k} ELSE timer
    /\ UNCHANGED <<entries, after, latest, waiters, payload, batch>>

\* Mutant: those who came meanwhile get the result too.
AnswerNewcomers(k, result) ==
    LET answered == batch[k] \cup waiters[k] IN
    /\ status' = [r \in Requests |-> IF r \in answered THEN result ELSE status[r]]
    /\ servedFrom' = [r \in Requests |->
                         IF r \in answered /\ result = "served" THEN {payload[k]} ELSE servedFrom[r]]
    /\ flight' = [flight EXCEPT ![k] = "none"]
    /\ waiters' = [waiters EXCEPT ![k] = {}]
    /\ entries' = entries \ {k}
    /\ payload' = [payload EXCEPT ![k] = NoRequest]
    /\ batch' = [batch EXCEPT ![k] = {}]
    /\ UNCHANGED <<timer, after, latest>>

\* The waiters are answered; if others came meanwhile the timer starts for
\* them, otherwise the entry goes.
Answer(k, result) ==
    /\ status' = [r \in Requests |-> IF r \in batch[k] THEN result ELSE status[r]]
    /\ servedFrom' = [r \in Requests |->
                         IF r \in batch[k] /\ result = "served" THEN {payload[k]} ELSE servedFrom[r]]
    /\ flight' = [flight EXCEPT ![k] = "none"]
    /\ IF waiters[k] # {}
       THEN timer' = timer \cup {k} /\ UNCHANGED entries
       ELSE entries' = entries \ {k} /\ UNCHANGED timer
    /\ payload' = [payload EXCEPT ![k] = NoRequest]
    /\ batch' = [batch EXCEPT ![k] = {}]
    /\ UNCHANGED <<after, latest, waiters>>

QuotaUsedUp(k) ==
    /\ flight[k] = "quota"
    /\ Answer(k, "error")
    /\ UNCHANGED jobVars

JobEnded(k) ==
    /\ flight[k] = "job"
    /\ job[payload[k]] \in {"completed", "failed"}
    /\ Answer(k, IF job[payload[k]] = "completed" THEN "served" ELSE "error")
    /\ UNCHANGED jobVars

\* waitUntilFinished gives up after timeoutMs; the job goes on.
TimeOut(k) ==
    /\ flight[k] = "job"
    /\ job[payload[k]] \notin {"completed", "failed"}
    /\ Answer(k, "error")
    /\ UNCHANGED jobVars

-----------------------------------------------------------------------------
(* The worker and its pool. *)

\* The worker takes the first job, which queues for a place in the pool.
Take ==
    /\ queue # <<>>
    /\ Cardinality(InState({"active", "running"})) < Concurrency
    /\ queue' = Tail(queue)
    /\ pool' = Append(pool, Head(queue))
    /\ job' = [job EXCEPT ![Head(queue)] = "active"]
    /\ UNCHANGED <<callerVars, entryVars, flightVars, session, cancelled>>

\* executeCompileJob: a compile gets a place, and cancels the compile of its
\* session that runs.
Start ==
    /\ pool # <<>>
    /\ Cardinality(InState({"running"})) < PoolSize
    /\ LET r == Head(pool) s == SessionOfRequest(r) IN
       /\ job' = [job EXCEPT ![r] = "running"]
       /\ session' = [session EXCEPT ![s] = r]
       /\ cancelled' = IF session[s] = NoRequest THEN cancelled ELSE cancelled \cup {session[s]}
    /\ pool' = Tail(pool)
    /\ UNCHANGED <<callerVars, entryVars, flightVars, queue>>

\* Mutant: the end of a compile frees the session, whoever has it.
EndFreeingAlways(r, result) ==
    /\ job[r] = "running"
    /\ job' = [job EXCEPT ![r] = result]
    /\ session' = [session EXCEPT ![SessionOfRequest(r)] = NoRequest]
    /\ UNCHANGED <<callerVars, entryVars, flightVars, queue, pool, cancelled>>

\* The compile ends.  One that was cancelled fails, unless its result was in
\* the cache.
End(r, result) ==
    /\ job[r] = "running"
    /\ job' = [job EXCEPT ![r] = result]
    /\ session' = IF session[SessionOfRequest(r)] = r
                  THEN [session EXCEPT ![SessionOfRequest(r)] = NoRequest]
                  ELSE session
    /\ UNCHANGED <<callerVars, entryVars, flightVars, queue, pool, cancelled>>

\* An administrator cancels a queued job: whoever waits for it times out.
CancelJob(r) ==
    /\ job[r] = "waiting"
    /\ job' = [job EXCEPT ![r] = "removed"]
    /\ \E m \in DOMAIN queue : queue[m] = r /\ queue' = RemoveAt(queue, m)
    /\ UNCHANGED <<callerVars, entryVars, flightVars, pool, session, cancelled>>

-----------------------------------------------------------------------------
Next ==
    \/ \E r \in Requests :
          Admit(r) \/ Coalesce(r) \/ CancelJob(r) \/ End(r, "completed") \/ End(r, "failed")
    \/ \E k \in Keys :
          Flush(k) \/ Enqueue(k) \/ QuotaUsedUp(k) \/ JobEnded(k) \/ TimeOut(k)
    \/ Take
    \/ Start

Spec == Init /\ [][Next]_vars

\* Timers fire, the worker polls, the pool serves its queue, a compile ends
\* (its process is killed when its time is over) and a wait times out.
Fairness ==
    /\ WF_vars(Take) /\ WF_vars(Start)
    /\ \A k \in Keys : WF_vars(Flush(k)) /\ WF_vars(Enqueue(k)) /\ WF_vars(JobEnded(k) \/ TimeOut(k))
    /\ \A r \in Requests : WF_vars(Coalesce(r)) /\ WF_vars(End(r, "completed") \/ End(r, "failed"))

FairSpec == Spec /\ Fairness

-----------------------------------------------------------------------------
TypeOK ==
    /\ status \in [Requests -> {"none", "refused", "admitted", "pending", "served", "error"}]
    /\ servedFrom \in [Requests -> SUBSET Requests]
    /\ after \in [Requests -> SUBSET Requests]
    /\ entries \subseteq Keys /\ timer \subseteq Keys
    /\ latest \in [Keys -> Requests \cup {NoRequest}]
    /\ waiters \in [Keys -> SUBSET Requests]
    /\ flight \in [Keys -> {"none", "quota", "job"}]
    /\ payload \in [Keys -> Requests \cup {NoRequest}]
    /\ batch \in [Keys -> SUBSET Requests]
    /\ job \in [Requests -> {"none", "waiting", "active", "running", "completed", "failed", "removed"}]
    /\ queue \in Seq(Requests) /\ pool \in Seq(Requests)
    /\ session \in [Sessions -> Requests \cup {NoRequest}]
    /\ cancelled \subseteq Requests

\* The result a caller gets was made from a source of its document that is
\* its own or was sent later.
ServedNewest ==
    \A r \in Requests : \A p \in servedFrom[r] :
        KeyOf[p] = KeyOf[r] /\ (p = r \/ r \in after[p])

\* Of the compiles that run in a session, all but one are cancelled.
OneLiveCompile ==
    \A p, q \in InState({"running"}) \ cancelled :
        SessionOfRequest(p) = SessionOfRequest(q) => p = q

\* Someone who waits is in a batch whose flush is under way or in an entry
\* whose timer runs or whose flush will start it.
NobodyForgotten ==
    \A r \in Requests : status[r] = "pending" =>
        LET k == KeyOf[r] IN
        \/ r \in batch[k] /\ Active(k)
        \/ r \in waiters[k] /\ k \in entries /\ (k \in timer \/ Active(k))

\* When all are answered and no compile runs, the maps are empty.
NothingLeft ==
    /\ (\A r \in Requests : status[r] # "pending") => entries = {}
    /\ InState({"running"}) = {} => \A s \in Sessions : session[s] = NoRequest

\* Everyone who is let in is answered.
EveryCallerAnswered ==
    \A r \in Requests : status[r] = "admitted" ~> status[r] \in {"served", "error"}

\* The callers see the abstract service; admission is not part of it.
Service == INSTANCE CompileService WITH
    status <- [r \in Requests |-> IF status[r] \in {"refused", "admitted"} THEN "none" ELSE status[r]]
ServiceSpec == Service!Spec
=============================================================================
