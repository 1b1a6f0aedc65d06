---------------------- MODULE CompileCoalescing_proofs ----------------------
(***************************************************************************)
(* The coalescing of compile requests implements CompileService, answers   *)
(* from a source that is new enough, forgets no one who waits, and leaves  *)
(* one live compile in a session, for any number of requests, documents,   *)
(* sessions and places in the pool.                                        *)
(***************************************************************************)
EXTENDS CompileCoalescing, SequenceTheorems, TLAPS

Seen == {"pending", "served", "error"}

\* Who waits for document k is in its batch or among its waiters.
WaitersKnown ==
    \A k \in Keys : \A r \in Requests :
        (r \in batch[k] \/ r \in waiters[k]) <=> (KeyOf[r] = k /\ status[r] = "pending")

\* An active flush compiles the newest request of its batch.
BatchOfPayload ==
    \A k \in Keys :
        /\ Active(k) => /\ payload[k] \in batch[k]
                        /\ \A r \in batch[k] : r = payload[k] \/ r \in after[payload[k]]
        /\ ~ Active(k) => batch[k] = {}

\* Those who are not in the batch came after it.
LaterWait ==
    \A k \in Keys : Active(k) =>
        \A r \in waiters[k] : r # payload[k] /\ r \notin after[payload[k]]

\* latestPayload is that of the waiter who came last.
LatestIsLast ==
    \A k \in Keys : waiters[k] # {} =>
        /\ latest[k] \in waiters[k]
        /\ \A r \in waiters[k] : r = latest[k] \/ r \in after[latest[k]]

AfterSeen == \A r \in Requests : \A q \in after[r] : status[q] \in Seen

ServedSeen ==
    \A r \in Requests : \A p \in servedFrom[r] :
        /\ KeyOf[p] = KeyOf[r] /\ (p = r \/ r \in after[p])
        /\ status[p] \in Seen

\* Whoever waits is in an entry that will be flushed.
TimerRuns ==
    \A k \in Keys : waiters[k] # {} => k \in entries /\ (k \in timer \/ Active(k))

\* A compile that runs and is not cancelled is the one of its session.
SessionHolder ==
    \A p \in Requests : job[p] = "running" /\ p \notin cancelled => session[SessionOfRequest(p)] = p

CallersInv ==
    /\ WaitersKnown /\ BatchOfPayload /\ LaterWait /\ LatestIsLast
    /\ AfterSeen /\ ServedSeen /\ TimerRuns

Inv == TypeOK /\ CallersInv /\ SessionHolder

-----------------------------------------------------------------------------
LEMMA InitInv == Init => Inv
<1> SUFFICES ASSUME Init PROVE Inv
  OBVIOUS
<1>1. TypeOK
  BY EmptySeq DEF Init, TypeOK
<1>2. WaitersKnown /\ AfterSeen /\ ServedSeen
  BY DEF Init, WaitersKnown, AfterSeen, ServedSeen
<1>3. BatchOfPayload /\ LaterWait /\ LatestIsLast /\ TimerRuns
  BY DEF Init, BatchOfPayload, LaterWait, LatestIsLast, TimerRuns, Active
<1>4. SessionHolder
  BY DEF Init, SessionHolder
<1> QED
  BY <1>1, <1>2, <1>3, <1>4 DEF Inv, CallersInv

-----------------------------------------------------------------------------
(* The steps of the coalescing. *)

LEMMA AdmitInv == ASSUME Inv, NEW r \in Requests, Admit(r) PROVE Inv'
<1> USE DEF Inv, CallersInv
<1>1. \E s \in {"refused", "admitted"} : status' = [status EXCEPT ![r] = s]
  BY DEF Admit
<1>2. PICK s \in {"refused", "admitted"} : status' = [status EXCEPT ![r] = s]
  BY <1>1
<1>3. status[r] = "none" /\ UNCHANGED <<servedFrom, after, entryVars, flightVars, jobVars>>
  BY DEF Admit
<1>4. TypeOK'
  BY <1>2, <1>3 DEF TypeOK, entryVars, flightVars, jobVars
<1>5. \A q \in Requests : q # r => status'[q] = status[q]
  BY <1>2 DEF TypeOK
<1>6. status'[r] \notin Seen /\ status[r] \notin Seen
  BY <1>2, <1>3 DEF TypeOK, Seen
<1>7. WaitersKnown'
  BY <1>3, <1>5, <1>6 DEF WaitersKnown, entryVars, flightVars, Seen
<1>8. AfterSeen' /\ ServedSeen'
  BY <1>3, <1>5, <1>6 DEF AfterSeen, ServedSeen, TypeOK
<1>9. BatchOfPayload' /\ LaterWait' /\ LatestIsLast' /\ TimerRuns'
  BY <1>3 DEF BatchOfPayload, LaterWait, LatestIsLast, TimerRuns, Active, entryVars, flightVars
<1>10. SessionHolder'
  BY <1>3 DEF SessionHolder, SessionOfRequest, jobVars
<1> QED
  BY <1>4, <1>7, <1>8, <1>9, <1>10

LEMMA CoalesceInv == ASSUME Inv, NEW r \in Requests, Coalesce(r) PROVE Inv'
<1> USE DEF Inv, CallersInv
<1> DEFINE k == KeyOf[r]
<1>k. k \in Keys
  BY CompileCoalescingAssumption
<1>1. /\ status[r] = "admitted"
      /\ status' = [status EXCEPT ![r] = "pending"]
      /\ after' = [after EXCEPT ![r] = {q \in Requests : status[q] \in Seen}]
      /\ entries' = entries \cup {k}
      /\ latest' = [latest EXCEPT ![k] = r]
      /\ waiters' = [waiters EXCEPT ![k] = waiters[k] \cup {r}]
      /\ timer' = IF Active(k) THEN timer ELSE timer \cup {k}
      /\ UNCHANGED <<servedFrom, flightVars, jobVars>>
  BY DEF Coalesce, Seen
<1> HIDE DEF k
<1>2. TypeOK'
  BY <1>k, <1>1 DEF TypeOK, flightVars, jobVars
<1>3. /\ \A q \in Requests : q # r => status'[q] = status[q] /\ after'[q] = after[q]
      /\ status'[r] = "pending"
      /\ after'[r] = {q \in Requests : status[q] \in Seen}
      /\ \A l \in Keys : l # k => latest'[l] = latest[l] /\ waiters'[l] = waiters[l]
      /\ latest'[k] = r /\ waiters'[k] = waiters[k] \cup {r}
  BY <1>k, <1>1 DEF TypeOK
<1>4. UNCHANGED <<servedFrom, flight, payload, batch, job, session, cancelled>>
  BY <1>1 DEF flightVars, jobVars
<1>5. WaitersKnown'
  BY <1>k, <1>1, <1>3, <1>4 DEF WaitersKnown, k
<1>6. \A l \in Keys : batch[l] \cup waiters[l] \subseteq Requests \ {r}
  BY <1>1 DEF WaitersKnown, TypeOK
<1>7. BatchOfPayload'
  BY <1>3, <1>4, <1>6 DEF BatchOfPayload, Active
<1>8. \A q \in Requests : q # r => r \notin after[q]
  BY <1>1 DEF AfterSeen, Seen
<1>9. LaterWait'
  <2> SUFFICES ASSUME NEW l \in Keys, Active(l), NEW q \in waiters'[l]
               PROVE  q # payload[l] /\ q \notin after'[payload[l]]
    BY <1>4 DEF LaterWait, Active
  <2>1. payload[l] \in Requests /\ payload[l] # r
    BY <1>6 DEF BatchOfPayload
  <2>2. q \in waiters[l] \/ q = r
    BY <1>3
  <2> QED
    BY <2>1, <2>2, <1>3, <1>8 DEF LaterWait
<1>10. LatestIsLast'
  <2> SUFFICES ASSUME NEW l \in Keys, waiters'[l] # {}
               PROVE  /\ latest'[l] \in waiters'[l]
                      /\ \A q \in waiters'[l] : q = latest'[l] \/ q \in after'[latest'[l]]
    BY DEF LatestIsLast
  <2>1. CASE l = k
    <3>1. \A q \in waiters[k] : q \in Requests /\ status[q] \in Seen
      BY <1>k DEF WaitersKnown, TypeOK, Seen
    <3> QED
      BY <2>1, <3>1, <1>3
  <2>2. CASE l # k
    <3>1. latest[l] \in waiters[l] /\ latest[l] \in Requests /\ latest[l] # r
      BY <2>2, <1>3, <1>6 DEF LatestIsLast
    <3> QED
      BY <2>2, <3>1, <1>3 DEF LatestIsLast
  <2> QED
    BY <2>1, <2>2
<1>11. AfterSeen'
  BY <1>3 DEF AfterSeen, Seen, TypeOK
<1>12. ServedSeen'
  <2>1. \A q \in Requests : \A p \in servedFrom[q] : p \in Requests /\ p # r
    BY <1>1 DEF ServedSeen, TypeOK, Seen
  <2> QED
    BY <2>1, <1>3, <1>4 DEF ServedSeen, Seen
<1>13. TimerRuns'
  BY <1>k, <1>1, <1>3, <1>4 DEF TimerRuns, Active
<1>14. SessionHolder'
  BY <1>4 DEF SessionHolder, SessionOfRequest
<1> QED
  BY <1>2, <1>5, <1>7, <1>9, <1>10, <1>11, <1>12, <1>13, <1>14

LEMMA FlushInv == ASSUME Inv, NEW k \in Keys, Flush(k) PROVE Inv'
<1> USE DEF Inv, CallersInv
<1>1. timer' = timer \ {k} /\ UNCHANGED <<callerVars, entries, jobVars>>
  BY DEF Flush
<1>s. SessionHolder' /\ AfterSeen' /\ ServedSeen'
  BY <1>1 DEF SessionHolder, SessionOfRequest, jobVars, callerVars, AfterSeen, ServedSeen
<1>2. CASE Active(k) \/ latest[k] = NoRequest \/ waiters[k] = {}
  <2>1. UNCHANGED <<latest, waiters, flightVars>>
    BY <1>2 DEF Flush
  <2>2. TypeOK'
    BY <1>1, <2>1 DEF TypeOK, callerVars, flightVars, jobVars
  <2>3. WaitersKnown' /\ BatchOfPayload' /\ LaterWait' /\ LatestIsLast'
    BY <1>1, <2>1 DEF WaitersKnown, BatchOfPayload, LaterWait, LatestIsLast, Active, callerVars, flightVars
  <2>4. waiters[k] = {} \/ Active(k)
    BY <1>2, CompileCoalescingAssumption DEF LatestIsLast, TypeOK
  <2>5. TimerRuns'
    BY <1>1, <2>1, <2>4 DEF TimerRuns, Active, flightVars
  <2> QED
    BY <1>s, <2>2, <2>3, <2>5
<1>3. CASE ~ (Active(k) \/ latest[k] = NoRequest \/ waiters[k] = {})
  <2>1. /\ payload' = [payload EXCEPT ![k] = latest[k]]
        /\ batch' = [batch EXCEPT ![k] = waiters[k]]
        /\ latest' = [latest EXCEPT ![k] = NoRequest]
        /\ waiters' = [waiters EXCEPT ![k] = {}]
        /\ flight' = [flight EXCEPT ![k] = "quota"]
    BY <1>3 DEF Flush
  <2>2. TypeOK'
    BY <1>1, <2>1 DEF TypeOK, callerVars, jobVars
  <2>3. /\ payload'[k] = latest[k] /\ batch'[k] = waiters[k] /\ waiters'[k] = {} /\ flight'[k] = "quota"
        /\ \A l \in Keys : l # k => /\ payload'[l] = payload[l] /\ batch'[l] = batch[l]
                                    /\ latest'[l] = latest[l] /\ waiters'[l] = waiters[l]
                                    /\ flight'[l] = flight[l]
    BY <2>1 DEF TypeOK
  <2>4. UNCHANGED <<status, after, entries>> /\ batch[k] = {}
    BY <1>1, <1>3 DEF callerVars, BatchOfPayload
  <2>5. WaitersKnown'
    BY <2>3, <2>4 DEF WaitersKnown
  <2>6. BatchOfPayload'
    BY <1>3, <2>3, <2>4 DEF BatchOfPayload, LatestIsLast, Active
  <2>7. LaterWait' /\ LatestIsLast' /\ TimerRuns'
    BY <1>1, <2>3, <2>4 DEF LaterWait, LatestIsLast, TimerRuns, Active
  <2> QED
    BY <1>s, <2>2, <2>5, <2>6, <2>7
<1> QED
  BY <1>2, <1>3

LEMMA EnqueueInv == ASSUME Inv, NEW k \in Keys, Enqueue(k) PROVE Inv'
<1> USE DEF Inv, CallersInv
<1>1. /\ flight[k] = "quota"
      /\ flight' = [flight EXCEPT ![k] = "job"]
      /\ job' = [job EXCEPT ![payload[k]] = "waiting"]
      /\ queue' = Append(queue, payload[k])
      /\ UNCHANGED <<callerVars, entryVars, payload, batch, pool, session, cancelled>>
  BY DEF Enqueue
<1>2. payload[k] \in Requests
  BY <1>1 DEF BatchOfPayload, Active, TypeOK
<1>3. TypeOK'
  BY <1>1, <1>2 DEF TypeOK, callerVars, entryVars
<1>4. \A l \in Keys : Active(l)' <=> Active(l)
  BY <1>1 DEF Active, TypeOK
<1>5. CallersInv'
  BY <1>1, <1>4 DEF WaitersKnown, BatchOfPayload, LaterWait, LatestIsLast, AfterSeen, ServedSeen,
                    TimerRuns, callerVars, entryVars
<1>6. SessionHolder'
  BY <1>1, <1>2 DEF SessionHolder, SessionOfRequest, TypeOK
<1> QED
  BY <1>3, <1>5, <1>6

\* A batch and the waiters of its document have no one in common, and no
\* batch has someone of another document.
LEMMA BatchApart ==
    ASSUME Inv, NEW k \in Keys, Active(k)
    PROVE  /\ batch[k] \subseteq {r \in Requests : KeyOf[r] = k /\ status[r] = "pending"}
           /\ batch[k] \cap waiters[k] = {}
BY DEF Inv, CallersInv, TypeOK, WaitersKnown, BatchOfPayload, LaterWait

LEMMA AnswerInv ==
    ASSUME Inv, NEW k \in Keys, Active(k), NEW result \in {"served", "error"},
           Answer(k, result), UNCHANGED jobVars
    PROVE  Inv'
<1> USE DEF Inv, CallersInv
<1>1. /\ status' = [r \in Requests |-> IF r \in batch[k] THEN result ELSE status[r]]
      /\ servedFrom' = [r \in Requests |->
             IF r \in batch[k] /\ result = "served" THEN {payload[k]} ELSE servedFrom[r]]
      /\ flight' = [flight EXCEPT ![k] = "none"]
      /\ IF waiters[k] # {}
         THEN timer' = timer \cup {k} /\ UNCHANGED entries
         ELSE entries' = entries \ {k} /\ UNCHANGED timer
      /\ payload' = [payload EXCEPT ![k] = NoRequest]
      /\ batch' = [batch EXCEPT ![k] = {}]
      /\ UNCHANGED <<after, latest, waiters>>
  BY DEF Answer
<1>2. payload[k] \in Requests /\ payload[k] \in batch[k]
  BY DEF BatchOfPayload, TypeOK
<1>3. TypeOK'
  <2>1. status' \in [Requests -> {"none", "refused", "admitted", "pending", "served", "error"}]
    BY <1>1 DEF TypeOK
  <2>2. servedFrom' \in [Requests -> SUBSET Requests]
    BY <1>1, <1>2 DEF TypeOK
  <2>3. /\ entries' \subseteq Keys /\ timer' \subseteq Keys
        /\ flight' \in [Keys -> {"none", "quota", "job"}]
        /\ payload' \in [Keys -> Requests \cup {NoRequest}]
        /\ batch' \in [Keys -> SUBSET Requests]
    BY <1>1 DEF TypeOK
  <2> QED
    BY <1>1, <2>1, <2>2, <2>3 DEF TypeOK, jobVars
<1>4. /\ \A r \in Requests : r \in batch[k] => status'[r] = result
      /\ \A r \in Requests : r \notin batch[k] => status'[r] = status[r]
      /\ batch'[k] = {} /\ flight'[k] = "none"
      /\ \A l \in Keys : l # k => /\ payload'[l] = payload[l] /\ batch'[l] = batch[l]
                                  /\ flight'[l] = flight[l]
      /\ UNCHANGED <<after, latest, waiters>>
  BY <1>1 DEF TypeOK
<1>5. WaitersKnown'
  BY <1>4, BatchApart DEF WaitersKnown
<1>6. BatchOfPayload' /\ LaterWait' /\ LatestIsLast'
  BY <1>4 DEF BatchOfPayload, LaterWait, LatestIsLast, Active
<1>7. \A r \in Requests : status[r] \in Seen => status'[r] \in Seen
  BY <1>4 DEF Seen
<1>8. AfterSeen'
  BY <1>4, <1>7 DEF AfterSeen, TypeOK
<1>9. ServedSeen'
  <2> SUFFICES ASSUME NEW r \in Requests, NEW p \in servedFrom'[r]
               PROVE  /\ KeyOf[p] = KeyOf[r] /\ (p = r \/ r \in after[p])
                      /\ status'[p] \in Seen
    BY <1>4 DEF ServedSeen
  <2>1. CASE r \in batch[k] /\ result = "served"
    <3>1. p = payload[k]
      BY <1>1, <2>1
    <3> QED
      BY <2>1, <3>1, <1>2, <1>4, BatchApart DEF BatchOfPayload, Seen
  <2>2. CASE ~ (r \in batch[k] /\ result = "served")
    <3>1. p \in servedFrom[r] /\ p \in Requests
      BY <1>1, <2>2 DEF TypeOK
    <3> QED
      BY <3>1, <1>7 DEF ServedSeen
  <2> QED
    BY <2>1, <2>2
<1>10. TimerRuns'
  BY <1>1, <1>4 DEF TimerRuns, Active
<1>11. SessionHolder'
  BY DEF SessionHolder, SessionOfRequest, jobVars
<1> QED
  BY <1>3, <1>5, <1>6, <1>8, <1>9, <1>10, <1>11
-----------------------------------------------------------------------------
(* The steps of the worker. *)

\* Taking an entry out of a list of requests leaves a list of requests.
LEMMA RemoveAtType ==
    ASSUME NEW s \in Seq(Requests), NEW m \in DOMAIN s
    PROVE  RemoveAt(s, m) \in Seq(Requests)
<1>1. m \in 1 .. Len(s) /\ Len(s) \in Nat
  OBVIOUS
<1>2. SubSeq(s, 1, m - 1) \in Seq(Requests)
  <2>1. \A i \in 1 .. m - 1 : s[i] \in Requests
    BY <1>1
  <2> QED
    BY <1>1, <2>1, SubSeqProperties
<1>3. SubSeq(s, m + 1, Len(s)) \in Seq(Requests)
  <2>1. \A i \in m + 1 .. Len(s) : s[i] \in Requests
    BY <1>1
  <2> QED
    BY <1>1, <2>1, SubSeqProperties
<1> QED
  BY <1>2, <1>3, ConcatProperties DEF RemoveAt

Worker == Take \/ Start \/ \E r \in Requests : CancelJob(r) \/ End(r, "completed") \/ End(r, "failed")

\* The callers, the entries and the flushes do not see the worker.
LEMMA WorkerLeavesCallers ==
    ASSUME Worker PROVE UNCHANGED <<callerVars, entryVars, flightVars>>
BY DEF Worker, Take, Start, CancelJob, End

LEMMA CallersUnchanged ==
    ASSUME CallersInv, UNCHANGED <<callerVars, entryVars, flightVars>> PROVE CallersInv'
BY DEF CallersInv, WaitersKnown, BatchOfPayload, LaterWait, LatestIsLast, AfterSeen, ServedSeen,
       TimerRuns, Active, callerVars, entryVars, flightVars

LEMMA WorkerType == ASSUME TypeOK, Worker PROVE TypeOK'
<1> USE DEF TypeOK
<1>0. UNCHANGED <<callerVars, entryVars, flightVars>>
  BY WorkerLeavesCallers
<1>1. CASE Take
  <2>1. Head(queue) \in Requests /\ Tail(queue) \in Seq(Requests)
    BY <1>1 DEF Take
  <2> QED
    BY <1>0, <1>1, <2>1 DEF Take, callerVars, entryVars, flightVars
<1>2. CASE Start
  <2>1. Head(pool) \in Requests /\ Tail(pool) \in Seq(Requests)
    BY <1>2 DEF Start
  <2>2. SessionOfRequest(Head(pool)) \in Sessions
    BY <2>1, CompileCoalescingAssumption DEF SessionOfRequest
  <2> QED
    BY <1>0, <1>2, <2>1, <2>2 DEF Start, callerVars, entryVars, flightVars
<1>3. ASSUME NEW r \in Requests, CancelJob(r) PROVE TypeOK'
  <2>1. queue' \in Seq(Requests)
    BY <1>3, RemoveAtType DEF CancelJob
  <2> QED
    BY <1>0, <1>3, <2>1 DEF CancelJob, callerVars, entryVars, flightVars
<1>4. ASSUME NEW r \in Requests, NEW result \in {"completed", "failed"}, End(r, result) PROVE TypeOK'
  BY <1>0, <1>4 DEF End, callerVars, entryVars, flightVars
<1> QED
  BY <1>1, <1>2, <1>3, <1>4 DEF Worker

LEMMA WorkerSession == ASSUME TypeOK, SessionHolder, Worker PROVE SessionHolder'
<1> USE DEF TypeOK, SessionHolder
<1>1. CASE Take
  BY <1>1 DEF Take, SessionOfRequest
<1>2. CASE Start
  <2> DEFINE r == Head(pool)
             s == SessionOfRequest(r)
  <2>0. r \in Requests
    BY <1>2 DEF Start
  <2>1. r \in Requests /\ s \in Sessions
    BY <2>0, CompileCoalescingAssumption DEF SessionOfRequest
  <2>2. /\ job' = [job EXCEPT ![r] = "running"]
        /\ session' = [session EXCEPT ![s] = r]
        /\ cancelled' = IF session[s] = NoRequest THEN cancelled ELSE cancelled \cup {session[s]}
    BY <1>2 DEF Start
  <2> HIDE DEF r, s
  <2> SUFFICES ASSUME NEW p \in Requests, job'[p] = "running", p \notin cancelled'
               PROVE  session'[SessionOfRequest(p)] = p
    BY DEF SessionOfRequest
  <2>3. CASE p = r
    BY <2>1, <2>2, <2>3 DEF s
  <2>4. CASE p # r
    <3>1. job[p] = "running" /\ p \notin cancelled
      BY <2>2, <2>4
    <3>2. session[SessionOfRequest(p)] = p
      BY <3>1
    <3>3. SessionOfRequest(p) # s
      BY <3>2, <2>2, CompileCoalescingAssumption
    <3> QED
      BY <3>2, <3>3, <2>2
  <2> QED
    BY <2>3, <2>4
<1>3. ASSUME NEW r \in Requests, CancelJob(r) PROVE SessionHolder'
  BY <1>3 DEF CancelJob, SessionOfRequest
<1>4. ASSUME NEW r \in Requests, NEW result \in {"completed", "failed"}, End(r, result)
      PROVE SessionHolder'
  BY <1>4 DEF End, SessionOfRequest
<1> QED
  BY <1>1, <1>2, <1>3, <1>4 DEF Worker

-----------------------------------------------------------------------------
\* The flush of document k answers those of its batch.
Answers(k) ==
    \E result \in {"served", "error"} : Active(k) /\ Answer(k, result) /\ UNCHANGED jobVars

LEMMA AnswerSteps ==
    ASSUME NEW k \in Keys, QuotaUsedUp(k) \/ JobEnded(k) \/ TimeOut(k) PROVE Answers(k)
BY DEF QuotaUsedUp, JobEnded, TimeOut, Answers, Active

\* Every step is one of these.
LEMMA Steps ==
    ASSUME Next
    PROVE  \/ Worker
           \/ \E r \in Requests : Admit(r) \/ Coalesce(r)
           \/ \E k \in Keys : Flush(k) \/ Enqueue(k) \/ Answers(k)
BY AnswerSteps DEF Next, Worker

LEMMA NextInv == Inv /\ [Next]_vars => Inv'
<1> SUFFICES ASSUME Inv, [Next]_vars PROVE Inv'
  OBVIOUS
<1>1. CASE UNCHANGED vars
  <2>1. TypeOK'
    BY <1>1 DEF Inv, TypeOK, vars, callerVars, entryVars, flightVars, jobVars
  <2>2. CallersInv' /\ SessionHolder'
    BY <1>1, CallersUnchanged DEF Inv, vars, SessionHolder, SessionOfRequest, jobVars
  <2> QED
    BY <2>1, <2>2 DEF Inv
<1>2. CASE Worker
  BY <1>2, WorkerLeavesCallers, CallersUnchanged, WorkerType, WorkerSession DEF Inv
<1>3. ASSUME NEW r \in Requests, Admit(r) \/ Coalesce(r) PROVE Inv'
  BY <1>3, AdmitInv, CoalesceInv
<1>4. ASSUME NEW k \in Keys, Flush(k) \/ Enqueue(k) \/ Answers(k) PROVE Inv'
  BY <1>4, FlushInv, EnqueueInv, AnswerInv DEF Answers
<1> QED
  BY <1>1, <1>2, <1>3, <1>4, Steps

LEMMA AlwaysInv == Spec => []Inv
BY InitInv, NextInv, PTL DEF Spec

\* The maps of the route, the queue, the pool and the sessions have their
\* types.
THEOREM TypeCorrect == Spec => []TypeOK
BY AlwaysInv, PTL DEF Inv

\* The result that a caller gets was made from its own source or from one
\* that was sent later, of the same document.
THEOREM NewestServed == Spec => []ServedNewest
<1>1. Inv => ServedNewest
  BY DEF Inv, CallersInv, ServedSeen, ServedNewest
<1> QED
  BY <1>1, AlwaysInv, PTL

\* No one waits who is not in a flush that is under way or will start.
THEOREM NoWaiterForgotten == Spec => []NobodyForgotten
<1>1. Inv => NobodyForgotten
  <2> SUFFICES ASSUME Inv, NEW r \in Requests, status[r] = "pending"
               PROVE  LET k == KeyOf[r] IN
                      \/ r \in batch[k] /\ Active(k)
                      \/ r \in waiters[k] /\ k \in entries /\ (k \in timer \/ Active(k))
    BY DEF NobodyForgotten
  <2>1. KeyOf[r] \in Keys
    BY CompileCoalescingAssumption
  <2>2. r \in batch[KeyOf[r]] \/ r \in waiters[KeyOf[r]]
    BY <2>1 DEF Inv, CallersInv, WaitersKnown
  <2> QED
    BY <2>1, <2>2 DEF Inv, CallersInv, BatchOfPayload, TimerRuns
<1> QED
  BY <1>1, AlwaysInv, PTL

\* Of the compiles that run in a session all but one are cancelled, however
\* late a cancelled one ends.
THEOREM LiveCompile == Spec => []OneLiveCompile
<1>1. Inv => OneLiveCompile
  BY DEF Inv, SessionHolder, OneLiveCompile, InState
<1> QED
  BY <1>1, AlwaysInv, PTL

-----------------------------------------------------------------------------
(* When all is over the maps are empty. *)

\* An entry has someone who waits, or a flush under way.
EntryUsed == \A k \in entries : waiters[k] # {} \/ Active(k)

\* A request has at most one job: it is made by the flush that answers it.
JobOnce ==
    \A r \in Requests : job[r] # "none" =>
        \/ status[r] \in {"served", "error"}
        \/ flight[KeyOf[r]] = "job" /\ payload[KeyOf[r]] = r

\* What is queued was not taken yet, what was taken is not queued.
QueueWaits ==
    /\ \A m \in DOMAIN queue : job[queue[m]] = "waiting"
    /\ \A m, n \in DOMAIN queue : queue[m] = queue[n] => m = n
    /\ \A m \in DOMAIN pool : job[pool[m]] \notin {"none", "waiting"}

\* The compile that a session names is one of its own, and runs.
SessionRuns ==
    \A s \in Sessions : session[s] # NoRequest =>
        job[session[s]] = "running" /\ SessionOfRequest(session[s]) = s

MapsInv == Inv /\ EntryUsed /\ JobOnce /\ QueueWaits /\ SessionRuns

\* Only flushes and newcomers change an entry.
LEMMA EntryUsedStep == ASSUME Inv, EntryUsed, Next PROVE EntryUsed'
<1>1. CASE Worker
  BY <1>1, WorkerLeavesCallers DEF EntryUsed, Active, entryVars, flightVars
<1>2. ASSUME NEW r \in Requests, Admit(r) PROVE EntryUsed'
  BY <1>2 DEF Admit, EntryUsed, Active, entryVars, flightVars
<1>3. ASSUME NEW r \in Requests, Coalesce(r) PROVE EntryUsed'
  BY <1>3, CompileCoalescingAssumption DEF Coalesce, EntryUsed, Active, flightVars, Inv, TypeOK
<1>4. ASSUME NEW k \in Keys, Flush(k) PROVE EntryUsed'
  BY <1>4 DEF Flush, EntryUsed, Active, flightVars, Inv, TypeOK
<1>5. ASSUME NEW k \in Keys, Enqueue(k) PROVE EntryUsed'
  BY <1>5 DEF Enqueue, EntryUsed, Active, entryVars, Inv, TypeOK
<1>6. ASSUME NEW k \in Keys, Answers(k) PROVE EntryUsed'
  BY <1>6 DEF Answers, Answer, EntryUsed, Active, Inv, TypeOK
<1> QED
  BY <1>1, <1>2, <1>3, <1>4, <1>5, <1>6, Steps

\* The payload of a flush that has not queued its job yet has none.
LEMMA PayloadHasNoJob ==
    ASSUME Inv, JobOnce, NEW k \in Keys, flight[k] = "quota"
    PROVE  payload[k] \in Requests /\ KeyOf[payload[k]] = k /\ job[payload[k]] = "none"
<1>1. payload[k] \in batch[k] /\ Active(k)
  BY DEF Inv, CallersInv, BatchOfPayload, Active
<1>2. payload[k] \in Requests /\ KeyOf[payload[k]] = k /\ status[payload[k]] = "pending"
  BY <1>1, BatchApart
<1> QED
  BY <1>2 DEF JobOnce

\* What is left of a list after an entry was taken out.
LEMMA RemoveAtEntries ==
    ASSUME NEW s \in Seq(Requests), NEW m \in DOMAIN s
    PROVE  \A i \in DOMAIN RemoveAt(s, m) :
               LET j == IF i < m THEN i ELSE i + 1
               IN  j \in DOMAIN s /\ j # m /\ RemoveAt(s, m)[i] = s[j]
<1>1. m \in 1 .. Len(s) /\ Len(s) \in Nat
  OBVIOUS
<1> DEFINE a == SubSeq(s, 1, m - 1)
           b == SubSeq(s, m + 1, Len(s))
<1>2. /\ a \in Seq(Requests) /\ Len(a) = m - 1 /\ \A i \in 1 .. m - 1 : a[i] = s[i]
  <2>1. \A i \in 1 .. m - 1 : s[i] \in Requests
    BY <1>1
  <2> QED
    BY <1>1, <2>1, SubSeqProperties
<1>3. /\ b \in Seq(Requests) /\ Len(b) = Len(s) - m
      /\ \A i \in 1 .. Len(s) - m : b[i] = s[m + i]
  <2>1. \A i \in m + 1 .. Len(s) : s[i] \in Requests
    BY <1>1
  <2> QED
    BY <1>1, <2>1, SubSeqProperties
<1> HIDE DEF a, b
<1>4. /\ Len(a \o b) = Len(s) - 1 /\ a \o b \in Seq(Requests)
      /\ \A i \in 1 .. Len(s) - 1 : (a \o b)[i] = IF i < m THEN a[i] ELSE b[i - (m - 1)]
  <2>1. /\ a \o b \in Seq(Requests) /\ Len(a \o b) = Len(a) + Len(b)
        /\ \A i \in 1 .. Len(a) + Len(b) : (a \o b)[i] = IF i <= Len(a) THEN a[i] ELSE b[i - Len(a)]
    BY <1>2, <1>3, ConcatProperties
  <2>2. Len(a) + Len(b) = Len(s) - 1 /\ Len(a) = m - 1
    BY <1>1, <1>2, <1>3
  <2>3. \A i \in 1 .. Len(s) - 1 : i <= m - 1 <=> i < m
    BY <1>1
  <2> QED
    BY <2>1, <2>2, <2>3
<1>5. RemoveAt(s, m) = a \o b
  BY DEF RemoveAt, a, b
<1> SUFFICES ASSUME NEW i \in 1 .. Len(s) - 1
             PROVE  LET j == IF i < m THEN i ELSE i + 1
                    IN  j \in DOMAIN s /\ j # m /\ (a \o b)[i] = s[j]
  BY <1>1, <1>4, <1>5
<1>6. CASE i < m
  BY <1>1, <1>2, <1>4, <1>6
<1>7. CASE ~ (i < m)
  <2>1. i - (m - 1) \in 1 .. Len(s) - m /\ m + (i - (m - 1)) = i + 1
    BY <1>1, <1>7
  <2> QED
    <3>1. (a \o b)[i] = b[i - (m - 1)]
      BY <1>4, <1>7
    <3>2. b[i - (m - 1)] = s[m + (i - (m - 1))]
      BY <1>3, <2>1
    <3>3. i + 1 \in DOMAIN s /\ i + 1 # m
      BY <1>1, <1>7
    <3> QED
      BY <1>7, <2>1, <3>1, <3>2, <3>3
<1> QED
  BY <1>6, <1>7

\* The head of a list of requests and what comes after it.
LEMMA Heads ==
    ASSUME NEW s \in Seq(Requests), s # <<>>
    PROVE  /\ Head(s) = s[1] /\ 1 \in DOMAIN s /\ Head(s) \in Requests
           /\ \A m \in DOMAIN Tail(s) : m + 1 \in DOMAIN s /\ m + 1 # 1 /\ Tail(s)[m] = s[m + 1]
OBVIOUS

LEMMA TakeMaps == ASSUME Inv, QueueWaits, SessionRuns, Take PROVE QueueWaits' /\ SessionRuns'
<1>1. TypeOK /\ queue # <<>> /\ queue' = Tail(queue) /\ pool' = Append(pool, Head(queue))
      /\ job' = [job EXCEPT ![Head(queue)] = "active"] /\ session' = session
  BY DEF Take, Inv
<1>2. /\ Head(queue) = queue[1] /\ 1 \in DOMAIN queue /\ Head(queue) \in Requests
      /\ \A m \in DOMAIN Tail(queue) :
             m + 1 \in DOMAIN queue /\ m + 1 # 1 /\ Tail(queue)[m] = queue[m + 1]
  BY <1>1, Heads DEF TypeOK
<1>3. job[Head(queue)] = "waiting" /\ job'[Head(queue)] = "active"
      /\ \A r \in Requests : r # Head(queue) => job'[r] = job[r]
  BY <1>1, <1>2 DEF QueueWaits, TypeOK
<1>4. \A m \in DOMAIN queue' : job'[queue'[m]] = "waiting"
  <2> SUFFICES ASSUME NEW m \in DOMAIN queue' PROVE job'[queue'[m]] = "waiting"
    OBVIOUS
  <2>1. m + 1 \in DOMAIN queue /\ m + 1 # 1 /\ queue'[m] = queue[m + 1]
    BY <1>1, <1>2
  <2>2. queue[m + 1] # Head(queue) /\ queue[m + 1] \in Requests
    BY <1>1, <1>2, <2>1 DEF QueueWaits, TypeOK
  <2> QED
    BY <1>3, <2>1, <2>2 DEF QueueWaits
<1>5. \A m, n \in DOMAIN queue' : queue'[m] = queue'[n] => m = n
  <2> SUFFICES ASSUME NEW m \in DOMAIN queue', NEW n \in DOMAIN queue', queue'[m] = queue'[n]
               PROVE  m = n
    OBVIOUS
  <2>1. m + 1 = n + 1
    BY <1>1, <1>2 DEF QueueWaits
  <2>2. m \in Nat /\ n \in Nat
    BY <1>1 DEF TypeOK
  <2> QED
    BY <2>1, <2>2
<1>6. \A m \in DOMAIN pool' : job'[pool'[m]] \notin {"none", "waiting"}
  <2> SUFFICES ASSUME NEW m \in DOMAIN pool' PROVE job'[pool'[m]] \notin {"none", "waiting"}
    OBVIOUS
  <2>1. pool'[m] = Head(queue) \/ (m \in DOMAIN pool /\ pool'[m] = pool[m] /\ pool[m] \in Requests)
    BY <1>1, <1>2 DEF TypeOK
  <2> QED
    BY <1>3, <2>1 DEF QueueWaits
<1>7. SessionRuns'
  BY <1>1, <1>2, <1>3 DEF SessionRuns, SessionOfRequest, TypeOK
<1> QED
  BY <1>4, <1>5, <1>6, <1>7 DEF QueueWaits

LEMMA StartMaps == ASSUME Inv, QueueWaits, SessionRuns, Start PROVE QueueWaits' /\ SessionRuns'
<1> DEFINE r == Head(pool)
           s == SessionOfRequest(r)
<1>1. TypeOK /\ pool # <<>> /\ pool' = Tail(pool) /\ queue' = queue
      /\ job' = [job EXCEPT ![r] = "running"] /\ session' = [session EXCEPT ![s] = r]
  BY DEF Start, Inv
<1>2. /\ r = pool[1] /\ 1 \in DOMAIN pool /\ r \in Requests
      /\ \A m \in DOMAIN Tail(pool) : m + 1 \in DOMAIN pool /\ Tail(pool)[m] = pool[m + 1]
  BY <1>1, Heads DEF TypeOK
<1>3. s \in Sessions /\ s = SessionOfRequest(r)
  BY <1>2, CompileCoalescingAssumption DEF SessionOfRequest
<1> HIDE DEF r, s
<1>4. job[r] \notin {"none", "waiting"} /\ job'[r] = "running"
      /\ \A q \in Requests : q # r => job'[q] = job[q]
  BY <1>1, <1>2 DEF QueueWaits, TypeOK
<1>5. QueueWaits'
  <2>1. \A m \in DOMAIN queue' : job'[queue'[m]] = "waiting"
    BY <1>1, <1>4 DEF QueueWaits, TypeOK
  <2>2. \A m \in DOMAIN pool' : job'[pool'[m]] \notin {"none", "waiting"}
    BY <1>1, <1>2, <1>4 DEF QueueWaits, TypeOK
  <2> QED
    BY <1>1, <2>1, <2>2 DEF QueueWaits
<1>6. SessionRuns'
  BY <1>1, <1>2, <1>3, <1>4 DEF SessionRuns, SessionOfRequest, TypeOK
<1> QED
  BY <1>5, <1>6

LEMMA CancelMaps ==
    ASSUME Inv, QueueWaits, SessionRuns, NEW r \in Requests, CancelJob(r)
    PROVE  QueueWaits' /\ SessionRuns'
<1>1. TypeOK /\ job[r] = "waiting" /\ job' = [job EXCEPT ![r] = "removed"]
      /\ UNCHANGED <<pool, session>>
  BY DEF CancelJob, Inv
<1>2. PICK m \in DOMAIN queue : queue[m] = r /\ queue' = RemoveAt(queue, m)
  BY DEF CancelJob
<1>3. \A i \in DOMAIN queue' :
          LET j == IF i < m THEN i ELSE i + 1
          IN  j \in DOMAIN queue /\ j # m /\ queue'[i] = queue[j]
  BY <1>1, <1>2, RemoveAtEntries DEF TypeOK
<1>4. queue' \in Seq(Requests) /\ m \in Nat
  BY <1>1, <1>2, RemoveAtType DEF TypeOK
<1>5. \A i \in DOMAIN queue' : job'[queue'[i]] = "waiting"
  <2> SUFFICES ASSUME NEW i \in DOMAIN queue' PROVE job'[queue'[i]] = "waiting"
    OBVIOUS
  <2>1. PICK j \in DOMAIN queue : j # m /\ queue'[i] = queue[j]
    BY <1>3
  <2>2. queue[j] # r /\ queue[j] \in Requests
    BY <1>1, <1>2, <2>1 DEF QueueWaits, TypeOK
  <2> QED
    BY <1>1, <2>1, <2>2 DEF QueueWaits, TypeOK
<1>6. \A i, n \in DOMAIN queue' : queue'[i] = queue'[n] => i = n
  <2> SUFFICES ASSUME NEW i \in DOMAIN queue', NEW n \in DOMAIN queue', queue'[i] = queue'[n]
               PROVE  i = n
    OBVIOUS
  <2>1. (IF i < m THEN i ELSE i + 1) = (IF n < m THEN n ELSE n + 1)
    BY <1>3 DEF QueueWaits
  <2>2. i \in Nat /\ n \in Nat
    BY <1>4
  <2> QED
    BY <1>4, <2>1, <2>2
<1>7. \A n \in DOMAIN pool' : job'[pool'[n]] \notin {"none", "waiting"}
  BY <1>1 DEF QueueWaits, TypeOK
<1>8. SessionRuns'
  BY <1>1 DEF SessionRuns, SessionOfRequest, TypeOK
<1> QED
  BY <1>5, <1>6, <1>7, <1>8 DEF QueueWaits

LEMMA EndMaps ==
    ASSUME Inv, QueueWaits, SessionRuns, NEW r \in Requests, NEW result \in {"completed", "failed"},
           End(r, result)
    PROVE  QueueWaits' /\ SessionRuns'
<1>1. TypeOK /\ job[r] = "running" /\ job' = [job EXCEPT ![r] = result] /\ UNCHANGED <<queue, pool>>
      /\ session' = IF session[SessionOfRequest(r)] = r
                    THEN [session EXCEPT ![SessionOfRequest(r)] = NoRequest]
                    ELSE session
  BY DEF End, Inv
<1>2. SessionOfRequest(r) \in Sessions
  BY CompileCoalescingAssumption DEF SessionOfRequest
<1>3. QueueWaits'
  BY <1>1 DEF QueueWaits, TypeOK
<1>4. \A s \in Sessions : session'[s] # NoRequest => session'[s] = session[s] /\ session[s] # r
  BY <1>1, <1>2 DEF SessionRuns, TypeOK
<1>5. SessionRuns'
  BY <1>1, <1>4 DEF SessionRuns, SessionOfRequest, TypeOK
<1> QED
  BY <1>3, <1>5

LEMMA EnqueueMaps ==
    ASSUME Inv, JobOnce, QueueWaits, SessionRuns, NEW k \in Keys, Enqueue(k)
    PROVE  JobOnce' /\ QueueWaits' /\ SessionRuns'
<1> DEFINE r == payload[k]
<1>1. /\ TypeOK /\ flight[k] = "quota" /\ flight' = [flight EXCEPT ![k] = "job"]
      /\ job' = [job EXCEPT ![r] = "waiting"] /\ queue' = Append(queue, r)
      /\ UNCHANGED <<status, payload, pool, session>>
  BY DEF Enqueue, Inv, callerVars
<1>2. r \in Requests /\ KeyOf[r] = k /\ job[r] = "none"
  BY <1>1, PayloadHasNoJob
<1> HIDE DEF r
<1>3. \A q \in Requests : q # r => job'[q] = job[q]
  BY <1>1 DEF TypeOK
<1>4. JobOnce'
  <2> SUFFICES ASSUME NEW q \in Requests, job'[q] # "none", status'[q] \notin {"served", "error"}
               PROVE  flight'[KeyOf[q]] = "job" /\ payload'[KeyOf[q]] = q
    BY DEF JobOnce
  <2>1. CASE q = r
    BY <1>1, <1>2, <2>1 DEF TypeOK, r
  <2>2. CASE q # r
    BY <1>1, <1>3, <2>2, CompileCoalescingAssumption DEF JobOnce, TypeOK
  <2> QED
    BY <2>1, <2>2
<1>5. \A m \in DOMAIN queue : queue[m] # r /\ queue[m] \in Requests
  BY <1>1, <1>2 DEF QueueWaits, TypeOK
<1>6. \A m \in DOMAIN queue' : (m \in DOMAIN queue /\ queue'[m] = queue[m]) \/ (m = Len(queue) + 1 /\ queue'[m] = r)
  BY <1>1, <1>2 DEF TypeOK
<1>7. /\ \A m \in DOMAIN queue' : job'[queue'[m]] = "waiting"
      /\ \A m, n \in DOMAIN queue' : queue'[m] = queue'[n] => m = n
  BY <1>1, <1>2, <1>3, <1>5, <1>6 DEF QueueWaits, TypeOK
<1>8. \A m \in DOMAIN pool' : job'[pool'[m]] \notin {"none", "waiting"}
  BY <1>1, <1>2, <1>3 DEF QueueWaits, TypeOK
<1>9. SessionRuns'
  BY <1>1, <1>2, <1>3 DEF SessionRuns, SessionOfRequest, TypeOK
<1> QED
  BY <1>4, <1>7, <1>8, <1>9 DEF QueueWaits

\* The worker makes no job.
LEMMA WorkerMakesNone ==
    ASSUME Inv, QueueWaits, Worker
    PROVE  \A r \in Requests : job[r] = "none" => job'[r] = "none"
<1>0. TypeOK
  BY DEF Inv
<1>1. CASE Take
  <2>1. Head(queue) \in Requests /\ job[Head(queue)] = "waiting"
    BY <1>0, <1>1, Heads DEF Take, QueueWaits, TypeOK
  <2> QED
    BY <1>0, <1>1, <2>1 DEF Take, TypeOK
<1>2. CASE Start
  <2>1. Head(pool) \in Requests /\ job[Head(pool)] # "none"
    BY <1>0, <1>2, Heads DEF Start, QueueWaits, TypeOK
  <2> QED
    BY <1>0, <1>2, <2>1 DEF Start, TypeOK
<1>3. CASE \E r \in Requests : CancelJob(r) \/ End(r, "completed") \/ End(r, "failed")
  BY <1>0, <1>3 DEF CancelJob, End, TypeOK
<1> QED
  BY <1>1, <1>2, <1>3 DEF Worker

LEMMA JobsStep ==
    ASSUME Inv, JobOnce, QueueWaits, SessionRuns, Next
    PROVE  JobOnce' /\ QueueWaits' /\ SessionRuns'
<1>0. TypeOK /\ KeyOf \in [Requests -> Keys]
  BY CompileCoalescingAssumption DEF Inv
<1>1. CASE Worker
  <2>1. UNCHANGED <<status, flight, payload>>
    BY <1>1, WorkerLeavesCallers DEF callerVars, flightVars
  <2>2. JobOnce'
    BY <1>1, <2>1, WorkerMakesNone DEF JobOnce
  <2>3. QueueWaits' /\ SessionRuns'
    BY <1>1, TakeMaps, StartMaps, CancelMaps, EndMaps DEF Worker
  <2> QED
    BY <2>2, <2>3
<1>2. ASSUME NEW k \in Keys, Enqueue(k) PROVE JobOnce' /\ QueueWaits' /\ SessionRuns'
  BY <1>2, EnqueueMaps
\* The other steps leave the jobs alone; no one who was answered waits again.
<1>3. ASSUME UNCHANGED jobVars PROVE QueueWaits' /\ SessionRuns'
  BY <1>3 DEF jobVars, QueueWaits, SessionRuns, SessionOfRequest
<1>4. ASSUME NEW r \in Requests, Admit(r) \/ Coalesce(r) PROVE JobOnce' /\ UNCHANGED jobVars
  <2>1. UNCHANGED <<flightVars, jobVars>> /\ status[r] \in {"none", "admitted"}
        /\ \A q \in Requests : q # r => status'[q] = status[q]
    BY <1>0, <1>4 DEF Admit, Coalesce, TypeOK
  <2> QED
    BY <1>0, <2>1 DEF JobOnce, flightVars, jobVars
<1>5. ASSUME NEW k \in Keys, Flush(k) PROVE JobOnce' /\ UNCHANGED jobVars
  <2>1. UNCHANGED <<status, jobVars>>
    BY <1>5 DEF Flush, callerVars
  <2>2. \A l \in Keys : flight[l] = "job" => flight'[l] = "job" /\ payload'[l] = payload[l]
    BY <1>0, <1>5 DEF Flush, Active, flightVars, TypeOK
  <2> QED
    BY <1>0, <2>1, <2>2 DEF JobOnce, jobVars
<1>6. ASSUME NEW k \in Keys, Answers(k) PROVE JobOnce' /\ UNCHANGED jobVars
  <2>1. PICK result \in {"served", "error"} : Active(k) /\ Answer(k, result) /\ UNCHANGED jobVars
    BY <1>6 DEF Answers
  <2>2. /\ \A q \in Requests : status'[q] = IF q \in batch[k] THEN result ELSE status[q]
        /\ \A l \in Keys : l # k => flight'[l] = flight[l] /\ payload'[l] = payload[l]
    BY <1>0, <2>1 DEF Answer, TypeOK
  <2>3. payload[k] \in batch[k]
    BY <2>1 DEF Inv, CallersInv, BatchOfPayload
  <2> QED
    BY <1>0, <2>1, <2>2, <2>3 DEF JobOnce, jobVars
<1> QED
  BY <1>1, <1>2, <1>3, <1>4, <1>5, <1>6, Steps

LEMMA AlwaysMaps == Spec => []MapsInv
<1>1. Init => MapsInv
  BY InitInv DEF Init, MapsInv, EntryUsed, JobOnce, QueueWaits, SessionRuns
<1>2. MapsInv /\ [Next]_vars => MapsInv'
  <2> SUFFICES ASSUME MapsInv, [Next]_vars PROVE MapsInv'
    OBVIOUS
  <2>1. Inv'
    BY NextInv DEF MapsInv
  <2>2. CASE Next
    BY <2>1, <2>2, EntryUsedStep, JobsStep DEF MapsInv
  <2>3. CASE UNCHANGED vars
    BY <2>1, <2>3 DEF MapsInv, EntryUsed, JobOnce, QueueWaits, SessionRuns, Active, SessionOfRequest,
                      vars, callerVars, entryVars, flightVars, jobVars
  <2> QED
    BY <2>2, <2>3
<1> QED
  BY <1>1, <1>2, PTL DEF Spec

\* The maps of documents and sessions do not grow: with no one waiting there
\* is no entry, with no compile running no session names one, whatever was
\* cancelled, timed out or answered with an error before.
THEOREM MapsEmptied == Spec => []NothingLeft
<1>1. MapsInv => NothingLeft
  <2> SUFFICES ASSUME MapsInv PROVE NothingLeft
    OBVIOUS
  <2>1. ASSUME \A r \in Requests : status[r] # "pending", NEW k \in entries PROVE FALSE
    <3>1. k \in Keys /\ waiters[k] \subseteq Requests /\ batch[k] \subseteq Requests
      BY DEF MapsInv, Inv, TypeOK
    <3>2. waiters[k] = {} /\ batch[k] = {}
      BY <2>1, <3>1 DEF MapsInv, Inv, CallersInv, WaitersKnown
    <3> QED
      BY <3>1, <3>2 DEF MapsInv, EntryUsed, Inv, CallersInv, BatchOfPayload
  <2>2. ASSUME InState({"running"}) = {}, NEW s \in Sessions PROVE session[s] = NoRequest
    BY <2>2 DEF MapsInv, SessionRuns, InState, Inv, TypeOK
  <2> QED
    BY <2>1, <2>2 DEF NothingLeft
<1> QED
  BY <1>1, AlwaysMaps, PTL

-----------------------------------------------------------------------------
(* The coalescing implements CompileService. *)

seen == [r \in Requests |-> IF status[r] \in {"refused", "admitted"} THEN "none" ELSE status[r]]

LEMMA InitRefines == Init => Service!Init
BY DEF Init, Service!Init

LEMMA CoalesceArrives ==
    ASSUME Inv, NEW r \in Requests, Coalesce(r) PROVE Service!Arrive(r)
<1>1. status[r] = "admitted" /\ status' = [status EXCEPT ![r] = "pending"] /\ servedFrom' = servedFrom
  BY DEF Coalesce
<1>2. after' = [after EXCEPT ![r] = {q \in Requests : status[q] \in Seen}]
  BY DEF Coalesce, Seen
<1>3. status \in [Requests -> {"none", "refused", "admitted", "pending", "served", "error"}]
  BY DEF Inv, TypeOK
<1>4. seen[r] = "none" /\ seen' = [seen EXCEPT ![r] = "pending"]
  BY <1>1, <1>3 DEF seen
<1>5. {q \in Requests : status[q] \in Seen} = {q \in Requests : seen[q] # "none"}
  BY <1>3 DEF seen, Seen
<1> QED
  BY <1>1, <1>2, <1>4, <1>5 DEF Service!Arrive, seen

\* The batch of a flush is all who wait for its document up to its payload.
LEMMA BatchIsPending ==
    ASSUME Inv, NEW k \in Keys, Active(k)
    PROVE  /\ payload[k] \in Requests /\ KeyOf[payload[k]] = k /\ status[payload[k]] = "pending"
           /\ batch[k] = {r \in Requests : /\ KeyOf[r] = k /\ status[r] = "pending"
                                           /\ r = payload[k] \/ r \in after[payload[k]]}
BY DEF Inv, CallersInv, TypeOK, WaitersKnown, BatchOfPayload, LaterWait

LEMMA AnswersAnswer ==
    ASSUME Inv, NEW k \in Keys, NEW result \in {"served", "error"}, Active(k), Answer(k, result)
    PROVE  Service!Answer(payload[k], result)
<1> DEFINE p == payload[k]
<1>1. /\ status' = [r \in Requests |-> IF r \in batch[k] THEN result ELSE status[r]]
      /\ servedFrom' = [r \in Requests |->
             IF r \in batch[k] /\ result = "served" THEN {p} ELSE servedFrom[r]]
      /\ after' = after
  BY DEF Answer
<1>2. \A r \in Requests : seen[r] = "pending" <=> status[r] = "pending"
  BY DEF seen
<1>3. batch[k] = {r \in Service!Pending(KeyOf[p]) : r = p \/ r \in after[p]}
  BY <1>2, BatchIsPending DEF Service!Pending, seen
<1>4. seen' = [r \in Requests |-> IF r \in batch[k] THEN result ELSE seen[r]]
  BY <1>1 DEF seen
<1>5. seen[p] = "pending" /\ p \in Requests
  BY <1>2, BatchIsPending
<1> QED
  BY <1>1, <1>3, <1>4, <1>5 DEF Service!Answer, seen

LEMMA NextRefines == Inv /\ [Next]_vars => [Service!Next]_Service!vars
<1> SUFFICES ASSUME Inv, [Next]_vars, ~ UNCHANGED <<seen, servedFrom, after>> PROVE Service!Next
  BY DEF Service!vars, seen
<1>1. CASE UNCHANGED vars \/ Worker \/ \E k \in Keys : Flush(k) \/ Enqueue(k)
  <2>1. UNCHANGED callerVars
    BY <1>1, WorkerLeavesCallers DEF vars, Flush, Enqueue
  <2> QED
    BY <2>1 DEF callerVars, seen
<1>2. ASSUME NEW r \in Requests, Admit(r) PROVE FALSE
  <2>1. UNCHANGED <<servedFrom, after>> /\ status[r] = "none"
    BY <1>2 DEF Admit
  <2>2. \E s \in {"refused", "admitted"} : status' = [status EXCEPT ![r] = s]
    BY <1>2 DEF Admit
  <2>3. seen' = seen
    BY <2>1, <2>2 DEF seen, Inv, TypeOK
  <2> QED
    BY <2>1, <2>3
<1>3. ASSUME NEW r \in Requests, Coalesce(r) PROVE Service!Next
  BY <1>3, CoalesceArrives DEF Service!Next
<1>4. ASSUME NEW k \in Keys, Answers(k) PROVE Service!Next
  BY <1>4, AnswersAnswer, BatchIsPending DEF Answers, Service!Next
<1> QED
  BY <1>1, <1>2, <1>3, <1>4, Steps

\* Whatever the flushes, the queue, the pool, the sessions and the timeouts
\* do, callers see the abstract service: one answer for all who wait for a
\* document up to some request, made from that request's source.
THEOREM ImplementsService == Spec => ServiceSpec
BY InitRefines, NextRefines, AlwaysInv, PTL DEF Spec, ServiceSpec, Service!Spec
=============================================================================
