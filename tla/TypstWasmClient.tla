---------------------------- MODULE TypstWasmClient ----------------------------
(***************************************************************************)
(* The page's side of the Typst compiler in the browser: requests go to a  *)
(* worker, which answers them one after the other; it may fail to start,   *)
(* crash, or be replaced.  Where there can be no worker, a request runs on *)
(* the main thread.                                                        *)
(***************************************************************************)
EXTENDS Naturals, Sequences, FiniteSets, SequencesExt

CONSTANTS
  MaxRequests,    \* bound: compiles asked for
  MaxStarts       \* bound: workers started

VARIABLES
  worker,         \* is there a worker?
  starts,         \* workers started so far
  workerAnswered,
  workerUnavailable,
  requests,       \* ids given out
  posted,         \* requests posted to the worker that it has not answered
  pending,        \* requests whose promise waits for the worker
  mainThread,     \* requests that run on the main thread
  settled         \* requests whose promise was resolved or rejected

wasmVars == <<worker, starts, workerAnswered, workerUnavailable, requests, posted, pending, mainThread, settled>>

Init ==
  /\ worker = FALSE /\ starts = 0
  /\ workerAnswered = FALSE /\ workerUnavailable = FALSE
  /\ requests = 0 /\ posted = <<>>
  /\ pending = {} /\ mainThread = {} /\ settled = {}

-----------------------------------------------------------------------------
(* startWorker: the constructor may throw, and then there is no worker for   *)
(* good.                                                                     *)
StartWorker ==
  \/ /\ worker \/ workerUnavailable
     /\ UNCHANGED <<worker, starts, workerUnavailable>>
  \/ /\ ~worker /\ ~workerUnavailable /\ starts < MaxStarts
     /\ worker' = TRUE /\ starts' = starts + 1
     /\ UNCHANGED workerUnavailable
  \/ /\ ~worker /\ ~workerUnavailable
     /\ workerUnavailable' = TRUE
     /\ UNCHANGED <<worker, starts>>

WarmUp ==
  /\ StartWorker
  /\ UNCHANGED <<workerAnswered, requests, posted, pending, mainThread, settled>>

RunCompile ==
  /\ requests < MaxRequests /\ requests' = requests + 1
  /\ StartWorker
  /\ IF worker'
     THEN posted' = Append(posted, requests') /\ pending' = pending \cup {requests'} /\ UNCHANGED mainThread
     ELSE mainThread' = mainThread \cup {requests'} /\ UNCHANGED <<posted, pending>>
  /\ UNCHANGED <<workerAnswered, settled>>

(* The worker answers the request it got first, with a result or an error.   *)
Message ==
  /\ worker /\ posted # <<>>
  /\ workerAnswered' = TRUE
  /\ posted' = Tail(posted)
  /\ pending' = pending \ {Head(posted)}
  /\ settled' = settled \cup (pending \cap {Head(posted)})
  /\ UNCHANGED <<worker, starts, workerUnavailable, requests, mainThread>>

\* Mutant: only the request that the worker is at.
FailedFirst == pending \cap {posted[i] : i \in DOMAIN posted \cap {1}}

(* The worker did not start, or crashed.                                     *)
Failed == pending

Error ==
  /\ worker
  /\ worker' = FALSE /\ posted' = <<>> /\ pending' = {}
  /\ IF workerAnswered
     THEN settled' = settled \cup Failed /\ UNCHANGED <<mainThread, workerUnavailable>>
     ELSE mainThread' = mainThread \cup Failed /\ workerUnavailable' = TRUE /\ UNCHANGED settled
  /\ UNCHANGED <<starts, workerAnswered, requests>>

MainThreadDone(id) ==
  /\ mainThread' = mainThread \ {id} /\ settled' = settled \cup {id}
  /\ UNCHANGED <<worker, starts, workerAnswered, workerUnavailable, requests, posted, pending>>

(* resetTypstWasmState: the worker is replaced, what it had is rejected.     *)
(* (After a crash there is none to replace: the next compile starts one.)    *)
Reset ==
  /\ worker
  /\ settled' = settled \cup pending /\ pending' = {} /\ posted' = <<>>
  /\ workerAnswered' = FALSE
  /\ \/ starts < MaxStarts /\ starts' = starts + 1 /\ UNCHANGED <<worker, workerUnavailable>>
     \/ worker' = FALSE /\ workerUnavailable' = TRUE /\ UNCHANGED starts
  /\ UNCHANGED <<requests, mainThread>>

Next ==
  \/ WarmUp \/ RunCompile \/ Message \/ Error \/ Reset
  \/ \E id \in mainThread : MainThreadDone(id)

Spec == Init /\ [][Next]_wasmVars

-----------------------------------------------------------------------------
(* Every request that was made is settled, runs on the main thread, or is    *)
(* with the worker of now, which will answer it: none is forgotten when a    *)
(* worker fails or is replaced, and none is done twice.                      *)
EveryRequestHeld ==
  /\ 1..requests = pending \cup mainThread \cup settled
  /\ Cardinality(pending) + Cardinality(mainThread) + Cardinality(settled) = requests
  /\ pending \subseteq ToSet(posted) /\ (pending # {} => worker)

=============================================================================
