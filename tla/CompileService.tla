--------------------------- MODULE CompileService ---------------------------
(***************************************************************************)
(* What POST /api/compile promises to the callers that are admitted: each  *)
(* gets one answer, made from a source of the same document at least as    *)
(* new as its own, and all who wait for a document are answered together.  *)
(***************************************************************************)
EXTENDS Naturals

CONSTANTS Requests, KeyOf   \* KeyOf[r]: the document r wants compiled

VARIABLES
    status,      \* status[r]: none, pending, served or error
    servedFrom,  \* servedFrom[r]: the requests whose source r may show
    after        \* after[r]: the requests pending or answered when r came

vars == <<status, servedFrom, after>>

Init ==
    /\ status = [r \in Requests |-> "none"]
    /\ servedFrom = [r \in Requests |-> {}]
    /\ after = [r \in Requests |-> {}]

Pending(k) == {r \in Requests : KeyOf[r] = k /\ status[r] = "pending"}

Arrive(r) ==
    /\ status[r] = "none"
    /\ status' = [status EXCEPT ![r] = "pending"]
    /\ after' = [after EXCEPT ![r] = {q \in Requests : status[q] # "none"}]
    /\ UNCHANGED servedFrom

\* Those who wait for a document, up to request p, get the answer of p.
Answer(p, result) ==
    LET batch == {r \in Pending(KeyOf[p]) : r = p \/ r \in after[p]}
    IN  /\ status[p] = "pending"
        /\ status' = [r \in Requests |-> IF r \in batch THEN result ELSE status[r]]
        /\ servedFrom' = [r \in Requests |->
                             IF r \in batch /\ result = "served" THEN {p} ELSE servedFrom[r]]
        /\ UNCHANGED after

Next ==
    \E r \in Requests : Arrive(r) \/ Answer(r, "served") \/ Answer(r, "error")

Spec == Init /\ [][Next]_vars
=============================================================================
