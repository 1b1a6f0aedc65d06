----------------------------- MODULE KeyedLock -----------------------------
(***************************************************************************)
(* withKeyedLock of backend/src/services/keyedLock.ts: the promise chain   *)
(* that keeps the work on one key from overlapping.                        *)
(*                                                                         *)
(* The code keeps, for each key, the promise of the latest call (its       *)
(* "tail").  A call links itself behind the tail it finds, runs its task   *)
(* when that promise has settled (fulfilled or rejected: the two handlers  *)
(* of then are the same), and at the end removes the map entry only if it  *)
(* is still its own.  A promise is modelled by the call that made it.      *)
(***************************************************************************)
EXTENDS Naturals

CONSTANTS
    Calls,      \* the calls of withKeyedLock, each made at most once
    Keys,       \* the keys they lock
    NoCall      \* "no entry in the map" and "Promise.resolve()"

ASSUME NoCallAssumption == NoCall \notin Calls

VARIABLES
    lockTails,  \* lockTails[k]: the call whose tail the map holds for k
    pc,         \* pc[c]: how far call c is
    key,        \* key[c]: the key c asked for
    previous,   \* previous[c]: the call c waits for
    ticket,     \* ticket[c]: the place of c in the order of all the calls
    calls       \* how many calls were made so far

vars == <<lockTails, pc, key, previous, ticket, calls>>

Steps == {"idle", "waiting", "running", "settled", "done"}

\* The calls whose own promise, and so the tail made of it, has settled.
Settled(c) == pc[c] \in {"settled", "done"}

Init ==
    /\ lockTails = [k \in Keys |-> NoCall]
    /\ pc = [c \in Calls |-> "idle"]
    /\ key \in [Calls -> Keys]
    /\ previous = [c \in Calls |-> NoCall]
    /\ ticket = [c \in Calls |-> 0]
    /\ calls = 0

-----------------------------------------------------------------------------
\* Mutant: the call becomes the tail before it reads it.
EnterAsTailFirst(c) ==
    /\ pc[c] = "idle"
    /\ lockTails' = [lockTails EXCEPT ![key[c]] = c]
    /\ previous' = [previous EXCEPT ![c] = lockTails'[key[c]]]
    /\ calls' = calls + 1
    /\ ticket' = [ticket EXCEPT ![c] = calls + 1]
    /\ pc' = [pc EXCEPT ![c] = "waiting"]
    /\ UNCHANGED key

\* The synchronous part of the call, up to its first await: read the tail,
\* chain the task behind it, become the tail.
Enter(c) ==
    /\ pc[c] = "idle"
    /\ previous' = [previous EXCEPT ![c] = lockTails[key[c]]]
    /\ lockTails' = [lockTails EXCEPT ![key[c]] = c]
    /\ calls' = calls + 1
    /\ ticket' = [ticket EXCEPT ![c] = calls + 1]
    /\ pc' = [pc EXCEPT ![c] = "waiting"]
    /\ UNCHANGED key

\* Mutant: the call does not wait for the promise it found.
StartAtOnce(c) ==
    /\ pc[c] = "waiting"
    /\ pc' = [pc EXCEPT ![c] = "running"]
    /\ UNCHANGED <<lockTails, key, previous, ticket, calls>>

\* previous.then(task, task): the task starts once the earlier one settled.
Start(c) ==
    /\ pc[c] = "waiting"
    /\ previous[c] # NoCall => Settled(previous[c])
    /\ pc' = [pc EXCEPT ![c] = "running"]
    /\ UNCHANGED <<lockTails, key, previous, ticket, calls>>

\* The task's promise fulfils or rejects; run.catch makes both the same to
\* the calls chained behind it.
Settle(c) ==
    /\ pc[c] = "running"
    /\ pc' = [pc EXCEPT ![c] = "settled"]
    /\ UNCHANGED <<lockTails, key, previous, ticket, calls>>

\* Mutant: the entry is removed whoever holds it.
LeaveAlwaysRemoving(c) ==
    /\ pc[c] = "settled"
    /\ lockTails' = [lockTails EXCEPT ![key[c]] = NoCall]
    /\ pc' = [pc EXCEPT ![c] = "done"]
    /\ UNCHANGED <<key, previous, ticket, calls>>

\* The finally block: the entry is removed only by the call that is the tail.
Leave(c) ==
    /\ pc[c] = "settled"
    /\ lockTails' = IF lockTails[key[c]] = c
                    THEN [lockTails EXCEPT ![key[c]] = NoCall]
                    ELSE lockTails
    /\ pc' = [pc EXCEPT ![c] = "done"]
    /\ UNCHANGED <<key, previous, ticket, calls>>

AllDone == \A c \in Calls : pc[c] = "done"

\* Every call was made and answered: nothing is left to do.
Finished == AllDone /\ UNCHANGED vars

Next == (\E c \in Calls : Enter(c) \/ Start(c) \/ Settle(c) \/ Leave(c)) \/ Finished

Spec == Init /\ [][Next]_vars

-----------------------------------------------------------------------------
TypeOK ==
    /\ lockTails \in [Keys -> Calls \cup {NoCall}]
    /\ pc \in [Calls -> Steps]
    /\ key \in [Calls -> Keys]
    /\ previous \in [Calls -> Calls \cup {NoCall}]
    /\ ticket \in [Calls -> Nat]
    /\ calls \in Nat

\* c was called before d, on the same key.
Before(c, d) ==
    /\ pc[c] # "idle" /\ pc[d] # "idle"
    /\ key[c] = key[d]
    /\ ticket[c] < ticket[d]

\* "work on one file or project never overlaps": no two tasks of one key run
\* at the same time.
Exclusive ==
    \A c, d \in Calls : pc[c] = "running" /\ pc[d] = "running" /\ key[c] = key[d] => c = d

\* "Runs task after every earlier task with the same key has settled": a
\* task that started finds every earlier one of its key settled.
FirstComeFirstServed ==
    \A c, d \in Calls : Before(c, d) /\ pc[d] \in {"running", "settled", "done"} => Settled(c)

\* The map does not grow: a key with no call in progress has no entry.
NoEntryLeft ==
    \A k \in Keys :
        (\A c \in Calls : key[c] = k => pc[c] \in {"idle", "done"}) => lockTails[k] = NoCall

\* A call is never kept waiting by what is behind it, by itself, or by what
\* has settled: once the earlier calls of its key have settled, rejected or
\* not, it can start.  So nobody waits in a circle.
NextInLineFree ==
    \A c \in Calls :
        pc[c] = "waiting" /\ (\A d \in Calls : Before(d, c) => Settled(d))
            => previous[c] = NoCall \/ Settled(previous[c])
=============================================================================
