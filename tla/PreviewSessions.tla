---------------------------- MODULE PreviewSessions ----------------------------
(***************************************************************************)
(* The Tinymist preview sessions of the server: a map of sessions, a map   *)
(* from a caller's key (owner, project, name) to its session, and a        *)
(* process per session.  ensureTypstPreviewSession finds or creates the    *)
(* session of a key and starts its process; sessions leave by age, or to   *)
(* make room for others.                                                   *)
(***************************************************************************)
EXTENDS Naturals, FiniteSets, SequencesExt, Selection

CONSTANTS
  Calls,           \* calls of ensureTypstPreviewSession that can be under way
  Keys,            \* keys of callers
  OwnerOf,         \* key -> owner
  Entries,         \* main files that previews are asked for
  MaxPerOwner,     \* MAX_SESSIONS_PER_OWNER
  MaxLive,         \* MAX_SESSIONS
  MaxCreating,     \* bound: calls that wait for their ports at a time
  MaxSessions,     \* bound: sessions created in all
  Pids,            \* bound: numbers of the processes that run at a time
  None

VARIABLES
  session,    \* every session created so far: its key, main file and process (None once dropped)
  recent,     \* the map `sessions`: numbers of the live ones, least recently touched first
  byKey,      \* sessionIdsByKey
  process,    \* the processes that run: number -> its session, and whether it was killed
  ensure      \* the calls

previewVars == <<session, recent, byKey, process, ensure>>

Live == ToSet(recent)
Owned(live, o) == {s \in live : OwnerOf[session[s].key] = o}
Creating == {c \in Calls : ensure[c].step = "ports"}

(* The least recently touched sessions come first in `recent`.               *)
Oldest(live) == recent[CHOOSE i \in DOMAIN recent : recent[i] \in live /\
                         \A j \in DOMAIN recent : recent[j] \in live => i <= j]
RecentWithout(drop) == Select(recent, {i \in DOMAIN recent : recent[i] \notin drop})
Touch(s) == recent' = Append(RecentWithout({s}), s)

Init ==
  /\ session = <<>> /\ recent = <<>>
  /\ process = [p \in Pids |-> None]
  /\ byKey = [k \in Keys |-> None]
  /\ ensure = [c \in Calls |-> [step |-> "idle", key |-> None, entry |-> None, session |-> None]]

-----------------------------------------------------------------------------
Running(p) == process[p] # None
Killed(p)  == [process[p] EXCEPT !.killed = TRUE]

\* Mutant: the key is forgotten whichever session it names.
KeysWithoutAny(drop) ==
  [k \in Keys |-> IF \E s \in drop : session[s].key = k THEN None ELSE byKey[k]]

(* dropSession of several sessions: their processes are killed, and a key    *)
(* is forgotten if it still names the session.                               *)
KeysWithout(drop) ==
  [k \in Keys |-> IF byKey[k] \in drop THEN None ELSE byKey[k]]

\* Mutant: the process of a dropped session is not killed.
ProcessesLeft(drop) == process

ProcessesWithout(drop) ==
  [p \in Pids |-> IF \E s \in drop : session[s].process = p THEN Killed(p) ELSE process[p]]

SessionsWithout(drop) ==
  [s \in DOMAIN session |-> IF s \in drop THEN [session[s] EXCEPT !.entry = None, !.process = None] ELSE session[s]]

(* cleanupExpiredSessions: the sessions that were not touched for long; not  *)
(* one that a call waits on, which touched it seconds ago.                   *)
Expirable ==
  {n \in 0..Len(recent) : \A i \in 1..n : \A c \in Calls : ensure[c].session # recent[i]}

\* Mutant: only the owner's limit is kept, and one too late.
RoomTooLate(live, owner) ==
  LET own == Owned(live, owner)
  IN  IF Cardinality(own) > MaxPerOwner + 1 THEN {Oldest(own)} ELSE {}

(* makeRoomForSession: one session of the owner, then one of all.            *)
Room(live, owner) ==
  LET own   == Owned(live, owner)
      first == IF Cardinality(own) >= MaxPerOwner THEN {Oldest(own)} ELSE {}
      rest  == live \ first
  IN  first \cup (IF Cardinality(rest) >= MaxLive THEN {Oldest(rest)} ELSE {})

(* spawn for session `s` of `sess`, unless it has a process.                 *)
Spawn(s, procs, sess) ==
  IF sess[s].process # None
  THEN process' = procs /\ session' = sess
  ELSE \E p \in Pids :
         /\ procs[p] = None /\ \A q \in Pids : q < p => procs[q] # None
         /\ process' = [procs EXCEPT ![p] = [session |-> s, killed |-> FALSE]]
         /\ session' = [x \in DOMAIN sess |-> IF x = s THEN [sess[x] EXCEPT !.process = p] ELSE sess[x]]

NoCallOf == [step |-> "idle", key |-> None, entry |-> None, session |-> None]
WaitingFor(s) == [NoCallOf EXCEPT !.step = "waiting", !.session = s]

(* A call that finds no session of its key makes room and asks for ports.    *)
EnsureNew(c, k, e, n) ==
  LET expired == {recent[i] : i \in 1..n}
      live == Live \ expired
      drop == expired \cup Room(live, OwnerOf[k])
  IN  /\ ensure[c].step = "idle" /\ n \in Expirable
      /\ byKey[k] \notin live
      /\ Cardinality(Creating) < MaxCreating
      /\ Len(session) + Cardinality(Creating) < MaxSessions
      /\ process' = ProcessesWithout(drop) /\ byKey' = KeysWithout(drop)
      /\ recent' = RecentWithout(drop) /\ session' = SessionsWithout(drop)
      /\ ensure' = [ensure EXCEPT ![c] = [NoCallOf EXCEPT !.step = "ports", !.key = k, !.entry = e]]

(* A call that finds one: another main file ends the process, and a session  *)
(* without a process gets one, all in one go; unless the files cannot be     *)
(* written, when it throws in between.                                       *)
EnsureKnown(c, k, e, n, synced) ==
  LET s == byKey[k]
      drop == {recent[i] : i \in 1..n}
      old == session[s].process
      switch == session[s].entry # e
      procs == [p \in Pids |-> IF switch /\ old = p THEN Killed(p) ELSE ProcessesWithout(drop)[p]]
      sess == [x \in DOMAIN session |->
                 IF switch /\ x = s THEN [session[s] EXCEPT !.entry = e, !.process = None]
                 ELSE SessionsWithout(drop)[x]]
  IN  /\ ensure[c].step = "idle" /\ n \in Expirable
      /\ s \in Live \ drop
      /\ recent' = Append(RecentWithout(drop \cup {s}), s)
      /\ byKey' = KeysWithout(drop)
      /\ IF synced
         THEN Spawn(s, procs, sess) /\ ensure' = [ensure EXCEPT ![c] = WaitingFor(s)]
         ELSE process' = procs /\ session' = sess /\ UNCHANGED ensure

(* The ports are there: the session is entered under its key, also when      *)
(* another call entered one meanwhile, and its process is started; unless    *)
(* the files cannot be written, when it stays without one.                   *)
Create(c, synced) ==
  LET s == Len(session) + 1
      k == ensure[c].key
      sess == Append(session, [key |-> k, entry |-> ensure[c].entry, process |-> None])
  IN  /\ ensure[c].step = "ports"
      /\ recent' = Append(recent, s)
      /\ byKey' = [byKey EXCEPT ![k] = s]
      /\ IF synced
         THEN Spawn(s, process, sess) /\ ensure' = [ensure EXCEPT ![c] = WaitingFor(s)]
         ELSE session' = sess /\ ensure' = [ensure EXCEPT ![c] = NoCallOf] /\ UNCHANGED process

(* The ports are not to be had, and the call throws; or the wait for the     *)
(* process ends, in time or not, and it is answered.                         *)
Answer(c) ==
  /\ ensure[c].step # "idle"
  /\ ensure' = [ensure EXCEPT ![c] = NoCallOf]
  /\ UNCHANGED <<session, recent, byKey, process>>

(* A process exits, because it was killed or by itself: its handler clears   *)
(* the process of the session, whichever that is by now.                     *)
Exit(p) ==
  /\ Running(p)
  /\ process' = [process EXCEPT ![p] = None]
  /\ session' = [session EXCEPT ![process[p].session].process = None]
  /\ UNCHANGED <<recent, byKey, ensure>>

(* The proxies look a session up by its id and touch it.                     *)
Proxy(s) == s \in Live /\ Touch(s) /\ UNCHANGED <<session, byKey, process, ensure>>

Next ==
  \/ \E c \in Calls, k \in Keys, e \in Entries, n \in 0..Len(recent) :
       \/ EnsureNew(c, k, e, n)
       \/ \E synced \in BOOLEAN : EnsureKnown(c, k, e, n, synced)
  \/ \E c \in Calls : Answer(c) \/ \E synced \in BOOLEAN : Create(c, synced)
  \/ \E p \in Pids : Exit(p)
  \/ \E s \in Live : Proxy(s)

Spec == Init /\ [][Next]_previewVars

-----------------------------------------------------------------------------
(* The session that was created last for a key is found by it for as long as *)
(* it lives, also when two calls created one for the same key and the other  *)
(* one is dropped.                                                           *)
LatestSessionKnown ==
  \A s \in Live : (\A x \in DOMAIN session : session[x].key = session[s].key => x <= s)
                    => byKey[session[s].key] = s

(* Calls that overlap may exceed the limits, each by one session, and the    *)
(* excess does not add up over time.                                         *)
WithinLimits ==
  /\ Len(recent) <= MaxLive + MaxCreating - 1
  /\ \A k \in Keys : Cardinality(Owned(Live, OwnerOf[k])) <= MaxPerOwner + MaxCreating - 1

(* A process that nobody killed is the process of a live session, which will *)
(* kill it when it is dropped: none goes on without anyone knowing.          *)
ProcessOwned ==
  \A p \in Pids : Running(p) /\ ~process[p].killed =>
    process[p].session \in Live /\ session[process[p].session].process = p
=============================================================================
