---------------------------- MODULE LanguageServers ----------------------------
(***************************************************************************)
(* Diagnostics of one file by a language server.  All requests share one   *)
(* client, which starts the server's process, and one directory per        *)
(* revision of the project, which mirrors its files.  A request puts its   *)
(* text into the mirror, sends it to the server, and waits for the next    *)
(* diagnostics that the server publishes about the file of that directory. *)
(***************************************************************************)
EXTENDS Naturals, Sequences, FiniteSets, SequencesExt, Selection

CONSTANTS
  Asks,           \* requests, numbered in the order they come
  Sources,        \* texts of the file
  NoSource,       \* no text; also: no diagnostics
  MaxRevisions,   \* bound: revisions of the project
  MaxSpawned      \* bound: processes spawned

VARIABLES
  spawned,        \* processes spawned so far, numbered from 1
  proc,           \* LspProcess: the process of the client (0: none)
  initialized,
  ended,          \* processes that ended
  opened,         \* process, directory -> texts it was sent there, from the last one it published about
  versions,       \* documentVersions: directory -> version
  shown,          \* diagnosticsByUri: directory -> text the last diagnostics are about
  waiters,        \* diagnosticWaiters: directory -> requests, in their order
  mirror,         \* the mirrored workspace: directory (0: none), revision, text, last diagnostics
  directories,    \* directories created so far
  revisions,      \* revision of the project
  ask             \* request -> its step, and what it goes on with

lspVars ==
  <<spawned, proc, initialized, ended, opened, versions, shown, waiters, mirror, directories, revisions, ask>>

processVars == <<spawned, proc, initialized, ended>>

Processes == 1..MaxSpawned
Dirs == 1..Cardinality(Asks)    \* a request makes at most one
Kept == [text : Sources \cup {NoSource}, about : Sources \cup {NoSource}]
NothingKept == [text |-> NoSource, about |-> NoSource]
NoMirror == [dir |-> 0, revision |-> 0, text |-> NoSource, kept |-> NothingKept]

AtRest(step) == [step |-> step, kind |-> "collect", text |-> NoSource, revision |-> 0, dir |-> 0, pid |-> 0]

TypeOK ==
  /\ spawned \in 0..MaxSpawned /\ proc \in 0..spawned /\ initialized \in BOOLEAN
  /\ ended \subseteq 1..spawned
  /\ opened \in [Processes -> [Dirs -> Seq(Sources)]] /\ versions \in [Dirs -> Nat]
  /\ shown \in [Dirs -> Sources \cup {NoSource}] /\ waiters \in [Dirs -> Seq(Asks)]
  /\ mirror \in [dir : 0..directories, revision : Nat, text : Sources \cup {NoSource}, kept : Kept]
  /\ directories \in 0..Cardinality(Asks) /\ revisions \in 1..MaxRevisions
  /\ ask \in [Asks -> [step : {"new", "loading", "starting", "waiting", "done"},
                       kind : {"collect", "incremental", "warm"}, text : Sources \cup {NoSource},
                       revision : Nat, dir : 0..directories, pid : 0..spawned]]

Init ==
  /\ spawned = 0 /\ proc = 0 /\ initialized = FALSE /\ ended = {}
  /\ opened = [p \in Processes |-> [d \in Dirs |-> <<>>]]
  /\ versions = [d \in Dirs |-> 0] /\ shown = [d \in Dirs |-> NoSource] /\ waiters = [d \in Dirs |-> <<>>]
  /\ mirror = NoMirror /\ directories = 0 /\ revisions = 1
  /\ ask = [a \in Asks |-> AtRest("new")]

-----------------------------------------------------------------------------
(* syncDocument and waitForDiagnostics.  Between the two, and before them    *)
(* from the end of ensureStarted on, no message of the server is handled.    *)

\* Mutant: diagnostics that were published before the text was sent are kept.
SendKeepingOld(text, d) ==
  /\ versions' = [versions EXCEPT ![d] = @ + 1]
  /\ opened' = [opened EXCEPT ![proc][d] = IF versions[d] = 0 \/ @ # <<>> THEN Append(@, text) ELSE @]
  /\ UNCHANGED shown

(* didOpen the first time, didChange from then on: a process that never had  *)
(* the file opened does not know what changed.                               *)
Send(text, d) ==
  /\ versions' = [versions EXCEPT ![d] = @ + 1]
  /\ opened' = [opened EXCEPT ![proc][d] = IF versions[d] = 0 \/ @ # <<>> THEN Append(@, text) ELSE @]
  /\ shown' = [shown EXCEPT ![d] = NoSource]

(* A mirror that was not used for a quarter of an hour goes.  One that a     *)
(* request waits on was used a moment ago.                                   *)
Swept == {mirror} \cup IF \E a \in Asks : ask[a].step = "waiting" THEN {} ELSE {NoMirror}

(* getOrCreateMirroredWorkspace, with the files that request `r` loaded.     *)
Mirrored(m, r) ==
  IF m.dir # 0 /\ m.revision = r.revision
  THEN [m EXCEPT !.text = r.text]
  ELSE [dir |-> directories + 1, revision |-> r.revision, text |-> r.text, kept |-> NothingKept]

Wait(a, r, d) ==
  /\ ask' = [ask EXCEPT ![a] = [r EXCEPT !.step = "waiting", !.dir = d]]
  /\ waiters' = [waiters EXCEPT ![d] = Append(@, a)]

LoadFiles(a, r) ==
  /\ ask' = [ask EXCEPT ![a] = [r EXCEPT !.step = "loading", !.revision = revisions]]
  /\ UNCHANGED waiters

Answer(a) == ask' = [ask EXCEPT ![a] = AtRest("done")] /\ UNCHANGED waiters

(* collectLanguageDiagnostics and warmLanguageDiagnosticsSession             *)
SyncAll(a, r, m) ==
  LET d == Mirrored(m, r).dir IN
  /\ r.kind # "incremental"
  /\ mirror' = Mirrored(m, r)
  /\ directories' = IF d > directories THEN d ELSE directories
  /\ Send(r.text, d)
  /\ IF r.kind = "warm" THEN Answer(a) ELSE Wait(a, r, d)

(* collectIncrementalLanguageDiagnostics: without the mirror it counted on   *)
(* the files are loaded after all; the text may be the one that the last     *)
(* diagnostics are kept for.                                                 *)
SyncOne(a, r, m) ==
  /\ r.kind = "incremental" /\ UNCHANGED directories
  /\ IF m.revision # r.revision
     THEN /\ LoadFiles(a, [r EXCEPT !.kind = "collect"])
          /\ mirror' = m /\ UNCHANGED <<versions, opened, shown>>
     ELSE IF m.kept.text = r.text
     THEN Answer(a) /\ mirror' = m /\ UNCHANGED <<versions, opened, shown>>
     ELSE /\ mirror' = [m EXCEPT !.text = r.text]
          /\ Send(r.text, m.dir)
          /\ Wait(a, r, m.dir)

Started(a, r) == \E m \in Swept : SyncAll(a, r, m) \/ SyncOne(a, r, m)

-----------------------------------------------------------------------------
(* ensureStarted: a process is spawned unless there is one that is ready,    *)
(* also when another request waits for one to be.                            *)
EnsureStarted(a, r) ==
  IF proc # 0 /\ initialized
  THEN Started(a, r) /\ UNCHANGED <<processVars, revisions>>
  ELSE /\ spawned < MaxSpawned /\ spawned' = spawned + 1
       /\ proc' = spawned' /\ initialized' = FALSE
       /\ ask' = [ask EXCEPT ![a] = [r EXCEPT !.step = "starting", !.pid = spawned']]
       /\ UNCHANGED <<ended, opened, versions, shown, waiters, mirror, directories, revisions>>

(* POST language-diagnostics: the mirror is used if it is of this revision,  *)
(* else the files are loaded.                                                *)
Diagnostics(a, text) ==
  LET r == [ask[a] EXCEPT !.text = text, !.revision = revisions] IN
  /\ r.step = "new"
  /\ IF mirror.revision = revisions
     THEN EnsureStarted(a, [r EXCEPT !.kind = "incremental"])
     ELSE /\ LoadFiles(a, [r EXCEPT !.kind = "collect"])
          /\ UNCHANGED <<processVars, opened, versions, shown, mirror, directories, revisions>>

(* POST language-diagnostics-session                                         *)
WarmSession(a, text) ==
  /\ ask[a].step = "new"
  /\ LoadFiles(a, [ask[a] EXCEPT !.kind = "warm", !.text = text])
  /\ UNCHANGED <<processVars, opened, versions, shown, mirror, directories, revisions>>

Loaded(a) == ask[a].step = "loading" /\ EnsureStarted(a, ask[a])

(* The process that `a` spawned answers `initialize`.  What follows is for   *)
(* the process that the client has by then.                                  *)
Initialized(a) ==
  /\ ask[a].step = "starting" /\ ask[a].pid \notin ended
  /\ IF proc # 0
     THEN /\ initialized' = TRUE
          /\ UNCHANGED <<spawned, proc, ended, revisions>>
          /\ Started(a, ask[a])
     ELSE /\ Answer(a)
          /\ UNCHANGED <<processVars, opened, versions, shown, mirror, directories, revisions>>

(* It answers with an error: the process of the client is killed, and will   *)
(* end some time later.                                                      *)
InitializeFails(a) ==
  /\ ask[a].step = "starting" /\ ask[a].pid \notin ended
  /\ proc' = 0 /\ initialized' = FALSE
  /\ Answer(a)
  /\ UNCHANGED <<spawned, ended, opened, versions, shown, mirror, directories, revisions>>

(* A process ends, killed or by itself: the client has none from then on,    *)
(* whichever of them it was.                                                 *)
Exit(p) ==
  /\ p \in 1..spawned \ ended
  /\ ended' = ended \cup {p} /\ proc' = 0 /\ initialized' = FALSE
  /\ opened' = [opened EXCEPT ![p] = [d \in Dirs |-> <<>>]]
  /\ UNCHANGED <<spawned, versions, shown, waiters, mirror, directories, revisions, ask>>

-----------------------------------------------------------------------------
(* What the requests of `waiting` keep, one after the other, for their texts *)
(* when they get diagnostics: one that loaded the files keeps them with the  *)
(* mirror there is by then, the other with the one it used.                  *)
Keeps(a) == mirror.dir # 0 /\ (ask[a].kind = "incremental" => ask[a].dir = mirror.dir)

Keep(waiting, about) ==
  LET keeping == Select(waiting, {i \in DOMAIN waiting : Keeps(waiting[i])})
  IN  IF keeping = <<>> THEN mirror
      ELSE [mirror EXCEPT !.kept = [text |-> ask[Last(keeping)].text, about |-> about]]

(* The server publishes about any text it was sent, in order, passing over   *)
(* some: all who wait for the file get it.                                   *)
Publish(p, d, i) ==
  /\ opened' = [opened EXCEPT ![p][d] = SubSeq(@, i, Len(@))]
  /\ shown' = [shown EXCEPT ![d] = opened[p][d][i]]
  /\ waiters' = [waiters EXCEPT ![d] = <<>>]
  /\ ask' = [a \in Asks |-> IF a \in ToSet(waiters[d]) THEN AtRest("done") ELSE ask[a]]
  /\ mirror' = Keep(waiters[d], opened[p][d][i])
  /\ UNCHANGED <<processVars, versions, directories, revisions>>

(* 1.2 s without diagnostics: none are kept for the text.                    *)
TimeOut(a) ==
  /\ ask[a].step = "waiting"
  /\ LET d == ask[a].dir IN
     /\ waiters' = [waiters EXCEPT ![d] = Select(@, {i \in DOMAIN @ : @[i] # a})]
     /\ mirror' = Keep(<<a>>, shown[d])
  /\ ask' = [ask EXCEPT ![a] = AtRest("done")]
  /\ UNCHANGED <<processVars, opened, versions, shown, directories, revisions>>

(* A file of the project changes.                                            *)
Revise ==
  /\ revisions < MaxRevisions /\ revisions' = revisions + 1
  /\ UNCHANGED <<processVars, opened, versions, shown, waiters, mirror, directories, ask>>

Next ==
  \/ \E a \in Asks : \/ /\ \A b \in 1..(a - 1) : ask[b].step # "new"
                        /\ \E text \in Sources : Diagnostics(a, text) \/ WarmSession(a, text)
                     \/ Loaded(a) \/ Initialized(a) \/ InitializeFails(a) \/ TimeOut(a)
  \/ \E p \in 1..spawned : \/ Exit(p)
                           \/ /\ p \notin ended
                              /\ \E d \in Dirs : \E i \in DOMAIN opened[p][d] : Publish(p, d, i)
  \/ Revise

Spec == Init /\ [][Next]_lspVars

-----------------------------------------------------------------------------
(* languageServers.ts: each request that waits is registered once with its   *)
(* file, and nobody else is; nothing was published about the file since it   *)
(* began to wait that it was not given, nor is what was published before     *)
(* taken for its answer; and what the server has of the file is what the     *)
(* mirror holds, so that errors are found where they are shown.              *)
InStepWithServer ==
  /\ \A d \in Dirs :
       /\ IsInjective(waiters[d])
       /\ ToSet(waiters[d]) = {a \in Asks : ask[a].step = "waiting" /\ ask[a].dir = d}
       /\ waiters[d] # <<>> => shown[d] = NoSource
  /\ proc # 0 /\ mirror.dir # 0 =>
       LET sent == opened[proc][mirror.dir] IN sent # <<>> => Last(sent) = mirror.text

-----------------------------------------------------------------------------
(* What does not hold, with the README's account of how.                     *)

(* The diagnostics kept for a text are about that text.                      *)
KeptIsOwn == mirror.kept.about \in {NoSource, mirror.kept.text}

(* A file that the client counts as open is open in its process.             *)
OpenedInProcess ==
  proc # 0 /\ initialized /\ mirror.dir # 0 /\ versions[mirror.dir] > 0 => opened[proc][mirror.dir] # <<>>

(* No process goes on that the client does not know.                         *)
ProcessKnown == 1..spawned \ ended \subseteq {proc}

(* A request that waits for a process will be answered by it.                *)
StartAnswered == \A a \in Asks : ask[a].step = "starting" => ask[a].pid \notin ended
=============================================================================
