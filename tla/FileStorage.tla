---------------------------- MODULE FileStorage ----------------------------
(***************************************************************************)
(* The copies of one text file and who writes them.  The file has a text   *)
(*   - in the shared document of the collaboration server, while open,     *)
(*   - in project_files.collaboration_state (Postgres),                    *)
(*   - on the drive (local disk or Google Drive), which compiles read.     *)
(* The collaboration server loads and stores the shared document           *)
(* (backend/src/collaboration.ts); requests write the copies on their own: *)
(* save, autosave, the content API and uploads, a restore of a revision,   *)
(* an accepted suggestion and the AI collaborator.  Nothing locks a file   *)
(* against the others: every await is a step of its own here.              *)
(*                                                                         *)
(* A text is the set of the edits it contains.  Typing merges an edit into *)
(* the shared document; every other writer puts a whole text in place of   *)
(* another.  Repeated saves of one text, their hash and their order are in *)
(* module SaveJobs: a save here carries a text not saved before.           *)
(***************************************************************************)
EXTENDS Naturals, FiniteSets

CONSTANTS
    Edits,          \* edits, each made at most once
    Requests,       \* requests, each made at most once
    NoText,         \* no collaboration state has ever been stored
    Operations,     \* the requests that may be made
    MaxInFlight,    \* bound: requests under way at a time
    EditsDuring,    \* the requests during which editors type and stores run
    LoadsDuring,    \* the requests during which the document opens or closes
    FaultsDuring,   \* the requests there are when a drive write fails or the server stops
    MaxLoads,       \* bound: how often the document is loaded
    MaxFailures,    \* bound: drive writes of a store that may reject
    MaxCrashes      \* bound: how often the server stops and restarts

AllOperations ==
    {"save", "saveElsewhere", "autosave", "content", "restore", "suggestion", "ai"}

ASSUME FileStorageAssumption ==
    /\ \A t \in SUBSET Edits : NoText # t
    /\ Operations \subseteq AllOperations
    /\ FaultsDuring \subseteq AllOperations
    /\ EditsDuring \subseteq AllOperations /\ LoadsDuring \subseteq AllOperations
    /\ MaxInFlight \in Nat /\ MaxLoads \in Nat /\ MaxFailures \in Nat /\ MaxCrashes \in Nat

Texts == SUBSET Edits

VARIABLES
    phase,      \* of the shared document: closed, loading (three steps) or open
    live,       \* its text
    loads,      \* how many times it was loaded: which object it is
    connected,  \* whether an editor is connected to it
    dirty,      \* changed since the last store began: a store is scheduled
    storing,    \* the await a running store is at
    storeText,  \* the text that store writes (or a load read from the drive)
    collab,     \* the text of collaboration_state, or NoText
    disk,       \* the text on the drive
    revisions,  \* the texts in the revision history
    request,    \* request[r]: operation, await, texts read and to be written
    used,       \* the edits made so far
    accepted,   \* the edits typed, or answered with success
    removed,    \* the edits someone deliberately took out of the file
    restoredOver, \* the edits a restore took out
    durable,    \* the edits stored in the database or answered with success
    failures, crashes

docVars == <<phase, live, loads, connected, dirty, storing, storeText>>
copyVars == <<collab, disk, revisions>>
ghostVars == <<used, accepted, removed, restoredOver, durable>>
boundVars == <<failures, crashes>>
vars == <<docVars, copyVars, request, ghostVars, boundVars>>

NoRequest == [op |-> "none", at |-> "none", new |-> {}, edit |-> {}, doc |-> 0]

\* A file after its creation: the text is on the drive and in the history;
\* the collaboration state may not exist yet.
Init ==
    /\ phase = "closed" /\ live = {} /\ loads = 0
    /\ connected = FALSE /\ dirty = FALSE
    /\ storing = "none" /\ storeText = {}
    /\ disk = {} /\ collab \in {NoText, {}}
    /\ revisions = {{}}
    /\ request = [r \in Requests |-> NoRequest]
    /\ used = {} /\ accepted = {} /\ removed = {} /\ restoredOver = {} /\ durable = {}
    /\ failures = 0 /\ crashes = 0

InFlight == {r \in Requests : request[r].at \notin {"none", "done"}}
EditsMayMove == \A r \in InFlight : request[r].op \in EditsDuring
LoadsMayMove == \A r \in InFlight : request[r].op \in LoadsDuring
Faulty == failures + crashes > 0
FaultsMayCome == \A r \in Requests : request[r].op \in FaultsDuring \cup {"none"}

\* The text of the file, as its next reader or editor gets it.
Stored == IF collab = NoText THEN disk ELSE collab
Current == IF phase = "open" THEN live ELSE Stored

-----------------------------------------------------------------------------
(* The collaboration server. *)

\* The first editor connects: the document is created and fetch begins.
Connect ==
    /\ ~ connected
    /\ LoadsMayMove
    /\ phase = "closed" => loads < MaxLoads
    /\ connected' = TRUE
    /\ phase' = IF phase = "closed" THEN "loading" ELSE phase
    /\ UNCHANGED <<live, loads, dirty, storing, storeText, copyVars, request, ghostVars, boundVars>>

Opened(t) ==
    /\ phase' = "open"
    /\ live' = t
    /\ loads' = loads + 1
    /\ UNCHANGED <<connected, dirty, storing, storeText, request, ghostVars, boundVars>>

\* Mutant: fetch trusts the drive copy.
LoadDriveCopy ==
    /\ phase = "loading" /\ LoadsMayMove
    /\ collab # NoText
    /\ Opened(disk)
    /\ UNCHANGED copyVars

\* fetch: a stored collaboration state is always the source of truth.
LoadState ==
    /\ phase = "loading" /\ LoadsMayMove
    /\ collab # NoText
    /\ Opened(collab)
    /\ UNCHANGED copyVars

\* Without one the text is read from the drive ...
LoadDisk ==
    /\ phase = "loading" /\ LoadsMayMove
    /\ collab = NoText
    /\ phase' = "seeding"
    /\ storeText' = disk
    /\ UNCHANGED <<live, loads, connected, dirty, storing, copyVars, request, ghostVars, boundVars>>

\* ... and stored as the first collaboration state.
LoadSeed ==
    /\ phase = "seeding" /\ LoadsMayMove
    /\ Opened(storeText)
    /\ collab' = storeText
    /\ UNCHANGED <<disk, revisions>>

\* Mutant: a change made while a store runs does not schedule another one.
TypeDuringStoreForgotten(e) ==
    /\ phase = "open" /\ connected /\ EditsMayMove
    /\ e \notin used
    /\ used' = used \cup {e}
    /\ accepted' = accepted \cup {e}
    /\ live' = live \cup {e}
    /\ dirty' = (dirty \/ storing = "none")
    /\ UNCHANGED <<phase, loads, connected, storing, storeText, copyVars, request, removed, restoredOver, durable, boundVars>>

\* A connected editor with write access types.
Type(e) ==
    /\ phase = "open" /\ connected /\ EditsMayMove
    /\ e \notin used
    /\ used' = used \cup {e}
    /\ accepted' = accepted \cup {e}
    /\ live' = live \cup {e}
    /\ dirty' = TRUE
    /\ UNCHANGED <<phase, loads, connected, storing, storeText, copyVars, request, removed, restoredOver, durable, boundVars>>

\* The debounce ended (or the last editor left): store gets the document's
\* text of this moment.
StoreBegin ==
    /\ phase = "open" /\ dirty /\ storing = "none" /\ EditsMayMove
    /\ dirty' = FALSE
    /\ storing' = "collab"
    /\ storeText' = live
    /\ UNCHANGED <<phase, live, loads, connected, copyVars, request, ghostVars, boundVars>>

\* Mutant: store writes the state only.
StoreNoDisk ==
    /\ storing = "disk" /\ EditsMayMove
    /\ storing' = "none"
    /\ UNCHANGED <<phase, live, loads, connected, dirty, storeText, copyVars, request, ghostVars, boundVars>>

StoreCollab ==
    /\ storing = "collab" /\ EditsMayMove
    /\ storing' = "disk"
    /\ collab' = storeText
    /\ durable' = durable \cup storeText
    /\ UNCHANGED <<phase, live, loads, connected, dirty, storeText, disk, revisions, request,
                   used, accepted, removed, restoredOver, boundVars>>

StoreDisk ==
    /\ storing = "disk" /\ EditsMayMove
    /\ storing' = "none"
    /\ disk' = storeText
    /\ UNCHANGED <<phase, live, loads, connected, dirty, storeText, collab, revisions, request, ghostVars, boundVars>>

\* The drive rejects the write: the store ends, the state is already stored.
StoreFail ==
    /\ storing = "disk" /\ EditsMayMove
    /\ failures < MaxFailures /\ FaultsMayCome
    /\ failures' = failures + 1
    /\ storing' = "none"
    /\ UNCHANGED <<phase, live, loads, connected, dirty, storeText, copyVars, request, ghostVars, crashes>>

Disconnect ==
    /\ connected /\ phase = "open" /\ LoadsMayMove
    /\ connected' = FALSE
    /\ UNCHANGED <<phase, live, loads, dirty, storing, storeText, copyVars, request, ghostVars, boundVars>>

\* With no editor left and nothing to store the document is unloaded.
Unload ==
    /\ phase = "open" /\ ~ connected /\ ~ dirty /\ storing = "none"
    /\ LoadsMayMove
    /\ phase' = "closed"
    /\ live' = {}
    /\ UNCHANGED <<loads, connected, dirty, storing, storeText, copyVars, request, ghostVars, boundVars>>

-----------------------------------------------------------------------------
(* Requests.  A step of request r puts it at its next await. *)

At(r, op, at) == request[r].op = op /\ request[r].at = at

Begin(r, op, new, edit, at) ==
    /\ op \in Operations
    /\ Faulty => op \in FaultsDuring
    /\ request[r] = NoRequest
    /\ Cardinality(InFlight) < MaxInFlight
    /\ op \in LoadsDuring \/ phase \in {"closed", "open"}
    /\ op \in EditsDuring \/ storing = "none"
    /\ edit \cap used = {}
    /\ used' = used \cup edit
    /\ request' = [request EXCEPT ![r] =
            [op |-> op, at |-> at, new |-> new, edit |-> edit,
             doc |-> IF phase = "open" THEN loads ELSE 0]]

Go(r, at) == request' = [request EXCEPT ![r].at = at]

\* The answer of the request, whose last step put the text "written" into
\* the database: its edit counts from here on.
Done(r, written) ==
    /\ Go(r, "done")
    /\ accepted' = accepted \cup request[r].edit
    /\ durable' = durable \cup request[r].edit \cup written
    /\ UNCHANGED <<used, removed, restoredOver>>

\* Putting text t into the shared document.
Transact(t) ==
    /\ live' = t
    /\ dirty' = (dirty \/ t # live)
    /\ UNCHANGED <<phase, loads, connected, storing, storeText>>

\* save: the body of saveFile after its hash check.  The editor's copy holds
\* what the file holds; a save of a closed file (a file another tool of the
\* editor writes) adds an edit.
Save(r, e) ==
    /\ Begin(r, "save", Current \cup (IF phase = "open" THEN {} ELSE {e}),
             IF phase = "open" THEN {} ELSE {e}, "openCheck")
    /\ UNCHANGED <<docVars, copyVars, accepted, removed, restoredOver, durable, boundVars>>

\* The same, of a file that only other editors have open: a tool of the
\* editor (an import into the bibliography, say) writes a file that is not
\* the active one.
SaveElsewhere(r, e) ==
    /\ phase = "open"
    /\ Begin(r, "saveElsewhere", live \cup {e}, {e}, "openCheck")
    /\ UNCHANGED <<docVars, copyVars, accepted, removed, restoredOver, durable, boundVars>>

SaveOpen(r) ==
    /\ request[r].at = "openCheck" /\ phase = "open"
    /\ Done(r, {})
    /\ UNCHANGED <<docVars, copyVars, boundVars>>

SaveClosed(r) ==
    /\ request[r].at = "openCheck" /\ phase # "open"
    /\ Go(r, "disk")
    /\ UNCHANGED <<docVars, copyVars, ghostVars, boundVars>>

\* autosave: an editor that has the file open sends its copy of the text.
Autosave(r) ==
    /\ phase = "open" /\ connected
    /\ Begin(r, "autosave", live, {}, "disk")
    /\ UNCHANGED <<docVars, copyVars, accepted, removed, restoredOver, durable, boundVars>>

\* replaceProjectFileText up to its first await: an open document gets the
\* text at once.
ReplaceOpen(r, t) ==
    /\ IF phase = "open" THEN Transact(t) ELSE UNCHANGED docVars
    /\ UNCHANGED <<copyVars, boundVars>>

\* content: PUT .../content and an upload over a text file; the caller
\* changes the text it sees or replaces all of it.
Content(r, e) ==
    \E keep \in {Current, {}} :
        /\ Begin(r, "content", keep \cup {e}, {e}, "disk")
        /\ ReplaceOpen(r, keep \cup {e})
        /\ removed' = removed \cup (Current \ keep)
        /\ UNCHANGED <<accepted, restoredOver, durable>>

\* Mutant: the backup is taken from the drive while the file is open.
RestoreBackingUpDrive(r) ==
    \E t \in revisions :
        /\ Begin(r, "restore", t, {}, "backup")
        /\ revisions' = revisions \cup {disk}
        /\ UNCHANGED <<docVars, collab, disk, durable, accepted, removed, restoredOver, boundVars>>

\* restore: the backup of the current text comes first ...
Restore(r) ==
    \E t \in revisions :
        /\ Begin(r, "restore", t, {}, "backup")
        /\ revisions' = revisions \cup {IF phase = "open" THEN live ELSE disk}
        /\ UNCHANGED <<docVars, collab, disk, durable, accepted, removed, restoredOver, boundVars>>

\* ... and, once it is stored, the text is replaced.
RestoreReplace(r) ==
    /\ At(r, "restore", "backup")
    /\ request' = [request EXCEPT ![r].at = "disk", ![r].doc = IF phase = "open" THEN loads ELSE 0]
    /\ ReplaceOpen(r, request[r].new)
    /\ removed' = removed \cup (Current \ request[r].new)
    /\ restoredOver' = restoredOver \cup (Current \ request[r].new)
    /\ UNCHANGED <<used, accepted, durable>>

\* suggestion: an open document is changed in place and persists itself ...
SuggestionOpen(r, e) ==
    /\ phase = "open"
    /\ Begin(r, "suggestion", {}, {e}, "decided")
    /\ Transact(live \cup {e})
    /\ UNCHANGED <<copyVars, accepted, removed, restoredOver, durable, boundVars>>

SuggestionDecided(r) ==
    /\ At(r, "suggestion", "decided")
    /\ Done(r, {})
    /\ UNCHANGED <<docVars, copyVars, boundVars>>

\* ... otherwise the drive copy is read, edited and put in place.
SuggestionClosed(r, e) ==
    /\ phase # "open"
    /\ Begin(r, "suggestion", disk \cup {e}, {e}, "read")
    /\ UNCHANGED <<docVars, copyVars, accepted, removed, restoredOver, durable, boundVars>>

SuggestionReplace(r) ==
    /\ At(r, "suggestion", "read")
    /\ request' = [request EXCEPT ![r].at = "disk", ![r].doc = IF phase = "open" THEN loads ELSE 0]
    /\ ReplaceOpen(r, request[r].new)
    /\ UNCHANGED ghostVars

\* ai: the model gets the text and answers with an edited one, much later.
Ai(r, e) ==
    /\ Begin(r, "ai", Current \cup {e}, {e}, "model")
    /\ UNCHANGED <<docVars, copyVars, accepted, removed, restoredOver, durable, boundVars>>

\* The document that was open then gets the answer, even if it was unloaded
\* since: an object no one reads any more.
AiOpen(r) ==
    /\ At(r, "ai", "model") /\ request[r].doc # 0
    /\ IF phase = "open" /\ loads = request[r].doc
       THEN Transact(request[r].new)
       ELSE UNCHANGED docVars
    /\ Done(r, {})
    /\ UNCHANGED <<copyVars, boundVars>>

AiClosed(r) ==
    /\ At(r, "ai", "model") /\ request[r].doc = 0
    /\ Go(r, "disk")
    /\ UNCHANGED <<docVars, copyVars, ghostVars, boundVars>>

\* Mutant: the drive copy becomes a list of versions.
WriteDiskVersions(r) ==
    /\ request[r].at = "disk"
    /\ Go(r, "collab")
    /\ disk' = {disk, request[r].new}
    /\ UNCHANGED <<docVars, collab, revisions, ghostVars, boundVars>>

\* The drive write that save, autosave, replaceProjectFileText and the AI
\* collaborator share.
WriteDisk(r) ==
    /\ request[r].at = "disk"
    /\ Go(r, "collab")
    /\ disk' = request[r].new
    /\ UNCHANGED <<docVars, collab, revisions, ghostVars, boundVars>>

\* Mutants: replaceProjectFileText leaves the collaboration state of a closed
\* file alone; writes it also when the document was open.
WriteNoCollab(r) ==
    /\ request[r].at = "collab"
    /\ Done(r, {})
    /\ UNCHANGED <<docVars, copyVars, boundVars>>

WriteCollabAlways(r) ==
    /\ request[r].at = "collab"
    /\ Done(r, request[r].new)
    /\ collab' = request[r].new
    /\ UNCHANGED <<docVars, disk, revisions, boundVars>>

\* The collaboration state: not by replaceProjectFileText when it found the
\* document open.
WriteCollab(r) ==
    /\ request[r].at = "collab"
    /\ IF request[r].op \in {"content", "restore", "suggestion"} /\ request[r].doc # 0
       THEN Done(r, {}) /\ UNCHANGED collab
       ELSE Done(r, request[r].new) /\ collab' = request[r].new
    /\ UNCHANGED <<docVars, disk, revisions, boundVars>>

-----------------------------------------------------------------------------
\* The server stops: the document and the requests are gone.  Edits that
\* were only in its memory are lost with it, and no one promised otherwise.
Crash ==
    /\ crashes < MaxCrashes /\ FaultsMayCome
    /\ crashes' = crashes + 1
    /\ phase' = "closed" /\ live' = {} /\ connected' = FALSE
    /\ dirty' = FALSE /\ storing' = "none" /\ storeText' = {}
    /\ request' = [r \in Requests |->
                      IF r \in InFlight THEN [request[r] EXCEPT !.at = "done"] ELSE request[r]]
    /\ accepted' = accepted \cap durable
    /\ UNCHANGED <<loads, copyVars, used, removed, restoredOver, durable, failures>>

Step(r) ==
    \/ SaveOpen(r) \/ SaveClosed(r)
    \/ RestoreReplace(r)
    \/ SuggestionDecided(r) \/ SuggestionReplace(r)
    \/ AiOpen(r) \/ AiClosed(r)
    \/ WriteDisk(r) \/ WriteCollab(r)

Load == LoadState \/ LoadDisk \/ LoadSeed
Store == StoreBegin \/ StoreCollab \/ StoreDisk

Next ==
    \/ Connect \/ Load \/ Disconnect \/ Unload
    \/ Store \/ StoreFail
    \/ \E e \in Edits : Type(e)
    \/ \E r \in Requests :
          \/ Autosave(r) \/ Restore(r) \/ Step(r)
          \/ \E e \in Edits : Save(r, e) \/ SaveElsewhere(r, e) \/ Content(r, e)
                 \/ SuggestionOpen(r, e) \/ SuggestionClosed(r, e) \/ Ai(r, e)
    \/ Crash

Spec == Init /\ [][Next]_vars

\* A load and a store run to their end, the debounce has an upper limit
\* (maxDebounce), and the awaits of a request return.
Fairness ==
    /\ WF_vars(Load)
    /\ WF_vars(Store)
    /\ \A r \in Requests : WF_vars(Step(r))

FairSpec == Spec /\ Fairness

-----------------------------------------------------------------------------
TypeOK ==
    /\ phase \in {"closed", "loading", "seeding", "open"}
    /\ live \in Texts /\ storeText \in Texts /\ disk \in Texts
    /\ collab \in Texts \cup {NoText}
    /\ loads \in Nat
    /\ connected \in BOOLEAN /\ dirty \in BOOLEAN
    /\ storing \in {"none", "collab", "disk"}
    /\ revisions \subseteq Texts
    /\ request \in [Requests -> [op : AllOperations \cup {"none"},
                                 at : {"none", "openCheck", "backup", "read", "model", "disk", "collab", "decided", "done"},
                                 new : Texts, edit : Texts, doc : Nat]]
    /\ used \in Texts /\ accepted \in Texts /\ removed \in Texts
    /\ restoredOver \in Texts /\ durable \in Texts
    /\ failures \in Nat /\ crashes \in Nat

\* Every edit typed or answered with success, and taken out by no one, is in
\* the file as its next reader gets it.
NothingLost == accepted \ removed \subseteq Current

AtRest == InFlight = {} /\ phase \in {"closed", "open"} /\ ~ dirty /\ storing = "none"

\* "which then persists itself": an open document with nothing left to store
\* is what the database holds.
LiveIsStored == AtRest /\ phase = "open" => collab = live

\* The drive copy, which compiles and exports read, is the file's text
\* whenever nothing is under way and no write of it was cut off.
DriveCopyCurrent == AtRest /\ ~ Faulty => disk = Current

\* "automatic pre-restore backup points to prevent accidental data loss":
\* whatever a restore took out of the file is in some revision.
BackupComplete == restoredOver \subseteq UNION revisions

\* An edit in the shared document reaches the database, unless it is taken
\* out of the document before.
EditsReachStorage ==
    \A e \in Edits : (phase = "open" /\ e \in live) ~> (e \in durable \/ e \notin live)
=============================================================================
