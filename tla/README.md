# typstr in TLA+

typstr is a collaborative editor for Typst and LaTeX: a Node.js server
(`backend/src`, Express, Hocuspocus, BullMQ, Postgres, Redis) and a React editor
(`frontend/src`) that compiles in the browser or on the server. This directory
holds TLA+ models of the parts of it that are hard to test, TLC runs that check
them on small instances, and proofs of the properties that matter most, checked
by TLAPS for every instance.

Files: `X.tla` is a component, `MCX.tla` gives its constants to TLC where a
`.cfg` cannot, `X_proofs.tla` holds its theorems, `X*.cfg` are the runs. The
components that `MCParts` checks side by side are declared, with their constants
and variables, in `EditorParts` (browser compiler, shared text, text diff,
suggested edits), `ServerParts` (previews, SyncTeX, language servers) and
`ProjectParts` (members, caches, compile directories, mirrors, files on a local
disk and their trash). The `_proofs` module of each proves what a part keeps by
itself (`ProjectParts_proofs` also the theorems of the lock), and `Parts_proofs`
the theorems about the whole. `Selection` holds two operators on sequences that
three of the components use.
`PROJECT.json` lists the components, the runs, the source lines each definition
models, the findings and the hazards.

    tlc -workers 2 -config SaveJobsInOrder.cfg SaveJobs.tla
    tlapm SaveJobs_proofs.tla

## 1. The system

### Inventory

| Part | State it keeps | Operations | Correct when |
|---|---|---|---|
| keyed lock (`services/keyedLock.ts`) | map from key to the last task's promise | `withKeyedLock` | tasks of a key never overlap and run in the order of the calls; the map does not grow |
| save jobs (`routes/projects.ts`, `services/reliability.ts`, `services/queueManager.ts`) | BullMQ lists in Redis; `last_content_hash`, revisions, activity in Postgres | save, checkpoint, retry, cancel | the file ends as the last save left it; every save is in the history; a checkpoint answered with success is there |
| copies of a file (`collaboration.ts`, `services/projectFeatures.ts`, `services/aiCollaborator.ts`) | shared Yjs document in memory, `collaboration_state` in Postgres, text on the drive | load, store, save, autosave, content API and upload, restore, accept a suggestion, AI edit | no accepted edit is lost; the copies agree at rest; a restore can be undone |
| compile pipeline (`routes/compile.ts`, `services/reliability.ts`, `services/compiler.ts`) | coalescing map, queue, worker pool, active sessions, result caches, workspaces | compile, cancel by a newer compile, time out | everyone is answered, from a source as new as theirs; at most one live compile per session |
| compile loop of the editor (`hooks/useCompile.ts`) | refs: queued request, in-flight marks, run number, last completed key | `compile`, `resetCompile`, the loop | the newest text is what the preview shows in the end |
| Tinymist previews (`services/tinymistPreview.ts`) | sessions, processes, ports | ensure, proxy, expire | limits hold, one live process per session |
| SyncTeX sessions (`services/syncTexSession.ts`) | map of sessions and their directories | create, look up, evict | bounded; a session that is used stays |
| language servers (`services/languageServers.ts`) | two clients (Tinymist, texlab), each with its process, document versions, diagnostics and waiting requests; mirrored workspaces with the last diagnostics | start, exit, send a text, publish, wait, time out; warm a session | a request gets diagnostics that were published after its text was sent; the server has the text that the mirror holds |
| file caches (`services/drive.ts`, `services/projectWorkspace.ts`) | cached contents by storage id; cached files of a project by revision | load, fill, write, invalidate, evict | a load after a write gets the new text |
| compile directories (`services/compiler.ts`) | a directory per session, what was written to it, its processes | start, cancel, time out, close | an answer has the pages of its own compile |
| Typst in the browser (`typstWasmClient.ts`) | worker, pending requests, fallback to the main thread | compile, crash, reset | every request is settled once |
| sharing (`db.ts`, `routes/share.ts`, `routes/invitations.ts`, `routes/projects.ts`) | members, invitations, links, access requests, owner | invite, answer, revoke, join, request, decide, transfer | one owner; a revoked invitation or link gives no access; roles follow the last decision |
| trash and file tree (`services/projectFeatures.ts`, `routes/projects.ts`, `services/driveProjects.ts`) | rows of `project_files`, entries on the drive | create, move, rename, duplicate, trash, restore, purge | a file is found with its own content; nobody else's move or deletion destroys it |
| file locks and workflow | rows of workflow | lock, unlock, check | the holder of a lock is the only writer |
| limits (`middleware/*`, `services/apiTokens.ts`) | counters with windows | try, record, sweep | the limit is the limit |
| proposed edits (`components/Editor/EditorPage.tsx`) | edits waiting for a decision | propose, accept, reject, accept all | what was accepted is where it was proposed |
| mirrored workspaces (`services/workspaceMirror.ts`) | the directory a server or a preview runs in | sync with the files of a revision | it has the project's files and the server's own, whatever was there |
| pure helpers (`services/yText.ts`, `services/projectMainFile.ts`, `lineColumnOffset`) | none | - | they compute what they say |
| storage drives, exports, templates, accounts, billing, mail, MCP server, user interface | tables, files, external services | mostly one request, one effect | - |

### How the parts interact

The editor holds a WebSocket to the collaboration server for each open file.
Hocuspocus merges edits into one shared document, and 500 ms after the last
change (3 s at most) `store` writes it to Postgres and then to the drive.
Beside this, HTTP requests write the same two copies: the save button through
the job queue, autosave, the content API, uploads, restores and accepted
suggestions directly. Some look into `hocuspocusServer.documents` first and
change the shared document instead, or as well. Compiles read the drive copy
of the files the editor does not send with its request.

A compile request passes the limit of queued jobs, waits in the coalescing map
for others of the same document, is queued as a job of the newest source, waits
for one of the places of a pool, and cancels the compile of the same session
that still runs. In the editor, `useCompile` has a loop of its own in front of
it, which compiles Typst in the browser (in a worker, behind `typstWasmClient`)
and asks the server for LaTeX. On the server the compile reads the files of the
project through two caches, brings the directory of its session up to date, and
starts typst in it. A Tinymist preview and the language servers have directories
of their own, which mirror the same files.

All of it is about projects whose members, invitations, links and owner are rows
that some twenty routes change, and whose files are rows that name a place on a
drive: with local storage that place is a path, which moves with its folder.

### What is hard

Everything runs in one Node.js process (`SERVER_ROLE all`), so the unit of
interleaving is the code between two awaits. The hazards are

- checks made before an await and used after it (is the file open? is there
  room? is it still pending?);
- two copies written one after the other by writers that do not know of each
  other, with a crash or a rejected write in between;
- retries, timeouts and stalled jobs of the queue, which reorder what the code
  assumes to be ordered;
- loops and flushes that must not forget a request that came while they waited;
- marks and map entries cleared by someone to whom they no longer belong;
- identities that are reused: a path as the id of a file, a directory shared by
  the compiles of a session, one process shared by all who ask for diagnostics.

`PROJECT.json` lists them at their lines, with the properties that cover them.

## 2. The models

Every action is the code from one await to the next. Data is abstract: a text
is a model value, or the set of the edits it contains where a property asks what
was lost. Identifiers keep the names of the source.

### `KeyedLock`: `services/keyedLock.ts`

`lockTails[k]` is the call whose settled promise is the tail of key `k`;
`previous[c]` the call that `c` waits for. `Enter` is the code up to the first
await, `Start` and `Settle` the task (`previous.then(task, task)`: it runs also
when the one before threw), `Leave` the `finally`. `ticket` records the order of
the calls for the properties.

### `SaveJobs`: saves of one file

The route (`Request`, `TimeOut`), the queue (`Take`, `Promote`, `Crash`), the
administrator (`Cancel`, `Retry`) and `saveFile`, one action per await: `Check`
and `CheckUnchanged` (hash), `OpenCheck`, `WriteDisk`, `WriteCollab`,
`WriteHash`, `Snapshot`, `LogActivity`. `lock` is the queue of the lock's
callers: `KeyedLock` proves that `withKeyedLock` serves them in this order and
one at a time, which is all that `SaveJobs` uses. `Fail` is any rejected call of
the holder. A crash empties the memory and gives active jobs back to the queue
once (BullMQ's `maxStalledCount` of 1). `Open`, `Close` and `Replace` are what
other parts do to the stored copies.

### `FileStorage`: the copies of one file and all who write them

The shared document (`phase`, `live`, `loads`: each load makes another object),
its debounced store (`dirty`, `storing`, `storeText`), the two stored copies
(`collab`, `disk`) and the revisions. `request[r]` says which operation a
request is, which await it is at, which text it will write and which document
object it found. The loads are `fetch`, the stores `store` of `collaboration.ts`;
each request begins with an action named for it and goes on through the steps
that the operations share. `used`, `accepted`, `removed`, `restoredOver` and
`durable` are history variables: an edit counts as accepted when it is typed or
when the request that carries it is answered with success. Save order and
hashes are in `SaveJobs` and left out here.

### `CompileCoalescing` and `CompileService`

`CompileService` is the abstract promise: requests arrive, and an answer goes to
all who wait for a document up to some request, made from that request's source.
`CompileCoalescing` is the code: the route's limit (`Admit`, its check apart from
the use of it), `runCoalescedCompileJobAndWait` (`Coalesce`), the flush
(`Flush`, `Enqueue`, `Answer` with its three causes `QuotaUsedUp`, `JobEnded`,
`TimeOut`), the worker (`Take`), the pool and the session (`Start`, `End`) and an
administrator's `CancelJob`. `ServiceSpec` says that it implements the abstract
service; the mapping hides the admission (`refused` and `admitted` are `none`).

### `PreviewCompile`: `hooks/useCompile.ts`

The refs of the hook are variables of the same names (`queued`, `inFlight`,
`local`, `runId`, `abort`, `completed`). `run[i]` is the loop that the `i`-th
run number belongs to: the await it is at, its request, and whether its signal
was aborted. `Compile` and `Reset` are the calls of the editor; `FilesLoaded`,
`LocalDone`, `PandocDone` and `ServerDone` resume a loop and run it to its next
await, through `Continue`, `Return` and `Finally`. `kind` is the kind of the
document. `preview` and `error` are what the user sees. A text in `Failing`
compiles to an error; a Typst text in `Unloadable` names an image or a font that
cannot be loaded, so that `FilesLoaded` ends in the `catch` of the loop.
`overlaps` counts the resets since the hook was last at rest.

### `Sharing`: members, invitations, links, requests, ownership

One project and its rows: `owner` is `projects.owner_user_id`, `member` the role
of each row, `invite`, `request` and `link` the open ways in. A request of the
server (`handler[h]`) reads, waits, and writes what it decided: `Join`,
`JoinAdd` and `JoinCount` are the three queries of `POST /join/:token`, `Invite`
and `InviteWrite` the check of the plan and the insert, `Respond` and
`RespondCommit` an answer to an invitation, `Decide` and `Approve` that to a
request for access, `Change`, `UpdateRole` and `RemoveMember` the routes of a
member, `Transfer` and `TransferCommit` the move of the ownership.

### `SharedText`: one file in several pages

Each page has a document of its own (`page[p].doc`), the server has one loaded
(`live`) and one stored. `OpenFile`, `Connect`, `Sync`, `Disconnect`, `CloseFile`
are `useCollaboration`; `Fetched`, `Store`, `Unload`, `Stop` the server;
`Changed` sets the timer of the autosave, `SendAutosave` and `Autosave` are its
request and the route, which rewrites the stored state character by character
(`Applied`). An item is a character with the number of the rewrite that made it,
so that a text stored twice is seen to be there twice. `FileStorage` has the
same copies with everyone who writes them and edits as wholes; this module has
the pages and the merge.

### `PreviewSessions`, `SyncTexSessions`, `LanguageServers`: processes and sessions

`PreviewSessions` is `ensureTypstPreviewSession` in its parts: `EnsureKnown` or
`EnsureNew` up to the wait for two free ports, `Create` and `Spawn` after it,
`Answer`, `Exit`, and `Proxy`, which touches a session. `Room` is
`makeRoomForSession`, `KeysWithout`, `ProcessesWithout`, `SessionsWithout` are
`dropSession`. `SyncTexSessions` is the map of tokens with its eviction (`Rank`, the place of a
session in the order of use)
and the directories on the disk, which the operating system may remove on its
own. `LanguageServers` is one `LspProcess` and the mirrored workspace of one
project, for one file: `EnsureStarted`, `Initialized`, `InitializeFails` and
`Exit` are the life of the process, `SyncAll` and `SyncOne` what the three entry
points do from there to their wait without anything in between, `Publish` what
`handleMessage` does with diagnostics, `Keeps` and `Keep` which of the requests
that it wakes leaves the result in the workspace: the last that still may. `opened` is what each process was sent
and has not published about, so a publication may come late and about an older
text.

### `FileCaches` and `CompileWorkspaces`: what a compile reads and writes

`FileCaches` is one file, its row, and the two caches. A writer is a list of
awaited steps (`Todo`): a store of the shared document, the autosave route, an
upload, each in its order of writing the drive, dropping the cached content,
touching the row and raising the revision. A load is `List`, `Look`, `Read`,
`Fill`, `Finish`. `CompileWorkspaces` is the directory of a session: `Start`
writes the files that changed (`Updated`), removes old pages (`Cleared`) and
spawns typst, whose reading and writing (`ReadFiles`, `WritePage`) go on after
`Cancel` and `TimeOut` until it is `Gone`; `Close` collects the pages.

### `TypstWasmClient`, `YTextDiff`, `SuggestedEdits`: the browser and texts

`TypstWasmClient` is the client side of the worker: `posted` is what the worker
was sent, `pending` whose promise waits for it. `YTextDiff` is `replaceYText`,
checked for every pair of texts up to a length, with surrogate pairs.
`SuggestedEdits` is what the editor does with a text returned by the assistant:
the line diff (`ByLine`) or one range when the texts are long (`SingleRange`),
the search for an edit's place (`Resolve`), and the decisions. `Table` has the
longest common part from each of the `Cells` on, `EndOfPart` follows a changed
part to its end and `PartsFrom` the whole diff; all three are recursive functions.
Its texts are sequences of lines, none of which is part of another.

### `WorkspaceMirror`: a directory that follows a project

`Sync` is `syncMirroredWorkspace` as a whole: `Expected` is the directory after
its first step (files that the project does not have go, unless their name is
hidden), `Emptied` the folders that `cleanupEmptyDirectories` removes, and
`InTheWay` and `Leads` say what is replaced when the files are written. A project
is any set of files none of which lies below another; between two syncs the
process in the directory leaves hidden files of its own.

### `LocalFiles`: rows and paths

The rows of `project_files` and the disk of a project with local storage. Each
action is a whole route; `storage` is the `drive_file_id` of a row, a path that
is brought along when a folder moves (`SyncedStorage`, `MoveRows`). `Trash`,
`Restore`, `DeleteEntry`, `Purge` are the trash, `SyncEntry` the sync with the
folder, `WriteOrphan` a job that writes a file without a row.

### `MCParts`

The lock and the twelve modules above share no state and answer to no common
property, so they are checked by one run side by side: a behaviour picks one
`part` and the others stay where they began. The states of the run are the sum of
those of the parts, not their product. `EditorParts`, `ServerParts` and
`ProjectParts` declare the constants and variables of the parts, make an instance
of each and name its properties; `MCParts` extends the three and composes the
instances. The constants stay constants, which is what the proofs are about: they
hold for any values, not for those of `MCParts.cfg`. The caches and the mirrors
share `Contents` and `NoContent`.

### Assumptions about what is external

- Hocuspocus enters a document into `documents` when it is loaded and takes it
  out when the last connection is gone and nothing is left to store. It runs one
  store of a document at a time.
- Yjs: typing adds to the shared text; replacing a text removes what is not in
  the new one. A stored state carries its text.
- BullMQ: waiting jobs are taken first come first served; a failed attempt with
  attempts left is delayed and then waits again; a job whose worker died goes
  back to the front once; removing and retrying jobs work on those without a
  worker.
- Postgres and the drive: a write happens or rejects as a whole.
- typst reads the files of its directory at once, some time after it was started,
  and writes its pages one by one. A killed process may go on for a while.
- A language server publishes about the texts it was sent in their order, and may
  pass over some; it ignores changes of a file it was never told to open.

## 3. The runs

The passing runs are exhaustive. "Violation" runs state what a comment or a document of
the repository says and show the behaviour of the code that contradicts it; they
are described in `findings`.

| Run | Bounds | Shows |
|---|---|---|
| `save_jobs_in_order` | 3 saves, 2 texts, 2 at a time | without faults: last save stored, complete history |
| `save_jobs_faults` | 2 saves, 1 failure, 1 crash, 1 foreign write/cancel/retry | an answered checkpoint is in the history; every save settles (fair) |
| `save_jobs_retry_order` | 2 saves, 1 failure | violation |
| `file_storage` | 3 edits, 2 requests of any kind, one after the other; typing and stores during saves and suggestions, 1 crash and 1 failing store during saves | nothing lost, drive current at rest, backup complete |
| `file_storage_settles` | 2 edits, 2 requests among typing and stores, 1 failing store | an open document is stored; edits reach the database (fair) |
| `file_storage_open_race` | API writes, the file opens and closes meanwhile | violation |
| `preview_compile` | 4 calls, 2 resets, 4 texts of which one has errors and one cannot be loaded, all kinds of document | marks of the loop, nothing from before a reset, a local compile is kept, the newest text is shown (safety and, fair, liveness) |
| `preview_compile_web` | 3 calls, LaTeX as a web page | violation |
| `compile_coalescing` | 3 requests, 2 documents of 1 session, pool of 2 | newest source, one live compile, nobody forgotten, maps emptied, refinement, everyone answered (fair) |
| `parts` | see below | the properties of the lock and of the twelve other parts |
| `local_files_nested` | 4 files, paths of 2 names, an entry of a folder in the trash | violation |
| `shared_text_autosave` | 2 pages, 1 character, 1 autosave, 1 stop | violation |

The largest are `parts` with 916 000 states and `save_jobs_faults` with 620 000;
each takes two to three minutes on two cores, the others seconds.

| Part of `parts` | Bounds | Properties |
|---|---|---|
| lock | 3 calls, 2 keys | `Exclusive`, `FirstComeFirstServed`, `NextInLineFree` |
| sharing | 3 users, 2 requests at a time, a plan of 2, a link of 1 use | `OneOwner`, `WithinPlan` |
| text | 2 pages, 1 character typed, 1 erased, 1 autosave, 1 stop | `TextIntact` |
| previews | 2 calls, 2 owners, 1 session each, 2 in all, 4 created | `LatestSessionKnown`, `WithinLimits`, `ProcessOwned` |
| caches | 2 loads, 1 writer, 2 writes of 3 kinds | `FreshWhenQuiet` |
| tex | 2 users, limit of 2, 4 sessions, 4 ticks | `DirectoriesOwned`, `RecentlyUsedKept` |
| wasm | 4 requests, 3 workers | `EveryRequestHeld` |
| diff | all texts of up to 4 units | `NoPairSplit` |
| workspaces | 3 compiles, 2 processes at a time, 2 files | `PagesOfOwnFiles` |
| local | 4 files, paths of 2 names, 2 moves to the trash, 1 file without a row | `FilesReadable`, `ContentKept` |
| language | 3 requests, 2 texts, 2 revisions, 2 processes | `InStepWithServer` |
| edits | all pairs of texts of up to 3 lines, line by line up to 6 cells | `AcceptedAsProposed` |
| mirror | all projects with paths of up to 2 names, one of them hidden, 2 texts | `MirrorFollows` |

**Why the bounds are enough.** The interesting cases need two actors and one
more event between their steps: two saves and a failure, a request and a load,
two requests for one document while a third is being compiled. Three edits make
"the older edit survives and the newer is lost" different from "all is lost".
Two places in the worker make saves overlap; a pool of two with one session
makes a cancelled compile end after its successor began. `MaxLoads = 2` makes an
unloaded document differ from the one that is loaded later. In `Sharing` the plan
must be smaller than the number of users, and in `PreviewSessions` one more
session must be created than may live, or the limits never bite: both hold.
`SharedText` was also checked with 2 autosaves and 2 stops, `Sharing` with a plan
of 3, `CompileWorkspaces` with 2 contents per file, `WorkspaceMirror` with paths of
3 names up to the fourth step: nothing more was found.

**What restricts the passing runs.** `EditsDuring` and `LoadsDuring` are the
requests during which the collaboration server moves: in the first, editors type
and stores run, in the second the document is also opened and closed. They
differ between the runs because what holds differs. With nothing in between
every operation but `SaveElsewhere` keeps every promise. With typing in between, saves, API writes
and restores still lose nothing, but an API write or a restore may leave an older
text on the drive, from which a suggestion accepted later starts; with loads in
between, a write may be undone.
`NothingFromBeforeReset` is about behaviours with one reset at most since the hook
was last at rest (`overlaps <= 1`), and not about the error of a Typst document;
`LocalCompileKept` and `NewestShown` are about those with none (`overlaps = 0`). The
table of known behaviours says what happens otherwise. `NewestShown` is checked
for the kinds `SteadyKinds` and for behaviours in which no text asked for fails.

`FaultsDuring` are the requests during which a drive write fails or the server
stops. Six constants say whether the environment may also do what breaks a
module's promise; the passing runs have them `FALSE`, and the table below says
what `TRUE` shows:

| Constant | `FALSE` excludes |
|---|---|
| `AutosaveAnyTime` (`SharedText`) | an autosave by a page that is not in step with the server or has changed since its timer was set, one that arrives when the document is not loaded, and a stop of the server between a rewrite and the next store |
| `Unsettled` (`Sharing`) | a transfer while another is under way, to a user who is not a member, or to one whom an invitation, a request or a join can still add, and a second decision about one request |
| `Rough` (`FileCaches`) | writes that fail or overlap each other, and a read of the drive during a write |
| `TrashNested` (`LocalFiles`) | moving an entry of a folder to the trash on its own |
| `ReuseLocations` (`LocalFiles`) | a new file at a path that a row in the trash has as its storage id |
| `AnyOrder` (`SuggestedEdits`) | accepting one edit after which a later one is no longer found where it belongs |

**Known behaviours.** The five violation runs are in `findings`. The models show
these others when the constant named is changed; each is a consequence of the
same lines of code, and a reader may want to know them:

| Change to | Property that fails | What happens |
|---|---|---|
| `SaveJobsRetryOrder`: check `EverySaveInHistory` | `EverySaveInHistory` | an attempt that fails after the hash is written leaves its retry nothing to do (`reliability.ts:882`) |
| `SaveJobsInOrder`: `MaxElsewhere = 1` | `SkippedOnlyIfStored` | other writers leave `last_content_hash` alone; saving the earlier text again is skipped (`reliability.ts:865`) |
| `FileStorageOpenRace`: `Operations = {"saveElsewhere"}` | `NothingLost` | a tool saves a file that only a collaborator has open: answered, and written nowhere but to the history (`reliability.ts:874`) |
| the same: `{"autosave"}`, `EditsDuring` alike | `NothingLost` | autosave writes an editor's copy over the state of an open file (`projects.ts:3820`) |
| the same: `{"ai"}`, `EditsDuring` alike | `NothingLost` | the answer of the model replaces what was typed while it worked (`aiCollaborator.ts:120`) |
| the same: `{"content"}`, `MaxCrashes = 1` | `NothingLost` | a write is answered before the shared document is stored (`projectFeatures.ts:1544`) |
| the same: `{"content"}`, `LoadsDuring = {}` | `DriveCopyCurrent` | the drive write of the request ends after that of a newer store (`projectFeatures.ts:1543`) |
| the same: `{"suggestion"}`, `MaxFailures = 1` | `NothingLost` | a suggestion of a closed file starts from a stale drive copy (`projectFeatures.ts:1517`) |
| the same: `{"restore"}`, `EditsDuring` alike | `BackupComplete` | an edit typed while the backup is stored is in no revision (`reliability.ts:555`) |
| `PreviewCompile`: `NothingFromBeforeReset` without `overlaps <= 1` | `NothingFromBeforeReset` | the second reset aborts the loop that `abortRef` names, which of two loops from before it is not always the one that compiles: for Typst a newer loop took `abortRef`, for LaTeX a loop that ended cleared it (`useCompile.ts:466`, `:937`); the other loop shows its text |
| the same, without the exception of Typst errors | `NothingFromBeforeReset` | a compile in the browser that was aborted by a reset and rejects shows its error all the same (`useCompile.ts:572-600`) |
| `PreviewCompile`: `NewestShown` without its condition on resets | `NewestShown` | a loop from before a manual compile takes a request out of the queue and ends with it (`useCompile.ts:958`) |
| the same, without its condition on failing texts | `NewestShown` | the text shown before an error is skipped as completed (`useCompile.ts:462`), or an error is cleared by a request that is then replaced (`:471`) |
| `MCParts`: `Unsettled = TRUE` | `OneOwner`, `WithinPlan` | a transfer to oneself leaves no owner row; two transfers at a time, or an answer that adds the new owner once more, leave a row that is not the owner's (`db.ts:1512`, `:3118`); a transfer to a stranger adds a member beyond the plan |
| `Kinds` with `"upsert"` | `FreshWhenQuiet` | `drive.ts:589-600` writes and does not drop the cached content, though the comment at `:542-543` says that the save functions do |
| `Rough = TRUE` | `FreshWhenQuiet` | a read that began before a write fills the cache after it was dropped |
| `ReuseLocations = TRUE` | `ContentKept` | a file is made at a path that a trashed row still names; purging or restoring that row destroys it |
| `Entries` of two documents | `ProcessOwned` | one key in two documents: the session is replaced while its process starts |
| `AnyOrder = TRUE` | `AcceptedAsProposed` | two insertions, the upper is accepted alone: the lower keeps its line number, since edits without an old text are not searched for (`EditorPage.tsx:4102-4126`) |
| `LanguageServers`: check `KeptIsOwn` | `KeptIsOwn` | what a late publication or a timed-out wait left is kept as the result of the new text (`languageServers.ts:430-436`) |
| the same: `OpenedInProcess` | `OpenedInProcess` | document versions outlive the process: the next one is sent changes of a file it was never told to open (`:169`) |
| the same: `ProcessKnown` | `ProcessKnown` | two callers that start the server at once, or a failing `initialize`, leave a process that nobody ends (`:112-144`) |
| the same: `StartAnswered` | `StartAnswered` | a process that exits during `initialize` leaves its callers waiting (`:140`) |

Reading the code for the models showed more, which they leave out:

- `compiler.ts`: a compile without a session that times out removes its
  directory, and its `close` handler then reads it (`:401-405`, `:422-460`); a
  timed-out compile answers with the pages that are there; a project file named
  like an output page is removed by `clearSvgOutputs`; nothing calls
  `cleanupPersistentWorkspace`.
- `typstWasmClient.ts`: `workerAnswered` stays set after a crash, so that a later
  worker that cannot start rejects the requests and does not fall back, against
  the comment at `:1-3`.
- `EditorPage.tsx:4925`: undoing back to the saved text within 350 ms leaves the
  timer of the older text.
- `languageServers.ts`: `handleStdout` compares a length in bytes with one of a
  string; a failed incremental session leaves its directory (`:557-560`).
- `workspaceMirror.ts:34`: a project file with a hidden name that is deleted or
  renamed stays in the mirror, as if it were the server's.
- `routes/projects.ts:3872`, `driveProjects.ts:85`: the name `Trash` is not
  reserved; an entry of the project folder that a user calls so shares the folder of
  the trash, which the proofs of `LocalFiles` had to exclude (`TrashApart`).
- `share.ts:183`: an approval that the plan refuses leaves the request decided
  and nobody added.
- `projectFeatures.ts:1795-1806`: columns are wrong in files with CRLF.

**Deadlock** is checked for `SaveJobs`, which has a `Finished` step for the end
of all calls. That the calls of the lock wait for each other in no circle is
`NextInLineFree`. In the others the bounds on requests, calls and loads make the
model stop where the program does not, so `CHECK_DEADLOCK FALSE`.

**Fairness.** Only of what the program or its environment goes on to do by
itself: a timer fires (`Flush`, `Promote`, the debounce with its upper limit),
the worker polls, the pool serves its queue, an awaited call returns or rejects
(`Work`, `Step`), a wait has a timeout. Requests, failures, crashes, editors that
connect or type, and administrators are never fair. Weak fairness is enough: once
enabled, these steps stay enabled until they happen. `MCParts` states none, and
checks no liveness.

**Mutants.** Every property of a passing run has a definition in the module,
marked `Mutant`, that changes an action the way a plausible bug would; put in
place of the action it violates the property. They are part of no specification.

## 4. The proofs

Every property that a passing run checks is proved, but for liveness. The theorems hold for every set of calls, jobs, users,
texts and paths and every bound, under the assumptions that the modules name and
the hypotheses of this table. A hypothesis is about the constants; it says what
the run of the property says by its `.cfg`, for all values and not one.

| Theorem | Hypotheses | Says |
|---|---|---|
| `SaveJobs_proofs!TypeCorrect` | | `[]TypeOK` |
| `!CheckpointsAreListed` | | a checkpoint answered with success is in the history |
| `!SavesInHistory` | `NoFaults` | so is the text of every save that completed |
| `!OldestFirst` | `NoFaults`, `NothingElse` | an older text never replaces a newer one |
| `!LastRequestStored` | the same | at the end both copies are as the last save left them |
| `FileStorage_proofs!Types` | | `[]TypeOK` |
| `!OpenDocumentStored` | `LoadsWait`, `AutosaveAlone` | an open document without a pending store is what the database has |
| `!EditsKept` | `OneAtATime` | no accepted edit that nobody removed is lost |
| `!DriveCopyFollows` | `OneAtATime` | the drive copy is current at rest |
| `!RestoresBackedUp` | `OneAtATime` | what a restore replaces is in a revision |
| `CompileCoalescing_proofs!TypeCorrect` | | `[]TypeOK` |
| `!NewestServed` | | a caller's result comes from its own source or a later one |
| `!NoWaiterForgotten` | | whoever waits is in a flush, or in an entry that will be flushed |
| `!LiveCompile` | | all but one of the running compiles of a session are cancelled |
| `!MapsEmptied` | | no entry is left when everyone is answered, no session when nothing runs |
| `!ImplementsService` | | `Spec => ServiceSpec`: the coalescing implements `CompileService` |
| `PreviewCompile_proofs!TypeCorrect` | | `[]TypeOK` |
| `!InFlightHolds` | | the in-flight mark is set exactly while the current loop runs |
| `!LocalCompilesKept` | | no request throws away a local compile that runs |
| `!ResetForgets` | | nothing from before a reset is shown after it |
| `!NewestIsShown` | `RequestsKept` | a loop at rest has shown the newest text |
| `ProjectParts_proofs!LockTypesHold` | | `[]TypeOK` of `KeyedLock` |
| `!ArrivalOrder` | | tasks of a key start in the order of the calls |
| `!MutualExclusion` | | tasks of a key never overlap |
| `!NobodyStuck` | | a call whose earlier calls have settled can start: no circle of waits |
| `!MapEmptied` | | a key has an entry in the map only while a call of it is under way |
| `Parts_proofs!SharingTypesHold` | `FirstOwner \in Users` | types of the members' rows and the requests |
| `!SingleOwner` | and `~Unsettled` | one owner's row, that of the project's owner |
| `!PlanHolds` | and `Bounds` | members and invitations within the plan, uses within the link's |
| `!LoadsFresh` | `Ordered` | a load that begins after a write gets the new text |
| `!DirectoryFollows` | `MaxDepth \in Nat` | a mirror has exactly the files that may be there |
| `!PagesAreOfOwnFiles` | | a compile that ran alone answers with the pages of its own files |
| `!FilesAgree` | `TrashApart` | the rows and the disk agree (`LocalInv`) after any requests |
| `!FilesAreReadable` | the same | what is not in the trash is found by its storage id, with its own content |
| `!StorageIdsDiffer` | the same | no two rows have the same storage id |
| `!ContentsAreKept` | the same | no request destroys the content of a file of another |
| `!LatestSessionFound` | `Distinct`, `LimitsSet` | the map names the newest live session of a key |
| `!SessionsWithinLimits` | the same | live sessions within the limits |
| `!ProcessesOwned` | and `OneEntry` | a running process is named by a live session |
| `!DirectoriesHaveSessions` | `MaxSync \in Nat` | a directory has its session, the map is within its limit |
| `!LeastRecentlyUsedGoes` | the same | what is evicted was used no later than what stays |
| `!MirrorInStep` | `AsksFinite` | the server has the mirror's text, and nobody gets an answer from before it |
| `!RequestsHeld` | | each request is with the worker, on the main thread or settled, in one place |
| `!TextStaysIntact` | `InOrder` | nothing stored leaves the shared text by itself or is in it twice |
| `!PairsStayWhole` | `HalvesDiffer` | the replacement cuts no surrogate pair and no more than it must |
| `!TextReadsContent` | `HalvesDiffer` | afterwards the text reads as the new content |
| `!EditsAsProposed` | `~AnyOrder` | the text is the one the edits were proposed for, with the accepted ones made where they were proposed |

### The hypotheses

- Some only say what a constant is: sets that are finite, limits that are
  numbers, model values that are not among the values they stand beside
  (`Bounds`, `LimitsSet`, `Distinct`, `AsksFinite`, `MaxDepth`, `MaxSync`). A limit
  is at least 1 where the code has one (the plans allow 2 or 6 members or any
  number). `HalvesDiffer`: no unit is both a high and a low surrogate.
- Some exclude what breaks the property, as sections 2 and 3 show with the run or
  the row that breaks it: `NoFaults` a failing call and a stop of the server
  (`save_jobs_retry_order`), `NothingElse` other writers of the file,
  `~Unsettled`, `Ordered` (which is `~Rough` without the kind `"upsert"`),
  `~AnyOrder` accepting an edit after which a later one is not found any more,
  `InOrder` (which is `~AutosaveAnyTime`), `OneEntry` two documents with one key.
  `RequestsKept` leaves out the two LaTeX web kinds, whose aborted loop returns
  (`preview_compile_web`). `TrashApart` is `~TrashNested` (`local_files_nested`),
  `~ReuseLocations`, and that nobody calls an entry like the trash.
- In `FileStorage` they restrict what happens during a request. `LoadsWait`: no
  document is loaded or unloaded (`file_storage_open_race`). `AutosaveAlone`:
  an autosave meets no typing and no other request. `OneAtATime`: one request at a
  time; editors type and stores run during saves and accepted suggestions only,
  and the drive fails or the server stops during saves only. Between requests
  everything may happen.

### The arguments

*Parts.* What is below for the parts of `MCParts` is proved of the part by itself,
of its variables only. `Parts_proofs` takes it into the whole: a step of another
part leaves the variables alone, and until its turn comes a part is as it began.

*Lock.* Neither property is inductive: that a starting task overlaps no other
follows from what its caller found in the map. The invariant says that every
call which entered is waited for by at most one later call of its key, that the
one it waits for entered before it and is the latest such, and that as long as
a call of a key has not settled, the map holds the last call of the key. So the
calls of a key form a chain; a call that is not settled has a successor chain
that ends in the map, and a call that leaves removes the entry only if it is
the end of the chain.

*Saves.* The revision of a job is stored by `Snapshot`, and the job can
complete after it only through `LogActivity`; the other way to complete is
closed for a labelled job. The invariant of the checkpoints says that a labelled
job at its last await, or completed, has its revision, that "ok" is told to a
labelled job only on completion, and that only the first in the lock has a step
beyond the check - which a crash or a retry resets. For all saves the hash comes
in: a job that is skipped found its text's hash, so the text of the hash must be
in the history or about to be put there by the holder of the lock, whatever others
wrote (`HistoryParts`). For the order, without faults, the queue and the lock
together hold the end of the list of requests, in its order, so the first in the
lock is the oldest request that is not done, and what lies in the copies is the
newest that is (`OrderParts`).

*Copies of a file.* That an open document at rest is stored (`StoreInv`) needs to
know of each request what it saw: one that found the file closed writes the state
of a closed file still, because no load comes in between; one that found it open
leaves the state to the store. For the rest (`KeptInv`) every set of edits is
followed to where it came from: everything there is was used, an edit accepted
and not removed is in the stored state or in the live document with a store to
come, a request that carries a text carries all that is durable but what it
removes, and the drive has the stored text unless a store or a request is about to
write it. A restore writes its backup from the copy that is newest then, so what
it takes out is in a revision by the time it is taken out.

*Coalescing.* Whoever waits for a document is in the batch of its flush or among
its waiters and nowhere else (`WaitersKnown`). The payload of an active flush is
the newest request of its batch, and everyone among the waiters came after it
(`BatchOfPayload`, `LaterWait`); for that, `latestPayload` has to be that of the
last waiter when the flush takes both (`LatestIsLast`). So the batch is exactly
those who wait up to the payload, which is the step of `CompileService`. A
cancelled compile that ends late cannot free the session of its successor,
because the session holds every running compile that is not cancelled
(`SessionHolder`). The maps are empty in the end because an entry has a waiter or
an active flush, and a session a compile that runs (`EntryUsed`,
`SessionRuns`).

*Loop of the editor.* That the mark stands for the current loop needs two facts:
no loop runs under a number not given out yet, so that a new loop is the only one
with its number, and a loop that ends compares its number before it clears
anything (`RunsStarted`, `FinallyMarks`). The others count loops: while
`overlaps = 0` one loop runs, it is the one that `abort` names, and a local compile
is marked as such, so nobody aborts it. With one reset at most one loop from before
it runs, and it is the one that was aborted, so what it awaits is not shown
(`Parts`). The newest text is queued, in the loop that runs and not aborted, or
shown and the completed one (`Newest`).

*Members.* That one row is the owner's does not survive a step by itself: an answer
to an invitation, an approval or a join writes a member's row over whatever is
there. The invariant says that no invitation or request of the owner is open and
no handler is about to add the owner (`OwnerUntouched`), and that a transfer under
way is by the owner of now, to someone else, and the only one (`TransferByOwner`).
A role change or a removal may be about someone who has become the owner; there
the statement's own condition on the row is what holds (`NotOwner`). For the plan,
each request that passed the check holds a place until it wrote: rows, open
invitations and the handlers about to add one sum up to at most the plan and one
less than the handlers (`PlanInv`, `LinkInv`).

*Caches.* A writer is a list of steps, and what is left of it says which of the
caches may be ahead of the drive or behind it. When no writer has come to a step
that matters, every cache that counts as new holds the drive's text, and so does a
load that has its text already (`FreshWhenSteady`); in between a cache holds nothing
or the new text, and after the write the drive holds it too (`NewTextKnown`). No
load and no cache knows a later `updated_at` than the row's (`NoneAhead`), and
nobody writes while a load reads the drive (`ReadAlone`).

*Directories.* A mirror is exact after every sync, by the argument of the code: a
path of the project is kept or written, what is in its way is taken away before,
and a folder that is left without a file goes unless its name is hidden; since no
file of a project lies below another, what is in the way of one is no file of it.
For compile directories, one process runs that was not cancelled (`OneRuns`), the
files of the last start are there (`FilesAreThere`), and of a compile that ran alone
every page in the directory is its own (`PagesAreOwn`).

*Project files.* That a storage id names one row, and that this row's path has its
content, comes of no single request. The invariant `LocalInv` relates the rows to
the disk: a row that is not in the trash has its path as storage id, one in the
trash has it below the folder of the request that moved it (`RowsPlaced`); what
the disk has at the path of a row is that row's, and no two rows have one path
(`InPlace`, `OnePath`); above everything on the disk are folders (`FoldersThere`),
and what has no row is a file in the project folder or a folder of the trash
(`Rowed`). Storage ids differ only because nothing of the project lies where
something in the trash was (`Apart`), and what was trashed from one folder of the
project folder is in one folder of the trash (`OneTree`). Each request is then a
rename, a removal or an addition of a tree; the lemmas on paths say that to move
what is below one folder below another is one-to-one and can be undone
(`MovedIs`, `MovedBack`), so the rename of the disk and the change of the rows have
the same effect (`RenameOnDisk`, `RowsMoved`). TLC checked `LocalInv` first.

*Previews.* `Base`: a session is once in the order of use, and a process that a
session names runs for it. To make room drops exactly as many as are too many:
`Room` takes the oldest of those that live, and the number of them falls by one
for each (`RoomKept` counts the calls that wait for ports with those that live).
The processes are those of live sessions or are killed (`Known`); for two main
files under one key that is false, since the end of the first process makes the
session forget the second.

*SyncTeX.* The rank of a session in the order of use is one-to-one onto `0` to
`n - 1` for `n` sessions, so those whose rank is among the last `MaxSync` are exactly
`MaxSync` many: the eviction ends within the limit and takes whom it should.

*Language servers.* What a process was sent last about the file of a mirror is the
text of the mirror (`SentIsMirrored`). Nothing was sent to a process that was not
spawned yet (`NothingSentBefore`), or a new one would have an old one's files. The
waiters of a directory are the requests that wait in it, each once, and whoever
waits sees a directory whose diagnostics were dropped (`Registered`): so what it
is given was published later. There are no more directories than requests that
wait or were answered.

*Worker.* The three places of a request are disjoint and cover all numbers given
out (`Placed`), from which the sum of their sizes follows; a promise that waits
has its request in what was posted to the worker of now (`WorkerHas`).

*Shared text.* Characters that a rewrite made again are in the stored state only,
while the server has the document loaded, and go with the next store; a page never
gets them (`RewritesStay`, `PagesHold`). What is visible in the stored state was
typed, or all made by one rewrite, so nothing is there twice (`OneCopy`). What was
stored, and what an autosave under way carries, is in the document of the server,
or in the stored state if it has none (`SavedKnown`, `SentKnown`).

*Text diff.* Start and end of what is replaced are the greatest common prefix and
suffix that leave pairs whole; that the middle replaced gives the new content is
shown position by position, that nothing is split from both texts being well
formed at these two places.

*Suggested edits.* The diff is a table and two walks through it, all recursive, and
induction over data is out of the prover's reach. Two facts about numbers stand in
for it: a set of numbers has a least one (`LeastNumber`), so of the places where a
statement fails there is a first; and a function exists whose value at a place is
told by those of lower rank (`WalkThere`), so a walk has the values its equation
gives. By these the edits that the walk collects from any cell make the rest of
the new text of the rest of the old one, in order and apart, whatever the table
holds: the table decides how short the diff is, not whether it is right (`Fitting`).
`EditInv` says that the text is the base with the accepted edits made, and that a
waiting edit is where its place is now. Read line by line (`Grown`), the text with
one more edit accepted differs from that before in the lines of this edit only
(`OneMoreEdit`, `AppliedIs`), and those behind it shift by the difference of the
lengths. Accepting all goes from the last edit to the first, so each place still
counts when its turn comes (`AllApplied`); after accepting one, the others are
found again where they are, which is what `~AnyOrder` says (`Waiting`,
`WaitingOn`).

### Only model-checked

Liveness (`EverySaveSettles`, `EditsReachStorage`, `NewestEventuallyShown`,
`EveryCallerAnswered`) is out of the prover's reach, as is `ENABLED`. Induction
over data is too: where a proof needed a recursive definition, it is a recursive
function treated as above (`Table`, `EndOfPart`, `PartsFrom`), or the module
defines the same by quantifiers or by positions (`Selection`, `Keeps`, `Rank`).

## 5. Not modelled

The components with status `not_modelled` are of three kinds.

- Input and output with nothing to relate: exports, templates, imports, mail,
  accounts, administration pages, dashboard, the MCP server (a client of the HTTP
  API), the stress test. Most of the 65 000 lines are these: pages of React
  components, routes of one query, SQL.
- Small and sequential: rate limits and API tokens (a counter with a window, a
  check before an insert), counters of usage.
- File locks and workflow: `assertFileWritable` is asked when a connection opens
  and before a write, and a lock that is taken later does not end a connection;
  a connection that may only read is not in `FileStorage` and `SharedText`
  either (`collaboration.ts:91`).

Of the modelled parts: several server processes (the Redis extension), the caches
of compile results, the framing of the messages of a language server, Google
Drive as a storage (its ids do not move with a folder, which is what
`LocalFiles` is about), a move of a tree that fails half way
(`projectFeatures.ts:1180`), roles below the owner, `npm` and system packages of
the compilers, and everything that is only shown.

Yjs, Hocuspocus, BullMQ, Postgres, typst, Tinymist and texlab are external and
modelled by how the code uses them (section 2).

## 6. Plan

1. Done: the modules of section 2, from `KeyedLock` to `SuggestedEdits`, and the
   proofs of section 4.
2. Modules: `TreeMoves` (a tree moved entry by entry, on the drive and in the
   database, with failures between), `FileLocks` with connections that may only
   read, `Limits`.

Where a violation run only illustrates a finding that is settled, it makes room
for the run of a new module and moves to the list of known behaviours.
