------------------------------ MODULE FileCaches ------------------------------
(***************************************************************************)
(* One file and the two caches a compile reads it through: the cache of    *)
(* the drive (by storage id) and the cache of the workspace of a project   *)
(* (its entry is good for one revision of the workspace and one updated_at *)
(* of the row).  Nothing orders the writes of the file, its row and the    *)
(* caches but the order in which each writer and each load does them.      *)
(***************************************************************************)
EXTENDS Naturals, Sequences

CONSTANTS
  Loads,        \* loads of the workspace under way at a time
  Writers,      \* writers of the file under way at a time
  Kinds,        \* the kinds of writers that run
  MaxWrites,    \* bound: writes of the file
  NoText,
  Rough         \* may writes fail, overlap each other, and overlap a read of the drive?

VARIABLES
  content,      \* the content on the drive: the number of the write that put it there
  updatedAt,    \* of the row; no two writes in one millisecond
  revision,     \* workspaceRevisionIds
  driveCache,   \* driveFileBufferCache
  workspace,    \* the entry of workspaceCache
  writes,       \* writes begun so far
  writer,       \* the writers: the text and what is still to be done
  load          \* the loads: where they are, and what they have read

cacheVars == <<content, updatedAt, revision, driveCache, workspace, writes, writer, load>>

NoWrite == [text |-> NoText, todo |-> <<>>]
NoEntry == [revision |-> 0, updatedAt |-> 0, text |-> NoText]
IdleLoad == [step |-> "idle", revision |-> 0, updatedAt |-> 0, text |-> NoText]

Init ==
  /\ content = 0 /\ updatedAt = 0 /\ revision = 0 /\ writes = 0
  /\ driveCache = NoText /\ workspace = NoEntry
  /\ writer = [w \in Writers |-> NoWrite]
  /\ load = [l \in Loads |-> IdleLoad]

Writing == \E w \in Writers : writer[w] # NoWrite
Missing == \E l \in Loads : load[l].step \in {"missed", "read"}

-----------------------------------------------------------------------------
(* What a writer awaits, in order.  A store of the shared document, a save   *)
(* job, the AI: "text".  Autosave and PUT content, whose route invalidates   *)
(* the workspace: "route".  An upload over a file that is not text:          *)
(* "upload".  A font or a PDF put in place of the one before: "upsert".      *)
Todo(kind) ==
  CASE kind = "text"   -> <<"write", "touch">>
    [] kind = "upload" -> <<"write", "uncache", "touch", "invalidate">>
    [] OTHER           -> <<"write", "touch", "invalidate">>

(* writeTextFileToDrive puts the text into the cache before it is written.   *)
Begin(w, kind) ==
  /\ writer[w] = NoWrite /\ writes < MaxWrites
  /\ Rough \/ (~Writing /\ ~Missing)
  /\ writes' = writes + 1
  /\ writer' = [writer EXCEPT ![w] = [text |-> writes', todo |-> Todo(kind)]]
  /\ driveCache' = IF kind \in {"text", "route"} THEN writes' ELSE driveCache
  /\ UNCHANGED <<content, updatedAt, revision, workspace, load>>

Step(w, what) ==
  /\ writer[w] # NoWrite /\ Head(writer[w].todo) = what
  /\ writer' = [writer EXCEPT ![w] = IF Len(writer[w].todo) = 1 THEN NoWrite
                                     ELSE [text |-> writer[w].text, todo |-> Tail(writer[w].todo)]]
  /\ UNCHANGED <<writes, load>>

Write(w) ==
  /\ Step(w, "write") /\ content' = writer[w].text
  /\ UNCHANGED <<updatedAt, revision, driveCache, workspace>>
Uncache(w) ==
  /\ Step(w, "uncache") /\ driveCache' = NoText
  /\ UNCHANGED <<content, updatedAt, revision, workspace>>
Touch(w) ==
  /\ Step(w, "touch") /\ updatedAt' = updatedAt + 1
  /\ UNCHANGED <<content, revision, driveCache, workspace>>
Invalidate(w) ==
  /\ Step(w, "invalidate") /\ revision' = revision + 1 /\ workspace' = NoEntry
  /\ UNCHANGED <<content, updatedAt, driveCache>>

(* The drive rejects the write, and the writer gives up; of a text, the      *)
(* caches may have what is not on the drive by then.                         *)
WriteFails(w) ==
  /\ writer[w] # NoWrite /\ Head(writer[w].todo) = "write"
  /\ Rough \/ \E i \in DOMAIN writer[w].todo : writer[w].todo[i] = "uncache"
  /\ writer' = [writer EXCEPT ![w] = NoWrite]
  /\ UNCHANGED <<content, updatedAt, revision, driveCache, workspace, writes, load>>

-----------------------------------------------------------------------------
(* loadProjectWorkspaceFiles: the rows are listed, ...                       *)
List(l) ==
  /\ load[l] = IdleLoad
  /\ load' = [load EXCEPT ![l] = [step |-> "listed", revision |-> 0, updatedAt |-> updatedAt, text |-> NoText]]
  /\ UNCHANGED <<content, updatedAt, revision, driveCache, workspace, writes, writer>>

(* ... then, in one go, the revision is read and the entry of the workspace  *)
(* is looked up, and if it is not good the cache of the drive; ...           *)
GoodFor(entry, row) == entry.text # NoText /\ entry.revision = revision /\ entry.updatedAt = row

Look(l) ==
  LET found == IF GoodFor(workspace, load[l].updatedAt) THEN workspace.text ELSE driveCache
  IN  /\ load[l].step = "listed"
      /\ found # NoText \/ Rough \/ ~Writing
      /\ load' = [load EXCEPT ![l].step = IF found = NoText THEN "missed" ELSE "got",
                              ![l].revision = revision, ![l].text = found]
      /\ UNCHANGED <<content, updatedAt, revision, driveCache, workspace, writes, writer>>

(* ... what no cache has is read from the drive and put into its cache; ...  *)
Read(l) ==
  /\ load[l].step = "missed"
  /\ load' = [load EXCEPT ![l].step = "read", ![l].text = content]
  /\ UNCHANGED <<content, updatedAt, revision, driveCache, workspace, writes, writer>>
Fill(l) ==
  /\ load[l].step = "read" /\ driveCache' = load[l].text
  /\ load' = [load EXCEPT ![l].step = "got"]
  /\ UNCHANGED <<content, updatedAt, revision, workspace, writes, writer>>

(* ... and when all files are there the workspace is cached.                 *)

\* Mutant: the entry is filed under the revision and updated_at of now.
FinishAsOfNow(l) ==
  /\ load[l].step = "got"
  /\ workspace' = [revision |-> revision, updatedAt |-> updatedAt, text |-> load[l].text]
  /\ load' = [load EXCEPT ![l] = IdleLoad]
  /\ UNCHANGED <<content, updatedAt, revision, driveCache, writes, writer>>

Finish(l) ==
  /\ load[l].step = "got"
  /\ workspace' = [revision |-> load[l].revision, updatedAt |-> load[l].updatedAt, text |-> load[l].text]
  /\ load' = [load EXCEPT ![l] = IdleLoad]
  /\ UNCHANGED <<content, updatedAt, revision, driveCache, writes, writer>>

(* Either cache drops an entry by age or for want of room.                   *)
Evict ==
  /\ \/ driveCache' = NoText /\ UNCHANGED workspace
     \/ workspace' = NoEntry /\ UNCHANGED driveCache
  /\ UNCHANGED <<content, updatedAt, revision, writes, writer, load>>

Next ==
  \/ \E w \in Writers :
       \/ \E kind \in Kinds : Begin(w, kind)
       \/ Write(w) \/ Uncache(w) \/ Touch(w) \/ Invalidate(w) \/ WriteFails(w)
  \/ \E l \in Loads : List(l) \/ Look(l) \/ Read(l) \/ Fill(l) \/ Finish(l)
  \/ Evict

Spec == Init /\ [][Next]_cacheVars

-----------------------------------------------------------------------------
(* When no writer is under way, a load that starts now gets what is on the   *)
(* drive, whatever loads are still under way: none leaves an old text under  *)
(* a new updated_at or a new revision.                                       *)
FreshWhenQuiet ==
  ~Writing => content = (IF GoodFor(workspace, updatedAt) THEN workspace.text
                         ELSE IF driveCache # NoText THEN driveCache ELSE content)

=============================================================================
