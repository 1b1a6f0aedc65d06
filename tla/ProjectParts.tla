------------------------------ MODULE ProjectParts ------------------------------
(***************************************************************************)
(* The parts that keep a project and that share no state: its members, the *)
(* caches that a compile reads its files from, the directories of compile  *)
(* sessions, its files on a local disk and the copy of them for a language *)
(* server.                                                                 *)
(***************************************************************************)

CONSTANTS
  Users, FirstOwner, Handlers, MaxUses, PlanLimit, NoUser, Unsettled,      \* Sharing
  Loads, Writers, Kinds, MaxWrites, Rough,                                 \* FileCaches
  Runs, FilePaths, Texts, Absent, MaxCompiles,                             \* CompileWorkspaces
  Ids, Names, MaxDepth, MaxTrash, MaxOrphans, Main, MainName, NoId,        \* LocalFiles
  TrashNested, ReuseLocations,
  HiddenNames, Contents,                                                   \* WorkspaceMirror
  NoContent                                                                \* of a file that is not there

VARIABLES
  owner, member, invite, request, link, handler, joins,
  content, updatedAt, revision, driveCache, workspace, writes, writer, load,
  refs, dir, out, run, compiles, answer,
  rows, disk, fresh, tokens, orphans,
  folders, files, project

sharingVars   == <<owner, member, invite, request, link, handler, joins>>
cacheVars     == <<content, updatedAt, revision, driveCache, workspace, writes, writer, load>>
workspaceVars == <<refs, dir, out, run, compiles, answer>>
localVars     == <<rows, disk, fresh, tokens, orphans>>
mirrorVars    == <<folders, files, project>>

Members    == INSTANCE Sharing
Caches     == INSTANCE FileCaches WITH NoText <- NoContent
Workspaces == INSTANCE CompileWorkspaces
Local      == INSTANCE LocalFiles
Mirrors    == INSTANCE WorkspaceMirror WITH Sources <- Contents, NoSource <- NoContent

-----------------------------------------------------------------------------
(* The properties of the parts, by their names there.                        *)

(* db.ts: one owner row, and it is the owner of the project.                 *)
OneOwner == Members!OneOwner
(* billing.ts, share.ts: the plan and the link limit hold up to the requests *)
(* under way.                                                                *)
WithinPlan == Members!WithinPlan
(* projectWorkspace.ts and drive.ts: a load after a write gets the new text. *)
FreshWhenQuiet == Caches!FreshWhenQuiet
(* compiler.ts: no pages of an earlier compile in the directory.             *)
PagesOfOwnFiles == Workspaces!PagesOfOwnFiles
(* db.ts, drive.ts: a file is found with its own content.                    *)
FilesReadable == Local!FilesReadable
(* db.ts, drive.ts: no other file's move or deletion destroys a content.     *)
ContentKept == Local!ContentKept
(* workspaceMirror.ts: the directory follows the project's files.            *)
MirrorFollows == Mirrors!MirrorFollows
================================================================================
