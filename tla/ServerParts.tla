------------------------------ MODULE ServerParts ------------------------------
(***************************************************************************)
(* The parts that the server keeps in its memory and that share no state:  *)
(* the previews, the SyncTeX sessions and the language servers.            *)
(***************************************************************************)

CONSTANTS
  Ensures, CallerKeys, OwnerOf, Entries, MaxPerOwner, MaxLive, MaxCreating,   \* PreviewSessions
  MaxSessions, Pids, None,
  TexUsers, MaxSync, Ttl, MaxTokens, MaxClock,                                \* SyncTexSessions
  Asks, Sources, NoSource, MaxRevisions, MaxSpawned                           \* LanguageServers

VARIABLES
  session, recent, byKey, process, ensure,
  texSession, workDirs, texTokens, clock,
  spawned, proc, initialized, ended, opened, versions, shown, waiters, mirror, directories, revisions, ask

previewVars == <<session, recent, byKey, process, ensure>>
texVars     == <<texSession, workDirs, texTokens, clock>>
lspVars     ==
  <<spawned, proc, initialized, ended, opened, versions, shown, waiters, mirror, directories, revisions, ask>>

Previews == INSTANCE PreviewSessions WITH Calls <- Ensures, Keys <- CallerKeys
Tex      == INSTANCE SyncTexSessions
Language == INSTANCE LanguageServers

-----------------------------------------------------------------------------
(* The properties of the parts, by their names there.                        *)

(* tinymistPreview.ts: the newest session of a key is the one the map names. *)
LatestSessionKnown == Previews!LatestSessionKnown
(* tinymistPreview.ts: the limits hold up to the calls under way.            *)
WithinLimits == Previews!WithinLimits
(* tinymistPreview.ts: no process goes on without a session.                 *)
ProcessOwned == Previews!ProcessOwned
(* syncTexSession.ts: directories and sessions go together, within the limit.*)
DirectoriesOwned == Tex!DirectoriesOwned
(* syncTexSession.ts: eviction takes the least recently used.                *)
RecentlyUsedKept == Tex!RecentlyUsedKept
(* languageServers.ts: no publication is missed or taken for a later one.    *)
InStepWithServer == Language!InStepWithServer
================================================================================
