---------------------------- MODULE WorkspaceMirror ----------------------------
(***************************************************************************)
(* A directory that mirrors the files of a project for a language server   *)
(* or a preview, which runs in it and leaves files of its own there: those *)
(* with a hidden name.  Each sync brings it to the files the project has   *)
(* by then, where a file may have become a folder, or a folder a file.     *)
(***************************************************************************)
EXTENDS Naturals, Sequences, SequencesExt

CONSTANTS
  Names,          \* names of entries
  HiddenNames,    \* those that begin with a dot or end with .lock
  MaxDepth,       \* bound: names in a path
  Sources,        \* texts of files
  NoSource        \* no file

VARIABLES
  folders,        \* paths of the folders in the directory
  files,          \* path -> text of the file in the directory
  project         \* path -> text of the file in the project, at the last sync

mirrorVars == <<folders, files, project>>

Paths == UNION {[1..n -> Names] : n \in 1..MaxDepth}
Below(q, p) == IsStrictPrefix(p, q)
Exists(f, p) == f[p] # NoSource
Hidden(p) == Last(p) \in HiddenNames

NoFiles == [p \in Paths |-> NoSource]

(* A project has no file at a path and others below it.                      *)
Projects ==
  {f \in [Paths -> Sources \cup {NoSource}] :
     \A p, q \in Paths : Below(q, p) /\ Exists(f, p) => ~Exists(f, q)}

Leads(f, p) == \E q \in Paths : Below(q, p) /\ Exists(f, q)    \* is `p` a folder of f?

Init == folders = {} /\ files = NoFiles /\ project = NoFiles

-----------------------------------------------------------------------------
(* syncMirroredWorkspace, in its three steps.  First the files go that the   *)
(* project does not have, but for those with hidden names.                   *)
Expected(f) == [p \in Paths |-> IF Exists(f, p) \/ Hidden(p) THEN files[p] ELSE NoSource]

(* cleanupEmptyDirectories: then the folders with nothing in them.  Hidden   *)
(* ones are not entered, and neither they nor what is around them is empty.  *)
Emptied(f) ==
  {p \in folders :
     /\ ~Leads(f, p)
     /\ \A i \in DOMAIN p : p[i] \notin HiddenNames
     /\ \A q \in Paths : Below(q, p) => ~Exists(Expected(f), q) /\ ~(q \in folders /\ Hidden(q))}

\* Mutant: a folder where the project has a file is not replaced.
InTheWayNot(f, p) == FALSE

(* Then the files are written.  A folder that is where a file has to be goes *)
(* with all that is in it, ...                                               *)
InTheWay(f, p) == \E q \in Paths : Exists(f, q) /\ (p = q \/ Below(p, q))

(* ... and a file where a folder has to be, too.  (Where a folder is no file *)
(* can be written.)                                                          *)
Sync(f) ==
  /\ folders' = {p \in folders \ Emptied(f) : ~InTheWay(f, p)} \cup {p \in Paths : Leads(f, p)}
  /\ files' = [p \in Paths |->
                 IF Exists(f, p) THEN (IF p \in folders' THEN NoSource ELSE f[p])
                 ELSE IF Leads(f, p) \/ InTheWay(f, p) THEN NoSource
                 ELSE Expected(f)[p]]
  /\ project' = f

(* The process that runs in the directory leaves a file there, or removes    *)
(* its own.                                                                  *)
ServerWrites(p, text) ==
  /\ Hidden(p) /\ p \notin folders /\ ~Exists(project, p)
  /\ Len(p) = 1 \/ Front(p) \in folders
  /\ files' = [files EXCEPT ![p] = text]
  /\ UNCHANGED <<folders, project>>

Next ==
  \/ \E f \in Projects : Sync(f)
  \/ \E p \in Paths, text \in Sources \cup {NoSource} : ServerWrites(p, text)

Spec == Init /\ [][Next]_mirrorVars

-----------------------------------------------------------------------------
(* The directory has the project's files with their texts, and besides only  *)
(* files with hidden names; a path is no folder and file at once, and what   *)
(* lies in a folder has one.                                                 *)
MirrorExact ==
  \A p \in Paths :
    /\ Exists(project, p) => files[p] = project[p]
    /\ Exists(files, p) => (Exists(project, p) \/ Hidden(p)) /\ p \notin folders
    /\ Len(p) > 1 /\ (Exists(files, p) \/ p \in folders) => Front(p) \in folders

(* A folder that could be entered has a file of the project in it, or        *)
(* something hidden.                                                         *)
NoFolderLeft ==
  \A p \in folders : (\A i \in DOMAIN p : p[i] \notin HiddenNames) =>
    \E q \in Paths : Below(q, p) /\ (Exists(project, q) \/ (Hidden(q) /\ (Exists(files, q) \/ q \in folders)))

(* workspaceMirror.ts: however the project's files become folders and back,  *)
(* the directory follows and no folder is left over; and a file that the     *)
(* server left stays, unless the project needs its place, that of a folder   *)
(* it is in, or has files below it.                                          *)
MirrorFollows ==
  [][project' # project =>
       /\ MirrorExact' /\ NoFolderLeft'
       /\ \A p \in Paths :
            Exists(files, p) /\ Hidden(p) /\ ~Leads(project', p) /\ ~InTheWay(project', p)
              => files'[p] = files[p]]_mirrorVars
=============================================================================
