------------------------------ MODULE LocalFiles ------------------------------
(***************************************************************************)
(* The files of one project with local storage: the rows of project_files  *)
(* and the folder of the project on the disk.  Create, upload, move,       *)
(* duplicate, trash, restore and delete change both; a read or a write of  *)
(* a file goes through its storage id (drive_file_id), which with local    *)
(* storage is a path of the disk and is not kept unique.                   *)
(*                                                                         *)
(* One request at a time: each action is a whole route.  What is at stake  *)
(* here is not an interleaving but a sequence of requests that leaves a    *)
(* path, a storage id and the disk out of step.                            *)
(***************************************************************************)
EXTENDS Naturals, FiniteSets, SequencesExt, Functions

CONSTANTS
  Ids,             \* ids that rows can get (ids of deleted rows are not reused)
  Names,           \* names of files and folders
  MaxDepth,        \* bound: longest path
  MaxTrash,        \* bound: requests that move something to the trash
  MaxOrphans,      \* bound: files written into the folder without a row
  Main,            \* the id and the name of the file a project is created with
  MainName,
  NoId,            \* content that belongs to no row
  TrashNested,     \* may an entry of a folder be moved to the trash on its own?
  ReuseLocations   \* may a path be used again while a row in the trash has it as storage id?

VARIABLES
  rows,     \* project_files and project_file_workflow: id -> row
  disk,     \* path -> "dir" or the id of the file whose content it is
  fresh,    \* ids not given out yet
  tokens,   \* folders made in the trash so far
  orphans   \* files written without a row so far

localVars == <<rows, disk, fresh, tokens, orphans>>

-----------------------------------------------------------------------------
(* Paths.  A path is a sequence of names, relative to the project folder;   *)
(* the trash is a folder of it.                                             *)

TrashPrefix == "Trash"
Paths  == UNION {[1..n -> Names] : n \in 1..MaxDepth}
Folder(p) == Front(p)
Below(p, q) == IsStrictPrefix(p, q)
AtOrBelow(p, q) == IsPrefix(p, q)
Moved(p, from, to) == to \o SubSeq(p, Len(from) + 1, Len(p))
InTrash(p) == p # <<>> /\ p[1] = TrashPrefix

(* The project folder itself is no row and always there.                    *)
OnDisk(p) == p = <<>> \/ p \in DOMAIN disk
IsDir(p)  == p = <<>> \/ (p \in DOMAIN disk /\ disk[p] = "dir")

(* mkdir(..., { recursive: true })                                          *)
MakeFolders(d, p) ==
  [q \in DOMAIN d \cup {SubSeq(p, 1, n) : n \in 1..Len(p)} |-> IF q \in DOMAIN d THEN d[q] ELSE "dir"]

PutFile(d, p, content) == [q \in DOMAIN d \cup {p} |-> IF q = p THEN content ELSE d[q]]

(* rm(path, { recursive: true, force: true })                               *)
Removed(d, p) == [q \in {x \in DOMAIN d : ~AtOrBelow(p, x)} |-> d[q]]

(* rename(from, to): a file replaces a file; a folder only an empty folder. *)
CanRename(d, from, to) ==
  /\ from \in DOMAIN d
  /\ to \in DOMAIN d => /\ (d[from] = "dir") = (d[to] = "dir")
                        /\ d[to] = "dir" => \A q \in DOMAIN d : ~Below(to, q)
Rename(d, from, to) ==
  LET kept  == {q \in DOMAIN d : ~AtOrBelow(from, q) /\ ~AtOrBelow(to, q)}
      moved == {q \in DOMAIN d : AtOrBelow(from, q)}
  IN  [q \in kept \cup {Moved(x, from, to) : x \in moved} |->
         IF q \in kept THEN d[q] ELSE d[Moved(q, to, from)]]

(* Rows.                                                                     *)
Live(id)    == id \in DOMAIN rows /\ ~rows[id].trashed
AtPath(p)   == {id \in DOMAIN rows : rows[id].path = p}
Tree(id)    == {x \in DOMAIN rows : x = id \/ (rows[id].folder /\ Below(rows[id].path, rows[x].path))}
FilesOf(S)  == {x \in S : ~rows[x].folder}

(* getProjectFileByStorageId takes any of the rows that share a storage id.  *)
Holders(storage) == {x \in DOMAIN rows : rows[x].storage = storage}

(* resolveParentFolder and resolveLocalContainer: the folders one can put    *)
(* something into, and where on the disk that is.                            *)
Parents == {[path |-> <<>>, at |-> <<>>]} \cup
           {[path |-> rows[x].path, at |-> IF OnDisk(rows[x].storage) THEN rows[x].storage ELSE rows[x].path] :
              x \in {y \in DOMAIN rows : rows[y].folder /\ ~rows[y].trashed}}

Row(p, storage, isFolder) ==
  [path |-> p, storage |-> storage, folder |-> isFolder, trashed |-> FALSE, original |-> <<>>]
AddRow(id, row) == rows' = [x \in DOMAIN rows \cup {id} |-> IF x = id THEN row ELSE rows[x]]

Free(p) == ReuseLocations \/ \A x \in DOMAIN rows : rows[x].trashed => ~(AtOrBelow(rows[x].storage, p) \/ AtOrBelow(p, rows[x].storage))

(* syncLocalFileStorageIds for a row whose path is `p`.                      *)
SyncedStorage(p, storage) == IF InTrash(p) THEN storage ELSE p

Init ==
  /\ rows = [id \in {Main} |-> Row(<<MainName>>, <<MainName>>, FALSE)]
  /\ disk = [p \in {<<MainName>>} |-> Main]
  /\ fresh = Ids \ {Main} /\ tokens = 0 /\ orphans = 0

-----------------------------------------------------------------------------
(* New entries.                                                              *)

CreateFile(parent, name, id) ==
  LET p == Append(parent.path, name)
      at == Append(parent.at, name)
  IN  /\ id \in fresh /\ Len(p) <= MaxDepth /\ Free(at)
      /\ AtPath(p) = {} /\ ~IsDir(at)
      /\ disk' = PutFile(MakeFolders(disk, Folder(at)), at, id)
      /\ AddRow(id, Row(p, at, FALSE))
      /\ fresh' = fresh \ {id}
      /\ UNCHANGED <<tokens, orphans>>

CreateFolder(parent, name, id) ==
  LET p == Append(parent.path, name)
      at == Append(parent.at, name)
  IN  /\ id \in fresh /\ Len(p) < MaxDepth /\ Free(at)
      /\ AtPath(p) = {} /\ (OnDisk(at) => IsDir(at))
      /\ disk' = MakeFolders(disk, at)
      /\ AddRow(id, Row(p, at, TRUE))
      /\ fresh' = fresh \ {id}
      /\ UNCHANGED <<tokens, orphans>>

(* An upload over a file that is not text: the row keeps its id and names   *)
(* the new location.                                                         *)
Upload(parent, name) ==
  LET p == Append(parent.path, name)
      at == Append(parent.at, name)
  IN  \E id \in AtPath(p) :
        /\ ~rows[id].folder /\ ~IsDir(at)
        /\ disk' = PutFile(MakeFolders(disk, Folder(at)), at, id)
        /\ rows' = [rows EXCEPT ![id].storage = at]
        /\ UNCHANGED <<fresh, tokens, orphans>>

(* duplicateProjectEntry: `copy` gives every entry of the tree its new id.   *)
Duplicate(id, name, copy) ==
  LET p == rows[id].path
      next == Append(Folder(p), name)
      new == {copy[x] : x \in Tree(id)}
      source(n) == CHOOSE x \in Tree(id) : copy[x] = n
      path(n) == Moved(rows[source(n)].path, p, next)
      files == {n \in new : ~rows[source(n)].folder}
  IN  /\ Live(id) /\ IsInjective(copy) /\ AtPath(next) = {} /\ ~OnDisk(next) /\ Free(next)
      /\ \A x \in FilesOf(Tree(id)) : \E h \in Holders(rows[x].storage) : OnDisk(rows[h].path)
      /\ disk' = [q \in DOMAIN disk \cup {path(n) : n \in new} |->
                    IF \E n \in new : path(n) = q
                    THEN LET n == CHOOSE n \in new : path(n) = q IN IF n \in files THEN n ELSE "dir"
                    ELSE disk[q]]
      /\ rows' = [x \in DOMAIN rows \cup new |->
                    IF x \in new THEN Row(path(x), path(x), x \notin files) ELSE rows[x]]
      /\ fresh' = fresh \ new
      /\ UNCHANGED <<tokens, orphans>>

-----------------------------------------------------------------------------
(* Moves.                                                                    *)

(* moveDriveItem: what is moved is found by the storage id, first where the  *)
(* row that was found says it is, else at the storage id itself.             *)
MoveOnDisk(id, d, to) ==
  \E h \in Holders(rows[id].storage) :
    LET from == IF OnDisk(rows[h].path) THEN rows[h].path ELSE rows[id].storage
    IN  IF from = to THEN disk' = d
        ELSE CanRename(d, from, to) /\ disk' = Rename(d, from, to)

\* Mutant: the storage ids stay what they were.
MoveRowsOnly(id, next) ==
  rows' = [x \in DOMAIN rows |->
             IF x \in Tree(id) THEN [rows[x] EXCEPT !.path = Moved(rows[x].path, rows[id].path, next)]
             ELSE rows[x]]

(* moveProjectFile and renameProjectFile: the rows of the tree and their     *)
(* storage ids.                                                              *)
MoveRows(id, next) ==
  rows' = [x \in DOMAIN rows |->
             IF x \in Tree(id)
             THEN LET p == Moved(rows[x].path, rows[id].path, next)
                  IN  [rows[x] EXCEPT !.path = p, !.storage = SyncedStorage(p, rows[x].storage)]
             ELSE rows[x]]

\* Mutant: the target may be taken.
MoveUnchecked(id, parent, name) ==
  LET next == Append(parent.path, name)
      at == Append(parent.at, name)
  IN  /\ Live(id) /\ next # rows[id].path /\ Free(at)
      /\ rows[id].folder => ~AtOrBelow(rows[id].path, next)
      /\ \A x \in Tree(id) : Len(Moved(rows[x].path, rows[id].path, next)) <= MaxDepth
      /\ MoveOnDisk(id, MakeFolders(disk, Folder(at)), at)
      /\ MoveRows(id, next)
      /\ UNCHANGED <<fresh, tokens, orphans>>

(* PATCH of a file or folder, after validateMoveTarget.                      *)
Move(id, parent, name) ==
  LET next == Append(parent.path, name)
      at == Append(parent.at, name)
  IN  /\ Live(id) /\ next # rows[id].path
      /\ AtPath(next) = {} /\ Free(at)
      /\ rows[id].folder => ~AtOrBelow(rows[id].path, next)
      /\ \A x \in Tree(id) : LET p == Moved(rows[x].path, rows[id].path, next)
                             IN  AtPath(p) = {} /\ Len(p) <= MaxDepth
      /\ MoveOnDisk(id, MakeFolders(disk, Folder(at)), at)
      /\ MoveRows(id, next)
      /\ UNCHANGED <<fresh, tokens, orphans>>

(* DELETE of a file or folder, and trashProjectEntry: the entry goes to a    *)
(* folder of its own in the trash, its rows to the same folder with their    *)
(* whole path.  The last file of a project cannot go; files in the trash     *)
(* count too.                                                                *)
Trash(id) ==
  LET removed == Cardinality(FilesOf(Tree(id)))
      hidden == <<TrashPrefix, tokens + 1>>
  IN  /\ Live(id) /\ tokens < MaxTrash /\ (TrashNested \/ Len(rows[id].path) = 1)
      /\ removed > 0 => Cardinality(FilesOf(DOMAIN rows)) > removed
      /\ MoveOnDisk(id, MakeFolders(disk, hidden), Append(hidden, Last(rows[id].path)))
      /\ rows' = [x \in DOMAIN rows |->
                    IF x \in Tree(id)
                    THEN [rows[x] EXCEPT !.path = hidden \o rows[x].path, !.trashed = TRUE,
                                         !.original = rows[x].path]
                    ELSE rows[x]]
      /\ tokens' = tokens + 1
      /\ UNCHANGED <<fresh, orphans>>

(* restoreProjectEntry: the folder it was in must be there; that its path is *)
(* taken is noticed only after the move on the disk.  (Only the entry itself *)
(* can meet a row: those below it need a row of their folder.)               *)
Restore(id) ==
  LET original == rows[id].original
      taken == AtPath(original) # {}
  IN  /\ id \in DOMAIN rows /\ rows[id].trashed
      /\ \E parent \in Parents :
           /\ parent.path = Folder(original)
           /\ MoveOnDisk(id, MakeFolders(disk, parent.at), Append(parent.at, Last(original)))
      /\ rows' = IF taken THEN rows
                 ELSE [x \in DOMAIN rows |->
                         IF x \in Tree(id) /\ rows[x].trashed
                         THEN [rows[x] EXCEPT !.path = rows[x].original, !.trashed = FALSE,
                                              !.original = <<>>, !.storage = rows[x].original]
                         ELSE rows[x]]
      /\ UNCHANGED <<fresh, tokens, orphans>>

-----------------------------------------------------------------------------
(* Deletion, and what is in the folder without a row.                        *)

(* permanentlyDeleteProjectEntry and deleteDriveItem: where the row that was *)
(* found is, and the storage id if that is another place.                    *)
DeleteEntry(id) ==
  /\ \E h \in Holders(rows[id].storage) :
       disk' = Removed(Removed(disk, rows[h].path), rows[id].storage)
  /\ rows' = [x \in DOMAIN rows \ Tree(id) |-> rows[x]]
  /\ UNCHANGED <<fresh, tokens, orphans>>

Delete(id) == id \in DOMAIN rows /\ DeleteEntry(id)

(* One entry of emptyProjectTrash, or of purgeExpiredTrash.                  *)
Purge(id) ==
  /\ id \in DOMAIN rows /\ rows[id].trashed
  /\ \A x \in DOMAIN rows : rows[x].trashed => ~Below(rows[x].path, rows[id].path)
  /\ DeleteEntry(id)

(* A PDF of a checkpoint, or a user of the machine: a file without a row.    *)
WriteOrphan(name) ==
  /\ orphans < MaxOrphans /\ AtPath(<<name>>) = {} /\ ~IsDir(<<name>>) /\ Free(<<name>>)
  /\ disk' = PutFile(disk, <<name>>, NoId)
  /\ orphans' = orphans + 1
  /\ UNCHANGED <<rows, fresh, tokens>>

(* One entry of the folder in syncDriveProjectTree with local storage: a row *)
(* at its path gets it as storage id; without one the file is adopted.       *)
SyncEntry(p) ==
  /\ p \in DOMAIN disk /\ ~InTrash(p)
  /\ IF AtPath(p) # {}
     THEN /\ rows' = [x \in DOMAIN rows |-> IF x \in AtPath(p) THEN [rows[x] EXCEPT !.storage = p] ELSE rows[x]]
          /\ UNCHANGED <<disk, fresh>>
     ELSE \E id \in fresh :
          /\ rows' = [x \in DOMAIN rows \cup {id} |->
                        IF x = id THEN Row(p, p, disk[p] = "dir")
                        ELSE IF rows[x].storage = p
                        THEN [rows[x] EXCEPT !.storage = SyncedStorage(rows[x].path, p)]
                        ELSE rows[x]]
          /\ disk' = IF disk[p] = NoId THEN PutFile(disk, p, id) ELSE disk
          /\ fresh' = fresh \ {id}
  /\ UNCHANGED <<tokens, orphans>>

Next ==
  \/ \E parent \in Parents, name \in Names :
       \/ \E id \in fresh : CreateFile(parent, name, id) \/ CreateFolder(parent, name, id)
       \/ Upload(parent, name)
       \/ \E id \in DOMAIN rows : Move(id, parent, name)
  \/ \E id \in DOMAIN rows :
       \/ Trash(id) \/ Restore(id) \/ Delete(id) \/ Purge(id)
       \/ \E name \in Names, copy \in [Tree(id) -> fresh] : Duplicate(id, name, copy)
  \/ \E name \in Names : WriteOrphan(name)
  \/ \E p \in DOMAIN disk : SyncEntry(p)

Spec == Init /\ [][Next]_localVars

-----------------------------------------------------------------------------
(* A file that is not in the trash is found with its own content: whatever   *)
(* row a read or a write gets for its storage id, the path of that row holds *)
(* this file.                                                                *)
FilesReadable ==
  \A x \in DOMAIN rows : ~rows[x].trashed =>
    \A h \in Holders(rows[x].storage) :
      LET p == rows[h].path IN OnDisk(p) /\ disk[p] = (IF rows[x].folder THEN "dir" ELSE x)

(* The content of a file that was not deleted is somewhere on the disk, also *)
(* while it is in the trash: no move, restore or deletion of another file    *)
(* destroys it.                                                              *)
ContentKept ==
  \A x \in FilesOf(DOMAIN rows) : \E p \in DOMAIN disk : disk[p] = x

=============================================================================
