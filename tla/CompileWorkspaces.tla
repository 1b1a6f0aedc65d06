--------------------------- MODULE CompileWorkspaces ---------------------------
(***************************************************************************)
(* The working directory that the compiles of one preview session share.   *)
(* A compile brings the files in it up to date, removes the pages of the   *)
(* compile before, starts the typst process, and when that has ended reads *)
(* every page that is there.  Compiles of a session run one after the      *)
(* other; the one before may have been cancelled at any point.             *)
(***************************************************************************)
EXTENDS Naturals, Sequences, FiniteSets

CONSTANTS
  Runs,           \* bound: compiles whose process may exist at a time
  FilePaths,      \* paths of project files
  Texts,          \* contents
  Absent,         \* no file
  MaxCompiles     \* bound: compiles of the session

VARIABLES
  refs,           \* fileContentRefs of the session
  dir,            \* the project files in its directory
  out,            \* the pages in it, as the files they were made from; a sequence with gaps
  run,            \* the compiles
  compiles,       \* compiles begun so far
  answer          \* what the last compile that ended was answered with: its files, the pages,
                  \* and did nothing disturb it?

workspaceVars == <<refs, dir, out, run, compiles, answer>>

Projects == [FilePaths -> Texts \cup {Absent}]
Empty == [p \in FilePaths |-> Absent]

(* A project of n files has n pages; one without files is an error and has   *)
(* none.                                                                     *)
PageCount(project) == Cardinality({p \in FilePaths : project[p] # Absent})
PagesOf(project) == [n \in 1..PageCount(project) |-> project]

NoRun == [step |-> "idle", given |-> Empty, read |-> Empty, written |-> 0, alone |-> TRUE]
Running(c) == run[c].step \in {"started", "writing"}
Dying(c)   == run[c].step \in {"cancelled", "late"}

Init ==
  /\ refs = Empty /\ dir = Empty /\ out = <<>>
  /\ run = [c \in Runs |-> NoRun]
  /\ compiles = 0
  /\ answer = [given |-> Empty, pages |-> <<>>, undisturbed |-> TRUE]

-----------------------------------------------------------------------------
(* updatePersistentWorkspace: files that are gone are removed, and those     *)
(* whose content is not the remembered one are written, up to `these`.       *)
Updated(was, now, project, these) ==
  [p \in FilePaths |-> IF p \in these /\ refs[p] # project[p] THEN now[p] ELSE was[p]]

\* Mutant: the pages of the compile before stay.
NotCleared == out

(* clearSvgOutputs                                                           *)
Cleared == <<>>

Start(c, project) ==
  /\ run[c] = NoRun /\ \A d \in Runs : ~Running(d)
  /\ compiles < MaxCompiles /\ compiles' = compiles + 1
  /\ dir' = Updated(dir, project, project, FilePaths)
  /\ refs' = project
  /\ out' = Cleared
  /\ run' = [run EXCEPT ![c] = [NoRun EXCEPT !.step = "started", !.given = project,
                                           !.alone = \A d \in Runs : ~Dying(d)]]
  /\ UNCHANGED answer

(* A file cannot be written, and the compile fails: what was written by then *)
(* is remembered.                                                            *)
StartFails(project, these, failed) ==
  /\ \A d \in Runs : ~Running(d)
  /\ compiles < MaxCompiles /\ compiles' = compiles + 1
  /\ failed \notin these /\ project[failed] \notin {Absent, refs[failed]}
  /\ refs' = Updated(refs, project, project, these)
  /\ dir' = Updated(dir, project, project, these)
  /\ UNCHANGED <<out, run, answer>>

(* The process reads the project, then writes page after page.               *)
ReadFiles(c) ==
  /\ run[c].step = "started"
  /\ run' = [run EXCEPT ![c].step = "writing", ![c].read = dir]
  /\ UNCHANGED <<refs, dir, out, compiles, answer>>

WritePage(c) ==
  LET n == run[c].written + 1
  IN  /\ run[c].step = "writing" \/ Dying(c)
      /\ n <= PageCount(run[c].read)
      /\ out' = [i \in 1..(IF n > Len(out) THEN n ELSE Len(out)) |->
                   IF i = n THEN run[c].read ELSE IF i <= Len(out) THEN out[i] ELSE Empty]
      /\ run' = [run EXCEPT ![c].written = n]
      /\ UNCHANGED <<refs, dir, compiles, answer>>

(* The pages in the directory, in the order of their numbers.                *)
Present ==
  LET there  == {n \in DOMAIN out : out[n] # Empty}
      nth(k) == CHOOSE n \in there : Cardinality({m \in there : m <= n}) = k
  IN  [k \in 1..Cardinality(there) |-> out[nth(k)]]

(* The process has ended, perhaps before its time, and they are the answer.  *)
Close(c) ==
  /\ run[c].step \in {"writing", "late"}
  /\ answer' = [given |-> run[c].given, pages |-> Present,
                undisturbed |-> /\ run[c].alone /\ run[c].step = "writing"
                                /\ run[c].written = PageCount(run[c].read)]
  /\ run' = [run EXCEPT ![c] = NoRun]
  /\ UNCHANGED <<refs, dir, out, compiles>>

(* The compile is cancelled: it is answered at once, and the process gets a  *)
(* signal, which ends it there and then or a little later.                   *)
Cancel(c) ==
  /\ Running(c)
  /\ \/ run' = [run EXCEPT ![c] = NoRun]
     \/ run' = [run EXCEPT ![c].step = "cancelled"]
  /\ UNCHANGED <<refs, dir, out, compiles, answer>>

Gone(c) ==
  /\ run[c].step = "cancelled"
  /\ run' = [run EXCEPT ![c] = NoRun]
  /\ UNCHANGED <<refs, dir, out, compiles, answer>>

(* It takes too long: it is answered and the process killed, but nothing     *)
(* tells the handler that reads the pages in the end.                        *)
TimeOut(c) ==
  /\ Running(c)
  /\ run' = [run EXCEPT ![c].step = "late"]
  /\ UNCHANGED <<refs, dir, out, compiles, answer>>

(* The session was not used for long: the directory is removed, and the next *)
(* compile gets an empty one.                                                *)
SweepDirectory ==
  /\ \A c \in Runs : run[c] = NoRun
  /\ refs' = Empty /\ dir' = Empty /\ out' = <<>>
  /\ UNCHANGED <<run, compiles, answer>>

Next ==
  \/ \E project \in Projects :
       \/ \E c \in Runs : Start(c, project)
       \/ \E these \in SUBSET FilePaths, failed \in FilePaths : StartFails(project, these, failed)
  \/ \E c \in Runs : ReadFiles(c) \/ WritePage(c) \/ Close(c) \/ Cancel(c) \/ Gone(c) \/ TimeOut(c)
  \/ SweepDirectory

Spec == Init /\ [][Next]_workspaceVars

-----------------------------------------------------------------------------
(* The pages a compile is answered with, and that are cached for its files,  *)
(* are all the pages of the files it was given and no others, whatever       *)
(* compiles of the session came before and however they ended, provided that *)
(* its process came to its end and no earlier one was still there.           *)
PagesOfOwnFiles == answer.undisturbed => answer.pages = PagesOf(answer.given)
=============================================================================
