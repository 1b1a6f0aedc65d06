------------------------ MODULE PreviewCompile_proofs ------------------------
(***************************************************************************)
(* The compile loop of the editor, for any number of requests and of       *)
(* resets, which let loops overlap: its marks say whether the current loop *)
(* runs, what it shows in the end is what was asked for last, no local     *)
(* compile is thrown away, and nothing from before a reset is shown.       *)
(***************************************************************************)
EXTENDS PreviewCompile, TLAPS

RunRecords == [at : {"idle", "files", "local", "pandoc", "server"},
               text : Texts \cup {NoText}, aborted : BOOLEAN]

\* A number is given out by each call and each reset at most.
NumbersLeft == runId <= calls + resets /\ calls <= MaxCalls /\ resets <= MaxResets

\* A loop that runs has a number that was given out.
RunsStarted == \A i \in Runs : run[i].at # "idle" => i <= runId

\* A LaTeX document as PDF needs no files of the browser.
FilesKinds == \A i \in Runs : run[i].at = "files" => kind # "latexPdf"

Inv == TypeOK /\ NumbersLeft /\ RunsStarted /\ FilesKinds /\ MarksHold

-----------------------------------------------------------------------------
LEMMA RunsAreNumbers == Runs \subseteq Nat /\ 0 \notin Runs
BY PreviewCompileAssumption DEF Runs

LEMMA InitInv == Init => Inv
<1> SUFFICES ASSUME Init PROVE Inv
  OBVIOUS
<1> USE DEF Init
<1>1. run \in [Runs -> RunRecords] /\ \A i \in Runs : run[i].at = "idle"
  BY DEF Idle, RunRecords
<1>2. TypeOK
  BY <1>1 DEF TypeOK, RunRecords
<1>3. NumbersLeft
  BY PreviewCompileAssumption DEF NumbersLeft
<1>4. RunsStarted /\ FilesKinds /\ MarksHold
  BY <1>1 DEF RunsStarted, FilesKinds, MarksHold
<1> QED
  BY <1>2, <1>3, <1>4 DEF Inv

\* What every step of a loop keeps: it starts no other loop, and the mark
\* goes exactly when the current loop ends.
LEMMA LoopInv ==
    ASSUME Inv, NEW i \in Runs, run[i].at # "idle", Unchanged,
           NEW r \in RunRecords, run' = [run EXCEPT ![i] = r],
           r.at = "files" => kind # "latexPdf",
           r.at # "idle" => inFlight' = inFlight,
           r.at = "idle" => inFlight' = IF runId = i THEN FALSE ELSE inFlight,
           queued' \in Texts \cup {NoText}, completed' \in Texts \cup {NoText},
           preview' \in Texts \cup {NoText}, error' \in Texts \cup {NoText},
           local' \in BOOLEAN, abort' \in Runs \cup {0}
    PROVE  Inv'
<1> USE DEF Inv
<1>1. run \in [Runs -> RunRecords]
  BY DEF TypeOK, RunRecords
<1>2. run' \in [Runs -> RunRecords] /\ run'[i] = r /\ \A j \in Runs : j # i => run'[j] = run[j]
  BY <1>1
<1>3. UNCHANGED <<kind, runId, last, asked, overlaps, calls, resets>>
  BY DEF Unchanged
<1>4. inFlight' \in BOOLEAN
  BY DEF TypeOK
<1>5. TypeOK'
  BY <1>2, <1>3, <1>4 DEF TypeOK, RunRecords
<1>6. NumbersLeft' /\ RunsStarted' /\ FilesKinds'
  BY <1>2, <1>3 DEF NumbersLeft, RunsStarted, FilesKinds
<1>7. MarksHold'
  <2>1. inFlight \in BOOLEAN
    BY DEF TypeOK
  <2>2. CASE runId = i
    <3>1. inFlight = TRUE
      BY <2>1, <2>2 DEF MarksHold
    <3>2. inFlight' = (r.at # "idle")
      BY <2>2, <3>1
    <3>3. (\E j \in Runs : j = runId' /\ run'[j].at # "idle") <=> r.at # "idle"
      BY <2>2, <1>2, <1>3
    <3> QED
      BY <3>2, <3>3 DEF MarksHold
  <2>3. CASE runId # i
    <3>1. inFlight' = inFlight
      BY <2>3
    <3>2. (\E j \in Runs : j = runId' /\ run'[j].at # "idle") <=> \E j \in Runs : j = runId /\ run[j].at # "idle"
      BY <2>3, <1>2, <1>3
    <3> QED
      BY <3>1, <3>2 DEF MarksHold
  <2> QED
    BY <2>2, <2>3
<1> QED
  BY <1>5, <1>6, <1>7

LEMMA IterationType ==
    ASSUME TypeOK, NEW t \in Texts
    PROVE  /\ Iteration(t) \in RunRecords
           /\ Iteration(t).at # "idle"
           /\ Iteration(t).at = "files" => kind # "latexPdf"
BY DEF Iteration, RunRecords, TypeOK

LEMMA FinallyMarks ==
    ASSUME TypeOK, NEW i \in Runs, Finally(i)
    PROVE  /\ inFlight' = IF runId = i THEN FALSE ELSE inFlight
           /\ abort' \in Runs \cup {0} /\ local' \in BOOLEAN
BY DEF Finally, TypeOK

LEMMA ReturnInv ==
    ASSUME Inv, NEW i \in Runs, run[i].at # "idle", Return(i), Unchanged
    PROVE  Inv'
<1>1. Idle \in RunRecords /\ Idle.at = "idle"
  BY DEF Idle, RunRecords
<1>2. UNCHANGED <<queued, completed, preview, error>> /\ run' = [run EXCEPT ![i] = Idle] /\ Finally(i)
  BY DEF Return
<1>3. TypeOK
  BY DEF Inv
<1> QED
  BY <1>1, <1>2, <1>3, FinallyMarks, LoopInv DEF TypeOK

LEMMA ContinueInv ==
    ASSUME Inv, NEW i \in Runs, run[i].at # "idle", Unchanged,
           NEW done \in Texts \cup {NoText}, NEW pages \in Texts \cup {NoText},
           NEW message \in Texts \cup {NoText}, Continue(i, done, pages, message)
    PROVE  Inv'
<1>t. TypeOK
  BY DEF Inv
<1>1. completed' = done /\ preview' = pages /\ queued' = NoText
  BY DEF Continue
<1>2. CASE queued \in {NoText, done}
  <2>1. run' = [run EXCEPT ![i] = Idle] /\ error' = message
    BY <1>2 DEF Continue
  <2>2. Idle \in RunRecords /\ Idle.at = "idle"
    BY DEF Idle, RunRecords
  <2>3. /\ inFlight' = IF runId = i THEN FALSE ELSE inFlight
        /\ abort' \in Runs \cup {0} /\ local' \in BOOLEAN
    BY <1>2, <1>t, FinallyMarks DEF Continue, TypeOK
  <2> QED
    BY <1>1, <2>1, <2>2, <2>3, LoopInv
<1>3. CASE queued \notin {NoText, done}
  <2>1. /\ run' = [run EXCEPT ![i] = Iteration(queued)] /\ error' = NoText
        /\ abort' = i /\ local' = FALSE /\ inFlight' = inFlight
    BY <1>3 DEF Continue
  <2>2. queued \in Texts
    BY <1>3, <1>t DEF TypeOK
  <2> QED
    BY <1>1, <1>t, <2>1, <2>2, IterationType, LoopInv
<1> QED
  BY <1>2, <1>3
-----------------------------------------------------------------------------
\* A result, an error or nothing is shown, and the loop goes on.
LEMMA ShowInv ==
    ASSUME Inv, NEW i \in Runs, run[i].at # "idle", Unchanged,
           \/ ContinueAborted(i) \/ ShowResult(i) \/ ShowCaught(i)
           \/ Continue(i, run[i].text, run[i].text, NoText)
           \/ Continue(i, run[i].text, preview, run[i].text)
    PROVE  Inv'
<1>1. /\ run[i].text \in Texts \cup {NoText} /\ completed \in Texts \cup {NoText}
      /\ preview \in Texts \cup {NoText} /\ error \in Texts \cup {NoText}
      /\ NoText \in Texts \cup {NoText}
      /\ (IF kind = "typst" THEN preview ELSE NoText) \in Texts \cup {NoText}
  BY DEF Inv, TypeOK
<1>2. CASE ContinueAborted(i)
  BY <1>1, <1>2, ContinueInv DEF ContinueAborted
<1>3. CASE ShowResult(i)
  BY <1>1, <1>3, ContinueInv DEF ShowResult
<1>4. CASE ShowCaught(i)
  <2> DEFINE pages == IF kind = "typst" THEN preview ELSE NoText
  <2>1. Continue(i, completed, pages, run[i].text) /\ pages \in Texts \cup {NoText}
    BY <1>1, <1>4 DEF ShowCaught
  <2> HIDE DEF pages
  <2> QED
    BY <1>1, <2>1, ContinueInv
<1>5. CASE Continue(i, run[i].text, preview, run[i].text)
  BY <1>1, <1>5, ContinueInv
<1>6. CASE Continue(i, run[i].text, run[i].text, NoText)
  BY <1>1, <1>6, ContinueInv
<1> QED
  BY <1>2, <1>3, <1>4, <1>5, <1>6

\* An iteration that goes on to its next await.
Proceeds(i, at) ==
    /\ run' = [run EXCEPT ![i].at = at]
    /\ UNCHANGED <<queued, inFlight, abort, completed, shownVars>>

LEMMA ProceedsRun ==
    ASSUME TypeOK, NEW i \in Runs, NEW at \in {"local", "server", "pandoc"}, Proceeds(i, at)
    PROVE  \E r \in RunRecords :
               /\ r.at = at /\ r.text = run[i].text /\ r.aborted = run[i].aborted
               /\ run' = [run EXCEPT ![i] = r]
<1> DEFINE r == [run[i] EXCEPT !.at = at]
<1>1. run[i] \in RunRecords
  BY DEF TypeOK, RunRecords
<1>2. /\ r \in RunRecords /\ r.at = at /\ r.text = run[i].text /\ r.aborted = run[i].aborted
      /\ run' = [run EXCEPT ![i] = r]
  BY <1>1 DEF Proceeds, RunRecords
<1> QED
  BY <1>2

LEMMA ProceedsInv ==
    ASSUME Inv, NEW i \in Runs, run[i].at # "idle", Unchanged, local' \in BOOLEAN,
           NEW at \in {"local", "server", "pandoc"}, Proceeds(i, at)
    PROVE  Inv'
<1>1. PICK r \in RunRecords : r.at = at /\ run' = [run EXCEPT ![i] = r]
  BY ProceedsRun DEF Inv
<1>2. UNCHANGED <<queued, inFlight, abort, completed, preview, error>>
  BY DEF Proceeds, shownVars
<1>3. /\ queued \in Texts \cup {NoText} /\ completed \in Texts \cup {NoText}
      /\ preview \in Texts \cup {NoText} /\ error \in Texts \cup {NoText}
      /\ abort \in Runs \cup {0}
  BY DEF Inv, TypeOK
<1> QED
  BY <1>1, <1>2, <1>3, LoopInv

\* What a loop may do when its files are loaded.
LEMMA FilesLoadedCases ==
    ASSUME Inv, NEW i \in Runs, FilesLoaded(i)
    PROVE  /\ run[i].at = "files" /\ Unchanged /\ kind # "latexPdf"
           /\ \/ run[i].text \in Unloadable /\ kind = "typst" /\ ShowCaught(i)
              \/ run[i].aborted /\ kind = "typst" /\ ContinueAborted(i)
              \/ run[i].aborted /\ kind # "typst" /\ Return(i)
              \/ /\ kind = "typst" => ~ run[i].aborted
                 /\ local' = (local \/ kind = "typst")
                 /\ \E at \in {"local", "server", "pandoc"} :
                       /\ Proceeds(i, at)
                       /\ at = "local" <=> kind = "typst"
                       /\ at = "pandoc" => kind = "latexPandoc"
<1>1. run[i].at = "files" /\ Unchanged /\ kind # "latexPdf"
  BY DEF FilesLoaded, FilesKinds, Inv
<1>2. CASE run[i].text \in Unloadable /\ kind = "typst"
  BY <1>1, <1>2 DEF FilesLoaded
<1>3. CASE run[i].text \notin Unloadable /\ run[i].aborted
  BY <1>1, <1>3 DEF FilesLoaded
<1>4. CASE ~ (run[i].text \in Unloadable /\ kind = "typst") /\ ~ (run[i].text \notin Unloadable /\ run[i].aborted)
  <2> DEFINE at == CASE kind = "typst" -> "local"
                     [] kind = "latexPandoc" /\ run[i].text \notin Unloadable -> "pandoc"
                     [] OTHER -> "server"
  <2>1. run' = [run EXCEPT ![i].at = at] /\ local' = (local \/ kind = "typst")
        /\ UNCHANGED <<queued, inFlight, abort, completed, shownVars>>
    BY <1>4 DEF FilesLoaded
  <2>2. /\ at \in {"local", "server", "pandoc"} /\ (at = "local" <=> kind = "typst")
        /\ (at = "pandoc" => kind = "latexPandoc")
    BY <1>1
  <2> HIDE DEF at
  <2>3. Proceeds(i, at)
    BY <2>1 DEF Proceeds
  <2> QED
    BY <1>1, <1>4, <2>1, <2>2, <2>3
<1> QED
  BY <1>2, <1>3, <1>4

LEMMA FilesLoadedInv == ASSUME Inv, NEW i \in Runs, FilesLoaded(i) PROVE Inv'
<1>1. /\ run[i].at = "files" /\ Unchanged /\ kind # "latexPdf"
      /\ \/ run[i].text \in Unloadable /\ kind = "typst" /\ ShowCaught(i)
         \/ run[i].aborted /\ kind = "typst" /\ ContinueAborted(i)
         \/ run[i].aborted /\ kind # "typst" /\ Return(i)
         \/ /\ local' = (local \/ kind = "typst")
            /\ \E at \in {"local", "server", "pandoc"} : Proceeds(i, at)
  BY FilesLoadedCases
<1>2. CASE ShowCaught(i) \/ ContinueAborted(i)
  BY <1>1, <1>2, ShowInv
<1>3. CASE Return(i)
  BY <1>1, <1>3, ReturnInv
<1>4. CASE /\ local' = (local \/ kind = "typst")
           /\ \E at \in {"local", "server", "pandoc"} : Proceeds(i, at)
  <2>1. local' \in BOOLEAN
    BY <1>4 DEF Inv, TypeOK
  <2> QED
    BY <1>1, <1>4, <2>1, ProceedsInv
<1> QED
  BY <1>1, <1>2, <1>3, <1>4

LEMMA LocalDoneInv == ASSUME Inv, NEW i \in Runs, LocalDone(i) PROVE Inv'
BY ShowInv DEF LocalDone

LEMMA ServerDoneInv == ASSUME Inv, NEW i \in Runs, ServerDone(i) PROVE Inv'
BY ShowInv DEF ServerDone

LEMMA PandocDoneInv == ASSUME Inv, NEW i \in Runs, PandocDone(i) PROVE Inv'
<1>1. run[i].at = "pandoc" /\ Unchanged
  BY DEF PandocDone
<1>2. CASE run[i].text \in Failing
  <2>1. Proceeds(i, "server") /\ local' = local
    BY <1>2 DEF PandocDone, Proceeds
  <2>2. local' \in BOOLEAN
    BY <2>1 DEF Inv, TypeOK
  <2> QED
    BY <1>1, <2>1, <2>2, ProceedsInv
<1>3. CASE run[i].text \notin Failing /\ run[i].aborted
  BY <1>1, <1>3, ReturnInv DEF PandocDone
<1>4. CASE run[i].text \notin Failing /\ ~ run[i].aborted
  BY <1>1, <1>4, ShowInv DEF PandocDone
<1> QED
  BY <1>2, <1>3, <1>4

-----------------------------------------------------------------------------
\* Aborting the signal of a loop changes no more than that.
LEMMA AbortedRun ==
    ASSUME TypeOK, run' = IF abort # 0 THEN [run EXCEPT ![abort].aborted = TRUE] ELSE run
    PROVE  run' \in [Runs -> RunRecords] /\ \A i \in Runs : run'[i].at = run[i].at
BY DEF TypeOK, RunRecords

LEMMA CompileInv == ASSUME Inv, NEW t \in Texts, Compile(t) PROVE Inv'
<1> USE DEF Inv
<1>1. /\ calls < MaxCalls /\ calls' = calls + 1 /\ last' = t /\ asked' = asked \cup {t}
      /\ UNCHANGED <<kind, overlaps, resets>>
  BY DEF Compile
<1>2. calls \in Nat /\ resets \in Nat /\ runId \in Nat /\ calls' \in Nat
  BY <1>1, RunsAreNumbers DEF TypeOK
<1>3. CASE inFlight
  <2>1. /\ queued' = t
        /\ run' = IF ~ local /\ abort # 0 THEN [run EXCEPT ![abort].aborted = TRUE] ELSE run
        /\ UNCHANGED <<inFlight, local, runId, abort, completed, shownVars>>
    BY <1>3 DEF Compile
  <2>2. run' \in [Runs -> RunRecords] /\ \A i \in Runs : run'[i].at = run[i].at
    BY <2>1, AbortedRun DEF TypeOK, RunRecords
  <2>3. TypeOK'
    BY <1>1, <1>2, <2>1, <2>2 DEF TypeOK, RunRecords, shownVars
  <2>4. NumbersLeft'
    BY <1>1, <1>2, <2>1, PreviewCompileAssumption DEF NumbersLeft
  <2>5. RunsStarted' /\ FilesKinds' /\ MarksHold'
    BY <1>1, <2>1, <2>2 DEF RunsStarted, FilesKinds, MarksHold
  <2> QED
    BY <2>3, <2>4, <2>5
<1>4. CASE ~ inFlight
  <2>1. runId' = runId + 1 /\ queued' = NoText /\ local' = FALSE /\ UNCHANGED <<completed, preview>>
    BY <1>4 DEF Compile
  <2>2. runId' \in Runs /\ NumbersLeft'
    BY <1>1, <1>2, <2>1, PreviewCompileAssumption DEF NumbersLeft, Runs
  <2>3. \A i \in Runs : run[i].at # "idle" => i # runId /\ i < runId'
    BY <1>2, <1>4, <2>1, RunsAreNumbers DEF RunsStarted, MarksHold
  <2>4. CASE completed = t
    <3>1. abort' = 0 /\ UNCHANGED <<inFlight, run, error>>
      BY <1>4, <2>4 DEF Compile
    <3>2. TypeOK'
      BY <1>1, <1>2, <2>1, <2>2, <3>1 DEF TypeOK
    <3>3. RunsStarted' /\ FilesKinds' /\ MarksHold'
      BY <1>1, <1>2, <1>4, <2>2, <2>3, <3>1, RunsAreNumbers DEF RunsStarted, FilesKinds, MarksHold
    <3> QED
      BY <2>2, <3>2, <3>3
  <2>5. CASE completed # t
    <3>1. /\ abort' = runId' /\ inFlight' = TRUE /\ error' = NoText
          /\ run' = [run EXCEPT ![runId'] = Iteration(t)]
      BY <1>4, <2>5 DEF Compile
    <3>2. /\ run' \in [Runs -> RunRecords] /\ run'[runId'] = Iteration(t)
          /\ \A i \in Runs : i # runId' => run'[i] = run[i]
      BY <2>2, <3>1, IterationType DEF TypeOK, RunRecords
    <3>3. TypeOK'
      BY <1>1, <1>2, <2>1, <2>2, <3>1, <3>2 DEF TypeOK, RunRecords
    <3>4. RunsStarted' /\ FilesKinds'
      BY <1>1, <1>2, <2>2, <2>3, <3>2, IterationType, RunsAreNumbers DEF RunsStarted, FilesKinds
    <3>5. MarksHold'
      BY <2>2, <3>1, <3>2, IterationType DEF MarksHold
    <3> QED
      BY <2>2, <3>3, <3>4, <3>5
  <2> QED
    BY <2>4, <2>5
<1> QED
  BY <1>3, <1>4 DEF TypeOK

LEMMA ResetInv == ASSUME Inv, Reset PROVE Inv'
<1> USE DEF Inv
<1>1. /\ resets < MaxResets /\ resets' = resets + 1 /\ runId' = runId + 1
      /\ run' = IF abort # 0 THEN [run EXCEPT ![abort].aborted = TRUE] ELSE run
      /\ queued' = NoText /\ inFlight' = FALSE /\ local' = FALSE /\ completed' = NoText
      /\ preview' = NoText /\ error' = NoText /\ last' = NoText /\ asked' = {}
      /\ UNCHANGED <<kind, abort, calls>>
  BY DEF Reset
<1>2. /\ calls \in Nat /\ resets \in Nat /\ runId \in Nat /\ resets' \in Nat
      /\ overlaps' \in Nat
  BY <1>1, RunsAreNumbers DEF Reset, TypeOK
<1>3. run' \in [Runs -> RunRecords] /\ \A i \in Runs : run'[i].at = run[i].at
  BY <1>1, AbortedRun
<1>4. runId' \in Runs /\ NumbersLeft'
  BY <1>1, <1>2, PreviewCompileAssumption DEF NumbersLeft, Runs
<1>5. TypeOK'
  BY <1>1, <1>2, <1>3, <1>4 DEF TypeOK, RunRecords
<1>6. \A i \in Runs : run'[i].at # "idle" => i < runId'
  BY <1>1, <1>2, <1>3, RunsAreNumbers DEF RunsStarted
<1>7. RunsStarted' /\ FilesKinds' /\ MarksHold'
  BY <1>1, <1>2, <1>3, <1>4, <1>6, RunsAreNumbers DEF RunsStarted, FilesKinds, MarksHold
<1> QED
  BY <1>4, <1>5, <1>7

LEMMA NextInv == Inv /\ [Next]_vars => Inv'
<1> SUFFICES ASSUME Inv, [Next]_vars PROVE Inv'
  OBVIOUS
<1>1. CASE UNCHANGED vars
  BY <1>1 DEF Inv, vars, refVars, shownVars, TypeOK, NumbersLeft, RunsStarted, FilesKinds, MarksHold
<1>2. ASSUME NEW t \in Texts, Compile(t) PROVE Inv'
  BY <1>2, CompileInv
<1>3. CASE Reset
  BY <1>3, ResetInv
<1>4. ASSUME NEW i \in Runs, Loop(i) PROVE Inv'
  BY <1>4, FilesLoadedInv, LocalDoneInv, PandocDoneInv, ServerDoneInv DEF Loop
<1> QED
  BY <1>1, <1>2, <1>3, <1>4 DEF Next

LEMMA AlwaysInv == Spec => []Inv
BY InitInv, NextInv, PTL DEF Spec

\* The refs of the hook and what it shows have their types.
THEOREM TypeCorrect == Spec => []TypeOK
BY AlwaysInv, PTL DEF Inv

\* isCompileInFlight is set exactly while the current loop runs: no request
\* waits for a loop that is gone, and a second loop starts only after a
\* reset, however many loops from before one still await their compile.
THEOREM InFlightHolds == Spec => []MarksHold
BY AlwaysInv, PTL DEF Inv

-----------------------------------------------------------------------------
(* What is shown in the end, while no reset comes when a loop runs.        *)

\* Without such a reset one loop runs at a time, and its signal is the one
\* that a request aborts.
OneLoop == overlaps = 0 => \A i \in Runs : run[i].at # "idle" => i = runId /\ abort = i

\* A Typst compile that runs in the browser is marked, and no request has
\* aborted it.
LocalMarked == overlaps = 0 => \A i \in Runs : run[i].at = "local" => local /\ ~ run[i].aborted

\* The awaits of each kind of document.
KindsAt ==
    \A i \in Runs :
        /\ run[i].at = "local" => kind = "typst"
        /\ run[i].at = "server" => kind # "typst"
        /\ run[i].at = "pandoc" => kind = "latexPandoc"

\* What is queued, and what a loop that is not aborted compiles, was asked
\* for since the last reset.
OnlyAsked ==
    overlaps <= 1 =>
        /\ queued \in asked \cup {NoText}
        /\ \A i \in Runs : run[i].at # "idle" /\ ~ run[i].aborted => run[i].text \in asked

LastAsked == last \in asked \cup {NoText}

Parts == OneLoop /\ LocalMarked /\ KindsAt /\ OnlyAsked /\ LastAsked /\ NothingFromBeforeReset

\* The text asked for last is in the queue, or in the loop and not aborted,
\* or the one that completed last, which is the one shown.
Newest ==
    Steady =>
        /\ completed = preview /\ error = NoText
        /\ \A i \in Runs : run[i].at # "idle" =>
              /\ run[i].text \in asked
              /\ queued = NoText => run[i].text = last /\ ~ run[i].aborted
              /\ queued # NoText => queued = last
        /\ Quiet => queued = NoText /\ completed = last

\* A step of a loop keeps the parts when the text of its next iteration is
\* its own or the queued one, and what it shows is its own.
LEMMA LoopParts ==
    ASSUME Inv, Parts, NEW i \in Runs, run[i].at # "idle", Unchanged,
           NEW r \in RunRecords, run' = [run EXCEPT ![i] = r],
           r.at # "idle" => abort' = i \/ abort' = abort,
           r.at = "local" => local' = TRUE /\ ~ r.aborted /\ kind = "typst",
           r.at = "server" => kind # "typst",
           r.at = "pandoc" => kind = "latexPandoc",
           queued' \in {queued, NoText},
           r.at # "idle" /\ ~ r.aborted =>
               \/ r.text = queued /\ queued # NoText
               \/ r.text = run[i].text /\ ~ run[i].aborted,
           \/ preview' \in {preview, NoText}
           \/ preview' = run[i].text /\ ~ run[i].aborted,
           kind # "typst" =>
               \/ error' \in {error, NoText}
               \/ error' = run[i].text /\ ~ run[i].aborted
    PROVE  Parts'
<1> USE DEF Parts
<1>1. run' \in [Runs -> RunRecords] /\ run'[i] = r /\ \A j \in Runs : j # i => run'[j] = run[j]
  BY DEF Inv, TypeOK, RunRecords
<1>2. UNCHANGED <<kind, runId, last, asked, overlaps>>
  BY DEF Unchanged
<1>3. OneLoop'
  BY <1>1, <1>2 DEF OneLoop
<1>4. LocalMarked'
  <2> SUFFICES ASSUME overlaps = 0, NEW j \in Runs, run'[j].at = "local"
               PROVE  local' /\ ~ run'[j].aborted
    BY <1>2 DEF LocalMarked
  <2>1. j = i
    BY <1>1 DEF OneLoop
  <2>2. r.at = "local"
    BY <1>1, <2>1
  <2> QED
    BY <1>1, <2>1, <2>2
<1>5. KindsAt'
  BY <1>1, <1>2 DEF KindsAt
<1>6. OnlyAsked'
  <2> SUFFICES ASSUME overlaps <= 1
               PROVE  /\ queued' \in asked \cup {NoText}
                      /\ \A j \in Runs :
                            run'[j].at # "idle" /\ ~ run'[j].aborted => run'[j].text \in asked
    BY <1>2 DEF OnlyAsked
  <2>1. queued \in asked \cup {NoText}
    BY DEF OnlyAsked
  <2>2. ~ run[i].aborted => run[i].text \in asked
    BY DEF OnlyAsked
  <2>3. \A j \in Runs : j # i => (run'[j].at # "idle" /\ ~ run'[j].aborted => run'[j].text \in asked)
    BY <1>1 DEF OnlyAsked
  <2>4. r.at # "idle" /\ ~ r.aborted => r.text \in asked
    BY <2>1, <2>2
  <2> QED
    BY <1>1, <2>1, <2>3, <2>4
<1>7. LastAsked'
  BY <1>2 DEF LastAsked
<1>8. NothingFromBeforeReset'
  <2> SUFFICES ASSUME overlaps <= 1
               PROVE  /\ preview' \in asked \cup {NoText}
                      /\ kind # "typst" => error' \in asked \cup {NoText}
    BY <1>2 DEF NothingFromBeforeReset
  <2>1. ~ run[i].aborted => run[i].text \in asked
    BY DEF OnlyAsked
  <2>2. preview \in asked \cup {NoText} /\ (kind # "typst" => error \in asked \cup {NoText})
    BY DEF NothingFromBeforeReset
  <2> QED
    BY <2>1, <2>2
<1> QED
  BY <1>3, <1>4, <1>5, <1>6, <1>7, <1>8

LEMMA ReturnParts ==
    ASSUME Inv, Parts, NEW i \in Runs, run[i].at # "idle", Unchanged, Return(i)
    PROVE  Parts'
<1>1. Idle \in RunRecords /\ Idle.at = "idle"
  BY DEF Idle, RunRecords
<1>2. run' = [run EXCEPT ![i] = Idle] /\ UNCHANGED <<queued, preview, error>>
  BY DEF Return
<1> QED
  BY <1>1, <1>2, LoopParts

LEMMA ProceedsParts ==
    ASSUME Inv, Parts, NEW i \in Runs, run[i].at # "idle", Unchanged,
           NEW at \in {"local", "server", "pandoc"}, Proceeds(i, at),
           at = "local" => local' = TRUE /\ ~ run[i].aborted /\ kind = "typst",
           at = "server" => kind # "typst",
           at = "pandoc" => kind = "latexPandoc"
    PROVE  Parts'
<1>1. PICK r \in RunRecords : /\ r.at = at /\ r.text = run[i].text /\ r.aborted = run[i].aborted
                              /\ run' = [run EXCEPT ![i] = r]
  BY ProceedsRun DEF Inv
<1>2. UNCHANGED <<queued, abort, preview, error>>
  BY DEF Proceeds, shownVars
<1>3. r.at = "local" => local' = TRUE /\ ~ r.aborted /\ kind = "typst"
  BY <1>1
<1> QED
  BY <1>1, <1>2, <1>3, LoopParts

LEMMA ContinueParts ==
    ASSUME Inv, Parts, NEW i \in Runs, run[i].at # "idle", Unchanged,
           NEW done, NEW pages, NEW message, Continue(i, done, pages, message),
           \/ pages \in {preview, NoText}
           \/ pages = run[i].text /\ ~ run[i].aborted,
           kind # "typst" =>
               \/ message \in {error, NoText}
               \/ message = run[i].text /\ ~ run[i].aborted
    PROVE  Parts'
<1>1. preview' = pages /\ queued' = NoText
  BY DEF Continue
<1>2. CASE queued \in {NoText, done}
  <2>1. run' = [run EXCEPT ![i] = Idle] /\ error' = message
    BY <1>2 DEF Continue
  <2>2. Idle \in RunRecords /\ Idle.at = "idle"
    BY DEF Idle, RunRecords
  <2> QED
    BY <1>1, <2>1, <2>2, LoopParts
<1>3. CASE queued \notin {NoText, done}
  <2>1. /\ run' = [run EXCEPT ![i] = Iteration(queued)] /\ error' = NoText /\ abort' = i
    BY <1>3 DEF Continue
  <2>2. queued \in Texts /\ TypeOK
    BY <1>3 DEF Inv, TypeOK
  <2>3. /\ Iteration(queued) \in RunRecords /\ Iteration(queued).text = queued
        /\ Iteration(queued).at \in {"files", "server"}
        /\ Iteration(queued).at = "server" => kind # "typst"
    BY <2>2, IterationType DEF Iteration
  <2> QED
    BY <1>1, <1>3, <2>1, <2>3, LoopParts
<1> QED
  BY <1>2, <1>3

LEMMA LoopsParts == ASSUME Inv, Parts, NEW i \in Runs, Loop(i) PROVE Parts'
<1>1. CASE FilesLoaded(i)
  <2>1. /\ run[i].at = "files" /\ Unchanged /\ kind # "latexPdf"
        /\ \/ run[i].text \in Unloadable /\ kind = "typst" /\ ShowCaught(i)
           \/ run[i].aborted /\ kind = "typst" /\ ContinueAborted(i)
           \/ run[i].aborted /\ kind # "typst" /\ Return(i)
           \/ /\ kind = "typst" => ~ run[i].aborted
              /\ local' = (local \/ kind = "typst")
              /\ \E at \in {"local", "server", "pandoc"} :
                    /\ Proceeds(i, at)
                    /\ at = "local" <=> kind = "typst"
                    /\ at = "pandoc" => kind = "latexPandoc"
    BY <1>1, FilesLoadedCases
  <2>2. CASE kind = "typst" /\ ShowCaught(i)
    BY <2>1, <2>2, ContinueParts DEF ShowCaught
  <2>3. CASE ContinueAborted(i)
    BY <2>1, <2>3, ContinueParts DEF ContinueAborted
  <2>4. CASE Return(i)
    BY <2>1, <2>4, ReturnParts
  <2>5. CASE /\ kind = "typst" => ~ run[i].aborted
             /\ local' = (local \/ kind = "typst")
             /\ \E at \in {"local", "server", "pandoc"} :
                   /\ Proceeds(i, at)
                   /\ at = "local" <=> kind = "typst"
                   /\ at = "pandoc" => kind = "latexPandoc"
    <3>1. PICK at \in {"local", "server", "pandoc"} :
              /\ Proceeds(i, at)
              /\ at = "local" <=> kind = "typst"
              /\ at = "pandoc" => kind = "latexPandoc"
      BY <2>5
    <3>2. at = "local" => local' = TRUE /\ ~ run[i].aborted /\ kind = "typst"
      BY <2>5, <3>1
    <3>3. at = "server" => kind # "typst"
      BY <3>1
    <3> QED
      BY <2>1, <3>1, <3>2, <3>3, ProceedsParts
  <2> QED
    BY <2>1, <2>2, <2>3, <2>4, <2>5
<1>2. CASE LocalDone(i)
  <2>1. run[i].at = "local" /\ Unchanged /\ kind = "typst"
    BY <1>2 DEF LocalDone, Parts, KindsAt
  <2>2. \/ Continue(i, run[i].text, preview, run[i].text)
        \/ ContinueAborted(i)
        \/ ~ run[i].aborted /\ Continue(i, run[i].text, run[i].text, NoText)
    BY <1>2 DEF LocalDone
  <2>3. CASE Continue(i, run[i].text, preview, run[i].text)
    BY <2>1, <2>3, ContinueParts
  <2>4. CASE ContinueAborted(i)
    BY <2>1, <2>4, ContinueParts DEF ContinueAborted
  <2>5. CASE ~ run[i].aborted /\ Continue(i, run[i].text, run[i].text, NoText)
    BY <2>1, <2>5, ContinueParts
  <2> QED
    BY <2>2, <2>3, <2>4, <2>5
<1>3. CASE PandocDone(i)
  <2>1. run[i].at = "pandoc" /\ Unchanged /\ kind = "latexPandoc"
    BY <1>3 DEF PandocDone, Parts, KindsAt
  <2>2. CASE run[i].text \in Failing
    <3>1. Proceeds(i, "server")
      BY <1>3, <2>2 DEF PandocDone, Proceeds
    <3> QED
      BY <2>1, <3>1, ProceedsParts
  <2>3. CASE run[i].text \notin Failing /\ run[i].aborted
    BY <1>3, <2>1, <2>3, ReturnParts DEF PandocDone
  <2>4. CASE run[i].text \notin Failing /\ ~ run[i].aborted
    BY <1>3, <2>1, <2>4, ContinueParts DEF PandocDone, ShowResult
  <2> QED
    BY <2>2, <2>3, <2>4
<1>4. CASE ServerDone(i)
  <2>1. run[i].at = "server" /\ Unchanged
    BY <1>4 DEF ServerDone
  <2>2. CASE run[i].aborted
    BY <1>4, <2>1, <2>2, ContinueParts DEF ServerDone, ContinueAborted
  <2>3. CASE ~ run[i].aborted /\ run[i].text \in Failing
    <3> DEFINE pages == IF kind = "typst" THEN preview ELSE NoText
    <3>1. Continue(i, completed, pages, run[i].text) /\ pages \in {preview, NoText}
      BY <1>4, <2>3 DEF ServerDone, ShowCaught
    <3> HIDE DEF pages
    <3> QED
      BY <2>1, <2>3, <3>1, ContinueParts
  <2>4. CASE ~ run[i].aborted /\ run[i].text \notin Failing
    BY <1>4, <2>1, <2>4, ContinueParts DEF ServerDone, ShowResult
  <2> QED
    BY <2>2, <2>3, <2>4
<1> QED
  BY <1>1, <1>2, <1>3, <1>4 DEF Loop

\* Without a reset that came early, no loop runs when none is marked.
LEMMA QuietUnmarked == ASSUME Inv, Parts, overlaps = 0, ~ inFlight PROVE Quiet
BY DEF Inv, MarksHold, Parts, OneLoop, Quiet

LEMMA CompileParts == ASSUME Inv, Parts, NEW t \in Texts, Compile(t) PROVE Parts'
<1> USE DEF Parts
<1>1. /\ last' = t /\ asked' = asked \cup {t} /\ UNCHANGED <<kind, overlaps>>
      /\ run \in [Runs -> RunRecords] /\ TypeOK
  BY DEF Compile, Inv, TypeOK, RunRecords
<1>2. LastAsked'
  BY <1>1 DEF LastAsked
<1>3. CASE inFlight
  <2>1. /\ queued' = t
        /\ run' = IF ~ local /\ abort # 0 THEN [run EXCEPT ![abort].aborted = TRUE] ELSE run
        /\ UNCHANGED <<inFlight, local, runId, abort, completed, preview, error>>
    BY <1>3 DEF Compile, shownVars
  <2>2. \A i \in Runs : /\ run'[i].at = run[i].at /\ run'[i].text = run[i].text
                        /\ run[i].aborted => run'[i].aborted
                        /\ local => run'[i] = run[i]
    BY <1>1, <2>1 DEF RunRecords
  <2>3. OneLoop' /\ KindsAt'
    BY <1>1, <2>1, <2>2 DEF OneLoop, KindsAt
  <2>4. LocalMarked'
    BY <1>1, <2>1, <2>2 DEF LocalMarked
  <2>5. OnlyAsked'
    BY <1>1, <2>1, <2>2 DEF OnlyAsked
  <2>6. NothingFromBeforeReset'
    BY <1>1, <2>1 DEF NothingFromBeforeReset
  <2> QED
    BY <1>2, <2>3, <2>4, <2>5, <2>6
<1>4. CASE ~ inFlight
  <2>1. runId' = runId + 1 /\ queued' = NoText /\ UNCHANGED <<completed, preview>>
    BY <1>4 DEF Compile
  <2>2. overlaps = 0 => \A i \in Runs : run[i].at = "idle"
    BY <1>4, QuietUnmarked DEF Quiet
  <2>3. CASE completed = t
    <3>1. UNCHANGED <<run, error>>
      BY <1>4, <2>3 DEF Compile
    <3>2. OneLoop' /\ LocalMarked' /\ KindsAt'
      BY <1>1, <2>2, <3>1 DEF OneLoop, LocalMarked, KindsAt
    <3>3. OnlyAsked' /\ NothingFromBeforeReset'
      BY <1>1, <2>1, <3>1 DEF OnlyAsked, NothingFromBeforeReset
    <3> QED
      BY <1>2, <3>2, <3>3
  <2>4. CASE completed # t
    <3>1. /\ abort' = runId' /\ error' = NoText
          /\ run' = [run EXCEPT ![runId'] = Iteration(t)]
      BY <1>4, <2>4 DEF Compile
    <3>2. runId' \in Runs
      <4>1. runId' \in Runs \cup {0}
        BY CompileInv DEF Inv, TypeOK
      <4>2. runId \in Nat
        BY <1>1, RunsAreNumbers DEF TypeOK
      <4> QED
        BY <2>1, <4>1, <4>2
    <3>3. /\ run'[runId'] = Iteration(t)
          /\ \A i \in Runs : i # runId' => run'[i] = run[i]
      BY <1>1, <3>1, <3>2
    <3>4. /\ Iteration(t).text = t /\ Iteration(t).at \in {"files", "server"}
          /\ Iteration(t).at = "server" => kind # "typst"
      BY DEF Iteration
    <3>5. OneLoop'
      BY <1>1, <2>2, <3>1, <3>3 DEF OneLoop
    <3>6. LocalMarked' /\ KindsAt'
      BY <1>1, <2>2, <3>3, <3>4 DEF LocalMarked, KindsAt
    <3>7. OnlyAsked'
      BY <1>1, <2>1, <3>3, <3>4 DEF OnlyAsked
    <3>8. NothingFromBeforeReset'
      BY <1>1, <2>1, <3>1 DEF NothingFromBeforeReset
    <3> QED
      BY <1>2, <3>5, <3>6, <3>7, <3>8
  <2> QED
    BY <2>3, <2>4
<1> QED
  BY <1>3, <1>4 DEF Inv, TypeOK

LEMMA ResetParts == ASSUME Inv, Parts, Reset PROVE Parts'
<1> USE DEF Parts
<1>1. /\ run' = IF abort # 0 THEN [run EXCEPT ![abort].aborted = TRUE] ELSE run
      /\ queued' = NoText /\ preview' = NoText /\ error' = NoText /\ last' = NoText /\ asked' = {}
      /\ overlaps' = IF Quiet THEN 0 ELSE overlaps + 1
      /\ kind' = kind /\ run \in [Runs -> RunRecords] /\ overlaps \in Nat
  BY DEF Reset, Inv, TypeOK, RunRecords
<1>2. \A i \in Runs : /\ run'[i].at = run[i].at
                      /\ i = abort => run'[i].aborted
  BY <1>1, RunsAreNumbers DEF RunRecords
<1>3. overlaps' = 0 => \A i \in Runs : run'[i].at = "idle"
  BY <1>1, <1>2 DEF Quiet
<1>4. overlaps' <= 1 => \A i \in Runs : run'[i].at # "idle" => run'[i].aborted
  BY <1>1, <1>2 DEF Quiet, OneLoop
<1>5. OneLoop' /\ LocalMarked' /\ KindsAt'
  BY <1>1, <1>2, <1>3 DEF OneLoop, LocalMarked, KindsAt
<1>6. OnlyAsked'
  BY <1>1, <1>4 DEF OnlyAsked
<1>7. LastAsked' /\ NothingFromBeforeReset'
  BY <1>1 DEF LastAsked, NothingFromBeforeReset
<1> QED
  BY <1>5, <1>6, <1>7

LEMMA InitParts == Init => Parts
<1> SUFFICES ASSUME Init PROVE Parts
  OBVIOUS
<1>1. \A i \in Runs : run[i].at = "idle"
  BY DEF Init, Idle
<1>2. queued = NoText /\ last = NoText /\ preview = NoText /\ error = NoText
  BY DEF Init
<1> QED
  BY <1>1, <1>2 DEF Parts, OneLoop, LocalMarked, KindsAt, OnlyAsked, LastAsked, NothingFromBeforeReset

LEMMA NextParts == ASSUME Inv, Parts, [Next]_vars PROVE Parts'
<1>1. CASE UNCHANGED vars
  BY <1>1 DEF Parts, vars, refVars, shownVars, OneLoop, LocalMarked, KindsAt, OnlyAsked, LastAsked,
              NothingFromBeforeReset
<1> QED
  BY <1>1, CompileParts, ResetParts, LoopsParts DEF Next

LEMMA AlwaysParts == Spec => [](Inv /\ Parts)
<1>1. Init => Inv /\ Parts
  BY InitInv, InitParts
<1>2. Inv /\ Parts /\ [Next]_vars => (Inv /\ Parts)'
  BY NextInv, NextParts
<1> QED
  BY <1>1, <1>2, PTL DEF Spec

\* "Such a compile now finishes and is shown": no request throws away a Typst
\* compile that runs in the browser, unless the hook was reset while a loop
\* ran.
THEOREM LocalCompilesKept == Spec => []LocalCompileKept
<1>1. Inv /\ Parts => LocalCompileKept
  BY DEF Parts, LocalMarked, LocalCompileKept
<1> QED
  BY <1>1, AlwaysParts, PTL

\* What was asked for before a reset is not shown after it, as long as no
\* loop from before an earlier reset still runs: whatever was queued, aborted
\* or under way.
THEOREM ResetForgets == Spec => []NothingFromBeforeReset
<1>1. Inv /\ Parts => NothingFromBeforeReset
  BY DEF Parts
<1> QED
  BY <1>1, AlwaysParts, PTL

-----------------------------------------------------------------------------
(* The newest request.  It is dropped when the kind is one whose aborted   *)
(* loop returns: the run that looks for its counterexample.                *)

RequestsKept == SteadyKinds \subseteq {"typst", "latexPdf"}

\* A loop that goes on from where no result, error or request was lost.
LEMMA ContinueNewest ==
    ASSUME Inv, Parts, Newest, Steady, NEW i \in Runs, run[i].at # "idle", Unchanged,
           NEW done \in Texts \cup {NoText}, NEW message, Continue(i, done, done, message),
           message = NoText,
           \/ done = completed /\ run[i].aborted
           \/ done = run[i].text /\ ~ run[i].aborted
    PROVE  Newest'
<1>1. UNCHANGED <<kind, runId, last, asked, overlaps>> /\ overlaps = 0
  BY DEF Unchanged, Steady
<1>2. \A j \in Runs : j # i => run[j].at = "idle"
  BY <1>1 DEF Parts, OneLoop
<1>3. /\ run[i].text \in asked
      /\ queued = NoText => run[i].text = last /\ ~ run[i].aborted
      /\ queued # NoText => queued = last
  BY DEF Newest
<1>4. completed' = done /\ preview' = done /\ queued' = NoText
  BY DEF Continue
<1>5. run \in [Runs -> RunRecords]
  BY DEF Inv, TypeOK, RunRecords
<1>6. CASE queued \in {NoText, done}
  <2>1. run' = [run EXCEPT ![i] = Idle] /\ error' = NoText
    BY <1>6 DEF Continue
  <2>2. \A j \in Runs : run'[j].at = "idle"
    BY <1>2, <1>5, <2>1 DEF Idle
  <2>3. done = last
    BY <1>3, <1>6
  <2> QED
    BY <1>1, <1>4, <2>1, <2>2, <2>3 DEF Newest
<1>7. CASE queued \notin {NoText, done}
  <2>1. run' = [run EXCEPT ![i] = Iteration(queued)] /\ error' = NoText
    BY <1>7 DEF Continue
  <2>2. queued = last /\ last # NoText /\ last \in asked
    BY <1>3, <1>7 DEF Parts, LastAsked
  <2>3. /\ run'[i].text = last /\ ~ run'[i].aborted /\ run'[i].at # "idle"
        /\ \A j \in Runs : j # i => run'[j].at = "idle"
    BY <1>2, <1>5, <2>1, <2>2 DEF Iteration
  <2>4. ~ Quiet'
    BY <2>3 DEF Quiet
  <2> QED
    BY <1>1, <1>4, <2>1, <2>2, <2>3, <2>4 DEF Newest
<1> QED
  BY <1>6, <1>7

LEMMA ProceedsNewest ==
    ASSUME Inv, Parts, Newest, Steady, NEW i \in Runs, run[i].at # "idle", Unchanged,
           NEW at \in {"local", "server", "pandoc"}, Proceeds(i, at)
    PROVE  Newest'
<1>1. PICK r \in RunRecords : /\ r.at = at /\ r.text = run[i].text /\ r.aborted = run[i].aborted
                              /\ run' = [run EXCEPT ![i] = r]
  BY ProceedsRun DEF Inv
<1>2. UNCHANGED <<queued, completed, preview, error, last, asked, kind, overlaps>>
  BY DEF Proceeds, shownVars, Unchanged
<1>3. \A j \in Runs : /\ run'[j].text = run[j].text /\ run'[j].aborted = run[j].aborted
                      /\ run'[j].at # "idle" <=> run[j].at # "idle"
  BY <1>1 DEF Inv, TypeOK, RunRecords
<1>4. Quiet' <=> Quiet
  BY <1>3 DEF Quiet
<1> QED
  BY <1>2, <1>3, <1>4 DEF Newest, Steady

LEMMA LoopsNewest ==
    ASSUME RequestsKept, Inv, Parts, Newest, NEW i \in Runs, Loop(i) PROVE Newest'
<1>1. run[i].at # "idle" /\ Unchanged
  BY DEF Loop, FilesLoaded, LocalDone, PandocDone, ServerDone
<1>2. Steady' <=> Steady
  BY <1>1 DEF Unchanged, Steady
<1>3. CASE ~ Steady
  BY <1>2, <1>3 DEF Newest
<1>4. CASE Steady
  <2>1. /\ kind \in {"typst", "latexPdf"} /\ completed = preview /\ error = NoText
        /\ run[i].text \notin Failing /\ run[i].text \notin Unloadable
    BY <1>1, <1>4 DEF RequestsKept, Steady, Newest
  <2>2. run[i].text \in Texts \cup {NoText} /\ completed \in Texts \cup {NoText}
    BY DEF Inv, TypeOK
  <2>3. CASE run[i].aborted /\ ContinueAborted(i)
    <3>1. Continue(i, completed, completed, error)
      BY <2>1, <2>3 DEF ContinueAborted
    <3> QED
      BY <1>1, <1>4, <2>1, <2>2, <2>3, <3>1, ContinueNewest
  <2>4. CASE ~ run[i].aborted /\ Continue(i, run[i].text, run[i].text, NoText)
    BY <1>1, <1>4, <2>2, <2>4, ContinueNewest
  <2>5. CASE \E at \in {"local", "server", "pandoc"} : Proceeds(i, at)
    BY <1>1, <1>4, <2>5, ProceedsNewest
  <2>6. CASE FilesLoaded(i)
    <3>1. \/ run[i].text \in Unloadable /\ kind = "typst" /\ ShowCaught(i)
          \/ run[i].aborted /\ kind = "typst" /\ ContinueAborted(i)
          \/ run[i].aborted /\ kind # "typst" /\ Return(i)
          \/ \E at \in {"local", "server", "pandoc"} : Proceeds(i, at)
      BY <2>6, FilesLoadedCases
    <3>2. kind = "typst"
      BY <2>1, <2>6, FilesLoadedCases
    <3> QED
      BY <2>1, <2>3, <2>5, <3>1, <3>2
  <2>7. CASE LocalDone(i)
    BY <2>1, <2>3, <2>4, <2>7 DEF LocalDone
  <2>8. CASE PandocDone(i)
    BY <2>1, <2>8 DEF PandocDone, Parts, KindsAt
  <2>9. CASE ServerDone(i)
    BY <2>1, <2>3, <2>4, <2>9 DEF ServerDone, ShowResult
  <2> QED
    BY <2>6, <2>7, <2>8, <2>9 DEF Loop
<1> QED
  BY <1>3, <1>4

LEMMA CompileNewest == ASSUME Inv, Parts, Newest, NEW t \in Texts, Compile(t) PROVE Newest'
<1>1. /\ last' = t /\ asked' = asked \cup {t} /\ UNCHANGED <<kind, overlaps>>
      /\ run \in [Runs -> RunRecords] /\ TypeOK /\ t # NoText
  BY PreviewCompileAssumption DEF Compile, Inv, TypeOK, RunRecords
<1> SUFFICES ASSUME Steady'
             PROVE  /\ completed' = preview' /\ error' = NoText
                    /\ \A i \in Runs : run'[i].at # "idle" =>
                          /\ run'[i].text \in asked'
                          /\ queued' = NoText => run'[i].text = last' /\ ~ run'[i].aborted
                          /\ queued' # NoText => queued' = last'
                    /\ Quiet' => queued' = NoText /\ completed' = last'
  BY DEF Newest
<1>2. Steady /\ overlaps = 0
  BY <1>1 DEF Steady
<1>3. /\ completed = preview /\ error = NoText
      /\ \A i \in Runs : run[i].at # "idle" => run[i].text \in asked
  BY <1>2 DEF Newest
<1>4. CASE inFlight
  <2>1. /\ queued' = t
        /\ run' = IF ~ local /\ abort # 0 THEN [run EXCEPT ![abort].aborted = TRUE] ELSE run
        /\ UNCHANGED <<completed, preview, error>>
    BY <1>4 DEF Compile, shownVars
  <2>2. \A i \in Runs : run'[i].at = run[i].at /\ run'[i].text = run[i].text
    BY <1>1, <2>1 DEF RunRecords
  <2>3. ~ Quiet'
    BY <1>4, <2>2 DEF Quiet, Inv, MarksHold
  <2> QED
    BY <1>1, <1>3, <2>1, <2>2, <2>3
<1>5. CASE ~ inFlight
  <2>1. queued' = NoText /\ UNCHANGED <<completed, preview>>
    BY <1>5 DEF Compile
  <2>2. \A i \in Runs : run[i].at = "idle"
    BY <1>2, <1>5, QuietUnmarked DEF Quiet
  <2>3. CASE completed = t
    <3>1. UNCHANGED <<run, error>>
      BY <1>5, <2>3 DEF Compile
    <3> QED
      BY <1>1, <1>3, <2>1, <2>2, <2>3, <3>1
  <2>4. CASE completed # t
    <3>1. error' = NoText /\ run' = [run EXCEPT ![runId'] = Iteration(t)]
      BY <1>5, <2>4 DEF Compile
    <3>2. runId' \in Runs
      <4>1. runId' \in Runs \cup {0}
        BY CompileInv DEF Inv, TypeOK
      <4>2. runId \in Nat
        BY <1>1, RunsAreNumbers DEF TypeOK
      <4>3. runId' = runId + 1
        BY <1>5 DEF Compile
      <4> QED
        BY <4>1, <4>2, <4>3
    <3>3. /\ run'[runId'].text = t /\ ~ run'[runId'].aborted /\ run'[runId'].at # "idle"
          /\ \A i \in Runs : i # runId' => run'[i].at = "idle"
      BY <1>1, <2>2, <3>1, <3>2 DEF Iteration
    <3>4. ~ Quiet'
      BY <3>2, <3>3 DEF Quiet
    <3> QED
      BY <1>1, <1>3, <2>1, <3>1, <3>2, <3>3, <3>4
  <2> QED
    BY <2>3, <2>4
<1> QED
  BY <1>1, <1>4, <1>5 DEF TypeOK

LEMMA ResetNewest == ASSUME Inv, Parts, Newest, Reset PROVE Newest'
<1>1. /\ queued' = NoText /\ preview' = NoText /\ error' = NoText /\ last' = NoText
      /\ completed' = NoText
      /\ overlaps' = IF Quiet THEN 0 ELSE overlaps + 1
      /\ run' = IF abort # 0 THEN [run EXCEPT ![abort].aborted = TRUE] ELSE run
      /\ run \in [Runs -> RunRecords] /\ overlaps \in Nat
  BY DEF Reset, Inv, TypeOK, RunRecords
<1>2. Steady' => Quiet
  BY <1>1 DEF Steady
<1>3. \A i \in Runs : run'[i].at = run[i].at
  BY <1>1 DEF RunRecords
<1> QED
  BY <1>1, <1>2, <1>3 DEF Newest, Quiet

LEMMA AlwaysNewest == ASSUME RequestsKept PROVE Spec => []Newest
<1>1. Init => Newest
  BY DEF Init, Newest, Idle
<1>2. Inv /\ Parts /\ Newest /\ [Next]_vars => Newest'
  <2> SUFFICES ASSUME Inv, Parts, Newest, [Next]_vars PROVE Newest'
    OBVIOUS
  <2>1. CASE UNCHANGED vars
    BY <2>1 DEF vars, refVars, shownVars, Newest, Steady, Quiet
  <2> QED
    BY <2>1, CompileNewest, ResetNewest, LoopsNewest DEF Next
<1> QED
  BY <1>1, <1>2, AlwaysParts, PTL DEF Spec

\* "the newest request runs next": when nothing runs any more, the preview is
\* what the text asked for last compiles to, for any number of requests, and
\* of resets that came when no loop ran.
THEOREM NewestIsShown == ASSUME RequestsKept PROVE Spec => []NewestShown
<1>1. Newest => NewestShown
  BY DEF Newest, NewestShown, Shown
<1> QED
  BY <1>1, AlwaysNewest, PTL
=============================================================================
