--------------------------- MODULE PreviewCompile ---------------------------
(***************************************************************************)
(* The compile loop of the editor: frontend/src/hooks/useCompile.ts.       *)
(*                                                                         *)
(* compile() leaves its request where the loop looks for the next one and, *)
(* when no loop runs, becomes the loop: it takes requests until none is    *)
(* left.  A newer request aborts what the loop awaits, except a Typst      *)
(* compile in the browser.  A manual compile first resets the hook, which  *)
(* lets a second loop start while the first one still awaits its compile.  *)
(* JavaScript runs one callback at a time: a step below is the code from   *)
(* one await to the next.                                                  *)
(*                                                                         *)
(* A text stands for everything its request key is made of.                *)
(***************************************************************************)
EXTENDS Naturals

CONSTANTS
    Texts,       \* what the user asks to see compiled
    NoText,      \* no request, no preview, no error
    Kinds,       \* the kinds of document of this model
    SteadyKinds, \* the kinds for which NewestShown is claimed
    Failing,     \* the texts whose compile reports an error
    Unloadable,  \* the texts one of whose images or fonts cannot be loaded
    MaxCalls,    \* bound: calls of compile()
    MaxResets    \* bound: resets of the hook

AllKinds == {"typst", "latexPdf", "latexWeb", "latexPandoc"}

ASSUME PreviewCompileAssumption ==
    /\ NoText \notin Texts
    /\ Kinds \subseteq AllKinds
    /\ Failing \subseteq Texts
    /\ Unloadable \subseteq Texts
    /\ MaxCalls \in Nat /\ MaxResets \in Nat

\* The numbers compileRunIdRef gives out; 0 is no loop.
Runs == 1 .. MaxCalls + MaxResets

VARIABLES
    kind,       \* of the document: Typst, LaTeX as PDF or as a web page
    queued,     \* queuedRequestRef
    inFlight,   \* isCompileInFlightRef
    local,      \* isLocalTypstCompileInFlightRef
    runId,      \* compileRunIdRef
    abort,      \* abortRef: the loop whose iteration made the controller
    completed,  \* latestCompletedKeyRef
    run,        \* run[i]: the await of loop i, its request, its signal
    preview,    \* the text whose pages are shown
    error,      \* the text whose error is shown
    last,       \* the text asked for last, since the last reset
    asked,      \* all texts asked for since the last reset
    overlaps,   \* resets since the last one at which no loop ran
    calls, resets

refVars == <<queued, inFlight, local, runId, abort, completed>>
shownVars == <<preview, error>>
vars == <<kind, refVars, run, shownVars, last, asked, overlaps, calls, resets>>

Idle == [at |-> "idle", text |-> NoText, aborted |-> FALSE]

Init ==
    /\ kind \in Kinds
    /\ queued = NoText
    /\ inFlight = FALSE /\ local = FALSE
    /\ runId = 0 /\ abort = 0
    /\ completed = NoText
    /\ run = [i \in Runs |-> Idle]
    /\ preview = NoText /\ error = NoText
    /\ last = NoText /\ asked = {}
    /\ overlaps = 0 /\ calls = 0 /\ resets = 0

\* An iteration of the loop up to its first await.
Iteration(t) == [at |-> IF kind = "latexPdf" THEN "server" ELSE "files", text |-> t, aborted |-> FALSE]

-----------------------------------------------------------------------------
(* How an iteration ends. *)

\* Mutant: a loop that ends clears the marks of whichever loop runs.
FinallyAlways(i) == abort' = 0 /\ inFlight' = FALSE /\ local' = FALSE

\* "finally": the loop that is still the current one clears the marks.
Finally(i) ==
    IF runId = i
    THEN abort' = 0 /\ inFlight' = FALSE /\ local' = FALSE
    ELSE UNCHANGED <<abort, inFlight, local>>

\* "return": the loop ends, whatever is queued.
Return(i) ==
    /\ run' = [run EXCEPT ![i] = Idle]
    /\ Finally(i)
    /\ UNCHANGED <<queued, completed, preview, error>>

\* "continue", with the key completed and the pages and the error shown: the
\* loop takes the request that is queued, skips it if it was the last to
\* complete, and ends when there is none.
Continue(i, done, pages, message) ==
    /\ completed' = done
    /\ preview' = pages
    /\ queued' = NoText
    /\ IF queued \in {NoText, done}
       THEN /\ run' = [run EXCEPT ![i] = Idle]
            /\ error' = message
            /\ IF queued = NoText \/ runId = i
               THEN Finally(i)
               ELSE local' = FALSE /\ UNCHANGED <<abort, inFlight>>
       ELSE /\ run' = [run EXCEPT ![i] = Iteration(queued)]
            /\ error' = NoText
            /\ abort' = i /\ local' = FALSE
            /\ UNCHANGED inFlight

\* Nothing was shown: the signal was aborted.
ContinueAborted(i) == Continue(i, completed, preview, error)

\* A result is shown and remembered as the one that completed last; an error
\* was cleared when the iteration began.
ShowResult(i) == Continue(i, run[i].text, run[i].text, error)

\* Mutant: a message of its own is shown for every error.
ShowCaughtFallback(i) ==
    Continue(i, completed, IF kind = "typst" THEN preview ELSE NoText, "Compilation failed")

\* "catch": the error is shown; a LaTeX preview is taken away.
ShowCaught(i) ==
    Continue(i, completed, IF kind = "typst" THEN preview ELSE NoText, run[i].text)

Unchanged == UNCHANGED <<kind, runId, last, asked, overlaps, calls, resets>>

-----------------------------------------------------------------------------
(* The awaits of an iteration. *)

\* Mutant: the mark of a local compile is forgotten.
FilesLoadedUnmarked(i) ==
    /\ run[i].at = "files"
    /\ run' = [run EXCEPT ![i].at = IF kind = "typst" THEN "local" ELSE "server"]
    /\ UNCHANGED <<refVars, shownVars>>
    /\ Unchanged

\* The images and fonts of the project are loaded.  The Typst branch goes on
\* with the queued request when it was aborted, the LaTeX web branch returns.
\* One that cannot be loaded is an error for Typst, whatever was aborted, and
\* leaves the LaTeX page to the server.
FilesLoaded(i) ==
    /\ run[i].at = "files"
    /\ CASE run[i].text \in Unloadable /\ kind = "typst" -> ShowCaught(i)
         [] run[i].text \notin Unloadable /\ run[i].aborted ->
                IF kind = "typst" THEN ContinueAborted(i) ELSE Return(i)
         [] OTHER ->
                /\ run' = [run EXCEPT ![i].at =
                              CASE kind = "typst" -> "local"
                                [] kind = "latexPandoc" /\ run[i].text \notin Unloadable -> "pandoc"
                                [] OTHER -> "server"]
                /\ local' = (local \/ kind = "typst")
                /\ UNCHANGED <<queued, inFlight, abort, completed, shownVars>>
    /\ Unchanged

\* Mutant: the result is shown although the signal was aborted.
LocalDoneRegardless(i) ==
    /\ run[i].at = "local"
    /\ IF run[i].text \in Failing
       THEN Continue(i, run[i].text, preview, run[i].text)
       ELSE Continue(i, run[i].text, run[i].text, NoText)
    /\ Unchanged

\* The Typst compile in the browser ends.  An error in the text completes the
\* request too, and leaves the pages of the preview: it is shown even when the
\* signal was aborted.
LocalDone(i) ==
    /\ run[i].at = "local"
    /\ CASE run[i].text \in Failing -> Continue(i, run[i].text, preview, run[i].text)
         [] run[i].text \notin Failing /\ run[i].aborted -> ContinueAborted(i)
         [] OTHER -> Continue(i, run[i].text, run[i].text, NoText)
    /\ Unchanged

\* Pandoc in the browser ends, or fails: then the server renders the page.
PandocDone(i) ==
    /\ run[i].at = "pandoc"
    /\ CASE run[i].text \in Failing ->
                /\ run' = [run EXCEPT ![i].at = "server"]
                /\ UNCHANGED <<queued, inFlight, local, abort, completed, shownVars>>
         [] run[i].text \notin Failing /\ run[i].aborted -> Return(i)
         [] OTHER -> ShowResult(i)
    /\ Unchanged

\* Mutant: an aborted request ends the loop.
ServerDoneReturning(i) ==
    /\ run[i].at = "server"
    /\ IF run[i].aborted THEN Return(i) ELSE ShowResult(i)
    /\ Unchanged

\* The server answers the request, or the request is aborted.
ServerDone(i) ==
    /\ run[i].at = "server"
    /\ CASE run[i].aborted -> ContinueAborted(i)
         [] ~ run[i].aborted /\ run[i].text \in Failing -> ShowCaught(i)
         [] OTHER -> ShowResult(i)
    /\ Unchanged

-----------------------------------------------------------------------------
(* The calls of the editor. *)

\* Mutant: a request made while a local compile runs is not queued.
CompileUnlessLocal(t) ==
    /\ calls < MaxCalls
    /\ calls' = calls + 1
    /\ last' = t /\ asked' = asked \cup {t}
    /\ IF inFlight
       THEN /\ queued' = IF local THEN queued ELSE t
            /\ run' = IF ~ local /\ abort # 0 THEN [run EXCEPT ![abort].aborted = TRUE] ELSE run
            /\ UNCHANGED <<inFlight, local, runId, abort, completed, shownVars>>
       ELSE /\ runId' = runId + 1
            /\ queued' = NoText
            /\ local' = FALSE
            /\ abort' = runId'
            /\ inFlight' = TRUE
            /\ run' = [run EXCEPT ![runId'] = Iteration(t)]
            /\ error' = NoText
            /\ UNCHANGED <<completed, preview>>
    /\ UNCHANGED <<kind, overlaps, resets>>

\* compile(): becomes the loop, or leaves its request to the one that runs.
Compile(t) ==
    /\ calls < MaxCalls
    /\ calls' = calls + 1
    /\ last' = t /\ asked' = asked \cup {t}
    /\ IF inFlight
       THEN /\ queued' = t
            /\ run' = IF ~ local /\ abort # 0 THEN [run EXCEPT ![abort].aborted = TRUE] ELSE run
            /\ UNCHANGED <<inFlight, local, runId, abort, completed, shownVars>>
       ELSE /\ runId' = runId + 1
            /\ queued' = NoText
            /\ local' = FALSE
            /\ IF completed = t
               THEN abort' = 0 /\ UNCHANGED <<inFlight, run, error>>
               ELSE /\ abort' = runId'
                    /\ inFlight' = TRUE
                    /\ run' = [run EXCEPT ![runId'] = Iteration(t)]
                    /\ error' = NoText
            /\ UNCHANGED <<completed, preview>>
    /\ UNCHANGED <<kind, overlaps, resets>>

Quiet == \A i \in Runs : run[i].at = "idle"

\* resetCompile(): the file stops being one that can be rendered, or a
\* manual compile begins.
Reset ==
    /\ resets < MaxResets
    /\ resets' = resets + 1
    /\ runId' = runId + 1
    /\ run' = IF abort # 0 THEN [run EXCEPT ![abort].aborted = TRUE] ELSE run
    /\ queued' = NoText
    /\ inFlight' = FALSE /\ local' = FALSE
    /\ completed' = NoText
    /\ preview' = NoText /\ error' = NoText
    /\ last' = NoText /\ asked' = {}
    /\ overlaps' = IF Quiet THEN 0 ELSE overlaps + 1
    /\ UNCHANGED <<kind, abort, calls>>

Loop(i) == FilesLoaded(i) \/ LocalDone(i) \/ PandocDone(i) \/ ServerDone(i)

Next ==
    \/ \E t \in Texts : Compile(t)
    \/ Reset
    \/ \E i \in Runs : Loop(i)

Spec == Init /\ [][Next]_vars

\* What a loop awaits ends: a request has a timeout, a compile terminates.
FairSpec == Spec /\ \A i \in Runs : WF_vars(Loop(i))

-----------------------------------------------------------------------------
TypeOK ==
    /\ kind \in Kinds
    /\ queued \in Texts \cup {NoText}
    /\ inFlight \in BOOLEAN /\ local \in BOOLEAN
    /\ runId \in Runs \cup {0} /\ abort \in Runs \cup {0}
    /\ completed \in Texts \cup {NoText}
    /\ run \in [Runs -> [at : {"idle", "files", "local", "pandoc", "server"},
                         text : Texts \cup {NoText}, aborted : BOOLEAN]]
    /\ preview \in Texts \cup {NoText} /\ error \in Texts \cup {NoText}
    /\ last \in Texts \cup {NoText} /\ asked \subseteq Texts
    /\ overlaps \in Nat /\ calls \in Nat /\ resets \in Nat

\* No reset came while a loop ran, no text fails, and the kind is one whose
\* requests are not dropped when they are aborted.
Steady ==
    /\ overlaps = 0
    /\ kind \in SteadyKinds
    /\ asked \cap (Failing \cup Unloadable) = {}

\* "the newest request runs next": when nothing runs any more, what the
\* editor shows is what the text asked for last compiles to.
Shown(t) == preview = t /\ error = NoText
NewestShown == Quiet /\ last # NoText /\ Steady => Shown(last)

\* "Such a compile now finishes and is shown": unless the hook was reset while a loop ran, no
\* request throws away a Typst compile that runs in the browser, nor lets one
\* start that was thrown away while its files were loaded.
LocalCompileKept == overlaps = 0 => \A i \in Runs : run[i].at = "local" => ~ run[i].aborted

\* isCompileInFlight is set while the current loop runs: left set, it would
\* make every later request wait for ever; cleared too early, it lets another
\* loop in.
MarksHold == inFlight <=> \E i \in Runs : i = runId /\ run[i].at # "idle"

\* What was asked for before a reset (the text of another file, say) is not
\* shown after it, if no loop from before an earlier reset runs as well; the
\* error of a Typst document may be.
NothingFromBeforeReset ==
    overlaps <= 1 =>
        /\ preview \in asked \cup {NoText}
        /\ kind # "typst" => error \in asked \cup {NoText}

\* The text asked for last is shown at last, unless another one is asked for.
NewestEventuallyShown == \A t \in Texts : last = t ~> (last # t \/ ~ Steady \/ Shown(t))
=============================================================================
