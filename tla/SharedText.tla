------------------------------- MODULE SharedText -------------------------------
(***************************************************************************)
(* The text of one file as the pages that edit it and the server have it:  *)
(* a Yjs document per page, the one the server has loaded, and the stored  *)
(* state.  Pages type also before they are connected and while they are    *)
(* not; connected they exchange what the other has not got.  Beside that,  *)
(* each page sends its whole text to the route autosave, which makes the   *)
(* stored state read so by writing every character anew.                   *)
(*                                                                         *)
(* A character is a number.  An item of a document is a character and the  *)
(* number of the rewrite that made it (0: it was typed); an item that was  *)
(* deleted stays deleted wherever documents are merged.  The order of the  *)
(* characters is left out, and so are the awaits inside load and store.    *)
(***************************************************************************)
EXTENDS Naturals, FiniteSets

CONSTANTS
  Pages,
  MaxTyped,         \* bound: characters typed
  MaxErased,        \* bound: characters erased
  MaxAutosaves,     \* bound: requests sent
  MaxStops,         \* bound: stops of the server
  NoDoc, NoText,
  AutosaveAnyTime   \* may a page send its text while it is not in step with the server, may that
                    \* come when the server has not loaded the document, or stop before it stored it?

VARIABLES
  page,       \* its document (NoDoc: the file is not open), is it connected, timer, last saved text
  live,       \* the document loaded by the server, or NoDoc
  stored,     \* collaboration_state
  autosaves,  \* requests under way: the page and the text
  typed, rewrites, stops,
  erased,     \* characters that someone erased
  saved,      \* characters that have been in the stored state
  rewritten   \* has an autosave rewritten the stored state since the last store?

textVars == <<page, live, stored, autosaves, typed, rewrites, stops, erased, saved, rewritten>>

-----------------------------------------------------------------------------
(* Documents                                                                 *)
Item(char, copy) == [char |-> char, copy |-> copy]
EmptyDoc == [items |-> {}, deleted |-> {}]
Visible(d) == d.items \ d.deleted
Text(d) == {i.char : i \in Visible(d)}
WithItems(d, items) == [items |-> d.items \cup items, deleted |-> d.deleted]
WithDeleted(d, items) == [items |-> d.items, deleted |-> d.deleted \cup items]
Merged(d, e) == [items |-> d.items \cup e.items, deleted |-> d.deleted \cup e.deleted]

(* applySourceToCollaborationState                                           *)
Applied(d, text, n) ==
  IF Text(d) = text THEN d
  ELSE [items |-> d.items \cup {Item(c, n) : c \in text}, deleted |-> d.items]

IsOpen(p) == page[p].doc # NoDoc
Loaded == live # NoDoc
InStep(p) == /\ page[p].connected /\ page[p].doc = live

Init ==
  /\ stored = [items |-> {Item(0, 0)}, deleted |-> {}]
  /\ live = NoDoc
  /\ page = [p \in Pages |-> [doc |-> NoDoc, connected |-> FALSE, timer |-> NoText, last |-> NoText]]
  /\ autosaves = {} /\ typed = 0 /\ rewrites = 0 /\ stops = 0
  /\ erased = {} /\ saved = {0} /\ rewritten = FALSE

-----------------------------------------------------------------------------
(* handleEditorChange, for a change of the page or of someone else: a text   *)
(* that is empty, or the one saved last, sets no timer and stops none.       *)
Changed(pg, doc) ==
  [pg EXCEPT !.doc = doc,
             !.timer = IF doc = pg.doc \/ Text(doc) \in {{}, pg.last} THEN pg.timer ELSE Text(doc)]

OpenFile(p) ==
  /\ ~IsOpen(p)
  /\ page' = [page EXCEPT ![p].doc = EmptyDoc]
  /\ UNCHANGED <<live, stored, autosaves, typed, rewrites, stops, erased, saved, rewritten>>

(* The page shows another file.  What it had not sent is gone.               *)
CloseFile(p) ==
  /\ IsOpen(p)
  /\ page' = [page EXCEPT ![p].doc = NoDoc, ![p].connected = FALSE]
  /\ UNCHANGED <<live, stored, autosaves, typed, rewrites, stops, erased, saved, rewritten>>

Type(p) ==
  /\ IsOpen(p) /\ typed < MaxTyped /\ typed' = typed + 1
  /\ page' = [page EXCEPT ![p] = Changed(page[p], WithItems(page[p].doc, {Item(typed', 0)}))]
  /\ UNCHANGED <<live, stored, autosaves, rewrites, stops, erased, saved, rewritten>>

Erase(p, i) ==
  /\ Cardinality(erased) < MaxErased
  /\ page' = [page EXCEPT ![p] = Changed(page[p], WithDeleted(page[p].doc, {i}))]
  /\ erased' = erased \cup {i.char}
  /\ UNCHANGED <<live, stored, autosaves, typed, rewrites, stops, saved, rewritten>>

\* Mutant: fetch makes a new state from the text.
FetchedAnew == [items |-> {Item(c, MaxAutosaves + stops + 1) : c \in Text(stored)}, deleted |-> {}]

(* fetch: the stored state, never the text on the drive once there is one.   *)
Fetched == stored

(* The page connects: the server loads the document if it has not; then the  *)
(* page and the server exchange what they have, again after each change.     *)
Connect(p) ==
  /\ IsOpen(p) /\ ~page[p].connected
  /\ page' = [page EXCEPT ![p].connected = TRUE]
  /\ live' = IF Loaded THEN live ELSE Fetched
  /\ UNCHANGED <<stored, autosaves, typed, rewrites, stops, erased, saved, rewritten>>

Sync(p) ==
  /\ page[p].connected /\ page[p].doc # live
  /\ LET doc == Merged(page[p].doc, live)
     IN  live' = doc /\ page' = [page EXCEPT ![p] = Changed(page[p], doc)]
  /\ UNCHANGED <<stored, autosaves, typed, rewrites, stops, erased, saved, rewritten>>

Disconnect(p) ==
  /\ page[p].connected
  /\ page' = [page EXCEPT ![p].connected = FALSE]
  /\ UNCHANGED <<live, stored, autosaves, typed, rewrites, stops, erased, saved, rewritten>>

-----------------------------------------------------------------------------
(* The server stores the document from time to time, and before it unloads   *)
(* one that nobody has open.                                                 *)
Store ==
  /\ Loaded /\ live # stored
  /\ stored' = live /\ saved' = saved \cup Text(live) /\ rewritten' = FALSE
  /\ UNCHANGED <<page, live, autosaves, typed, rewrites, stops, erased>>

Unload ==
  /\ Loaded /\ live = stored /\ \A p \in Pages : ~page[p].connected
  /\ live' = NoDoc
  /\ UNCHANGED <<page, stored, autosaves, typed, rewrites, stops, erased, saved, rewritten>>

(* The server stops and starts again.                                        *)
Stop ==
  /\ stops < MaxStops /\ stops' = stops + 1
  /\ AutosaveAnyTime \/ ~rewritten
  /\ live' = NoDoc /\ autosaves' = {} /\ rewritten' = FALSE
  /\ page' = [p \in Pages |-> [page[p] EXCEPT !.connected = FALSE]]
  /\ UNCHANGED <<stored, typed, rewrites, erased, saved>>

-----------------------------------------------------------------------------
(* The timer goes off.                                                       *)
SendAutosave(p) ==
  /\ page[p].timer # NoText /\ rewrites + Cardinality(autosaves) < MaxAutosaves
  /\ AutosaveAnyTime \/ (InStep(p) /\ page[p].timer = Text(page[p].doc))
  /\ autosaves' = autosaves \cup {[by |-> p, text |-> page[p].timer]}
  /\ page' = [page EXCEPT ![p].timer = NoText]
  /\ UNCHANGED <<live, stored, typed, rewrites, stops, erased, saved, rewritten>>

(* The request is done, and answered at once.                                *)
Autosave(r) ==
  /\ rewrites' = rewrites + 1
  /\ AutosaveAnyTime \/ Loaded
  /\ stored' = Applied(stored, r.text, rewrites')
  /\ saved' = saved \cup r.text /\ rewritten' = (rewritten \/ stored' # stored)
  /\ autosaves' = autosaves \ {r}
  /\ page' = [page EXCEPT ![r.by].last = r.text]
  /\ UNCHANGED <<live, typed, stops, erased>>

(* The route refuses it, or the request does not get there.                  *)
AutosaveFails(r) ==
  /\ autosaves' = autosaves \ {r}
  /\ UNCHANGED <<page, live, stored, typed, rewrites, stops, erased, saved, rewritten>>

Next ==
  \/ \E p \in Pages :
       \/ OpenFile(p) \/ CloseFile(p) \/ Type(p)
       \/ IsOpen(p) /\ \E i \in Visible(page[p].doc) : Erase(p, i)
       \/ Connect(p) \/ Sync(p) \/ Disconnect(p) \/ SendAutosave(p)
  \/ Store \/ Unload \/ Stop
  \/ \E r \in autosaves : Autosave(r) \/ AutosaveFails(r)

Spec == Init /\ [][Next]_textVars

-----------------------------------------------------------------------------
Docs == {stored} \cup {d \in {live} : d # NoDoc} \cup {page[p].doc : p \in {q \in Pages : IsOpen(q)}}

(* Every character that has once been stored, and that nobody erased, is     *)
(* still in the document that is open, or in the stored one if none is; and  *)
(* nothing that was typed is in any text twice.  Pages that go offline and   *)
(* come back, stops of the server and autosaves change nothing of that.      *)
TextIntact ==
  /\ saved \ erased \subseteq Text(IF Loaded THEN live ELSE stored)
  /\ \A d \in Docs : \A i, j \in Visible(d) : i.char = j.char => i = j
=============================================================================
