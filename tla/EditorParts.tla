------------------------------ MODULE EditorParts ------------------------------
(***************************************************************************)
(* The parts that an open editor works with and that share no state: the   *)
(* text its pages have in common, the compiler in the browser, the         *)
(* replacement of a text and the edits that the assistant proposes.        *)
(***************************************************************************)

CONSTANTS
  Pages, MaxTyped, MaxErased, MaxAutosaves, MaxStops, NoDoc, NoText,     \* SharedText
  AutosaveAnyTime,
  MaxRequests, MaxStarts,                                                \* TypstWasmClient
  Plain, High, Low, MaxLength,                                           \* YTextDiff
  Lines, MaxLines, MaxCells, Reach, AnyOrder                             \* SuggestedEdits

VARIABLES
  page, live, stored, autosaves, typed, rewrites, stops, erased, saved, rewritten,
  worker, starts, workerAnswered, workerUnavailable, requests, posted, pending, mainThread, settled,
  current, target,
  text, base, proposed, pendingEdits, accepted

textVars == <<page, live, stored, autosaves, typed, rewrites, stops, erased, saved, rewritten>>
wasmVars == <<worker, starts, workerAnswered, workerUnavailable, requests, posted, pending, mainThread, settled>>
diffVars == <<current, target>>
editVars == <<text, base, proposed, pendingEdits, accepted>>

Shared == INSTANCE SharedText
Wasm   == INSTANCE TypstWasmClient
Diff   == INSTANCE YTextDiff
Edits  == INSTANCE SuggestedEdits

-----------------------------------------------------------------------------
(* The properties of the parts, by their names there.                        *)

(* collaboration.ts: what was stored stays in the text, once.                *)
TextIntact == Shared!TextIntact
(* typstWasmClient.ts: no request is lost or settled twice.                  *)
EveryRequestHeld == Wasm!EveryRequestHeld
(* yText.ts: no surrogate pair is split, and only what differs is replaced.  *)
NoPairSplit == Diff!NoPairSplit
(* EditorPage.tsx: accepted edits are where they were proposed.              *)
AcceptedAsProposed == Edits!AcceptedAsProposed
================================================================================
