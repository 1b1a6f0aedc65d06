-------------------------------- MODULE MCParts --------------------------------
(***************************************************************************)
(* Thirteen parts that share no state, side by side: a behaviour picks one *)
(* of them at its start and is a behaviour of that part, with the others   *)
(* at rest in their first state.  The keyed lock is there under its own    *)
(* names; the other parts are the instances of EditorParts, ServerParts    *)
(* and ProjectParts.                                                       *)
(***************************************************************************)
EXTENDS KeyedLock, EditorParts, ServerParts, ProjectParts, Sequences

VARIABLE part     \* the part that this behaviour is about

(* The callers' keys 1 and 2 are of one user, 3 of another.                  *)
OwnersOfKeys == [k \in CallerKeys |-> IF k < 3 THEN "u" ELSE "v"]

lockVars == vars

partsVars ==
  <<lockVars, sharingVars, textVars, previewVars, cacheVars, texVars, wasmVars, diffVars, workspaceVars,
    localVars, lspVars, editVars, mirrorVars, part>>

Parts == {"lock", "sharing", "text", "previews", "caches", "tex", "wasm", "diff", "workspaces", "local",
          "language", "edits", "mirror"}

PartsInit ==
  /\ part \in Parts
  /\ Members!Init /\ Shared!Init /\ Previews!Init /\ Caches!Init /\ Tex!Init /\ Wasm!Init
  /\ Workspaces!Init /\ Local!Init /\ Language!Init /\ Mirrors!Init
  /\ Init /\ (part = "lock" \/ key = [c \in Calls |-> CHOOSE k \in Keys : TRUE])
  /\ IF part = "diff" THEN Diff!Init ELSE current = <<>> /\ target = <<>>
  /\ Edits!Init /\ (part = "edits" \/ base = <<>>)

OthersRest(p) ==
  /\ part = p /\ UNCHANGED part
  /\ IF p = "lock"       THEN TRUE ELSE UNCHANGED lockVars
  /\ IF p = "sharing"    THEN TRUE ELSE UNCHANGED sharingVars
  /\ IF p = "text"       THEN TRUE ELSE UNCHANGED textVars
  /\ IF p = "previews"   THEN TRUE ELSE UNCHANGED previewVars
  /\ IF p = "caches"     THEN TRUE ELSE UNCHANGED cacheVars
  /\ IF p = "tex"        THEN TRUE ELSE UNCHANGED texVars
  /\ IF p = "wasm"       THEN TRUE ELSE UNCHANGED wasmVars
  /\ IF p = "diff"       THEN TRUE ELSE UNCHANGED diffVars
  /\ IF p = "workspaces" THEN TRUE ELSE UNCHANGED workspaceVars
  /\ IF p = "local"      THEN TRUE ELSE UNCHANGED localVars
  /\ IF p = "language"   THEN TRUE ELSE UNCHANGED lspVars
  /\ IF p = "edits"      THEN TRUE ELSE UNCHANGED editVars
  /\ IF p = "mirror"     THEN TRUE ELSE UNCHANGED mirrorVars

PartsNext ==
  \/ OthersRest("lock") /\ Next
  \/ OthersRest("sharing") /\ Members!Next
  \/ OthersRest("text") /\ Shared!Next
  \/ OthersRest("previews") /\ Previews!Next
  \/ OthersRest("caches") /\ Caches!Next
  \/ OthersRest("tex") /\ Tex!Next
  \/ OthersRest("wasm") /\ Wasm!Next
  \/ OthersRest("diff") /\ Diff!Next
  \/ OthersRest("workspaces") /\ Workspaces!Next
  \/ OthersRest("local") /\ Local!Next
  \/ OthersRest("language") /\ Language!Next
  \/ OthersRest("edits") /\ Edits!Next
  \/ OthersRest("mirror") /\ Mirrors!Next

PartsSpec == PartsInit /\ [][PartsNext]_partsVars
================================================================================
