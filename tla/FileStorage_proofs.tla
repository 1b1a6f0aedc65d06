------------------------- MODULE FileStorage_proofs -------------------------
(***************************************************************************)
(* What the copies of a file keep, for any number of edits and requests    *)
(* and any number of loads, failures and crashes.  Two theorems hold under *)
(* conditions on what goes on at the same time; the runs of FileStorage    *)
(* show what happens without them.                                         *)
(***************************************************************************)
EXTENDS FileStorage, FiniteSetTheorems, TLAPS

\* The shared document is neither loaded nor unloaded during a request.
LoadsWait == Operations \cap LoadsDuring = {}

\* An autosave sends the text of the moment it began: nothing else may
\* change the document meanwhile.
AutosaveAlone ==
    "autosave" \in Operations => MaxInFlight = 1 /\ "autosave" \notin EditsDuring

\* One request at a time; editors type only during a save or a decision on a
\* suggestion; a drive write fails or the server stops only where all
\* requests are saves; no tool of the editor writes a file that only others
\* have open.
OneAtATime ==
    /\ MaxInFlight = 1
    /\ LoadsWait
    /\ Operations \cap EditsDuring \subseteq {"save", "suggestion"}
    /\ FaultsDuring \cap Operations \subseteq {"save"}
    /\ "saveElsewhere" \notin Operations

-----------------------------------------------------------------------------
\* An open document without a scheduled store is what its running store
\* writes, and, from the moment that one has written it, the collaboration
\* state.
DocumentStored ==
    /\ phase # "open" => ~ dirty /\ storing = "none"
    /\ phase = "open" => collab # NoText /\ loads > 0
    /\ phase = "open" /\ ~ dirty => /\ storing # "collab" => collab = live
                                    /\ storing # "none" => storeText = live

\* A request under way knows whether the document is open.
KnowsPhase(r) ==
    /\ request[r].op \in Operations
    /\ phase \in {"closed", "open"}
    /\ request[r].doc = IF phase = "open" THEN loads ELSE 0
    /\ phase = "open" =>
          CASE request[r].op \in {"save", "saveElsewhere"} -> request[r].at = "openCheck"
            [] request[r].op = "suggestion" -> request[r].at = "decided"
            [] request[r].op = "ai" -> request[r].at = "model"
            [] OTHER -> request[r].at \in {"backup", "disk", "collab"}
    /\ phase = "closed" => request[r].at # "decided"
    /\ request[r].at = "backup" => request[r].op = "restore"
    /\ request[r].op = "autosave" =>
          phase = "open" /\ storing = "none" /\ request[r].new = live

RequestsKnowPhase == \A r \in InFlight : KnowsPhase(r)

Alone == \A r, s \in InFlight : r = s

StoreInv ==
    /\ TypeOK
    /\ DocumentStored
    /\ RequestsKnowPhase
    /\ MaxInFlight = 1 => Alone

-----------------------------------------------------------------------------
\* Everything there is was typed or sent by someone.
OnlyUsed ==
    /\ live \subseteq used /\ storeText \subseteq used /\ disk \subseteq used /\ Stored \subseteq used
    /\ durable \subseteq used
    /\ \A t \in revisions : t \subseteq used
    /\ \A r \in Requests : request[r].new \subseteq used /\ request[r].edit \subseteq used

\* What the file must hold.
Kept == accepted \ removed

\* The text a request is about to write holds it as well, and its own edit.
Keeps(r) ==
    LET q == request[r] IN
    /\ q.at \in {"read", "model", "disk", "collab"} \/ (q.at = "openCheck" /\ phase = "closed")
          => Kept \subseteq q.new /\ q.edit \subseteq q.new
    /\ q.at = "openCheck" /\ phase = "open" => q.edit = {}
    /\ q.at = "decided" => q.edit \subseteq live
    /\ q.at = "backup" => storing = "none" /\ q.edit = {} /\ Current \in revisions
    /\ phase = "open" /\ q.at \in {"disk", "collab"} => storing = "none" /\ q.new = live
    /\ q.at = "collab" => disk = q.new

RequestsKeep == \A r \in InFlight : Keeps(r)

\* The drive copy is the file's text, up to a store or a request under way.
DriveFollows ==
    /\ ~ Faulty /\ ~ dirty /\ storing = "none" /\ (\A r \in InFlight : request[r].at \notin {"disk", "collab"})
          => disk = Current
    /\ phase = "seeding" => storeText = disk /\ collab = NoText
    /\ Faulty => FaultsMayCome

\* What was stored or answered survives a crash, where one may come.
DurableKept ==
    FaultsMayCome =>
        /\ Kept \cap durable \subseteq Stored
        /\ storing = "collab" => Kept \cap durable \subseteq storeText

KeptInv ==
    /\ StoreInv
    /\ OnlyUsed
    /\ NothingLost
    /\ RequestsKeep
    /\ DriveFollows
    /\ DurableKept
    /\ BackupComplete

-----------------------------------------------------------------------------
(* The records of the requests. *)

Awaits == {"none", "openCheck", "backup", "read", "model", "disk", "collab", "decided", "done"}
RequestType ==
    [op : AllOperations \cup {"none"}, at : Awaits, new : Texts, edit : Texts, doc : Nat]

\* A step of request r changes its await and nothing else of the requests.
LEMMA GoFacts ==
    ASSUME TypeOK, NEW r \in Requests, NEW at \in Awaits \ {"none"}, Go(r, at)
    PROVE  /\ request' \in [Requests -> RequestType]
           /\ \A s \in Requests : s # r => request'[s] = request[s]
           /\ request'[r].at = at /\ request'[r].op = request[r].op
           /\ request'[r].new = request[r].new /\ request'[r].edit = request[r].edit
           /\ request'[r].doc = request[r].doc
           /\ InFlight' = IF at = "done" THEN InFlight \ {r} ELSE InFlight \cup {r}
<1>1. request \in [Requests -> RequestType]
  BY DEF TypeOK, RequestType, Awaits
<1>2. request' = [request EXCEPT ![r].at = at]
  BY DEF Go
<1>3. request'[r] \in RequestType /\ request'[r] = [request[r] EXCEPT !.at = at]
  BY <1>1, <1>2 DEF RequestType
<1>4. \A s \in Requests : s # r => request'[s] = request[s]
  BY <1>1, <1>2
<1>5. /\ request'[r].at = at /\ request'[r].op = request[r].op
      /\ request'[r].new = request[r].new /\ request'[r].edit = request[r].edit
      /\ request'[r].doc = request[r].doc
  BY <1>1, <1>3 DEF RequestType
<1>6. request' \in [Requests -> RequestType]
  BY <1>1, <1>2, <1>3, <1>4
<1>7. InFlight' = IF at = "done" THEN InFlight \ {r} ELSE InFlight \cup {r}
  BY <1>4, <1>5 DEF InFlight, Awaits
<1> QED
  BY <1>4, <1>5, <1>6, <1>7

\* The same for the steps that also note whether the document is open.
LEMMA ReplaceFacts ==
    ASSUME TypeOK, NEW r \in Requests,
           request' = [request EXCEPT ![r].at = "disk", ![r].doc = IF phase = "open" THEN loads ELSE 0]
    PROVE  /\ request' \in [Requests -> RequestType]
           /\ \A s \in Requests : s # r => request'[s] = request[s]
           /\ request'[r].at = "disk" /\ request'[r].op = request[r].op
           /\ request'[r].new = request[r].new /\ request'[r].edit = request[r].edit
           /\ request'[r].doc = IF phase = "open" THEN loads ELSE 0
           /\ InFlight' = InFlight \cup {r}
<1> DEFINE doc == IF phase = "open" THEN loads ELSE 0
<1>1. request \in [Requests -> RequestType] /\ doc \in Nat
  BY DEF TypeOK, RequestType, Awaits
<1>3. request'[r] \in RequestType /\ request'[r] = [request[r] EXCEPT !.at = "disk", !.doc = doc]
  BY <1>1 DEF RequestType, Awaits
<1>4. \A s \in Requests : s # r => request'[s] = request[s]
  BY <1>1
<1>5. /\ request'[r].at = "disk" /\ request'[r].op = request[r].op
      /\ request'[r].new = request[r].new /\ request'[r].edit = request[r].edit
      /\ request'[r].doc = IF phase = "open" THEN loads ELSE 0
  BY <1>1, <1>3 DEF RequestType
<1>6. request' \in [Requests -> RequestType]
  BY <1>1, <1>3, <1>4
<1>7. InFlight' = InFlight \cup {r}
  BY <1>4, <1>5 DEF InFlight, Awaits
<1> QED
  BY <1>4, <1>5, <1>6, <1>7

\* A request that begins is a new one, alone if only one may be under way.
LEMMA BeginFacts ==
    ASSUME TypeOK, NEW r \in Requests, NEW op \in AllOperations, NEW new \in Texts, NEW edit \in Texts,
           NEW at \in Awaits \ {"none", "done"}, Begin(r, op, new, edit, at)
    PROVE  /\ request' \in [Requests -> RequestType]
           /\ request[r].op = "none" /\ r \notin InFlight
           /\ \A s \in Requests : s # r => request'[s] = request[s]
           /\ request'[r].at = at /\ request'[r].op = op
           /\ request'[r].new = new /\ request'[r].edit = edit
           /\ request'[r].doc = IF phase = "open" THEN loads ELSE 0
           /\ InFlight' = InFlight \cup {r}
           /\ MaxInFlight = 1 /\ Alone => InFlight = {}
<1>1. request \in [Requests -> RequestType] /\ loads \in Nat
  BY DEF TypeOK, RequestType, Awaits
<1> DEFINE doc == IF phase = "open" THEN loads ELSE 0
           q == [op |-> op, at |-> at, new |-> new, edit |-> edit, doc |-> doc]
<1>2. request' = [request EXCEPT ![r] = q] /\ request[r] = NoRequest /\ Cardinality(InFlight) < MaxInFlight
  BY DEF Begin
<1>3. q \in RequestType
  BY <1>1 DEF RequestType
<1>4. request'[r] = q /\ \A s \in Requests : s # r => request'[s] = request[s]
  BY <1>1, <1>2
<1>5. request' \in [Requests -> RequestType]
  BY <1>1, <1>2, <1>3
<1>6. InFlight' = InFlight \cup {r} /\ r \notin InFlight /\ request[r].op = "none"
  BY <1>2, <1>4 DEF InFlight, NoRequest, Awaits
<1>7. ASSUME MaxInFlight = 1, Alone, InFlight # {}
      PROVE  FALSE
  <2>1. PICK s \in InFlight : TRUE
    BY <1>7
  <2>2. InFlight = {s}
    BY <1>7, <2>1 DEF Alone
  <2>3. Cardinality(InFlight) = 1
    BY <2>2, FS_Singleton
  <2> QED
    BY <1>2, <1>7, <2>3
<1> QED
  BY <1>4, <1>5, <1>6, <1>7

\* Nothing is under way after a crash, and no request was made by it.
LEMMA CrashFacts ==
    ASSUME TypeOK, Crash
    PROVE  /\ request' \in [Requests -> RequestType]
           /\ \A s \in Requests :
                 /\ request'[s].op = request[s].op /\ request'[s].new = request[s].new
                 /\ request'[s].edit = request[s].edit
           /\ InFlight' = {}
<1>1. request \in [Requests -> RequestType]
  BY DEF TypeOK, RequestType, Awaits
<1>2. request' = [r \in Requests |->
          IF r \in InFlight THEN [request[r] EXCEPT !.at = "done"] ELSE request[r]]
  BY DEF Crash
<1>3. ASSUME NEW s \in Requests
      PROVE  /\ request'[s] \in RequestType
             /\ request'[s].op = request[s].op /\ request'[s].new = request[s].new
             /\ request'[s].edit = request[s].edit
             /\ request'[s].at \in {"none", "done"}
  <2>1. CASE s \in InFlight
    BY <1>1, <1>2, <2>1 DEF RequestType, Awaits
  <2>2. CASE s \notin InFlight
    BY <1>1, <1>2, <2>2 DEF RequestType, InFlight
  <2> QED
    BY <2>1, <2>2
<1>4. InFlight' = {}
  BY <1>3 DEF InFlight
<1> QED
  BY <1>2, <1>3, <1>4

-----------------------------------------------------------------------------
(* Types. *)

\* What a request reads and writes are texts.
LEMMA TextFacts ==
    ASSUME TypeOK
    PROVE  /\ Stored \in Texts /\ Current \in Texts /\ {} \in Texts
           /\ \A e \in Edits : {e} \in Texts
           /\ \A t, u \in Texts : t \cup u \in Texts /\ t \cap u \in Texts /\ t \ u \in Texts
<1>1. Stored \in Texts
  BY DEF TypeOK, Stored
<1>2. Current \in Texts
  BY <1>1 DEF TypeOK, Current
<1> QED
  BY <1>1, <1>2 DEF Texts

LEMMA InitTypes == Init => TypeOK
<1> SUFFICES ASSUME Init PROVE TypeOK
  OBVIOUS
<1>1. request \in [Requests -> RequestType]
  BY DEF Init, NoRequest, RequestType, Awaits, Texts
<1>2. connected \in BOOLEAN /\ dirty \in BOOLEAN
  BY DEF Init
<1>3. /\ phase \in {"closed", "loading", "seeding", "open"}
      /\ live \in Texts /\ storeText \in Texts /\ disk \in Texts /\ collab \in Texts \cup {NoText}
      /\ storing \in {"none", "collab", "disk"}
      /\ revisions \subseteq Texts
      /\ used \in Texts /\ accepted \in Texts /\ removed \in Texts
      /\ restoredOver \in Texts /\ durable \in Texts
      /\ loads \in Nat /\ failures \in Nat /\ crashes \in Nat
  BY DEF Init, Texts
<1> QED
  BY <1>1, <1>2, <1>3 DEF TypeOK, RequestType, Awaits

\* The types of all but the requests.
DocumentTypes ==
    /\ phase \in {"closed", "loading", "seeding", "open"}
    /\ live \in Texts /\ storeText \in Texts /\ loads \in Nat
    /\ connected \in BOOLEAN /\ dirty \in BOOLEAN
    /\ storing \in {"none", "collab", "disk"}

CopyTypes ==
    /\ disk \in Texts /\ collab \in Texts \cup {NoText} /\ revisions \subseteq Texts
    /\ failures \in Nat /\ crashes \in Nat

GhostTypes ==
    /\ used \in Texts /\ accepted \in Texts /\ removed \in Texts
    /\ restoredOver \in Texts /\ durable \in Texts

LEMMA TypeParts ==
    TypeOK <=> DocumentTypes /\ CopyTypes /\ GhostTypes /\ request \in [Requests -> RequestType]
BY DEF TypeOK, DocumentTypes, CopyTypes, GhostTypes, RequestType, Awaits

LEMMA TypeStep == TypeOK /\ [Next]_vars => TypeOK'
<1> SUFFICES ASSUME TypeOK, [Next]_vars PROVE TypeOK'
  OBVIOUS
<1>0. DocumentTypes' /\ CopyTypes' /\ GhostTypes' /\ request' \in [Requests -> RequestType] => TypeOK'
  BY DEF TypeOK, DocumentTypes, CopyTypes, GhostTypes, RequestType, Awaits
<1> USE DEF docVars, copyVars, ghostVars, boundVars
<1>1. CASE Connect
  <2>1. request' \in [Requests -> RequestType]
    BY <1>1, TypeParts DEF Connect
  <2>2. DocumentTypes'
    BY <1>1, TextFacts DEF Connect, TypeOK, DocumentTypes
  <2>3. CopyTypes' /\ GhostTypes'
    BY <1>1, TextFacts DEF Connect, TypeOK, CopyTypes, GhostTypes
  <2> QED
    BY <2>1, <2>2, <2>3, <1>0
<1>2. CASE LoadState
  <2>1. request' \in [Requests -> RequestType]
    BY <1>2, TypeParts DEF LoadState, Opened
  <2>2. DocumentTypes'
    BY <1>2, TextFacts DEF LoadState, Opened, TypeOK, DocumentTypes
  <2>3. CopyTypes' /\ GhostTypes'
    BY <1>2, TextFacts DEF LoadState, Opened, TypeOK, CopyTypes, GhostTypes
  <2> QED
    BY <2>1, <2>2, <2>3, <1>0
<1>3. CASE LoadDisk
  <2>1. request' \in [Requests -> RequestType]
    BY <1>3, TypeParts DEF LoadDisk
  <2>2. DocumentTypes'
    BY <1>3, TextFacts DEF LoadDisk, TypeOK, DocumentTypes
  <2>3. CopyTypes' /\ GhostTypes'
    BY <1>3, TextFacts DEF LoadDisk, TypeOK, CopyTypes, GhostTypes
  <2> QED
    BY <2>1, <2>2, <2>3, <1>0
<1>4. CASE LoadSeed
  <2>1. request' \in [Requests -> RequestType]
    BY <1>4, TypeParts DEF LoadSeed, Opened
  <2>2. DocumentTypes'
    BY <1>4, TextFacts DEF LoadSeed, Opened, TypeOK, DocumentTypes
  <2>3. CopyTypes' /\ GhostTypes'
    BY <1>4, TextFacts DEF LoadSeed, Opened, TypeOK, CopyTypes, GhostTypes
  <2> QED
    BY <2>1, <2>2, <2>3, <1>0
<1>5. CASE Disconnect
  <2>1. request' \in [Requests -> RequestType]
    BY <1>5, TypeParts DEF Disconnect
  <2>2. DocumentTypes'
    BY <1>5, TextFacts DEF Disconnect, TypeOK, DocumentTypes
  <2>3. CopyTypes' /\ GhostTypes'
    BY <1>5, TextFacts DEF Disconnect, TypeOK, CopyTypes, GhostTypes
  <2> QED
    BY <2>1, <2>2, <2>3, <1>0
<1>6. CASE Unload
  <2>1. request' \in [Requests -> RequestType]
    BY <1>6, TypeParts DEF Unload
  <2>2. DocumentTypes'
    BY <1>6, TextFacts DEF Unload, TypeOK, DocumentTypes
  <2>3. CopyTypes' /\ GhostTypes'
    BY <1>6, TextFacts DEF Unload, TypeOK, CopyTypes, GhostTypes
  <2> QED
    BY <2>1, <2>2, <2>3, <1>0
<1>7. CASE StoreBegin
  <2>1. request' \in [Requests -> RequestType]
    BY <1>7, TypeParts DEF StoreBegin
  <2>2. DocumentTypes'
    BY <1>7, TextFacts DEF StoreBegin, TypeOK, DocumentTypes
  <2>3. CopyTypes' /\ GhostTypes'
    BY <1>7, TextFacts DEF StoreBegin, TypeOK, CopyTypes, GhostTypes
  <2> QED
    BY <2>1, <2>2, <2>3, <1>0
<1>8. CASE StoreCollab
  <2>1. request' \in [Requests -> RequestType]
    BY <1>8, TypeParts DEF StoreCollab
  <2>2. DocumentTypes'
    BY <1>8, TextFacts DEF StoreCollab, TypeOK, DocumentTypes
  <2>3. CopyTypes' /\ GhostTypes'
    BY <1>8, TextFacts DEF StoreCollab, TypeOK, CopyTypes, GhostTypes
  <2> QED
    BY <2>1, <2>2, <2>3, <1>0
<1>9. CASE StoreDisk
  <2>1. request' \in [Requests -> RequestType]
    BY <1>9, TypeParts DEF StoreDisk
  <2>2. DocumentTypes'
    BY <1>9, TextFacts DEF StoreDisk, TypeOK, DocumentTypes
  <2>3. CopyTypes' /\ GhostTypes'
    BY <1>9, TextFacts DEF StoreDisk, TypeOK, CopyTypes, GhostTypes
  <2> QED
    BY <2>1, <2>2, <2>3, <1>0
<1>10. CASE StoreFail
  <2>1. request' \in [Requests -> RequestType]
    BY <1>10, TypeParts DEF StoreFail
  <2>2. DocumentTypes'
    BY <1>10, TextFacts DEF StoreFail, TypeOK, DocumentTypes
  <2>3. CopyTypes' /\ GhostTypes'
    BY <1>10, TextFacts DEF StoreFail, TypeOK, CopyTypes, GhostTypes
  <2> QED
    BY <2>1, <2>2, <2>3, <1>0
<1>11. CASE Crash
  <2>1. request' \in [Requests -> RequestType]
    BY <1>11, TypeParts, CrashFacts DEF Crash
  <2>2. DocumentTypes'
    BY <1>11, TextFacts DEF Crash, TypeOK, DocumentTypes
  <2>3. CopyTypes'
    BY <1>11 DEF Crash, TypeOK, CopyTypes
  <2>4. GhostTypes'
    <3>1. UNCHANGED <<used, removed, restoredOver, durable>> /\ accepted' = accepted \cap durable
      BY <1>11 DEF Crash
    <3> QED
      BY <3>1, TextFacts DEF TypeOK, GhostTypes
  <2> QED
    BY <2>1, <2>2, <2>3, <2>4, <1>0
<1>12. CASE \E e \in Edits : Type(e)
  <2>0. PICK e \in Edits : Type(e)
    BY <1>12
  <2>1. request' \in [Requests -> RequestType]
    BY <2>0, TypeParts DEF Type
  <2>2. DocumentTypes'
    BY <2>0, TextFacts DEF Type, TypeOK, DocumentTypes
  <2>3. CopyTypes' /\ GhostTypes'
    BY <2>0, TextFacts DEF Type, TypeOK, CopyTypes, GhostTypes
  <2> QED
    BY <2>1, <2>2, <2>3, <1>0
<1>13. ASSUME NEW r \in Requests, NEW e \in Edits, Save(r, e) PROVE TypeOK'
  <2>0. Current \cup (IF phase = "open" THEN {} ELSE {e}) \in Texts /\ (IF phase = "open" THEN {} ELSE {e}) \in Texts
    BY TextFacts DEF TypeOK
  <2>1. Begin(r, "save", Current \cup (IF phase = "open" THEN {} ELSE {e}), (IF phase = "open" THEN {} ELSE {e}), "openCheck")
    BY <1>13 DEF Save
  <2>2. request' \in [Requests -> RequestType]
    BY <2>0, <2>1, BeginFacts DEF AllOperations, Awaits
  <2>3. used' \in Texts
    BY <2>0, <2>1, TextFacts DEF Begin, TypeOK
  <2>4. DocumentTypes'
    BY <2>0, <1>13, TextFacts DEF Save, TypeOK, DocumentTypes
  <2>5. CopyTypes' /\ GhostTypes'
    BY <2>0, <2>3, <1>13, TextFacts DEF Save, TypeOK, CopyTypes, GhostTypes
  <2> QED
    BY <2>2, <2>4, <2>5, <1>0
<1>14. ASSUME NEW r \in Requests, NEW e \in Edits, SaveElsewhere(r, e) PROVE TypeOK'
  <2>0. live \cup {e} \in Texts /\ {e} \in Texts
    BY TextFacts DEF TypeOK
  <2>1. Begin(r, "saveElsewhere", live \cup {e}, {e}, "openCheck")
    BY <1>14 DEF SaveElsewhere
  <2>2. request' \in [Requests -> RequestType]
    BY <2>0, <2>1, BeginFacts DEF AllOperations, Awaits
  <2>3. used' \in Texts
    BY <2>0, <2>1, TextFacts DEF Begin, TypeOK
  <2>4. DocumentTypes'
    BY <2>0, <1>14, TextFacts DEF SaveElsewhere, TypeOK, DocumentTypes
  <2>5. CopyTypes' /\ GhostTypes'
    BY <2>0, <2>3, <1>14, TextFacts DEF SaveElsewhere, TypeOK, CopyTypes, GhostTypes
  <2> QED
    BY <2>2, <2>4, <2>5, <1>0
<1>15. ASSUME NEW r \in Requests, Autosave(r) PROVE TypeOK'
  <2>0. live \in Texts /\ {} \in Texts
    BY TextFacts DEF TypeOK
  <2>1. Begin(r, "autosave", live, {}, "disk")
    BY <1>15 DEF Autosave
  <2>2. request' \in [Requests -> RequestType]
    BY <2>0, <2>1, BeginFacts DEF AllOperations, Awaits
  <2>3. used' \in Texts
    BY <2>0, <2>1, TextFacts DEF Begin, TypeOK
  <2>4. DocumentTypes'
    BY <2>0, <1>15, TextFacts DEF Autosave, TypeOK, DocumentTypes
  <2>5. CopyTypes' /\ GhostTypes'
    BY <2>0, <2>3, <1>15, TextFacts DEF Autosave, TypeOK, CopyTypes, GhostTypes
  <2> QED
    BY <2>2, <2>4, <2>5, <1>0
<1>16. ASSUME NEW r \in Requests, NEW e \in Edits, SuggestionOpen(r, e) PROVE TypeOK'
  <2>0. {} \in Texts /\ {e} \in Texts
    BY TextFacts DEF TypeOK
  <2>1. Begin(r, "suggestion", {}, {e}, "decided")
    BY <1>16 DEF SuggestionOpen
  <2>2. request' \in [Requests -> RequestType]
    BY <2>0, <2>1, BeginFacts DEF AllOperations, Awaits
  <2>3. used' \in Texts
    BY <2>0, <2>1, TextFacts DEF Begin, TypeOK
  <2>4. DocumentTypes'
    BY <2>0, <1>16, TextFacts DEF SuggestionOpen, Transact, TypeOK, DocumentTypes
  <2>5. CopyTypes' /\ GhostTypes'
    BY <2>0, <2>3, <1>16, TextFacts DEF SuggestionOpen, Transact, TypeOK, CopyTypes, GhostTypes
  <2> QED
    BY <2>2, <2>4, <2>5, <1>0
<1>17. ASSUME NEW r \in Requests, NEW e \in Edits, SuggestionClosed(r, e) PROVE TypeOK'
  <2>0. disk \cup {e} \in Texts /\ {e} \in Texts
    BY TextFacts DEF TypeOK
  <2>1. Begin(r, "suggestion", disk \cup {e}, {e}, "read")
    BY <1>17 DEF SuggestionClosed
  <2>2. request' \in [Requests -> RequestType]
    BY <2>0, <2>1, BeginFacts DEF AllOperations, Awaits
  <2>3. used' \in Texts
    BY <2>0, <2>1, TextFacts DEF Begin, TypeOK
  <2>4. DocumentTypes'
    BY <2>0, <1>17, TextFacts DEF SuggestionClosed, TypeOK, DocumentTypes
  <2>5. CopyTypes' /\ GhostTypes'
    BY <2>0, <2>3, <1>17, TextFacts DEF SuggestionClosed, TypeOK, CopyTypes, GhostTypes
  <2> QED
    BY <2>2, <2>4, <2>5, <1>0
<1>18. ASSUME NEW r \in Requests, NEW e \in Edits, Ai(r, e) PROVE TypeOK'
  <2>0. Current \cup {e} \in Texts /\ {e} \in Texts
    BY TextFacts DEF TypeOK
  <2>1. Begin(r, "ai", Current \cup {e}, {e}, "model")
    BY <1>18 DEF Ai
  <2>2. request' \in [Requests -> RequestType]
    BY <2>0, <2>1, BeginFacts DEF AllOperations, Awaits
  <2>3. used' \in Texts
    BY <2>0, <2>1, TextFacts DEF Begin, TypeOK
  <2>4. DocumentTypes'
    BY <2>0, <1>18, TextFacts DEF Ai, TypeOK, DocumentTypes
  <2>5. CopyTypes' /\ GhostTypes'
    BY <2>0, <2>3, <1>18, TextFacts DEF Ai, TypeOK, CopyTypes, GhostTypes
  <2> QED
    BY <2>2, <2>4, <2>5, <1>0
<1>19. ASSUME NEW r \in Requests, NEW e \in Edits, Content(r, e) PROVE TypeOK'
  <2>0. PICK keep \in {Current, {}} :
              /\ Begin(r, "content", keep \cup {e}, {e}, "disk")
              /\ ReplaceOpen(r, keep \cup {e})
              /\ removed' = removed \cup (Current \ keep)
              /\ UNCHANGED <<accepted, restoredOver, durable>>
    BY <1>19 DEF Content
  <2>1. keep \cup {e} \in Texts /\ {e} \in Texts /\ Current \ keep \in Texts
    BY TextFacts DEF TypeOK
  <2>2. request' \in [Requests -> RequestType]
    BY <2>0, <2>1, BeginFacts DEF AllOperations, Awaits
  <2>3. used' \in Texts
    BY <2>0, <2>1, TextFacts DEF Begin, TypeOK
  <2>4. DocumentTypes'
    BY <2>0, <2>1 DEF ReplaceOpen, Transact, TypeOK, DocumentTypes
  <2>5. CopyTypes' /\ GhostTypes'
    BY <2>0, <2>1, <2>3, TextFacts DEF ReplaceOpen, TypeOK, CopyTypes, GhostTypes
  <2> QED
    BY <2>2, <2>4, <2>5, <1>0
<1>20. ASSUME NEW r \in Requests, Restore(r) PROVE TypeOK'
  <2>0. PICK t \in revisions : Begin(r, "restore", t, {}, "backup")
    BY <1>20 DEF Restore
  <2>1. t \in Texts /\ {} \in Texts
    BY TextFacts DEF TypeOK
  <2>2. request' \in [Requests -> RequestType]
    BY <2>0, <2>1, BeginFacts DEF AllOperations, Awaits
  <2>3. used' \in Texts
    BY <2>0, <2>1, TextFacts DEF Begin, TypeOK
  <2>4. DocumentTypes'
    BY <1>20 DEF Restore, TypeOK, DocumentTypes
  <2>5. CopyTypes' /\ GhostTypes'
    BY <2>3, <1>20, TextFacts DEF Restore, TypeOK, CopyTypes, GhostTypes
  <2> QED
    BY <2>2, <2>4, <2>5, <1>0
<1>21. ASSUME NEW r \in Requests, RestoreReplace(r) \/ SuggestionReplace(r) PROVE TypeOK'
  <2>1. request[r].new \in Texts /\ Current \ request[r].new \in Texts
    BY TextFacts DEF TypeOK
  <2>2. request' \in [Requests -> RequestType]
    BY <1>21, ReplaceFacts DEF RestoreReplace, SuggestionReplace
  <2>3. DocumentTypes'
    BY <1>21, <2>1
       DEF RestoreReplace, SuggestionReplace, ReplaceOpen, Transact, TypeOK, DocumentTypes
  <2>4. CopyTypes' /\ GhostTypes'
    BY <1>21, <2>1, TextFacts
       DEF RestoreReplace, SuggestionReplace, ReplaceOpen, TypeOK, CopyTypes, GhostTypes
  <2> QED
    BY <2>2, <2>3, <2>4, <1>0
<1>22. ASSUME NEW r \in Requests, SaveOpen(r) \/ SuggestionDecided(r) \/ AiOpen(r) PROVE TypeOK'
  <2>1. Done(r, {}) /\ UNCHANGED <<copyVars, boundVars>> /\ {} \in Texts
    BY <1>22, TextFacts DEF SaveOpen, SuggestionDecided, AiOpen
  <2>2. request[r].new \in Texts /\ request[r].edit \in Texts
    BY DEF TypeOK
  <2>3. request' \in [Requests -> RequestType]
    BY <2>1, GoFacts DEF Done, Awaits
  <2>4. DocumentTypes'
    BY <1>22, <2>2 DEF SaveOpen, SuggestionDecided, AiOpen, Transact, TypeOK, DocumentTypes
  <2>5. CopyTypes' /\ GhostTypes'
    BY <2>1, <2>2, TextFacts DEF Done, TypeOK, CopyTypes, GhostTypes
  <2> QED
    BY <2>3, <2>4, <2>5, <1>0
<1>23. ASSUME NEW r \in Requests, SaveClosed(r) \/ AiClosed(r) \/ WriteDisk(r) PROVE TypeOK'
  <2>1. request[r].new \in Texts
    BY DEF TypeOK
  <2>2. request' \in [Requests -> RequestType]
    BY <1>23, GoFacts DEF SaveClosed, AiClosed, WriteDisk, Awaits
  <2>3. DocumentTypes' /\ CopyTypes' /\ GhostTypes'
    BY <1>23, <2>1 DEF SaveClosed, AiClosed, WriteDisk, TypeOK, DocumentTypes, CopyTypes, GhostTypes
  <2> QED
    BY <2>2, <2>3, <1>0
<1>24. ASSUME NEW r \in Requests, WriteCollab(r) PROVE TypeOK'
  <2>1. request[r].new \in Texts /\ request[r].edit \in Texts
    BY DEF TypeOK
  <2>2. /\ Done(r, {}) \/ Done(r, request[r].new)
        /\ collab' = collab \/ collab' = request[r].new
        /\ UNCHANGED <<docVars, disk, revisions, boundVars>>
    BY <1>24 DEF WriteCollab
  <2>3. GhostTypes' /\ request' \in [Requests -> RequestType]
    <3>1. CASE Done(r, {})
      BY <2>1, <3>1, GoFacts, TextFacts DEF Done, Awaits, TypeOK, GhostTypes
    <3>2. CASE Done(r, request[r].new)
      BY <2>1, <3>2, GoFacts, TextFacts DEF Done, Awaits, TypeOK, GhostTypes
    <3> QED
      BY <2>2, <3>1, <3>2
  <2>4. DocumentTypes' /\ CopyTypes'
    BY <2>1, <2>2 DEF TypeOK, DocumentTypes, CopyTypes
  <2> QED
    BY <2>3, <2>4, <1>0
<1>25. CASE UNCHANGED vars
  BY <1>25, <1>0, TypeParts DEF vars, DocumentTypes, CopyTypes, GhostTypes
<1> QED
  BY <1>1, <1>2, <1>3, <1>4, <1>5, <1>6, <1>7, <1>8, <1>9, <1>10, <1>11, <1>12, <1>13, <1>14,
     <1>15, <1>16, <1>17, <1>18, <1>19, <1>20, <1>21, <1>22, <1>23, <1>24, <1>25
     DEF Next, Load, Store, Step

\* Whatever the conditions, the file's copies, the requests and the record
\* of its edits stay what they are declared as.
THEOREM Types == Spec => []TypeOK
BY InitTypes, TypeStep, PTL DEF Spec

-----------------------------------------------------------------------------
(* An open document at rest is what the database holds. *)

\* While the document is loaded or unloaded no request is under way; while
\* it is typed into or stored no autosave is.
LEMMA WhoMoves ==
    ASSUME StoreInv, LoadsWait, AutosaveAlone
    PROVE  /\ LoadsMayMove => InFlight = {}
           /\ EditsMayMove => \A r \in InFlight : request[r].op # "autosave"
           /\ phase \notin {"closed", "open"} => InFlight = {}
BY DEF StoreInv, RequestsKnowPhase, KnowsPhase, LoadsWait, AutosaveAlone, LoadsMayMove, EditsMayMove

\* A step of one request tells the others nothing new.
LEMMA OthersKnow ==
    ASSUME StoreInv, AutosaveAlone, NEW r \in Requests,
           \A s \in Requests : s # r => request'[s] = request[s],
           InFlight' \subseteq InFlight \cup {r},
           r \in InFlight \/ (MaxInFlight = 1 => InFlight = {}),
           phase' = phase, loads' = loads
    PROVE  /\ \A s \in InFlight' : s # r => KnowsPhase(s)'
           /\ MaxInFlight = 1 => Alone'
<1>1. MaxInFlight = 1 => InFlight' \subseteq {r}
  BY DEF StoreInv, Alone
<1>2. MaxInFlight = 1 => Alone'
  BY <1>1 DEF Alone
<1>3. ASSUME NEW s \in InFlight', s # r PROVE KnowsPhase(s)'
  <2>1. s \in InFlight /\ s \in Requests /\ request'[s] = request[s]
    BY <1>3 DEF InFlight
  <2>2. KnowsPhase(s)
    BY <2>1 DEF StoreInv, RequestsKnowPhase
  <2>3. request[s].op # "autosave"
    BY <1>1, <1>3, <2>2 DEF AutosaveAlone, KnowsPhase
  <2> QED
    BY <2>1, <2>2, <2>3 DEF KnowsPhase
<1> QED
  BY <1>2, <1>3

LEMMA InitStore == Init => StoreInv
<1> SUFFICES ASSUME Init PROVE StoreInv
  OBVIOUS
<1>1. InFlight = {}
  BY DEF Init, InFlight, NoRequest
<1> QED
  BY <1>1, InitTypes DEF Init, StoreInv, DocumentStored, RequestsKnowPhase, Alone

LEMMA StoreStep ==
    ASSUME LoadsWait, AutosaveAlone, StoreInv, [Next]_vars
    PROVE  StoreInv'
<1>a. TypeOK /\ TypeOK'
  BY TypeStep DEF StoreInv
<1>b. TypeOK' /\ DocumentStored' /\ RequestsKnowPhase' /\ (MaxInFlight = 1 => Alone') => StoreInv'
  BY DEF StoreInv
<1>c. DocumentStored /\ RequestsKnowPhase /\ (MaxInFlight = 1 => Alone)
  BY DEF StoreInv
<1> USE DEF docVars, copyVars, ghostVars, boundVars
<1>1. CASE Connect
  <2>1. InFlight = {} /\ InFlight' = {}
    BY <1>1, WhoMoves DEF Connect, InFlight
  <2>2. DocumentStored'
    BY <1>1, <1>a, <1>c, FileStorageAssumption DEF Connect, DocumentStored, TypeOK, Texts
  <2> QED
    BY <2>1, <2>2, <1>a, <1>b DEF RequestsKnowPhase, Alone
<1>2. CASE LoadState
  <2>1. InFlight = {} /\ InFlight' = {}
    BY <1>2, WhoMoves DEF LoadState, Opened, InFlight
  <2>2. DocumentStored'
    BY <1>2, <1>a, <1>c, FileStorageAssumption DEF LoadState, Opened, DocumentStored, TypeOK, Texts
  <2> QED
    BY <2>1, <2>2, <1>a, <1>b DEF RequestsKnowPhase, Alone
<1>3. CASE LoadDisk
  <2>1. InFlight = {} /\ InFlight' = {}
    BY <1>3, WhoMoves DEF LoadDisk, InFlight
  <2>2. DocumentStored'
    BY <1>3, <1>a, <1>c, FileStorageAssumption DEF LoadDisk, DocumentStored, TypeOK, Texts
  <2> QED
    BY <2>1, <2>2, <1>a, <1>b DEF RequestsKnowPhase, Alone
<1>4. CASE LoadSeed
  <2>1. InFlight = {} /\ InFlight' = {}
    BY <1>4, WhoMoves DEF LoadSeed, Opened, InFlight
  <2>2. DocumentStored'
    BY <1>4, <1>a, <1>c, FileStorageAssumption DEF LoadSeed, Opened, DocumentStored, TypeOK, Texts
  <2> QED
    BY <2>1, <2>2, <1>a, <1>b DEF RequestsKnowPhase, Alone
<1>5. CASE Disconnect
  <2>1. InFlight = {} /\ InFlight' = {}
    BY <1>5, WhoMoves DEF Disconnect, InFlight
  <2>2. DocumentStored'
    BY <1>5, <1>a, <1>c, FileStorageAssumption DEF Disconnect, DocumentStored, TypeOK, Texts
  <2> QED
    BY <2>1, <2>2, <1>a, <1>b DEF RequestsKnowPhase, Alone
<1>6. CASE Unload
  <2>1. InFlight = {} /\ InFlight' = {}
    BY <1>6, WhoMoves DEF Unload, InFlight
  <2>2. DocumentStored'
    BY <1>6, <1>a, <1>c, FileStorageAssumption DEF Unload, DocumentStored, TypeOK, Texts
  <2> QED
    BY <2>1, <2>2, <1>a, <1>b DEF RequestsKnowPhase, Alone
<1>7. CASE StoreBegin
  <2>1. InFlight' = InFlight /\ (\A r \in InFlight : request[r].op # "autosave") /\ request' = request
    BY <1>7, WhoMoves DEF StoreBegin, InFlight
  <2>2. DocumentStored'
    BY <1>7, <1>a, <1>c, FileStorageAssumption DEF StoreBegin, DocumentStored, TypeOK, Texts
  <2>3. RequestsKnowPhase' /\ (MaxInFlight = 1 => Alone')
    BY <1>7, <2>1, <1>c DEF StoreBegin, RequestsKnowPhase, KnowsPhase, Alone
  <2> QED
    BY <2>2, <2>3, <1>a, <1>b
<1>8. CASE StoreCollab
  <2>1. InFlight' = InFlight /\ (\A r \in InFlight : request[r].op # "autosave") /\ request' = request
    BY <1>8, WhoMoves DEF StoreCollab, InFlight
  <2>2. DocumentStored'
    BY <1>8, <1>a, <1>c, FileStorageAssumption DEF StoreCollab, DocumentStored, TypeOK, Texts
  <2>3. RequestsKnowPhase' /\ (MaxInFlight = 1 => Alone')
    BY <1>8, <2>1, <1>c DEF StoreCollab, RequestsKnowPhase, KnowsPhase, Alone
  <2> QED
    BY <2>2, <2>3, <1>a, <1>b
<1>9. CASE StoreDisk
  <2>1. InFlight' = InFlight /\ (\A r \in InFlight : request[r].op # "autosave") /\ request' = request
    BY <1>9, WhoMoves DEF StoreDisk, InFlight
  <2>2. DocumentStored'
    BY <1>9, <1>a, <1>c, FileStorageAssumption DEF StoreDisk, DocumentStored, TypeOK, Texts
  <2>3. RequestsKnowPhase' /\ (MaxInFlight = 1 => Alone')
    BY <1>9, <2>1, <1>c DEF StoreDisk, RequestsKnowPhase, KnowsPhase, Alone
  <2> QED
    BY <2>2, <2>3, <1>a, <1>b
<1>10. CASE StoreFail
  <2>1. InFlight' = InFlight /\ (\A r \in InFlight : request[r].op # "autosave") /\ request' = request
    BY <1>10, WhoMoves DEF StoreFail, InFlight
  <2>2. DocumentStored'
    BY <1>10, <1>a, <1>c, FileStorageAssumption DEF StoreFail, DocumentStored, TypeOK, Texts
  <2>3. RequestsKnowPhase' /\ (MaxInFlight = 1 => Alone')
    BY <1>10, <2>1, <1>c DEF StoreFail, RequestsKnowPhase, KnowsPhase, Alone
  <2> QED
    BY <2>2, <2>3, <1>a, <1>b
<1>11. CASE \E e \in Edits : Type(e)
  <2>1. InFlight' = InFlight /\ (\A r \in InFlight : request[r].op # "autosave") /\ request' = request
    BY <1>11, WhoMoves DEF Type, InFlight
  <2>2. DocumentStored'
    BY <1>11, <1>a, <1>c, FileStorageAssumption DEF Type, DocumentStored, TypeOK, Texts
  <2>3. RequestsKnowPhase' /\ (MaxInFlight = 1 => Alone')
    BY <1>11, <2>1, <1>c DEF Type, RequestsKnowPhase, KnowsPhase, Alone
  <2> QED
    BY <2>2, <2>3, <1>a, <1>b
<1>12. CASE Crash
  <2>1. InFlight' = {}
    BY <1>12, <1>a, CrashFacts
  <2>2. DocumentStored'
    BY <1>12 DEF Crash, DocumentStored
  <2> QED
    BY <2>1, <2>2, <1>a, <1>b DEF RequestsKnowPhase, Alone
<1>13. ASSUME NEW r \in Requests, NEW e \in Edits, Save(r, e) PROVE StoreInv'
  <2>0. Current \cup (IF phase = "open" THEN {} ELSE {e}) \in Texts /\ (IF phase = "open" THEN {} ELSE {e}) \in Texts
    BY <1>a, TextFacts DEF TypeOK
  <2>1. Begin(r, "save", Current \cup (IF phase = "open" THEN {} ELSE {e}), (IF phase = "open" THEN {} ELSE {e}), "openCheck")
    BY <1>13 DEF Save
  <2>2. /\ \A s \in Requests : s # r => request'[s] = request[s]
        /\ request'[r].at = "openCheck" /\ request'[r].op = "save" /\ request'[r].new = Current \cup (IF phase = "open" THEN {} ELSE {e})
        /\ request'[r].doc = IF phase = "open" THEN loads ELSE 0
        /\ InFlight' = InFlight \cup {r}
        /\ MaxInFlight = 1 => InFlight = {}
    BY <2>0, <2>1, <1>a, <1>c, BeginFacts DEF AllOperations, Awaits
  <2>3. phase' = phase /\ loads' = loads /\ storing' = storing
    BY <1>13 DEF Save
  <2>4. KnowsPhase(r)'
    <3>1. "save" \in Operations /\ ("save" \in LoadsDuring \/ phase \in {"closed", "open"})
          /\ ("save" \in EditsDuring \/ storing = "none")
      BY <2>1 DEF Begin
    <3>2. phase \in {"closed", "open"}
      BY <3>1 DEF LoadsWait
    <3> QED
      BY <1>13, <2>2, <2>3, <3>1, <3>2 DEF Save, KnowsPhase, AutosaveAlone
  <2>5. RequestsKnowPhase' /\ (MaxInFlight = 1 => Alone')
    BY <2>2, <2>3, <2>4, OthersKnow DEF RequestsKnowPhase
  <2>6. DocumentStored'
    BY <1>13, <1>a, <1>c DEF Save, DocumentStored, TypeOK
  <2> QED
    BY <2>5, <2>6, <1>a, <1>b
<1>14. ASSUME NEW r \in Requests, NEW e \in Edits, SaveElsewhere(r, e) PROVE StoreInv'
  <2>0. live \cup {e} \in Texts /\ {e} \in Texts
    BY <1>a, TextFacts DEF TypeOK
  <2>1. Begin(r, "saveElsewhere", live \cup {e}, {e}, "openCheck")
    BY <1>14 DEF SaveElsewhere
  <2>2. /\ \A s \in Requests : s # r => request'[s] = request[s]
        /\ request'[r].at = "openCheck" /\ request'[r].op = "saveElsewhere" /\ request'[r].new = live \cup {e}
        /\ request'[r].doc = IF phase = "open" THEN loads ELSE 0
        /\ InFlight' = InFlight \cup {r}
        /\ MaxInFlight = 1 => InFlight = {}
    BY <2>0, <2>1, <1>a, <1>c, BeginFacts DEF AllOperations, Awaits
  <2>3. phase' = phase /\ loads' = loads /\ storing' = storing
    BY <1>14 DEF SaveElsewhere
  <2>4. KnowsPhase(r)'
    <3>1. "saveElsewhere" \in Operations /\ ("saveElsewhere" \in LoadsDuring \/ phase \in {"closed", "open"})
          /\ ("saveElsewhere" \in EditsDuring \/ storing = "none")
      BY <2>1 DEF Begin
    <3>2. phase \in {"closed", "open"}
      BY <3>1 DEF LoadsWait
    <3> QED
      BY <1>14, <2>2, <2>3, <3>1, <3>2 DEF SaveElsewhere, KnowsPhase, AutosaveAlone
  <2>5. RequestsKnowPhase' /\ (MaxInFlight = 1 => Alone')
    BY <2>2, <2>3, <2>4, OthersKnow DEF RequestsKnowPhase
  <2>6. DocumentStored'
    BY <1>14, <1>a, <1>c DEF SaveElsewhere, DocumentStored, TypeOK
  <2> QED
    BY <2>5, <2>6, <1>a, <1>b
<1>15. ASSUME NEW r \in Requests, Autosave(r) PROVE StoreInv'
  <2>0. live \in Texts /\ {} \in Texts
    BY <1>a, TextFacts DEF TypeOK
  <2>1. Begin(r, "autosave", live, {}, "disk")
    BY <1>15 DEF Autosave
  <2>2. /\ \A s \in Requests : s # r => request'[s] = request[s]
        /\ request'[r].at = "disk" /\ request'[r].op = "autosave" /\ request'[r].new = live
        /\ request'[r].doc = IF phase = "open" THEN loads ELSE 0
        /\ InFlight' = InFlight \cup {r}
        /\ MaxInFlight = 1 => InFlight = {}
    BY <2>0, <2>1, <1>a, <1>c, BeginFacts DEF AllOperations, Awaits
  <2>3. phase' = phase /\ loads' = loads /\ storing' = storing
    BY <1>15 DEF Autosave
  <2>4. KnowsPhase(r)'
    <3>1. "autosave" \in Operations /\ ("autosave" \in LoadsDuring \/ phase \in {"closed", "open"})
          /\ ("autosave" \in EditsDuring \/ storing = "none")
      BY <2>1 DEF Begin
    <3>2. phase \in {"closed", "open"}
      BY <3>1 DEF LoadsWait
    <3> QED
      BY <1>15, <2>2, <2>3, <3>1, <3>2 DEF Autosave, KnowsPhase, AutosaveAlone
  <2>5. RequestsKnowPhase' /\ (MaxInFlight = 1 => Alone')
    BY <2>2, <2>3, <2>4, OthersKnow DEF RequestsKnowPhase
  <2>6. DocumentStored'
    BY <1>15, <1>a, <1>c DEF Autosave, DocumentStored, TypeOK
  <2> QED
    BY <2>5, <2>6, <1>a, <1>b
<1>16. ASSUME NEW r \in Requests, NEW e \in Edits, SuggestionOpen(r, e) PROVE StoreInv'
  <2>0. {} \in Texts /\ {e} \in Texts
    BY <1>a, TextFacts DEF TypeOK
  <2>1. Begin(r, "suggestion", {}, {e}, "decided")
    BY <1>16 DEF SuggestionOpen
  <2>2. /\ \A s \in Requests : s # r => request'[s] = request[s]
        /\ request'[r].at = "decided" /\ request'[r].op = "suggestion" /\ request'[r].new = {}
        /\ request'[r].doc = IF phase = "open" THEN loads ELSE 0
        /\ InFlight' = InFlight \cup {r}
        /\ MaxInFlight = 1 => InFlight = {}
    BY <2>0, <2>1, <1>a, <1>c, BeginFacts DEF AllOperations, Awaits
  <2>3. phase' = phase /\ loads' = loads /\ storing' = storing
    BY <1>16 DEF SuggestionOpen, Transact
  <2>4. KnowsPhase(r)'
    <3>1. "suggestion" \in Operations /\ ("suggestion" \in LoadsDuring \/ phase \in {"closed", "open"})
          /\ ("suggestion" \in EditsDuring \/ storing = "none")
      BY <2>1 DEF Begin
    <3>2. phase \in {"closed", "open"}
      BY <3>1 DEF LoadsWait
    <3> QED
      BY <1>16, <2>2, <2>3, <3>1, <3>2 DEF SuggestionOpen, Transact, KnowsPhase, AutosaveAlone
  <2>5. RequestsKnowPhase' /\ (MaxInFlight = 1 => Alone')
    BY <2>2, <2>3, <2>4, OthersKnow DEF RequestsKnowPhase
  <2>6. DocumentStored'
    BY <1>16, <1>a, <1>c DEF SuggestionOpen, Transact, DocumentStored, TypeOK
  <2> QED
    BY <2>5, <2>6, <1>a, <1>b
<1>17. ASSUME NEW r \in Requests, NEW e \in Edits, SuggestionClosed(r, e) PROVE StoreInv'
  <2>0. disk \cup {e} \in Texts /\ {e} \in Texts
    BY <1>a, TextFacts DEF TypeOK
  <2>1. Begin(r, "suggestion", disk \cup {e}, {e}, "read")
    BY <1>17 DEF SuggestionClosed
  <2>2. /\ \A s \in Requests : s # r => request'[s] = request[s]
        /\ request'[r].at = "read" /\ request'[r].op = "suggestion" /\ request'[r].new = disk \cup {e}
        /\ request'[r].doc = IF phase = "open" THEN loads ELSE 0
        /\ InFlight' = InFlight \cup {r}
        /\ MaxInFlight = 1 => InFlight = {}
    BY <2>0, <2>1, <1>a, <1>c, BeginFacts DEF AllOperations, Awaits
  <2>3. phase' = phase /\ loads' = loads /\ storing' = storing
    BY <1>17 DEF SuggestionClosed
  <2>4. KnowsPhase(r)'
    <3>1. "suggestion" \in Operations /\ ("suggestion" \in LoadsDuring \/ phase \in {"closed", "open"})
          /\ ("suggestion" \in EditsDuring \/ storing = "none")
      BY <2>1 DEF Begin
    <3>2. phase \in {"closed", "open"}
      BY <3>1 DEF LoadsWait
    <3> QED
      BY <1>17, <2>2, <2>3, <3>1, <3>2 DEF SuggestionClosed, KnowsPhase, AutosaveAlone
  <2>5. RequestsKnowPhase' /\ (MaxInFlight = 1 => Alone')
    BY <2>2, <2>3, <2>4, OthersKnow DEF RequestsKnowPhase
  <2>6. DocumentStored'
    BY <1>17, <1>a, <1>c DEF SuggestionClosed, DocumentStored, TypeOK
  <2> QED
    BY <2>5, <2>6, <1>a, <1>b
<1>18. ASSUME NEW r \in Requests, NEW e \in Edits, Ai(r, e) PROVE StoreInv'
  <2>0. Current \cup {e} \in Texts /\ {e} \in Texts
    BY <1>a, TextFacts DEF TypeOK
  <2>1. Begin(r, "ai", Current \cup {e}, {e}, "model")
    BY <1>18 DEF Ai
  <2>2. /\ \A s \in Requests : s # r => request'[s] = request[s]
        /\ request'[r].at = "model" /\ request'[r].op = "ai" /\ request'[r].new = Current \cup {e}
        /\ request'[r].doc = IF phase = "open" THEN loads ELSE 0
        /\ InFlight' = InFlight \cup {r}
        /\ MaxInFlight = 1 => InFlight = {}
    BY <2>0, <2>1, <1>a, <1>c, BeginFacts DEF AllOperations, Awaits
  <2>3. phase' = phase /\ loads' = loads /\ storing' = storing
    BY <1>18 DEF Ai
  <2>4. KnowsPhase(r)'
    <3>1. "ai" \in Operations /\ ("ai" \in LoadsDuring \/ phase \in {"closed", "open"})
          /\ ("ai" \in EditsDuring \/ storing = "none")
      BY <2>1 DEF Begin
    <3>2. phase \in {"closed", "open"}
      BY <3>1 DEF LoadsWait
    <3> QED
      BY <1>18, <2>2, <2>3, <3>1, <3>2 DEF Ai, KnowsPhase, AutosaveAlone
  <2>5. RequestsKnowPhase' /\ (MaxInFlight = 1 => Alone')
    BY <2>2, <2>3, <2>4, OthersKnow DEF RequestsKnowPhase
  <2>6. DocumentStored'
    BY <1>18, <1>a, <1>c DEF Ai, DocumentStored, TypeOK
  <2> QED
    BY <2>5, <2>6, <1>a, <1>b
<1>19. ASSUME NEW r \in Requests, NEW e \in Edits, Content(r, e) PROVE StoreInv'
  <2>0. PICK keep \in {Current, {}} :
              /\ Begin(r, "content", keep \cup {e}, {e}, "disk")
              /\ ReplaceOpen(r, keep \cup {e})
    BY <1>19 DEF Content
  <2>1. keep \cup {e} \in Texts /\ {e} \in Texts /\ Begin(r, "content", keep \cup {e}, {e}, "disk")
    BY <2>0, <1>a, TextFacts DEF TypeOK
  <2>2. /\ \A s \in Requests : s # r => request'[s] = request[s]
        /\ request'[r].at = "disk" /\ request'[r].op = "content" /\ request'[r].new = keep \cup {e}
        /\ request'[r].doc = IF phase = "open" THEN loads ELSE 0
        /\ InFlight' = InFlight \cup {r}
        /\ MaxInFlight = 1 => InFlight = {}
    BY <2>0, <2>1, <1>a, <1>c, BeginFacts DEF AllOperations, Awaits
  <2>3. phase' = phase /\ loads' = loads /\ storing' = storing
    BY <1>19, <2>0 DEF Content, ReplaceOpen, Transact
  <2>4. KnowsPhase(r)'
    <3>1. "content" \in Operations /\ ("content" \in LoadsDuring \/ phase \in {"closed", "open"})
          /\ ("content" \in EditsDuring \/ storing = "none")
      BY <2>1 DEF Begin
    <3>2. phase \in {"closed", "open"}
      BY <3>1 DEF LoadsWait
    <3> QED
      BY <1>19, <2>2, <2>3, <3>1, <3>2 DEF Content, ReplaceOpen, Transact, KnowsPhase, AutosaveAlone
  <2>5. RequestsKnowPhase' /\ (MaxInFlight = 1 => Alone')
    BY <2>2, <2>3, <2>4, OthersKnow DEF RequestsKnowPhase
  <2>6. DocumentStored'
    BY <1>19, <2>0, <1>a, <1>c DEF Content, ReplaceOpen, Transact, DocumentStored, TypeOK
  <2> QED
    BY <2>5, <2>6, <1>a, <1>b
<1>20. ASSUME NEW r \in Requests, Restore(r) PROVE StoreInv'
  <2>0. PICK t \in revisions : Begin(r, "restore", t, {}, "backup")
    BY <1>20 DEF Restore
  <2>1. t \in Texts /\ {} \in Texts /\ Begin(r, "restore", t, {}, "backup")
    BY <2>0, <1>a, TextFacts DEF TypeOK
  <2>2. /\ \A s \in Requests : s # r => request'[s] = request[s]
        /\ request'[r].at = "backup" /\ request'[r].op = "restore" /\ request'[r].new = t
        /\ request'[r].doc = IF phase = "open" THEN loads ELSE 0
        /\ InFlight' = InFlight \cup {r}
        /\ MaxInFlight = 1 => InFlight = {}
    BY <2>0, <2>1, <1>a, <1>c, BeginFacts DEF AllOperations, Awaits
  <2>3. phase' = phase /\ loads' = loads /\ storing' = storing
    BY <1>20, <2>0 DEF Restore
  <2>4. KnowsPhase(r)'
    <3>1. "restore" \in Operations /\ ("restore" \in LoadsDuring \/ phase \in {"closed", "open"})
          /\ ("restore" \in EditsDuring \/ storing = "none")
      BY <2>1 DEF Begin
    <3>2. phase \in {"closed", "open"}
      BY <3>1 DEF LoadsWait
    <3> QED
      BY <1>20, <2>2, <2>3, <3>1, <3>2 DEF Restore, KnowsPhase, AutosaveAlone
  <2>5. RequestsKnowPhase' /\ (MaxInFlight = 1 => Alone')
    BY <2>2, <2>3, <2>4, OthersKnow DEF RequestsKnowPhase
  <2>6. DocumentStored'
    BY <1>20, <2>0, <1>a, <1>c DEF Restore, DocumentStored, TypeOK
  <2> QED
    BY <2>5, <2>6, <1>a, <1>b
<1>21. ASSUME NEW r \in Requests, SaveOpen(r) PROVE StoreInv'
  <2>1. r \in InFlight
    BY <1>21 DEF SaveOpen, At, InFlight
  <2>2. KnowsPhase(r)
    BY <2>1, <1>c DEF RequestsKnowPhase
  <2>3. /\ \A s \in Requests : s # r => request'[s] = request[s]
        /\ request'[r].at = "done" /\ request'[r].op = request[r].op
        /\ request'[r].new = request[r].new /\ request'[r].doc = request[r].doc
        /\ InFlight' = IF "done" = "done" THEN InFlight \ {r} ELSE InFlight \cup {r}
    BY <1>21, <1>a, GoFacts DEF SaveOpen, Awaits, Done
  <2>4. phase' = phase /\ loads' = loads /\ storing' = storing
    BY <1>21 DEF SaveOpen
  <2>5. r \in InFlight' => KnowsPhase(r)'
    BY <1>21, <2>2, <2>3, <2>4 DEF SaveOpen, At, KnowsPhase, Awaits
  <2>6. RequestsKnowPhase' /\ (MaxInFlight = 1 => Alone')
    BY <2>1, <2>3, <2>4, <2>5, OthersKnow DEF RequestsKnowPhase
  <2>7. DocumentStored'
    BY <1>21, <1>a, <1>c, <2>2 DEF SaveOpen, At, DocumentStored, KnowsPhase, TypeOK
  <2> QED
    BY <2>6, <2>7, <1>a, <1>b
<1>22. ASSUME NEW r \in Requests, SaveClosed(r) PROVE StoreInv'
  <2>1. r \in InFlight
    BY <1>22 DEF SaveClosed, At, InFlight
  <2>2. KnowsPhase(r)
    BY <2>1, <1>c DEF RequestsKnowPhase
  <2>3. /\ \A s \in Requests : s # r => request'[s] = request[s]
        /\ request'[r].at = "disk" /\ request'[r].op = request[r].op
        /\ request'[r].new = request[r].new /\ request'[r].doc = request[r].doc
        /\ InFlight' = IF "disk" = "done" THEN InFlight \ {r} ELSE InFlight \cup {r}
    BY <1>22, <1>a, GoFacts DEF SaveClosed, Awaits
  <2>4. phase' = phase /\ loads' = loads /\ storing' = storing
    BY <1>22 DEF SaveClosed
  <2>5. r \in InFlight' => KnowsPhase(r)'
    BY <1>22, <2>2, <2>3, <2>4 DEF SaveClosed, At, KnowsPhase, Awaits
  <2>6. RequestsKnowPhase' /\ (MaxInFlight = 1 => Alone')
    BY <2>1, <2>3, <2>4, <2>5, OthersKnow DEF RequestsKnowPhase
  <2>7. DocumentStored'
    BY <1>22, <1>a, <1>c, <2>2 DEF SaveClosed, At, DocumentStored, KnowsPhase, TypeOK
  <2> QED
    BY <2>6, <2>7, <1>a, <1>b
<1>23. ASSUME NEW r \in Requests, SuggestionDecided(r) PROVE StoreInv'
  <2>1. r \in InFlight
    BY <1>23 DEF SuggestionDecided, At, InFlight
  <2>2. KnowsPhase(r)
    BY <2>1, <1>c DEF RequestsKnowPhase
  <2>3. /\ \A s \in Requests : s # r => request'[s] = request[s]
        /\ request'[r].at = "done" /\ request'[r].op = request[r].op
        /\ request'[r].new = request[r].new /\ request'[r].doc = request[r].doc
        /\ InFlight' = IF "done" = "done" THEN InFlight \ {r} ELSE InFlight \cup {r}
    BY <1>23, <1>a, GoFacts DEF SuggestionDecided, Awaits, Done
  <2>4. phase' = phase /\ loads' = loads /\ storing' = storing
    BY <1>23 DEF SuggestionDecided
  <2>5. r \in InFlight' => KnowsPhase(r)'
    BY <1>23, <2>2, <2>3, <2>4 DEF SuggestionDecided, At, KnowsPhase, Awaits
  <2>6. RequestsKnowPhase' /\ (MaxInFlight = 1 => Alone')
    BY <2>1, <2>3, <2>4, <2>5, OthersKnow DEF RequestsKnowPhase
  <2>7. DocumentStored'
    BY <1>23, <1>a, <1>c, <2>2 DEF SuggestionDecided, At, DocumentStored, KnowsPhase, TypeOK
  <2> QED
    BY <2>6, <2>7, <1>a, <1>b
<1>24. ASSUME NEW r \in Requests, AiOpen(r) PROVE StoreInv'
  <2>1. r \in InFlight
    BY <1>24 DEF AiOpen, At, InFlight
  <2>2. KnowsPhase(r)
    BY <2>1, <1>c DEF RequestsKnowPhase
  <2>3. /\ \A s \in Requests : s # r => request'[s] = request[s]
        /\ request'[r].at = "done" /\ request'[r].op = request[r].op
        /\ request'[r].new = request[r].new /\ request'[r].doc = request[r].doc
        /\ InFlight' = IF "done" = "done" THEN InFlight \ {r} ELSE InFlight \cup {r}
    BY <1>24, <1>a, GoFacts DEF AiOpen, Awaits, Done
  <2>4. phase' = phase /\ loads' = loads /\ storing' = storing
    BY <1>24 DEF AiOpen, Transact
  <2>5. r \in InFlight' => KnowsPhase(r)'
    BY <1>24, <2>2, <2>3, <2>4 DEF AiOpen, At, Transact, KnowsPhase, Awaits
  <2>6. RequestsKnowPhase' /\ (MaxInFlight = 1 => Alone')
    BY <2>1, <2>3, <2>4, <2>5, OthersKnow DEF RequestsKnowPhase
  <2>7. DocumentStored'
    BY <1>24, <1>a, <1>c, <2>2 DEF AiOpen, At, Transact, DocumentStored, KnowsPhase, TypeOK
  <2> QED
    BY <2>6, <2>7, <1>a, <1>b
<1>25. ASSUME NEW r \in Requests, AiClosed(r) PROVE StoreInv'
  <2>1. r \in InFlight
    BY <1>25 DEF AiClosed, At, InFlight
  <2>2. KnowsPhase(r)
    BY <2>1, <1>c DEF RequestsKnowPhase
  <2>3. /\ \A s \in Requests : s # r => request'[s] = request[s]
        /\ request'[r].at = "disk" /\ request'[r].op = request[r].op
        /\ request'[r].new = request[r].new /\ request'[r].doc = request[r].doc
        /\ InFlight' = IF "disk" = "done" THEN InFlight \ {r} ELSE InFlight \cup {r}
    BY <1>25, <1>a, GoFacts DEF AiClosed, Awaits
  <2>4. phase' = phase /\ loads' = loads /\ storing' = storing
    BY <1>25 DEF AiClosed
  <2>5. r \in InFlight' => KnowsPhase(r)'
    BY <1>25, <2>2, <2>3, <2>4, <1>c DEF AiClosed, At, KnowsPhase, Awaits, DocumentStored
  <2>6. RequestsKnowPhase' /\ (MaxInFlight = 1 => Alone')
    BY <2>1, <2>3, <2>4, <2>5, OthersKnow DEF RequestsKnowPhase
  <2>7. DocumentStored'
    BY <1>25, <1>a, <1>c, <2>2 DEF AiClosed, At, DocumentStored, KnowsPhase, TypeOK
  <2> QED
    BY <2>6, <2>7, <1>a, <1>b
<1>26. ASSUME NEW r \in Requests, WriteDisk(r) PROVE StoreInv'
  <2>1. r \in InFlight
    BY <1>26 DEF WriteDisk, At, InFlight
  <2>2. KnowsPhase(r)
    BY <2>1, <1>c DEF RequestsKnowPhase
  <2>3. /\ \A s \in Requests : s # r => request'[s] = request[s]
        /\ request'[r].at = "collab" /\ request'[r].op = request[r].op
        /\ request'[r].new = request[r].new /\ request'[r].doc = request[r].doc
        /\ InFlight' = IF "collab" = "done" THEN InFlight \ {r} ELSE InFlight \cup {r}
    BY <1>26, <1>a, GoFacts DEF WriteDisk, Awaits
  <2>4. phase' = phase /\ loads' = loads /\ storing' = storing
    BY <1>26 DEF WriteDisk
  <2>5. r \in InFlight' => KnowsPhase(r)'
    BY <1>26, <2>2, <2>3, <2>4 DEF WriteDisk, At, KnowsPhase, Awaits
  <2>6. RequestsKnowPhase' /\ (MaxInFlight = 1 => Alone')
    BY <2>1, <2>3, <2>4, <2>5, OthersKnow DEF RequestsKnowPhase
  <2>7. DocumentStored'
    BY <1>26, <1>a, <1>c, <2>2 DEF WriteDisk, At, DocumentStored, KnowsPhase, TypeOK
  <2> QED
    BY <2>6, <2>7, <1>a, <1>b
<1>27. ASSUME NEW r \in Requests, WriteCollab(r) PROVE StoreInv'
  <2>1. r \in InFlight
    BY <1>27 DEF WriteCollab, At, InFlight
  <2>2. KnowsPhase(r)
    BY <2>1, <1>c DEF RequestsKnowPhase
  <2>3. /\ \A s \in Requests : s # r => request'[s] = request[s]
        /\ request'[r].at = "done" /\ request'[r].op = request[r].op
        /\ request'[r].new = request[r].new /\ request'[r].doc = request[r].doc
        /\ InFlight' = IF "done" = "done" THEN InFlight \ {r} ELSE InFlight \cup {r}
    BY <1>27, <1>a, GoFacts DEF WriteCollab, Awaits, Done
  <2>4. phase' = phase /\ loads' = loads /\ storing' = storing
    BY <1>27 DEF WriteCollab
  <2>5. r \in InFlight' => KnowsPhase(r)'
    BY <1>27, <2>2, <2>3, <2>4 DEF WriteCollab, At, KnowsPhase, Awaits
  <2>6. RequestsKnowPhase' /\ (MaxInFlight = 1 => Alone')
    BY <2>1, <2>3, <2>4, <2>5, OthersKnow DEF RequestsKnowPhase
  <2>a. phase = "open" => collab' = collab \/ (storing = "none" /\ collab' = live /\ collab' # NoText)
    <3> SUFFICES ASSUME phase = "open" PROVE collab' = collab \/ (storing = "none" /\ collab' = live /\ collab' # NoText)
      OBVIOUS
    <3>1. request[r].at = "collab" /\ loads > 0 /\ request[r].op \in AllOperations \cup {"none"} /\ live # NoText
      BY <1>a, <1>c, <1>27, FileStorageAssumption DEF WriteCollab, DocumentStored, TypeOK, Texts
    <3>2. request[r].op \in {"content", "restore", "autosave"} /\ request[r].doc # 0
      BY <1>a, <2>2, <3>1, FileStorageAssumption DEF KnowsPhase, TypeOK, AllOperations
    <3>3. CASE request[r].op = "autosave"
      BY <1>27, <2>2, <3>1, <3>3 DEF WriteCollab, KnowsPhase
    <3>4. CASE request[r].op \in {"content", "restore"}
      BY <1>27, <3>2, <3>4 DEF WriteCollab
    <3> QED
      BY <3>2, <3>3, <3>4
  <2>7. DocumentStored'
    BY <1>27, <1>a, <1>c, <2>2, <2>a DEF WriteCollab, At, DocumentStored, KnowsPhase, TypeOK
  <2> QED
    BY <2>6, <2>7, <1>a, <1>b
<1>28. ASSUME NEW r \in Requests, RestoreReplace(r) PROVE StoreInv'
  <2>1. r \in InFlight
    BY <1>28 DEF RestoreReplace, At, InFlight
  <2>2. KnowsPhase(r)
    BY <2>1, <1>c DEF RequestsKnowPhase
  <2>3. /\ \A s \in Requests : s # r => request'[s] = request[s]
        /\ request'[r].at = "disk" /\ request'[r].op = request[r].op
        /\ request'[r].new = request[r].new
        /\ request'[r].doc = IF phase = "open" THEN loads ELSE 0
        /\ InFlight' = InFlight \cup {r}
    BY <1>28, <1>a, ReplaceFacts DEF RestoreReplace
  <2>4. phase' = phase /\ loads' = loads /\ storing' = storing
    BY <1>28 DEF RestoreReplace, ReplaceOpen, Transact
  <2>5. r \in InFlight' => KnowsPhase(r)'
    BY <1>28, <2>2, <2>3, <2>4 DEF RestoreReplace, At, ReplaceOpen, Transact, KnowsPhase, Awaits
  <2>6. RequestsKnowPhase' /\ (MaxInFlight = 1 => Alone')
    BY <2>1, <2>3, <2>4, <2>5, OthersKnow DEF RequestsKnowPhase
  <2>7. DocumentStored'
    BY <1>28, <1>a, <1>c, <2>2
       DEF RestoreReplace, At, ReplaceOpen, Transact, DocumentStored, KnowsPhase, TypeOK
  <2> QED
    BY <2>6, <2>7, <1>a, <1>b
<1>29. ASSUME NEW r \in Requests, SuggestionReplace(r) PROVE StoreInv'
  <2>1. r \in InFlight
    BY <1>29 DEF SuggestionReplace, At, InFlight
  <2>2. KnowsPhase(r)
    BY <2>1, <1>c DEF RequestsKnowPhase
  <2>3. /\ \A s \in Requests : s # r => request'[s] = request[s]
        /\ request'[r].at = "disk" /\ request'[r].op = request[r].op
        /\ request'[r].new = request[r].new
        /\ request'[r].doc = IF phase = "open" THEN loads ELSE 0
        /\ InFlight' = InFlight \cup {r}
    BY <1>29, <1>a, ReplaceFacts DEF SuggestionReplace
  <2>4. phase' = phase /\ loads' = loads /\ storing' = storing
    BY <1>29 DEF SuggestionReplace, ReplaceOpen, Transact
  <2>5. r \in InFlight' => KnowsPhase(r)'
    BY <1>29, <2>2, <2>3, <2>4 DEF SuggestionReplace, At, ReplaceOpen, Transact, KnowsPhase, Awaits
  <2>6. RequestsKnowPhase' /\ (MaxInFlight = 1 => Alone')
    BY <2>1, <2>3, <2>4, <2>5, OthersKnow DEF RequestsKnowPhase
  <2>7. DocumentStored'
    BY <1>29, <1>a, <1>c, <2>2
       DEF SuggestionReplace, At, ReplaceOpen, Transact, DocumentStored, KnowsPhase, TypeOK
  <2> QED
    BY <2>6, <2>7, <1>a, <1>b
<1>30. CASE UNCHANGED vars
  BY <1>30, <1>a, <1>b, <1>c
     DEF vars, DocumentStored, RequestsKnowPhase, KnowsPhase, Alone, InFlight
<1> QED
  BY <1>1, <1>2, <1>3, <1>4, <1>5, <1>6, <1>7, <1>8, <1>9, <1>10, <1>11, <1>12, <1>13, <1>14,
     <1>15, <1>16, <1>17, <1>18, <1>19, <1>20, <1>21, <1>22, <1>23, <1>24, <1>25, <1>26, <1>27,
     <1>28, <1>29, <1>30
     DEF Next, Load, Store, Step

LEMMA StoreAlways == ASSUME LoadsWait, AutosaveAlone PROVE Spec => []StoreInv
BY InitStore, StoreStep, PTL DEF Spec

\* collaboration.ts, projectFeatures.ts: whatever requests overlap, and
\* whichever drive writes fail, an open document that has nothing left to
\* store is what the database holds, as long as documents are loaded and
\* unloaded between requests and autosaves are alone.
THEOREM OpenDocumentStored ==
    ASSUME LoadsWait, AutosaveAlone
    PROVE  Spec => []LiveIsStored
<1>1. StoreInv => LiveIsStored
  BY DEF StoreInv, DocumentStored, LiveIsStored, AtRest
<1> QED
  BY <1>1, StoreAlways, PTL

-----------------------------------------------------------------------------
(* No edit is lost, and the copies agree at rest. *)

\* What may happen during which request.
LEMMA WhoIsThere ==
    ASSUME OneAtATime, KeptInv
    PROVE  /\ LoadsWait /\ AutosaveAlone
           /\ LoadsMayMove => InFlight = {}
           /\ EditsMayMove => \A r \in InFlight : request[r].op \in {"save", "suggestion"}
           /\ Faulty \/ FaultsMayCome => \A r \in InFlight : request[r].op = "save"
           /\ \A r \in InFlight : InFlight = {r} /\ KnowsPhase(r) /\ Keeps(r) /\ request[r].op # "saveElsewhere"
<1>1. LoadsWait /\ AutosaveAlone
  BY DEF OneAtATime, AutosaveAlone
<1>2. StoreInv /\ RequestsKeep
  BY DEF KeptInv
<1>3. \A r \in InFlight : KnowsPhase(r) /\ request[r].op \in Operations
  BY <1>2 DEF StoreInv, RequestsKnowPhase, KnowsPhase
<1>4. \A r \in InFlight : InFlight = {r}
  BY <1>2 DEF StoreInv, OneAtATime, Alone
<1>5. Faulty => FaultsMayCome
  BY DEF KeptInv, DriveFollows
<1>6. FaultsMayCome => \A r \in InFlight : request[r].op = "save"
  <2> SUFFICES ASSUME FaultsMayCome, NEW r \in InFlight PROVE request[r].op = "save"
    OBVIOUS
  <2>1. request[r].op \in FaultsDuring \cup {"none"} /\ request[r].op \in Operations
    BY <1>3 DEF FaultsMayCome, InFlight
  <2>2. "none" \notin Operations
    BY FileStorageAssumption DEF AllOperations
  <2> QED
    BY <2>1, <2>2 DEF OneAtATime
<1>7. EditsMayMove => \A r \in InFlight : request[r].op \in {"save", "suggestion"}
  BY <1>3 DEF EditsMayMove, OneAtATime
<1>8. LoadsMayMove => InFlight = {}
  BY <1>3 DEF LoadsMayMove, LoadsWait, OneAtATime
<1> QED
  BY <1>1, <1>2, <1>3, <1>4, <1>5, <1>6, <1>7, <1>8 DEF RequestsKeep, OneAtATime

LEMMA InitKept == Init => KeptInv
<1> SUFFICES ASSUME Init PROVE KeptInv
  OBVIOUS
<1>1. InFlight = {}
  BY DEF Init, InFlight, NoRequest
<1>2. StoreInv
  BY InitStore
<1>3. Stored = {} /\ Current = {}
  BY DEF Init, Stored, Current
<1>4. OnlyUsed
  BY <1>3 DEF Init, OnlyUsed, NoRequest
<1>5. NothingLost /\ DurableKept /\ BackupComplete /\ RequestsKeep
  BY <1>1, <1>3 DEF Init, NothingLost, DurableKept, Kept, BackupComplete, RequestsKeep
<1>6. DriveFollows
  BY <1>1, <1>3 DEF Init, DriveFollows, Faulty
<1> QED
  BY <1>2, <1>4, <1>5, <1>6 DEF KeptInv

LEMMA KeptStep ==
    ASSUME OneAtATime, KeptInv, [Next]_vars
    PROVE  KeptInv'
<1>s. StoreInv'
  BY StoreStep, WhoIsThere DEF KeptInv
<1>a. TypeOK /\ TypeOK' /\ DocumentStored
  BY <1>s DEF KeptInv, StoreInv
<1>b. OnlyUsed' /\ NothingLost' /\ RequestsKeep' /\ DriveFollows' /\ DurableKept' /\ BackupComplete' => KeptInv'
  BY <1>s DEF KeptInv
<1>c. OnlyUsed /\ NothingLost /\ RequestsKeep /\ DriveFollows /\ DurableKept /\ BackupComplete
  BY DEF KeptInv
<1>d. \A t \in Texts : t # NoText
  BY FileStorageAssumption DEF Texts
<1>e. /\ Kept \subseteq Current /\ Current \subseteq used
      /\ Current = IF phase = "open" THEN live ELSE Stored
  BY <1>c DEF NothingLost, Kept, OnlyUsed, Current
<1>f. phase # "open" /\ ~ Faulty /\ InFlight = {} => disk = Current
  BY <1>a, <1>c DEF DocumentStored, DriveFollows
<1> USE DEF docVars, copyVars, ghostVars, boundVars
<1>1. CASE Connect
  <2>1. InFlight = {} /\ InFlight' = {} /\ request' = request
    BY <1>1, WhoIsThere DEF Connect, InFlight
  <2>11. OnlyUsed'
    BY <1>1, <2>1, <1>a, <1>c, <1>d DEF Connect, OnlyUsed, Stored, TypeOK
  <2>12. NothingLost'
    BY <1>1, <2>1, <1>a, <1>c, <1>d DEF Connect, NothingLost, Current, Stored, TypeOK
  <2>13. RequestsKeep'
    BY <1>1, <2>1, <1>a, <1>c, <1>d DEF Connect, RequestsKeep, Keeps, Kept, Current, Stored, TypeOK
  <2>14. DriveFollows'
    BY <1>1, <2>1, <1>a, <1>c, <1>d
       DEF Connect, DriveFollows, Current, Stored, Faulty, FaultsMayCome, DocumentStored, TypeOK
  <2>15. DurableKept'
    BY <1>1, <2>1, <1>a, <1>c, <1>d
       DEF Connect, DurableKept, NothingLost, Current, Kept, Stored, FaultsMayCome, DocumentStored,
           OnlyUsed, TypeOK
  <2>16. BackupComplete'
    BY <1>1, <2>1, <1>a, <1>c, <1>d DEF Connect, BackupComplete, TypeOK
  <2> QED
    BY <2>11, <2>12, <2>13, <2>14, <2>15, <2>16, <1>b
<1>2. CASE LoadState
  <2>1. InFlight = {} /\ InFlight' = {} /\ request' = request
    BY <1>2, WhoIsThere DEF LoadState, Opened, InFlight
  <2>11. OnlyUsed'
    BY <1>2, <2>1, <1>a, <1>c, <1>d DEF LoadState, Opened, OnlyUsed, Stored, TypeOK
  <2>12. NothingLost'
    BY <1>2, <2>1, <1>a, <1>c, <1>d DEF LoadState, Opened, NothingLost, Current, Stored, TypeOK
  <2>13. RequestsKeep'
    BY <1>2, <2>1, <1>a, <1>c, <1>d
       DEF LoadState, Opened, RequestsKeep, Keeps, Kept, Current, Stored, TypeOK
  <2>14. DriveFollows'
    BY <1>2, <2>1, <1>a, <1>c, <1>d
       DEF LoadState, Opened, DriveFollows, Current, Stored, Faulty, FaultsMayCome, DocumentStored,
           TypeOK
  <2>15. DurableKept'
    BY <1>2, <2>1, <1>a, <1>c, <1>d
       DEF LoadState, Opened, DurableKept, NothingLost, Current, Kept, Stored, FaultsMayCome,
           DocumentStored, OnlyUsed, TypeOK
  <2>16. BackupComplete'
    BY <1>2, <2>1, <1>a, <1>c, <1>d DEF LoadState, Opened, BackupComplete, TypeOK
  <2> QED
    BY <2>11, <2>12, <2>13, <2>14, <2>15, <2>16, <1>b
<1>3. CASE LoadDisk
  <2>1. InFlight = {} /\ InFlight' = {} /\ request' = request
    BY <1>3, WhoIsThere DEF LoadDisk, InFlight
  <2>11. OnlyUsed'
    BY <1>3, <2>1, <1>a, <1>c, <1>d DEF LoadDisk, OnlyUsed, Stored, TypeOK
  <2>12. NothingLost'
    BY <1>3, <2>1, <1>a, <1>c, <1>d DEF LoadDisk, NothingLost, Current, Stored, TypeOK
  <2>13. RequestsKeep'
    BY <1>3, <2>1, <1>a, <1>c, <1>d DEF LoadDisk, RequestsKeep, Keeps, Kept, Current, Stored, TypeOK
  <2>14. DriveFollows'
    BY <1>3, <2>1, <1>a, <1>c, <1>d
       DEF LoadDisk, DriveFollows, Current, Stored, Faulty, FaultsMayCome, DocumentStored, TypeOK
  <2>15. DurableKept'
    BY <1>3, <2>1, <1>a, <1>c, <1>d
       DEF LoadDisk, DurableKept, NothingLost, Current, Kept, Stored, FaultsMayCome,
           DocumentStored, OnlyUsed, TypeOK
  <2>16. BackupComplete'
    BY <1>3, <2>1, <1>a, <1>c, <1>d DEF LoadDisk, BackupComplete, TypeOK
  <2> QED
    BY <2>11, <2>12, <2>13, <2>14, <2>15, <2>16, <1>b
<1>4. CASE LoadSeed
  <2>1. InFlight = {} /\ InFlight' = {} /\ request' = request
    BY <1>4, WhoIsThere DEF LoadSeed, Opened, InFlight
  <2>11. OnlyUsed'
    BY <1>4, <2>1, <1>a, <1>c, <1>d DEF LoadSeed, Opened, OnlyUsed, Stored, TypeOK
  <2>12. NothingLost'
    BY <1>4, <2>1, <1>a, <1>c, <1>d DEF LoadSeed, Opened, NothingLost, Current, Stored, DriveFollows
  <2>13. RequestsKeep'
    BY <1>4, <2>1, <1>a, <1>c, <1>d
       DEF LoadSeed, Opened, RequestsKeep, Keeps, Kept, Current, Stored, TypeOK
  <2>14. DriveFollows'
    BY <1>4, <2>1, <1>a, <1>c, <1>d
       DEF LoadSeed, Opened, DriveFollows, Current, Stored, Faulty, FaultsMayCome, DocumentStored,
           TypeOK
  <2>15. DurableKept'
    <3>1. Stored' = Stored /\ storing' = storing /\ FaultsMayCome' = FaultsMayCome /\ storing = "none"
      BY <1>4, <2>1, <1>a, <1>c, <1>d
         DEF LoadSeed, Opened, Stored, DriveFollows, DocumentStored, FaultsMayCome, TypeOK
    <3>2. Kept' = Kept /\ durable' = durable
      BY <1>4 DEF LoadSeed, Opened, Kept
    <3> QED
      BY <1>c, <3>1, <3>2 DEF DurableKept
  <2>16. BackupComplete'
    BY <1>4, <2>1, <1>a, <1>c, <1>d DEF LoadSeed, Opened, BackupComplete, TypeOK
  <2> QED
    BY <2>11, <2>12, <2>13, <2>14, <2>15, <2>16, <1>b
<1>5. CASE Disconnect
  <2>1. InFlight = {} /\ InFlight' = {} /\ request' = request
    BY <1>5, WhoIsThere DEF Disconnect, InFlight
  <2>11. OnlyUsed'
    BY <1>5, <2>1, <1>a, <1>c, <1>d DEF Disconnect, OnlyUsed, Stored, TypeOK
  <2>12. NothingLost'
    BY <1>5, <2>1, <1>a, <1>c, <1>d DEF Disconnect, NothingLost, Current, Stored, TypeOK
  <2>13. RequestsKeep'
    BY <1>5, <2>1, <1>a, <1>c, <1>d
       DEF Disconnect, RequestsKeep, Keeps, Kept, Current, Stored, TypeOK
  <2>14. DriveFollows'
    BY <1>5, <2>1, <1>a, <1>c, <1>d
       DEF Disconnect, DriveFollows, Current, Stored, Faulty, FaultsMayCome, DocumentStored, TypeOK
  <2>15. DurableKept'
    BY <1>5, <2>1, <1>a, <1>c, <1>d
       DEF Disconnect, DurableKept, NothingLost, Current, Kept, Stored, FaultsMayCome,
           DocumentStored, OnlyUsed, TypeOK
  <2>16. BackupComplete'
    BY <1>5, <2>1, <1>a, <1>c, <1>d DEF Disconnect, BackupComplete, TypeOK
  <2> QED
    BY <2>11, <2>12, <2>13, <2>14, <2>15, <2>16, <1>b
<1>6. CASE Unload
  <2>1. InFlight = {} /\ InFlight' = {} /\ request' = request
    BY <1>6, WhoIsThere DEF Unload, InFlight
  <2>11. OnlyUsed'
    BY <1>6, <2>1, <1>a, <1>c, <1>d DEF Unload, OnlyUsed, Stored, TypeOK
  <2>12. NothingLost'
    BY <1>6, <2>1, <1>a, <1>c, <1>d DEF Unload, NothingLost, Current, Stored, DocumentStored
  <2>13. RequestsKeep'
    BY <1>6, <2>1, <1>a, <1>c, <1>d DEF Unload, RequestsKeep, Keeps, Kept, Current, Stored, TypeOK
  <2>14. DriveFollows'
    BY <1>6, <2>1, <1>a, <1>c, <1>d
       DEF Unload, DriveFollows, Current, Stored, Faulty, FaultsMayCome, DocumentStored, TypeOK
  <2>15. DurableKept'
    BY <1>6, <2>1, <1>a, <1>c, <1>d
       DEF Unload, DurableKept, NothingLost, Current, Kept, Stored, FaultsMayCome, DocumentStored,
           OnlyUsed, TypeOK
  <2>16. BackupComplete'
    BY <1>6, <2>1, <1>a, <1>c, <1>d DEF Unload, BackupComplete, TypeOK
  <2> QED
    BY <2>11, <2>12, <2>13, <2>14, <2>15, <2>16, <1>b
<1>7. CASE StoreBegin
  <2>1. /\ InFlight' = InFlight /\ request' = request
        /\ \A r \in InFlight :
              request[r].op \in {"save", "suggestion"} /\ KnowsPhase(r) /\ Keeps(r) /\ InFlight = {r}
    BY <1>7, WhoIsThere DEF StoreBegin, InFlight
  <2>2. phase = "open"
    BY <1>7, <1>a DEF StoreBegin, DocumentStored
  <2>3. \A r \in InFlight : request[r].at \in {"openCheck", "decided"}
    BY <2>1, <2>2 DEF KnowsPhase
  <2>11. OnlyUsed'
    BY <1>7, <2>1, <2>2, <2>3, <1>a, <1>c, <1>d DEF StoreBegin, OnlyUsed, Stored, TypeOK
  <2>12. NothingLost'
    BY <1>7, <2>1, <2>2, <2>3, <1>a, <1>c, <1>d DEF StoreBegin, NothingLost, Current, Stored, TypeOK
  <2>13. RequestsKeep'
    BY <1>7, <2>1, <2>2, <2>3, <1>a, <1>c, <1>d
       DEF StoreBegin, RequestsKeep, Keeps, Kept, Current, Stored, TypeOK
  <2>14. DriveFollows'
    BY <1>7, <2>1, <2>2, <2>3, <1>a, <1>c, <1>d
       DEF StoreBegin, DriveFollows, Current, Stored, Faulty, FaultsMayCome, DocumentStored, TypeOK
  <2>15. DurableKept'
    BY <1>7, <2>1, <2>2, <2>3, <1>a, <1>c, <1>d
       DEF StoreBegin, DurableKept, NothingLost, Current, Kept, Stored, FaultsMayCome,
           DocumentStored, OnlyUsed, TypeOK
  <2>16. BackupComplete'
    BY <1>7, <2>1, <2>2, <2>3, <1>a, <1>c, <1>d DEF StoreBegin, BackupComplete, TypeOK
  <2> QED
    BY <2>11, <2>12, <2>13, <2>14, <2>15, <2>16, <1>b
<1>8. CASE StoreCollab
  <2>1. /\ InFlight' = InFlight /\ request' = request
        /\ \A r \in InFlight :
              request[r].op \in {"save", "suggestion"} /\ KnowsPhase(r) /\ Keeps(r) /\ InFlight = {r}
    BY <1>8, WhoIsThere DEF StoreCollab, InFlight
  <2>2. phase = "open"
    BY <1>8, <1>a DEF StoreCollab, DocumentStored
  <2>3. \A r \in InFlight : request[r].at \in {"openCheck", "decided"}
    BY <2>1, <2>2 DEF KnowsPhase
  <2>11. OnlyUsed'
    BY <1>8, <2>1, <2>2, <2>3, <1>a, <1>c, <1>d DEF StoreCollab, OnlyUsed, Stored, TypeOK
  <2>12. NothingLost'
    BY <1>8, <2>1, <2>2, <2>3, <1>a, <1>c, <1>d
       DEF StoreCollab, NothingLost, Current, Stored, TypeOK
  <2>13. RequestsKeep'
    BY <1>8, <2>1, <2>2, <2>3, <1>a, <1>c, <1>d
       DEF StoreCollab, RequestsKeep, Keeps, Kept, Current, Stored, TypeOK
  <2>14. DriveFollows'
    BY <1>8, <2>1, <2>2, <2>3, <1>a, <1>c, <1>d
       DEF StoreCollab, DriveFollows, Current, Stored, Faulty, FaultsMayCome, DocumentStored, TypeOK
  <2>15. DurableKept'
    BY <1>8, <2>1, <2>2, <2>3, <1>a, <1>c, <1>d
       DEF StoreCollab, DurableKept, NothingLost, Current, Kept, Stored, FaultsMayCome,
           DocumentStored, OnlyUsed, TypeOK
  <2>16. BackupComplete'
    BY <1>8, <2>1, <2>2, <2>3, <1>a, <1>c, <1>d DEF StoreCollab, BackupComplete, TypeOK
  <2> QED
    BY <2>11, <2>12, <2>13, <2>14, <2>15, <2>16, <1>b
<1>9. CASE StoreDisk
  <2>1. /\ InFlight' = InFlight /\ request' = request
        /\ \A r \in InFlight :
              request[r].op \in {"save", "suggestion"} /\ KnowsPhase(r) /\ Keeps(r) /\ InFlight = {r}
    BY <1>9, WhoIsThere DEF StoreDisk, InFlight
  <2>2. phase = "open"
    BY <1>9, <1>a DEF StoreDisk, DocumentStored
  <2>3. \A r \in InFlight : request[r].at \in {"openCheck", "decided"}
    BY <2>1, <2>2 DEF KnowsPhase
  <2>11. OnlyUsed'
    BY <1>9, <2>1, <2>2, <2>3, <1>a, <1>c, <1>d DEF StoreDisk, OnlyUsed, Stored, TypeOK
  <2>12. NothingLost'
    BY <1>9, <2>1, <2>2, <2>3, <1>a, <1>c, <1>d DEF StoreDisk, NothingLost, Current, Stored, TypeOK
  <2>13. RequestsKeep'
    BY <1>9, <2>1, <2>2, <2>3, <1>a, <1>c, <1>d
       DEF StoreDisk, RequestsKeep, Keeps, Kept, Current, Stored, TypeOK
  <2>14. DriveFollows'
    BY <1>9, <2>1, <2>2, <2>3, <1>a, <1>c, <1>d
       DEF StoreDisk, DriveFollows, Current, Stored, Faulty, FaultsMayCome, DocumentStored, TypeOK
  <2>15. DurableKept'
    BY <1>9, <2>1, <2>2, <2>3, <1>a, <1>c, <1>d
       DEF StoreDisk, DurableKept, NothingLost, Current, Kept, Stored, FaultsMayCome,
           DocumentStored, OnlyUsed, TypeOK
  <2>16. BackupComplete'
    BY <1>9, <2>1, <2>2, <2>3, <1>a, <1>c, <1>d DEF StoreDisk, BackupComplete, TypeOK
  <2> QED
    BY <2>11, <2>12, <2>13, <2>14, <2>15, <2>16, <1>b
<1>10. CASE StoreFail
  <2>1. /\ InFlight' = InFlight /\ request' = request
        /\ \A r \in InFlight :
              request[r].op \in {"save", "suggestion"} /\ KnowsPhase(r) /\ Keeps(r) /\ InFlight = {r}
    BY <1>10, WhoIsThere DEF StoreFail, InFlight
  <2>2. phase = "open"
    BY <1>10, <1>a DEF StoreFail, DocumentStored
  <2>3. \A r \in InFlight : request[r].at \in {"openCheck", "decided"}
    BY <2>1, <2>2 DEF KnowsPhase
  <2>11. OnlyUsed'
    BY <1>10, <2>1, <2>2, <2>3, <1>a, <1>c, <1>d DEF StoreFail, OnlyUsed, Stored, TypeOK
  <2>12. NothingLost'
    BY <1>10, <2>1, <2>2, <2>3, <1>a, <1>c, <1>d DEF StoreFail, NothingLost, Current, Stored, TypeOK
  <2>13. RequestsKeep'
    BY <1>10, <2>1, <2>2, <2>3, <1>a, <1>c, <1>d
       DEF StoreFail, RequestsKeep, Keeps, Kept, Current, Stored, TypeOK
  <2>14. DriveFollows'
    BY <1>10, <2>1, <2>2, <2>3, <1>a, <1>c, <1>d
       DEF StoreFail, DriveFollows, Current, Stored, Faulty, FaultsMayCome, DocumentStored, TypeOK
  <2>15. DurableKept'
    BY <1>10, <2>1, <2>2, <2>3, <1>a, <1>c, <1>d
       DEF StoreFail, DurableKept, NothingLost, Current, Kept, Stored, FaultsMayCome,
           DocumentStored, OnlyUsed, TypeOK
  <2>16. BackupComplete'
    BY <1>10, <2>1, <2>2, <2>3, <1>a, <1>c, <1>d DEF StoreFail, BackupComplete, TypeOK
  <2> QED
    BY <2>11, <2>12, <2>13, <2>14, <2>15, <2>16, <1>b
<1>11. CASE \E e \in Edits : Type(e)
  <2>1. /\ InFlight' = InFlight /\ request' = request
        /\ \A r \in InFlight :
              request[r].op \in {"save", "suggestion"} /\ KnowsPhase(r) /\ Keeps(r) /\ InFlight = {r}
    BY <1>11, WhoIsThere DEF Type, InFlight
  <2>2. phase = "open"
    BY <1>11, <1>a DEF Type, DocumentStored
  <2>3. \A r \in InFlight : request[r].at \in {"openCheck", "decided"}
    BY <2>1, <2>2 DEF KnowsPhase
  <2>11. OnlyUsed'
    BY <1>11, <2>1, <2>2, <2>3, <1>a, <1>c, <1>d DEF Type, OnlyUsed, Stored, TypeOK
  <2>12. NothingLost'
    BY <1>11, <2>1, <2>2, <2>3, <1>a, <1>c, <1>d DEF Type, NothingLost, Current, Stored, TypeOK
  <2>13. RequestsKeep'
    BY <1>11, <2>1, <2>2, <2>3, <1>a, <1>c, <1>d
       DEF Type, RequestsKeep, Keeps, Kept, Current, Stored, TypeOK
  <2>14. DriveFollows'
    BY <1>11, <2>1, <2>2, <2>3, <1>a, <1>c, <1>d
       DEF Type, DriveFollows, Current, Stored, Faulty, FaultsMayCome, DocumentStored, TypeOK
  <2>15. DurableKept'
    BY <1>11, <2>1, <2>2, <2>3, <1>a, <1>c, <1>d
       DEF Type, DurableKept, NothingLost, Current, Kept, Stored, FaultsMayCome, DocumentStored,
           OnlyUsed, TypeOK
  <2>16. BackupComplete'
    BY <1>11, <2>1, <2>2, <2>3, <1>a, <1>c, <1>d DEF Type, BackupComplete, TypeOK
  <2> QED
    BY <2>11, <2>12, <2>13, <2>14, <2>15, <2>16, <1>b
<1>12. CASE Crash
  <2>1. /\ InFlight' = {}
        /\ \A r \in Requests :
              /\ request'[r].op = request[r].op /\ request'[r].new = request[r].new
              /\ request'[r].edit = request[r].edit
    BY <1>12, <1>a, CrashFacts
  <2>11. OnlyUsed'
    BY <1>12, <2>1, <1>a, <1>c, <1>d DEF Crash, OnlyUsed, Stored, TypeOK
  <2>12. NothingLost'
    <3>1. Current' = Stored /\ FaultsMayCome /\ Kept \cap durable \subseteq Stored
      BY <1>12, <1>c DEF Crash, Current, Stored, DurableKept
    <3> QED
      BY <1>12, <3>1 DEF Crash, NothingLost, Kept
  <2>13. RequestsKeep'
    BY <1>12, <2>1, <1>a, <1>c, <1>d DEF Crash, RequestsKeep, Keeps, Kept, Current, Stored, TypeOK
  <2>14. DriveFollows'
    BY <1>12, <2>1, <1>a, <1>c, <1>d
       DEF Crash, DriveFollows, Current, Stored, Faulty, FaultsMayCome, DocumentStored, TypeOK
  <2>15. DurableKept'
    BY <1>12, <2>1, <1>a, <1>c, <1>d
       DEF Crash, DurableKept, NothingLost, Current, Kept, Stored, FaultsMayCome, DocumentStored,
           OnlyUsed, TypeOK
  <2>16. BackupComplete'
    BY <1>12, <2>1, <1>a, <1>c, <1>d DEF Crash, BackupComplete, TypeOK
  <2> QED
    BY <2>11, <2>12, <2>13, <2>14, <2>15, <2>16, <1>b
<1>13. ASSUME NEW r \in Requests, NEW e \in Edits, Save(r, e) PROVE KeptInv'
  <2>0. Current \cup (IF phase = "open" THEN {} ELSE {e}) \in Texts /\ (IF phase = "open" THEN {} ELSE {e}) \in Texts
    BY <1>a, TextFacts DEF TypeOK
  <2>1. Begin(r, "save", Current \cup (IF phase = "open" THEN {} ELSE {e}), (IF phase = "open" THEN {} ELSE {e}), "openCheck")
    BY <1>13 DEF Save
  <2>2. /\ \A s \in Requests : s # r => request'[s] = request[s]
        /\ request[r].op = "none"
        /\ request'[r].at = "openCheck" /\ request'[r].op = "save" /\ request'[r].new = Current \cup (IF phase = "open" THEN {} ELSE {e})
        /\ request'[r].edit = (IF phase = "open" THEN {} ELSE {e})
        /\ InFlight = {} /\ InFlight' = {r}
    BY <2>0, <2>1, <1>a, BeginFacts DEF AllOperations, Awaits, KeptInv, StoreInv, OneAtATime
  <2>3. /\ phase' = phase /\ storing' = storing /\ storeText' = storeText /\ used' = used \cup (IF phase = "open" THEN {} ELSE {e})
        /\ (IF phase = "open" THEN {} ELSE {e}) \cap used = {} /\ "save" \in Operations /\ phase \in {"closed", "open"}
        /\ "save" \in EditsDuring \/ storing = "none"
        /\ Faulty => "save" \in FaultsDuring
    BY <2>1, <1>13, WhoIsThere DEF Save, Begin, LoadsWait
  <2>4. /\ FaultsMayCome' => FaultsMayCome /\ "save" \in FaultsDuring
        /\ "save" \in FaultsDuring /\ FaultsMayCome => FaultsMayCome'
        /\ "save" \in FaultsDuring => "save" = "save"
        /\ "save" \in EditsDuring => "save" \in {"save", "suggestion"}
    BY <2>2, <2>3 DEF FaultsMayCome, OneAtATime
  <2>11. OnlyUsed'
    <3>1. \A s \in Requests : request'[s].new \subseteq used' /\ request'[s].edit \subseteq used'
      BY <1>c, <1>e, <2>2, <2>3 DEF OnlyUsed
    <3>2. live \subseteq used
      BY <1>c, <1>e DEF OnlyUsed
    <3> QED
      BY <1>13, <1>c, <2>3, <3>1, <3>2 DEF Save, OnlyUsed, Stored
  <2>12. NothingLost'
    BY <1>13, <2>2, <2>3, <2>4, <1>a, <1>c, <1>d DEF Save, NothingLost, Current, Stored, TypeOK
  <2>13. RequestsKeep'
    <3>1. Keeps(r)'
      BY <1>13, <1>e, <2>2, <2>3, <2>4 DEF Save, Keeps, Kept
    <3> QED
      BY <3>1, <2>2 DEF RequestsKeep
  <2>14. DriveFollows'
    BY <1>13, <2>2, <2>3, <2>4, <1>a, <1>c, <1>d
       DEF Save, DriveFollows, Current, Stored, Faulty, FaultsMayCome, DocumentStored, TypeOK
  <2>15. DurableKept'
    BY <1>13, <2>2, <2>3, <2>4, <1>a, <1>c, <1>d
       DEF Save, DurableKept, NothingLost, Current, Kept, Stored, FaultsMayCome, DocumentStored,
           OnlyUsed, TypeOK
  <2>16. BackupComplete'
    BY <1>13, <2>2, <2>3, <2>4, <1>a, <1>c, <1>d DEF Save, BackupComplete, TypeOK
  <2> QED
    BY <2>11, <2>12, <2>13, <2>14, <2>15, <2>16, <1>b
<1>14. ASSUME NEW r \in Requests, Autosave(r) PROVE KeptInv'
  <2>0. live \in Texts /\ {} \in Texts
    BY <1>a, TextFacts DEF TypeOK
  <2>1. Begin(r, "autosave", live, {}, "disk")
    BY <1>14 DEF Autosave
  <2>2. /\ \A s \in Requests : s # r => request'[s] = request[s]
        /\ request[r].op = "none"
        /\ request'[r].at = "disk" /\ request'[r].op = "autosave" /\ request'[r].new = live
        /\ request'[r].edit = {}
        /\ InFlight = {} /\ InFlight' = {r}
    BY <2>0, <2>1, <1>a, BeginFacts DEF AllOperations, Awaits, KeptInv, StoreInv, OneAtATime
  <2>3. /\ phase' = phase /\ storing' = storing /\ storeText' = storeText /\ used' = used \cup {}
        /\ {} \cap used = {} /\ "autosave" \in Operations /\ phase \in {"closed", "open"}
        /\ "autosave" \in EditsDuring \/ storing = "none"
        /\ Faulty => "autosave" \in FaultsDuring
    BY <2>1, <1>14, WhoIsThere DEF Autosave, Begin, LoadsWait
  <2>4. /\ FaultsMayCome' => FaultsMayCome /\ "autosave" \in FaultsDuring
        /\ "autosave" \in FaultsDuring /\ FaultsMayCome => FaultsMayCome'
        /\ "autosave" \in FaultsDuring => "autosave" = "save"
        /\ "autosave" \in EditsDuring => "autosave" \in {"save", "suggestion"}
    BY <2>2, <2>3 DEF FaultsMayCome, OneAtATime
  <2>11. OnlyUsed'
    BY <1>14, <2>2, <2>3, <2>4, <1>a, <1>c, <1>d DEF Autosave, OnlyUsed, Stored, TypeOK
  <2>12. NothingLost'
    BY <1>14, <2>2, <2>3, <2>4, <1>a, <1>c, <1>d DEF Autosave, NothingLost, Current, Stored, TypeOK
  <2>13. RequestsKeep'
    <3>1. Keeps(r)'
      BY <1>14, <1>e, <2>2, <2>3, <2>4 DEF Autosave, Keeps, Kept
    <3> QED
      BY <3>1, <2>2 DEF RequestsKeep
  <2>14. DriveFollows'
    BY <1>14, <2>2, <2>3, <2>4, <1>a, <1>c, <1>d
       DEF Autosave, DriveFollows, Current, Stored, Faulty, FaultsMayCome, DocumentStored, TypeOK
  <2>15. DurableKept'
    BY <1>14, <2>2, <2>3, <2>4, <1>a, <1>c, <1>d
       DEF Autosave, DurableKept, NothingLost, Current, Kept, Stored, FaultsMayCome,
           DocumentStored, OnlyUsed, TypeOK
  <2>16. BackupComplete'
    BY <1>14, <2>2, <2>3, <2>4, <1>a, <1>c, <1>d DEF Autosave, BackupComplete, TypeOK
  <2> QED
    BY <2>11, <2>12, <2>13, <2>14, <2>15, <2>16, <1>b
<1>15. ASSUME NEW r \in Requests, NEW e \in Edits, SuggestionOpen(r, e) PROVE KeptInv'
  <2>0. {} \in Texts /\ {e} \in Texts
    BY <1>a, TextFacts DEF TypeOK
  <2>1. Begin(r, "suggestion", {}, {e}, "decided")
    BY <1>15 DEF SuggestionOpen
  <2>2. /\ \A s \in Requests : s # r => request'[s] = request[s]
        /\ request[r].op = "none"
        /\ request'[r].at = "decided" /\ request'[r].op = "suggestion" /\ request'[r].new = {}
        /\ request'[r].edit = {e}
        /\ InFlight = {} /\ InFlight' = {r}
    BY <2>0, <2>1, <1>a, BeginFacts DEF AllOperations, Awaits, KeptInv, StoreInv, OneAtATime
  <2>3. /\ phase' = phase /\ storing' = storing /\ storeText' = storeText /\ used' = used \cup {e}
        /\ {e} \cap used = {} /\ "suggestion" \in Operations /\ phase \in {"closed", "open"}
        /\ "suggestion" \in EditsDuring \/ storing = "none"
        /\ Faulty => "suggestion" \in FaultsDuring
    BY <2>1, <1>15, WhoIsThere DEF SuggestionOpen, Transact, Begin, LoadsWait
  <2>4. /\ FaultsMayCome' => FaultsMayCome /\ "suggestion" \in FaultsDuring
        /\ "suggestion" \in FaultsDuring /\ FaultsMayCome => FaultsMayCome'
        /\ "suggestion" \in FaultsDuring => "suggestion" = "save"
        /\ "suggestion" \in EditsDuring => "suggestion" \in {"save", "suggestion"}
    BY <2>2, <2>3 DEF FaultsMayCome, OneAtATime
  <2>11. OnlyUsed'
    BY <1>15, <2>2, <2>3, <2>4, <1>a, <1>c, <1>d
       DEF SuggestionOpen, Transact, OnlyUsed, Stored, TypeOK
  <2>12. NothingLost'
    BY <1>15, <2>2, <2>3, <2>4, <1>a, <1>c, <1>d
       DEF SuggestionOpen, Transact, NothingLost, Current, Stored, TypeOK
  <2>13. RequestsKeep'
    <3>1. Keeps(r)'
      BY <1>15, <1>e, <2>2, <2>3, <2>4 DEF SuggestionOpen, Transact, Keeps, Kept
    <3> QED
      BY <3>1, <2>2 DEF RequestsKeep
  <2>14. DriveFollows'
    BY <1>15, <2>2, <2>3, <2>4, <1>a, <1>c, <1>d
       DEF SuggestionOpen, Transact, DriveFollows, Current, Stored, Faulty, FaultsMayCome,
           DocumentStored, TypeOK
  <2>15. DurableKept'
    BY <1>15, <2>2, <2>3, <2>4, <1>a, <1>c, <1>d
       DEF SuggestionOpen, Transact, DurableKept, NothingLost, Current, Kept, Stored,
           FaultsMayCome, DocumentStored, OnlyUsed, TypeOK
  <2>16. BackupComplete'
    BY <1>15, <2>2, <2>3, <2>4, <1>a, <1>c, <1>d
       DEF SuggestionOpen, Transact, BackupComplete, TypeOK
  <2> QED
    BY <2>11, <2>12, <2>13, <2>14, <2>15, <2>16, <1>b
<1>16. ASSUME NEW r \in Requests, NEW e \in Edits, SuggestionClosed(r, e) PROVE KeptInv'
  <2>0. disk \cup {e} \in Texts /\ {e} \in Texts
    BY <1>a, TextFacts DEF TypeOK
  <2>1. Begin(r, "suggestion", disk \cup {e}, {e}, "read")
    BY <1>16 DEF SuggestionClosed
  <2>2. /\ \A s \in Requests : s # r => request'[s] = request[s]
        /\ request[r].op = "none"
        /\ request'[r].at = "read" /\ request'[r].op = "suggestion" /\ request'[r].new = disk \cup {e}
        /\ request'[r].edit = {e}
        /\ InFlight = {} /\ InFlight' = {r}
    BY <2>0, <2>1, <1>a, BeginFacts DEF AllOperations, Awaits, KeptInv, StoreInv, OneAtATime
  <2>3. /\ phase' = phase /\ storing' = storing /\ storeText' = storeText /\ used' = used \cup {e}
        /\ {e} \cap used = {} /\ "suggestion" \in Operations /\ phase \in {"closed", "open"}
        /\ "suggestion" \in EditsDuring \/ storing = "none"
        /\ Faulty => "suggestion" \in FaultsDuring
    BY <2>1, <1>16, WhoIsThere DEF SuggestionClosed, Begin, LoadsWait
  <2>4. /\ FaultsMayCome' => FaultsMayCome /\ "suggestion" \in FaultsDuring
        /\ "suggestion" \in FaultsDuring /\ FaultsMayCome => FaultsMayCome'
        /\ "suggestion" \in FaultsDuring => "suggestion" = "save"
        /\ "suggestion" \in EditsDuring => "suggestion" \in {"save", "suggestion"}
    BY <2>2, <2>3 DEF FaultsMayCome, OneAtATime
  <2>11. OnlyUsed'
    BY <1>16, <2>2, <2>3, <2>4, <1>a, <1>c, <1>d DEF SuggestionClosed, OnlyUsed, Stored, TypeOK
  <2>12. NothingLost'
    BY <1>16, <2>2, <2>3, <2>4, <1>a, <1>c, <1>d
       DEF SuggestionClosed, NothingLost, Current, Stored, TypeOK
  <2>13. RequestsKeep'
    <3>0. disk = Current
      BY <1>16, <1>f, <2>2, <2>3, <2>4 DEF SuggestionClosed
    <3>1. Keeps(r)'
      BY <1>16, <3>0, <1>e, <2>2, <2>3, <2>4 DEF SuggestionClosed, Keeps, Kept
    <3> QED
      BY <3>1, <2>2 DEF RequestsKeep
  <2>14. DriveFollows'
    BY <1>16, <2>2, <2>3, <2>4, <1>a, <1>c, <1>d
       DEF SuggestionClosed, DriveFollows, Current, Stored, Faulty, FaultsMayCome, DocumentStored,
           TypeOK
  <2>15. DurableKept'
    BY <1>16, <2>2, <2>3, <2>4, <1>a, <1>c, <1>d
       DEF SuggestionClosed, DurableKept, NothingLost, Current, Kept, Stored, FaultsMayCome,
           DocumentStored, OnlyUsed, TypeOK
  <2>16. BackupComplete'
    BY <1>16, <2>2, <2>3, <2>4, <1>a, <1>c, <1>d DEF SuggestionClosed, BackupComplete, TypeOK
  <2> QED
    BY <2>11, <2>12, <2>13, <2>14, <2>15, <2>16, <1>b
<1>17. ASSUME NEW r \in Requests, NEW e \in Edits, Ai(r, e) PROVE KeptInv'
  <2>0. Current \cup {e} \in Texts /\ {e} \in Texts
    BY <1>a, TextFacts DEF TypeOK
  <2>1. Begin(r, "ai", Current \cup {e}, {e}, "model")
    BY <1>17 DEF Ai
  <2>2. /\ \A s \in Requests : s # r => request'[s] = request[s]
        /\ request[r].op = "none"
        /\ request'[r].at = "model" /\ request'[r].op = "ai" /\ request'[r].new = Current \cup {e}
        /\ request'[r].edit = {e}
        /\ InFlight = {} /\ InFlight' = {r}
    BY <2>0, <2>1, <1>a, BeginFacts DEF AllOperations, Awaits, KeptInv, StoreInv, OneAtATime
  <2>3. /\ phase' = phase /\ storing' = storing /\ storeText' = storeText /\ used' = used \cup {e}
        /\ {e} \cap used = {} /\ "ai" \in Operations /\ phase \in {"closed", "open"}
        /\ "ai" \in EditsDuring \/ storing = "none"
        /\ Faulty => "ai" \in FaultsDuring
    BY <2>1, <1>17, WhoIsThere DEF Ai, Begin, LoadsWait
  <2>4. /\ FaultsMayCome' => FaultsMayCome /\ "ai" \in FaultsDuring
        /\ "ai" \in FaultsDuring /\ FaultsMayCome => FaultsMayCome'
        /\ "ai" \in FaultsDuring => "ai" = "save"
        /\ "ai" \in EditsDuring => "ai" \in {"save", "suggestion"}
    BY <2>2, <2>3 DEF FaultsMayCome, OneAtATime
  <2>11. OnlyUsed'
    <3>1. \A s \in Requests : request'[s].new \subseteq used' /\ request'[s].edit \subseteq used'
      BY <1>c, <1>e, <2>2, <2>3 DEF OnlyUsed
    <3>2. live \subseteq used
      BY <1>c, <1>e DEF OnlyUsed
    <3> QED
      BY <1>17, <1>c, <2>3, <3>1, <3>2 DEF Ai, OnlyUsed, Stored
  <2>12. NothingLost'
    BY <1>17, <2>2, <2>3, <2>4, <1>a, <1>c, <1>d DEF Ai, NothingLost, Current, Stored, TypeOK
  <2>13. RequestsKeep'
    <3>1. Keeps(r)'
      BY <1>17, <1>e, <2>2, <2>3, <2>4 DEF Ai, Keeps, Kept
    <3> QED
      BY <3>1, <2>2 DEF RequestsKeep
  <2>14. DriveFollows'
    BY <1>17, <2>2, <2>3, <2>4, <1>a, <1>c, <1>d
       DEF Ai, DriveFollows, Current, Stored, Faulty, FaultsMayCome, DocumentStored, TypeOK
  <2>15. DurableKept'
    BY <1>17, <2>2, <2>3, <2>4, <1>a, <1>c, <1>d
       DEF Ai, DurableKept, NothingLost, Current, Kept, Stored, FaultsMayCome, DocumentStored,
           OnlyUsed, TypeOK
  <2>16. BackupComplete'
    BY <1>17, <2>2, <2>3, <2>4, <1>a, <1>c, <1>d DEF Ai, BackupComplete, TypeOK
  <2> QED
    BY <2>11, <2>12, <2>13, <2>14, <2>15, <2>16, <1>b
<1>18. ASSUME NEW r \in Requests, NEW e \in Edits, Content(r, e) PROVE KeptInv'
  <2>0. PICK keep \in {Current, {}} :
              /\ Begin(r, "content", keep \cup {e}, {e}, "disk")
              /\ ReplaceOpen(r, keep \cup {e})
              /\ removed' = removed \cup (Current \ keep)
              /\ UNCHANGED <<accepted, restoredOver, durable>>
    BY <1>18 DEF Content
  <2>1. keep \cup {e} \in Texts /\ {e} \in Texts /\ Begin(r, "content", keep \cup {e}, {e}, "disk")
    BY <2>0, <1>a, TextFacts DEF TypeOK
  <2>2. /\ \A s \in Requests : s # r => request'[s] = request[s]
        /\ request[r].op = "none"
        /\ request'[r].at = "disk" /\ request'[r].op = "content" /\ request'[r].new = keep \cup {e}
        /\ request'[r].edit = {e}
        /\ InFlight = {} /\ InFlight' = {r}
    BY <2>0, <2>1, <1>a, BeginFacts DEF AllOperations, Awaits, KeptInv, StoreInv, OneAtATime
  <2>3. /\ phase' = phase /\ storing' = storing /\ storeText' = storeText /\ used' = used \cup {e}
        /\ {e} \cap used = {} /\ "content" \in Operations /\ phase \in {"closed", "open"}
        /\ "content" \in EditsDuring \/ storing = "none"
        /\ Faulty => "content" \in FaultsDuring
    BY <2>1, <1>18, <2>0, WhoIsThere DEF Content, ReplaceOpen, Transact, Begin, LoadsWait
  <2>4. /\ FaultsMayCome' => FaultsMayCome /\ "content" \in FaultsDuring
        /\ "content" \in FaultsDuring /\ FaultsMayCome => FaultsMayCome'
        /\ "content" \in FaultsDuring => "content" = "save"
        /\ "content" \in EditsDuring => "content" \in {"save", "suggestion"}
    BY <2>2, <2>3 DEF FaultsMayCome, OneAtATime
  <2>11. OnlyUsed'
    <3>1. \A s \in Requests : request'[s].new \subseteq used' /\ request'[s].edit \subseteq used'
      BY <1>c, <1>e, <2>0, <2>2, <2>3 DEF OnlyUsed
    <3>2. keep \subseteq used
      BY <1>c, <1>e, <2>0 DEF OnlyUsed
    <3> QED
      BY <1>18, <2>0, <1>c, <2>3, <3>1, <3>2 DEF Content, ReplaceOpen, Transact, OnlyUsed, Stored
  <2>12. NothingLost'
    BY <1>18, <2>0, <2>2, <2>3, <2>4, <1>a, <1>c, <1>d
       DEF Content, ReplaceOpen, Transact, NothingLost, Current, Stored, TypeOK
  <2>13. RequestsKeep'
    <3>1. Keeps(r)'
      BY <1>18, <2>0, <1>e, <2>2, <2>3, <2>4 DEF Content, ReplaceOpen, Transact, Keeps, Kept
    <3> QED
      BY <3>1, <2>2 DEF RequestsKeep
  <2>14. DriveFollows'
    BY <1>18, <2>0, <2>2, <2>3, <2>4, <1>a, <1>c, <1>d
       DEF Content, ReplaceOpen, Transact, DriveFollows, Current, Stored, Faulty, FaultsMayCome,
           DocumentStored, TypeOK
  <2>15. DurableKept'
    BY <1>18, <2>0, <2>2, <2>3, <2>4, <1>a, <1>c, <1>d
       DEF Content, ReplaceOpen, Transact, DurableKept, NothingLost, Current, Kept, Stored,
           FaultsMayCome, DocumentStored, OnlyUsed, TypeOK
  <2>16. BackupComplete'
    BY <1>18, <2>0, <2>2, <2>3, <2>4, <1>a, <1>c, <1>d
       DEF Content, ReplaceOpen, Transact, BackupComplete, TypeOK
  <2> QED
    BY <2>11, <2>12, <2>13, <2>14, <2>15, <2>16, <1>b
<1>19. ASSUME NEW r \in Requests, Restore(r) PROVE KeptInv'
  <2>0. PICK t \in revisions :
              /\ Begin(r, "restore", t, {}, "backup")
              /\ revisions' = revisions \cup {IF phase = "open" THEN live ELSE disk}
              /\ UNCHANGED <<docVars, collab, disk, durable, accepted, removed, restoredOver, boundVars>>
    BY <1>19 DEF Restore
  <2>1. t \in Texts /\ {} \in Texts /\ Begin(r, "restore", t, {}, "backup")
    BY <2>0, <1>a, TextFacts DEF TypeOK
  <2>2. /\ \A s \in Requests : s # r => request'[s] = request[s]
        /\ request[r].op = "none"
        /\ request'[r].at = "backup" /\ request'[r].op = "restore" /\ request'[r].new = t
        /\ request'[r].edit = {}
        /\ InFlight = {} /\ InFlight' = {r}
    BY <2>0, <2>1, <1>a, BeginFacts DEF AllOperations, Awaits, KeptInv, StoreInv, OneAtATime
  <2>3. /\ phase' = phase /\ storing' = storing /\ storeText' = storeText /\ used' = used \cup {}
        /\ {} \cap used = {} /\ "restore" \in Operations /\ phase \in {"closed", "open"}
        /\ "restore" \in EditsDuring \/ storing = "none"
        /\ Faulty => "restore" \in FaultsDuring
    BY <2>1, <1>19, <2>0, WhoIsThere DEF Restore, Begin, LoadsWait
  <2>4. /\ FaultsMayCome' => FaultsMayCome /\ "restore" \in FaultsDuring
        /\ "restore" \in FaultsDuring /\ FaultsMayCome => FaultsMayCome'
        /\ "restore" \in FaultsDuring => "restore" = "save"
        /\ "restore" \in EditsDuring => "restore" \in {"save", "suggestion"}
    BY <2>2, <2>3 DEF FaultsMayCome, OneAtATime
  <2>11. OnlyUsed'
    BY <1>19, <2>0, <2>2, <2>3, <2>4, <1>a, <1>c, <1>d DEF Restore, OnlyUsed, Stored, TypeOK
  <2>12. NothingLost'
    BY <1>19, <2>0, <2>2, <2>3, <2>4, <1>a, <1>c, <1>d
       DEF Restore, NothingLost, Current, Stored, TypeOK
  <2>13. RequestsKeep'
    <3>0. Current' \in revisions' /\ storing = "none"
      <4>1. Current' = Current /\ storing = "none" /\ ~ Faulty
        BY <2>0, <2>2, <2>3, <2>4 DEF Current, Stored
      <4>2. Current = IF phase = "open" THEN live ELSE disk
        BY <4>1, <1>e, <1>f, <2>2
      <4> QED
        BY <4>1, <4>2, <2>0
    <3>1. Keeps(r)'
      BY <1>19, <2>0, <3>0, <1>e, <2>2, <2>3, <2>4 DEF Restore, Keeps, Kept
    <3> QED
      BY <3>1, <2>2 DEF RequestsKeep
  <2>14. DriveFollows'
    BY <1>19, <2>0, <2>2, <2>3, <2>4, <1>a, <1>c, <1>d
       DEF Restore, DriveFollows, Current, Stored, Faulty, FaultsMayCome, DocumentStored, TypeOK
  <2>15. DurableKept'
    BY <1>19, <2>0, <2>2, <2>3, <2>4, <1>a, <1>c, <1>d
       DEF Restore, DurableKept, NothingLost, Current, Kept, Stored, FaultsMayCome, DocumentStored,
           OnlyUsed, TypeOK
  <2>16. BackupComplete'
    BY <1>19, <2>0, <2>2, <2>3, <2>4, <1>a, <1>c, <1>d DEF Restore, BackupComplete, TypeOK
  <2> QED
    BY <2>11, <2>12, <2>13, <2>14, <2>15, <2>16, <1>b
<1>20. ASSUME NEW r \in Requests, NEW e \in Edits, SaveElsewhere(r, e) PROVE KeptInv'
  BY <1>20 DEF SaveElsewhere, Begin, OneAtATime
<1>21. ASSUME NEW r \in Requests, SaveOpen(r) PROVE KeptInv'
  <2>1. InFlight = {r} /\ KnowsPhase(r) /\ Keeps(r) /\ request[r].op # "saveElsewhere"
    <3>1. r \in InFlight
      BY <1>21 DEF SaveOpen, At, InFlight
    <3> QED
      BY <3>1, WhoIsThere
  <2>3. /\ \A s \in Requests : s # r => request'[s] = request[s]
        /\ request'[r].at = "done" /\ request'[r].op = request[r].op
        /\ request'[r].new = request[r].new /\ request'[r].edit = request[r].edit
        /\ InFlight' = {}
    BY <1>21, <2>1, <1>a, GoFacts DEF SaveOpen, Awaits, Done
  <2>4. /\ phase' = phase /\ loads' = loads /\ storing' = storing /\ storeText' = storeText
        /\ FaultsMayCome' = FaultsMayCome /\ Faulty' = Faulty
    BY <1>21, <2>3 DEF SaveOpen, Done, FaultsMayCome, Faulty
  <2>5. request[r].op \in AllOperations /\ request[r].new \in Texts /\ request[r].edit \in Texts
    BY <2>1, <1>a, FileStorageAssumption DEF KnowsPhase, TypeOK
  <2>11. OnlyUsed'
    BY <1>21, <2>1, <2>3, <2>4, <2>5, <1>a, <1>c, <1>d
       DEF SaveOpen, At, Done, KnowsPhase, Keeps, Kept, OnlyUsed, Stored, TypeOK
  <2>12. NothingLost'
    BY <1>21, <2>1, <2>3, <2>4, <2>5, <1>a, <1>c, <1>d
       DEF SaveOpen, At, Done, KnowsPhase, Keeps, Kept, NothingLost, Current, Stored, TypeOK
  <2>13. RequestsKeep'
    BY <1>21, <2>1, <2>3, <2>4, <2>5, <1>a, <1>c, <1>d
       DEF SaveOpen, At, Done, KnowsPhase, Keeps, Kept, RequestsKeep, Keeps, Kept, Current, Stored,
           TypeOK
  <2>14. DriveFollows'
    BY <1>21, <2>1, <2>3, <2>4, <2>5, <1>a, <1>c, <1>d
       DEF SaveOpen, At, Done, KnowsPhase, Keeps, Kept, DriveFollows, Current, Stored, Faulty,
           FaultsMayCome, DocumentStored, TypeOK
  <2>15. DurableKept'
    BY <1>21, <2>1, <2>3, <2>4, <2>5, <1>a, <1>c, <1>d
       DEF SaveOpen, At, Done, KnowsPhase, Keeps, Kept, DurableKept, NothingLost, Current, Kept,
           Stored, FaultsMayCome, DocumentStored, OnlyUsed, TypeOK
  <2>16. BackupComplete'
    BY <1>21, <2>1, <2>3, <2>4, <2>5, <1>a, <1>c, <1>d
       DEF SaveOpen, At, Done, KnowsPhase, Keeps, Kept, BackupComplete, TypeOK
  <2> QED
    BY <2>11, <2>12, <2>13, <2>14, <2>15, <2>16, <1>b
<1>22. ASSUME NEW r \in Requests, SaveClosed(r) PROVE KeptInv'
  <2>1. InFlight = {r} /\ KnowsPhase(r) /\ Keeps(r) /\ request[r].op # "saveElsewhere"
    <3>1. r \in InFlight
      BY <1>22 DEF SaveClosed, At, InFlight
    <3> QED
      BY <3>1, WhoIsThere
  <2>3. /\ \A s \in Requests : s # r => request'[s] = request[s]
        /\ request'[r].at = "disk" /\ request'[r].op = request[r].op
        /\ request'[r].new = request[r].new /\ request'[r].edit = request[r].edit
        /\ InFlight' = {r}
    BY <1>22, <2>1, <1>a, GoFacts DEF SaveClosed, Awaits
  <2>4. /\ phase' = phase /\ loads' = loads /\ storing' = storing /\ storeText' = storeText
        /\ FaultsMayCome' = FaultsMayCome /\ Faulty' = Faulty
    BY <1>22, <2>3 DEF SaveClosed, FaultsMayCome, Faulty
  <2>5. request[r].op \in AllOperations /\ request[r].new \in Texts /\ request[r].edit \in Texts
    BY <2>1, <1>a, FileStorageAssumption DEF KnowsPhase, TypeOK
  <2>11. OnlyUsed'
    BY <1>22, <2>1, <2>3, <2>4, <2>5, <1>a, <1>c, <1>d
       DEF SaveClosed, At, KnowsPhase, Keeps, Kept, OnlyUsed, Stored, TypeOK
  <2>12. NothingLost'
    BY <1>22, <2>1, <2>3, <2>4, <2>5, <1>a, <1>c, <1>d
       DEF SaveClosed, At, KnowsPhase, Keeps, Kept, NothingLost, Current, Stored, TypeOK
  <2>13. RequestsKeep'
    BY <1>22, <2>1, <2>3, <2>4, <2>5, <1>a, <1>c, <1>d
       DEF SaveClosed, At, KnowsPhase, Keeps, Kept, RequestsKeep, Keeps, Kept, Current, Stored,
           TypeOK
  <2>14. DriveFollows'
    BY <1>22, <2>1, <2>3, <2>4, <2>5, <1>a, <1>c, <1>d
       DEF SaveClosed, At, KnowsPhase, Keeps, Kept, DriveFollows, Current, Stored, Faulty,
           FaultsMayCome, DocumentStored, TypeOK
  <2>15. DurableKept'
    BY <1>22, <2>1, <2>3, <2>4, <2>5, <1>a, <1>c, <1>d
       DEF SaveClosed, At, KnowsPhase, Keeps, Kept, DurableKept, NothingLost, Current, Kept,
           Stored, FaultsMayCome, DocumentStored, OnlyUsed, TypeOK
  <2>16. BackupComplete'
    BY <1>22, <2>1, <2>3, <2>4, <2>5, <1>a, <1>c, <1>d
       DEF SaveClosed, At, KnowsPhase, Keeps, Kept, BackupComplete, TypeOK
  <2> QED
    BY <2>11, <2>12, <2>13, <2>14, <2>15, <2>16, <1>b
<1>23. ASSUME NEW r \in Requests, SuggestionDecided(r) PROVE KeptInv'
  <2>1. InFlight = {r} /\ KnowsPhase(r) /\ Keeps(r) /\ request[r].op # "saveElsewhere"
    <3>1. r \in InFlight
      BY <1>23 DEF SuggestionDecided, At, InFlight
    <3> QED
      BY <3>1, WhoIsThere
  <2>3. /\ \A s \in Requests : s # r => request'[s] = request[s]
        /\ request'[r].at = "done" /\ request'[r].op = request[r].op
        /\ request'[r].new = request[r].new /\ request'[r].edit = request[r].edit
        /\ InFlight' = {}
    BY <1>23, <2>1, <1>a, GoFacts DEF SuggestionDecided, Awaits, Done
  <2>4. /\ phase' = phase /\ loads' = loads /\ storing' = storing /\ storeText' = storeText
        /\ FaultsMayCome' = FaultsMayCome /\ Faulty' = Faulty
    BY <1>23, <2>3 DEF SuggestionDecided, Done, FaultsMayCome, Faulty
  <2>5. request[r].op \in AllOperations /\ request[r].new \in Texts /\ request[r].edit \in Texts
    BY <2>1, <1>a, FileStorageAssumption DEF KnowsPhase, TypeOK
  <2>11. OnlyUsed'
    BY <1>23, <2>1, <2>3, <2>4, <2>5, <1>a, <1>c, <1>d
       DEF SuggestionDecided, At, Done, KnowsPhase, Keeps, Kept, OnlyUsed, Stored, TypeOK
  <2>12. NothingLost'
    BY <1>23, <2>1, <2>3, <2>4, <2>5, <1>a, <1>c, <1>d
       DEF SuggestionDecided, At, Done, KnowsPhase, Keeps, Kept, NothingLost, Current, Stored,
           TypeOK
  <2>13. RequestsKeep'
    BY <1>23, <2>1, <2>3, <2>4, <2>5, <1>a, <1>c, <1>d
       DEF SuggestionDecided, At, Done, KnowsPhase, Keeps, Kept, RequestsKeep, Keeps, Kept,
           Current, Stored, TypeOK
  <2>14. DriveFollows'
    BY <1>23, <2>1, <2>3, <2>4, <2>5, <1>a, <1>c, <1>d
       DEF SuggestionDecided, At, Done, KnowsPhase, Keeps, Kept, DriveFollows, Current, Stored,
           Faulty, FaultsMayCome, DocumentStored, TypeOK
  <2>15. DurableKept'
    <3>1. request[r].op # "save" /\ r \in InFlight
      BY <1>23, <2>1 DEF SuggestionDecided, At
    <3> QED
      BY <2>4, <3>1, WhoIsThere DEF DurableKept
  <2>16. BackupComplete'
    BY <1>23, <2>1, <2>3, <2>4, <2>5, <1>a, <1>c, <1>d
       DEF SuggestionDecided, At, Done, KnowsPhase, Keeps, Kept, BackupComplete, TypeOK
  <2> QED
    BY <2>11, <2>12, <2>13, <2>14, <2>15, <2>16, <1>b
<1>24. ASSUME NEW r \in Requests, AiOpen(r) PROVE KeptInv'
  <2>1. InFlight = {r} /\ KnowsPhase(r) /\ Keeps(r) /\ request[r].op # "saveElsewhere"
    <3>1. r \in InFlight
      BY <1>24 DEF AiOpen, At, InFlight
    <3> QED
      BY <3>1, WhoIsThere
  <2>3. /\ \A s \in Requests : s # r => request'[s] = request[s]
        /\ request'[r].at = "done" /\ request'[r].op = request[r].op
        /\ request'[r].new = request[r].new /\ request'[r].edit = request[r].edit
        /\ InFlight' = {}
    BY <1>24, <2>1, <1>a, GoFacts DEF AiOpen, Awaits, Done
  <2>4. /\ phase' = phase /\ loads' = loads /\ storing' = storing /\ storeText' = storeText
        /\ FaultsMayCome' = FaultsMayCome /\ Faulty' = Faulty
    BY <1>24, <2>3 DEF AiOpen, Transact, Done, FaultsMayCome, Faulty
  <2>5. request[r].op \in AllOperations /\ request[r].new \in Texts /\ request[r].edit \in Texts
    BY <2>1, <1>a, FileStorageAssumption DEF KnowsPhase, TypeOK
  <2>11. OnlyUsed'
    BY <1>24, <2>1, <2>3, <2>4, <2>5, <1>a, <1>c, <1>d
       DEF AiOpen, At, Transact, Done, KnowsPhase, Keeps, Kept, OnlyUsed, Stored, TypeOK
  <2>12. NothingLost'
    BY <1>24, <2>1, <2>3, <2>4, <2>5, <1>a, <1>c, <1>d
       DEF AiOpen, At, Transact, Done, KnowsPhase, Keeps, Kept, NothingLost, Current, Stored, TypeOK
  <2>13. RequestsKeep'
    BY <1>24, <2>1, <2>3, <2>4, <2>5, <1>a, <1>c, <1>d
       DEF AiOpen, At, Transact, Done, KnowsPhase, Keeps, Kept, RequestsKeep, Keeps, Kept, Current,
           Stored, TypeOK
  <2>14. DriveFollows'
    BY <1>24, <2>1, <2>3, <2>4, <2>5, <1>a, <1>c, <1>d
       DEF AiOpen, At, Transact, Done, KnowsPhase, Keeps, Kept, DriveFollows, Current, Stored,
           Faulty, FaultsMayCome, DocumentStored, TypeOK
  <2>15. DurableKept'
    <3>1. request[r].op # "save" /\ r \in InFlight
      BY <1>24, <2>1 DEF AiOpen, At
    <3> QED
      BY <2>4, <3>1, WhoIsThere DEF DurableKept
  <2>16. BackupComplete'
    BY <1>24, <2>1, <2>3, <2>4, <2>5, <1>a, <1>c, <1>d
       DEF AiOpen, At, Transact, Done, KnowsPhase, Keeps, Kept, BackupComplete, TypeOK
  <2> QED
    BY <2>11, <2>12, <2>13, <2>14, <2>15, <2>16, <1>b
<1>25. ASSUME NEW r \in Requests, AiClosed(r) PROVE KeptInv'
  <2>1. InFlight = {r} /\ KnowsPhase(r) /\ Keeps(r) /\ request[r].op # "saveElsewhere"
    <3>1. r \in InFlight
      BY <1>25 DEF AiClosed, At, InFlight
    <3> QED
      BY <3>1, WhoIsThere
  <2>3. /\ \A s \in Requests : s # r => request'[s] = request[s]
        /\ request'[r].at = "disk" /\ request'[r].op = request[r].op
        /\ request'[r].new = request[r].new /\ request'[r].edit = request[r].edit
        /\ InFlight' = {r}
    BY <1>25, <2>1, <1>a, GoFacts DEF AiClosed, Awaits
  <2>4. /\ phase' = phase /\ loads' = loads /\ storing' = storing /\ storeText' = storeText
        /\ FaultsMayCome' = FaultsMayCome /\ Faulty' = Faulty
    BY <1>25, <2>3 DEF AiClosed, FaultsMayCome, Faulty
  <2>5. request[r].op \in AllOperations /\ request[r].new \in Texts /\ request[r].edit \in Texts
    BY <2>1, <1>a, FileStorageAssumption DEF KnowsPhase, TypeOK
  <2>11. OnlyUsed'
    BY <1>25, <2>1, <2>3, <2>4, <2>5, <1>a, <1>c, <1>d
       DEF AiClosed, At, KnowsPhase, Keeps, Kept, OnlyUsed, Stored, TypeOK
  <2>12. NothingLost'
    BY <1>25, <2>1, <2>3, <2>4, <2>5, <1>a, <1>c, <1>d
       DEF AiClosed, At, KnowsPhase, Keeps, Kept, NothingLost, Current, Stored, TypeOK
  <2>13. RequestsKeep'
    BY <1>25, <2>1, <2>3, <2>4, <1>a
       DEF AiClosed, At, KnowsPhase, RequestsKeep, Keeps, Kept, DocumentStored
  <2>14. DriveFollows'
    BY <1>25, <2>1, <2>3, <2>4, <2>5, <1>a, <1>c, <1>d
       DEF AiClosed, At, KnowsPhase, Keeps, Kept, DriveFollows, Current, Stored, Faulty,
           FaultsMayCome, DocumentStored, TypeOK
  <2>15. DurableKept'
    BY <1>25, <2>1, <2>3, <2>4, <2>5, <1>a, <1>c, <1>d
       DEF AiClosed, At, KnowsPhase, Keeps, Kept, DurableKept, NothingLost, Current, Kept, Stored,
           FaultsMayCome, DocumentStored, OnlyUsed, TypeOK
  <2>16. BackupComplete'
    BY <1>25, <2>1, <2>3, <2>4, <2>5, <1>a, <1>c, <1>d
       DEF AiClosed, At, KnowsPhase, Keeps, Kept, BackupComplete, TypeOK
  <2> QED
    BY <2>11, <2>12, <2>13, <2>14, <2>15, <2>16, <1>b
<1>26. ASSUME NEW r \in Requests, WriteDisk(r) PROVE KeptInv'
  <2>1. InFlight = {r} /\ KnowsPhase(r) /\ Keeps(r) /\ request[r].op # "saveElsewhere"
    <3>1. r \in InFlight
      BY <1>26 DEF WriteDisk, At, InFlight
    <3> QED
      BY <3>1, WhoIsThere
  <2>3. /\ \A s \in Requests : s # r => request'[s] = request[s]
        /\ request'[r].at = "collab" /\ request'[r].op = request[r].op
        /\ request'[r].new = request[r].new /\ request'[r].edit = request[r].edit
        /\ InFlight' = {r}
    BY <1>26, <2>1, <1>a, GoFacts DEF WriteDisk, Awaits
  <2>4. /\ phase' = phase /\ loads' = loads /\ storing' = storing /\ storeText' = storeText
        /\ FaultsMayCome' = FaultsMayCome /\ Faulty' = Faulty
    BY <1>26, <2>3 DEF WriteDisk, FaultsMayCome, Faulty
  <2>5. request[r].op \in AllOperations /\ request[r].new \in Texts /\ request[r].edit \in Texts
    BY <2>1, <1>a, FileStorageAssumption DEF KnowsPhase, TypeOK
  <2>11. OnlyUsed'
    BY <1>26, <2>1, <2>3, <2>4, <2>5, <1>a, <1>c, <1>d
       DEF WriteDisk, At, KnowsPhase, Keeps, Kept, OnlyUsed, Stored, TypeOK
  <2>12. NothingLost'
    BY <1>26, <2>1, <2>3, <2>4, <2>5, <1>a, <1>c, <1>d
       DEF WriteDisk, At, KnowsPhase, Keeps, Kept, NothingLost, Current, Stored, TypeOK
  <2>13. RequestsKeep'
    BY <1>26, <2>1, <2>3, <2>4, <2>5, <1>a, <1>c, <1>d
       DEF WriteDisk, At, KnowsPhase, Keeps, Kept, RequestsKeep, Keeps, Kept, Current, Stored,
           TypeOK
  <2>14. DriveFollows'
    BY <1>26, <2>1, <2>3, <2>4, <2>5, <1>a, <1>c, <1>d
       DEF WriteDisk, At, KnowsPhase, Keeps, Kept, DriveFollows, Current, Stored, Faulty,
           FaultsMayCome, DocumentStored, TypeOK
  <2>15. DurableKept'
    BY <1>26, <2>1, <2>3, <2>4, <2>5, <1>a, <1>c, <1>d
       DEF WriteDisk, At, KnowsPhase, Keeps, Kept, DurableKept, NothingLost, Current, Kept, Stored,
           FaultsMayCome, DocumentStored, OnlyUsed, TypeOK
  <2>16. BackupComplete'
    BY <1>26, <2>1, <2>3, <2>4, <2>5, <1>a, <1>c, <1>d
       DEF WriteDisk, At, KnowsPhase, Keeps, Kept, BackupComplete, TypeOK
  <2> QED
    BY <2>11, <2>12, <2>13, <2>14, <2>15, <2>16, <1>b
<1>27. ASSUME NEW r \in Requests, WriteCollab(r) PROVE KeptInv'
  <2>1. InFlight = {r} /\ KnowsPhase(r) /\ Keeps(r) /\ request[r].op # "saveElsewhere"
    <3>1. r \in InFlight
      BY <1>27 DEF WriteCollab, At, InFlight
    <3> QED
      BY <3>1, WhoIsThere
  <2>3. /\ \A s \in Requests : s # r => request'[s] = request[s]
        /\ request'[r].at = "done" /\ request'[r].op = request[r].op
        /\ request'[r].new = request[r].new /\ request'[r].edit = request[r].edit
        /\ InFlight' = {}
    BY <1>27, <2>1, <1>a, GoFacts DEF WriteCollab, Awaits, Done
  <2>4. /\ phase' = phase /\ loads' = loads /\ storing' = storing /\ storeText' = storeText
        /\ FaultsMayCome' = FaultsMayCome /\ Faulty' = Faulty
    BY <1>27, <2>3 DEF WriteCollab, Done, FaultsMayCome, Faulty
  <2>5. request[r].op \in AllOperations /\ request[r].new \in Texts /\ request[r].edit \in Texts
    BY <2>1, <1>a, FileStorageAssumption DEF KnowsPhase, TypeOK
  <2>11. OnlyUsed'
    BY <1>27, <2>1, <2>3, <2>4, <2>5, <1>a, <1>c, <1>d
       DEF WriteCollab, At, Done, KnowsPhase, Keeps, Kept, OnlyUsed, Stored, TypeOK
  <2>12. NothingLost'
    BY <1>27, <2>1, <2>3, <2>4, <2>5, <1>a, <1>c, <1>d
       DEF WriteCollab, At, Done, KnowsPhase, Keeps, Kept, NothingLost, Current, Stored, TypeOK
  <2>13. RequestsKeep'
    BY <1>27, <2>1, <2>3, <2>4, <2>5, <1>a, <1>c, <1>d
       DEF WriteCollab, At, Done, KnowsPhase, Keeps, Kept, RequestsKeep, Keeps, Kept, Current,
           Stored, TypeOK
  <2>14. DriveFollows'
    BY <1>27, <2>1, <2>3, <2>4, <2>5, <1>a, <1>c, <1>d
       DEF WriteCollab, At, Done, KnowsPhase, Keeps, Kept, DriveFollows, Current, Stored, Faulty,
           FaultsMayCome, DocumentStored, TypeOK
  <2>15. DurableKept'
    <3> SUFFICES ASSUME FaultsMayCome
                 PROVE  Kept' \cap durable' \subseteq Stored' /\ storing' # "collab"
      BY <2>4 DEF DurableKept
    <3>1. request[r].op = "save" /\ r \in InFlight
      BY <2>1, WhoIsThere
    <3>2. phase = "closed" /\ storing' = "none"
      BY <1>27, <1>a, <2>1, <2>4, <3>1 DEF WriteCollab, KnowsPhase, DocumentStored
    <3>3. collab' = request[r].new /\ collab' # NoText
      BY <1>27, <1>d, <2>5, <3>1 DEF WriteCollab
    <3>4. accepted' = accepted \cup request[r].edit /\ removed' = removed
      BY <1>27 DEF WriteCollab, Done
    <3>5. Kept \subseteq request[r].new /\ request[r].edit \subseteq request[r].new
      BY <1>27, <2>1 DEF WriteCollab, Keeps
    <3> QED
      BY <3>2, <3>3, <3>4, <3>5 DEF Kept, Stored
  <2>16. BackupComplete'
    BY <1>27, <2>1, <2>3, <2>4, <2>5, <1>a, <1>c, <1>d
       DEF WriteCollab, At, Done, KnowsPhase, Keeps, Kept, BackupComplete, TypeOK
  <2> QED
    BY <2>11, <2>12, <2>13, <2>14, <2>15, <2>16, <1>b
<1>28. ASSUME NEW r \in Requests, RestoreReplace(r) PROVE KeptInv'
  <2>1. InFlight = {r} /\ KnowsPhase(r) /\ Keeps(r) /\ request[r].op # "saveElsewhere"
    <3>1. r \in InFlight
      BY <1>28 DEF RestoreReplace, At, InFlight
    <3> QED
      BY <3>1, WhoIsThere
  <2>3. /\ \A s \in Requests : s # r => request'[s] = request[s]
        /\ request'[r].at = "disk" /\ request'[r].op = request[r].op
        /\ request'[r].new = request[r].new /\ request'[r].edit = request[r].edit
        /\ InFlight' = {r}
    BY <1>28, <2>1, <1>a, ReplaceFacts DEF RestoreReplace
  <2>4. /\ phase' = phase /\ loads' = loads /\ storing' = storing /\ storeText' = storeText
        /\ FaultsMayCome' = FaultsMayCome /\ Faulty' = Faulty
    BY <1>28, <2>3 DEF RestoreReplace, ReplaceOpen, Transact, FaultsMayCome, Faulty
  <2>5. request[r].op \in AllOperations /\ request[r].new \in Texts /\ request[r].edit \in Texts
    BY <2>1, <1>a, FileStorageAssumption DEF KnowsPhase, TypeOK
  <2>11. OnlyUsed'
    BY <1>28, <2>1, <2>3, <2>4, <2>5, <1>a, <1>c, <1>d
       DEF RestoreReplace, At, ReplaceOpen, Transact, KnowsPhase, Keeps, Kept, OnlyUsed, Stored,
           TypeOK
  <2>12. NothingLost'
    BY <1>28, <2>1, <2>3, <2>4, <2>5, <1>a, <1>c, <1>d
       DEF RestoreReplace, At, ReplaceOpen, Transact, KnowsPhase, Keeps, Kept, NothingLost,
           Current, Stored, TypeOK
  <2>13. RequestsKeep'
    <3>1. Keeps(r)'
      BY <1>28, <1>e, <2>1, <2>3, <2>4 DEF RestoreReplace, At, ReplaceOpen, Transact, Keeps, Kept
    <3> QED
      BY <3>1, <2>3 DEF RequestsKeep
  <2>14. DriveFollows'
    BY <1>28, <2>1, <2>3, <2>4, <2>5, <1>a, <1>c, <1>d
       DEF RestoreReplace, At, ReplaceOpen, Transact, KnowsPhase, Keeps, Kept, DriveFollows,
           Current, Stored, Faulty, FaultsMayCome, DocumentStored, TypeOK
  <2>15. DurableKept'
    BY <1>28, <2>1, <2>3, <2>4, <2>5, <1>a, <1>c, <1>d
       DEF RestoreReplace, At, ReplaceOpen, Transact, KnowsPhase, Keeps, Kept, DurableKept,
           NothingLost, Current, Kept, Stored, FaultsMayCome, DocumentStored, OnlyUsed, TypeOK
  <2>16. BackupComplete'
    BY <1>28, <2>1, <2>3, <2>4, <2>5, <1>a, <1>c, <1>d
       DEF RestoreReplace, At, ReplaceOpen, Transact, KnowsPhase, Keeps, Kept, BackupComplete,
           TypeOK
  <2> QED
    BY <2>11, <2>12, <2>13, <2>14, <2>15, <2>16, <1>b
<1>29. ASSUME NEW r \in Requests, SuggestionReplace(r) PROVE KeptInv'
  <2>1. InFlight = {r} /\ KnowsPhase(r) /\ Keeps(r) /\ request[r].op # "saveElsewhere"
    <3>1. r \in InFlight
      BY <1>29 DEF SuggestionReplace, At, InFlight
    <3> QED
      BY <3>1, WhoIsThere
  <2>3. /\ \A s \in Requests : s # r => request'[s] = request[s]
        /\ request'[r].at = "disk" /\ request'[r].op = request[r].op
        /\ request'[r].new = request[r].new /\ request'[r].edit = request[r].edit
        /\ InFlight' = {r}
    BY <1>29, <2>1, <1>a, ReplaceFacts DEF SuggestionReplace
  <2>4. /\ phase' = phase /\ loads' = loads /\ storing' = storing /\ storeText' = storeText
        /\ FaultsMayCome' = FaultsMayCome /\ Faulty' = Faulty
    BY <1>29, <2>3 DEF SuggestionReplace, ReplaceOpen, Transact, FaultsMayCome, Faulty
  <2>5. request[r].op \in AllOperations /\ request[r].new \in Texts /\ request[r].edit \in Texts
    BY <2>1, <1>a, FileStorageAssumption DEF KnowsPhase, TypeOK
  <2>11. OnlyUsed'
    BY <1>29, <2>1, <2>3, <2>4, <2>5, <1>a, <1>c, <1>d
       DEF SuggestionReplace, At, ReplaceOpen, Transact, KnowsPhase, Keeps, Kept, OnlyUsed, Stored,
           TypeOK
  <2>12. NothingLost'
    BY <1>29, <2>1, <2>3, <2>4, <2>5, <1>a, <1>c, <1>d
       DEF SuggestionReplace, At, ReplaceOpen, Transact, KnowsPhase, Keeps, Kept, NothingLost,
           Current, Stored, TypeOK
  <2>13. RequestsKeep'
    BY <1>29, <2>1, <2>3, <2>4, <2>5, <1>a, <1>c, <1>d
       DEF SuggestionReplace, At, ReplaceOpen, Transact, KnowsPhase, Keeps, Kept, RequestsKeep,
           Keeps, Kept, Current, Stored, TypeOK
  <2>14. DriveFollows'
    BY <1>29, <2>1, <2>3, <2>4, <2>5, <1>a, <1>c, <1>d
       DEF SuggestionReplace, At, ReplaceOpen, Transact, KnowsPhase, Keeps, Kept, DriveFollows,
           Current, Stored, Faulty, FaultsMayCome, DocumentStored, TypeOK
  <2>15. DurableKept'
    BY <1>29, <2>1, <2>3, <2>4, <2>5, <1>a, <1>c, <1>d
       DEF SuggestionReplace, At, ReplaceOpen, Transact, KnowsPhase, Keeps, Kept, DurableKept,
           NothingLost, Current, Kept, Stored, FaultsMayCome, DocumentStored, OnlyUsed, TypeOK
  <2>16. BackupComplete'
    BY <1>29, <2>1, <2>3, <2>4, <2>5, <1>a, <1>c, <1>d
       DEF SuggestionReplace, At, ReplaceOpen, Transact, KnowsPhase, Keeps, Kept, BackupComplete,
           TypeOK
  <2> QED
    BY <2>11, <2>12, <2>13, <2>14, <2>15, <2>16, <1>b
<1>30. CASE UNCHANGED vars
  BY <1>30, <1>b, <1>c
     DEF vars, OnlyUsed, NothingLost, RequestsKeep, Keeps, Kept, DriveFollows, DurableKept,
     BackupComplete, InFlight, Current, Stored, Faulty, FaultsMayCome
<1> QED
  BY <1>1, <1>2, <1>3, <1>4, <1>5, <1>6, <1>7, <1>8, <1>9, <1>10, <1>11, <1>12, <1>13, <1>14,
     <1>15, <1>16, <1>17, <1>18, <1>19, <1>20, <1>21, <1>22, <1>23, <1>24, <1>25, <1>26, <1>27,
     <1>28, <1>29, <1>30
     DEF Next, Load, Store, Step

LEMMA KeptAlways == ASSUME OneAtATime PROVE Spec => []KeptInv
BY InitKept, KeptStep, PTL DEF Spec

\* collaboration.ts, projectFeatures.ts: an edit typed or answered with
\* success, and taken out by no one, stays in the file: through loads and
\* unloads, stores that fail, stops of the server, saves, autosaves,
\* restores, suggestions and AI edits, one at a time.
THEOREM EditsKept == ASSUME OneAtATime PROVE Spec => []NothingLost
<1>1. KeptInv => NothingLost
  BY DEF KeptInv
<1> QED
  BY <1>1, KeptAlways, PTL

\* What compiles and exports read is the file's text, once no store and no
\* request is under way and unless a failure or a stop cut a write off.
THEOREM DriveCopyFollows == ASSUME OneAtATime PROVE Spec => []DriveCopyCurrent
<1>1. KeptInv => DriveCopyCurrent
  BY DEF KeptInv, DriveFollows, DriveCopyCurrent, AtRest
<1> QED
  BY <1>1, KeptAlways, PTL

\* projectFeatures.ts: whatever a restore took out of the file is in the
\* revision history, also when the file is open and edited in between.
THEOREM RestoresBackedUp == ASSUME OneAtATime PROVE Spec => []BackupComplete
<1>1. KeptInv => BackupComplete
  BY DEF KeptInv
<1> QED
  BY <1>1, KeptAlways, PTL
=============================================================================
