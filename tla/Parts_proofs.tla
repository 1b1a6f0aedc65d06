------------------------------ MODULE Parts_proofs ------------------------------
(***************************************************************************)
(* The theorems about MCParts.  In a behaviour that is about another part  *)
(* the variables of a part rest, so each proof first takes the part out of *)
(* the whole (WasmPart, TextPart, ...) and then keeps the invariant that   *)
(* EditorParts_proofs, ServerParts_proofs or ProjectParts_proofs has of it.*)
(***************************************************************************)
EXTENDS MCParts, EditorParts_proofs, ServerParts_proofs, ProjectParts_proofs

-----------------------------------------------------------------------------
(* An open editor.                                                           *)

LEMMA WasmPart ==
  PartsInit /\ [][PartsNext]_partsVars => Wasm!Init /\ [][Wasm!Next]_Wasm!wasmVars
<1>1. PartsInit => Wasm!Init
  BY DEF PartsInit
<1>2. [PartsNext]_partsVars => [Wasm!Next]_Wasm!wasmVars
  BY DEF PartsNext, OthersRest, partsVars, wasmVars, Wasm!wasmVars
<1> QED
  BY <1>1, <1>2, PTL

(* typstWasmClient.ts: whatever the worker does (answers, fails to start,    *)
(* crashes) and however often it is replaced, each request made is in one    *)
(* place: with the worker of now, on the main thread, or settled.            *)
THEOREM RequestsHeld == PartsSpec => []EveryRequestHeld
<1>1. WasmInv => EveryRequestHeld
  BY WasmHeld DEF EveryRequestHeld
<1> QED
  BY <1>1, WasmInit, WasmStep, WasmPart, PTL DEF PartsSpec

LEMMA TextPart ==
  PartsInit /\ [][PartsNext]_partsVars => Shared!Init /\ [][Shared!Next]_Shared!textVars
<1>1. PartsInit => Shared!Init
  BY DEF PartsInit
<1>2. [PartsNext]_partsVars => [Shared!Next]_Shared!textVars
  BY DEF PartsNext, OthersRest, partsVars, textVars, Shared!textVars
<1> QED
  BY <1>1, <1>2, PTL

(* collaboration.ts with the route autosave: as long as a page sends what it *)
(* shows while it is in step with the server, and the server stores what a   *)
(* rewrite made before it stops, nothing that was stored leaves the text     *)
(* unless someone erases it, and nothing typed is in it twice; for any       *)
(* number of pages, edits, disconnections, stops and requests.               *)
THEOREM TextStaysIntact ==
  ASSUME InOrder
  PROVE  PartsSpec => []TextIntact
<1>1. Shared!Init => TextInv
  BY TextInit
<1>2. TextInv /\ [Shared!Next]_Shared!textVars => TextInv'
  BY TextStep
<1>3. TextInv => TextIntact
  BY TextKept DEF InOrder
<1> QED
  BY <1>1, <1>2, <1>3, TextPart, PTL DEF PartsSpec

LEMMA DiffPart ==
  PartsInit /\ [][PartsNext]_partsVars =>
    (Diff!Init \/ (current = <<>> /\ target = <<>>)) /\ [][Diff!Next]_diffVars
<1>1. PartsInit => Diff!Init \/ (current = <<>> /\ target = <<>>)
  BY DEF PartsInit
<1>2. [PartsNext]_partsVars => [Diff!Next]_diffVars
  BY DEF PartsNext, OthersRest, partsVars, diffVars
<1> QED
  BY <1>1, <1>2, PTL

(* What replaceYText deletes and what it inserts holds no half of a pair,    *)
(* and no whole character that both texts have at its ends (yText.ts), for   *)
(* texts of any length.                                                      *)
THEOREM PairsStayWhole ==
  ASSUME HalvesDiffer
  PROVE  PartsSpec => []NoPairSplit
<1>1. DiffInv /\ [Diff!Next]_diffVars => DiffInv'
  BY DiffStep
<1>2. DiffInv => NoPairSplit
  BY DiffHolds
<1> QED
  BY <1>1, <1>2, DiffStart, DiffPart, PTL DEF PartsSpec

(* The text reads what it was to read after the one replacement.             *)
THEOREM TextReadsContent ==
  ASSUME HalvesDiffer
  PROVE  PartsSpec => Diff!ReadsContent
<1>1. DiffInv /\ [Diff!Next]_diffVars => DiffInv'
  BY DiffStep
<1>2. DiffInv /\ [Diff!Next]_diffVars => [current' = target]_diffVars
  BY DiffStep
<1>3. [current' = target]_diffVars => [current' = target]_Diff!diffVars
  BY DEF diffVars, Diff!diffVars
<1> QED
  BY <1>1, <1>2, <1>3, DiffStart, DiffPart, PTL DEF PartsSpec, Diff!ReadsContent

LEMMA EditPart ==
  PartsInit /\ [][PartsNext]_partsVars => Edits!Init /\ [][Edits!Next]_editVars
<1>1. PartsInit => Edits!Init
  BY DEF PartsInit
<1>2. [PartsNext]_partsVars => [Edits!Next]_editVars
  BY DEF PartsNext, OthersRest, partsVars, editVars
<1> QED
  BY <1>1, <1>2, PTL

(* The text is the one the edits were proposed for with just the accepted    *)
(* edits made where they were proposed, and the whole proposal once all of   *)
(* them are accepted (EditorPage.tsx), for texts of any length and any       *)
(* number of edits, where an edit is accepted alone only while those below   *)
(* it can be found again.                                                    *)
THEOREM EditsAsProposed ==
  ASSUME ~AnyOrder
  PROVE  PartsSpec => []AcceptedAsProposed
<1>1. EditInv /\ [Edits!Next]_editVars => EditInv'
  BY EditStep
<1>2. EditInv => AcceptedAsProposed
  BY EditHolds
<1> QED
  BY <1>1, <1>2, EditInit, EditPart, PTL DEF PartsSpec

-----------------------------------------------------------------------------
(* The memory of the server.                                                 *)

LEMMA PreviewsStep ==
  PartsNext \/ UNCHANGED partsVars => Previews!Next \/ UNCHANGED previewVars
BY DEF PartsNext, OthersRest, partsVars

LEMMA PreviewsStart ==
  ASSUME Distinct, LimitsSet, PartsInit
  PROVE  Base /\ LatestSessionKnown /\ RoomKept /\ Known(process, session, Previews!Live)
<1>1. /\ session = <<>> /\ recent = <<>> /\ process = [p \in Pids |-> None] /\ byKey = [k \in CallerKeys |-> None]
      /\ ensure = [c \in Ensures |-> [step |-> "idle", key |-> None, entry |-> None, session |-> None]]
  BY DEF PartsInit, Previews!Init
<1>2. SessionTypes
  BY <1>1 DEF SessionTypes
<1>3. Previews!Live = {}
  BY <1>1, LiveHere
<1>4. OncePerSession /\ ProcessOfSession
  BY <1>1 DEF OncePerSession, ProcessOfSession
<1>5. LatestSessionKnown
  BY <1>3 DEF LatestSessionKnown, Previews!LatestSessionKnown
<1>6. Previews!Creating = {} /\ \A o : CreatingFor(o) = {} /\ Previews!Owned(Previews!Live, o) = {}
  BY <1>1, <1>3 DEF Previews!Creating, CreatingFor, Previews!Owned
<1>7. RoomKept
  BY <1>3, <1>6, FS_EmptySet DEF RoomKept, LimitsSet
<1>8. Known(process, session, Previews!Live)
  BY <1>1, <1>3 DEF Known
<1> QED
  BY <1>2, <1>4, <1>5, <1>7, <1>8 DEF Base

(* A session that was created last for its key is found by it for as long as *)
(* it lives (tinymistPreview.ts: ensureTypstPreviewSession, dropSession).    *)
THEOREM LatestSessionFound ==
  ASSUME Distinct, LimitsSet
  PROVE  PartsSpec => []LatestSessionKnown
<1> DEFINE Inv == Base /\ LatestSessionKnown
<1>1. PartsInit => Inv
  BY PreviewsStart
<1>2. Inv /\ [PartsNext]_partsVars => Inv'
  <2> SUFFICES ASSUME Inv, [PartsNext]_partsVars PROVE Inv'
    OBVIOUS
  <2>1. CASE Previews!Next
    BY <2>1, BaseNext, LatestNext
  <2>2. CASE UNCHANGED previewVars
    BY <2>2
       DEF previewVars, Base, SessionTypes, OncePerSession, ProcessOfSession, LatestSessionKnown,
       Previews!LatestSessionKnown, Previews!Live
  <2> QED
    BY <2>1, <2>2, PreviewsStep
<1> QED
  BY <1>1, <1>2, PTL DEF PartsSpec

(* The limits on the sessions of all users and of one are exceeded by no     *)
(* more than the calls that overlap (makeRoomForSession and the ports that   *)
(* are awaited after it).                                                    *)
THEOREM SessionsWithinLimits ==
  ASSUME Distinct, LimitsSet
  PROVE  PartsSpec => []WithinLimits
<1> DEFINE Inv == Base /\ RoomKept
<1>1. PartsInit => Inv
  BY PreviewsStart
<1>2. Inv /\ [PartsNext]_partsVars => Inv'
  <2> SUFFICES ASSUME Inv, [PartsNext]_partsVars PROVE Inv'
    OBVIOUS
  <2>1. CASE Previews!Next
    BY <2>1, BaseNext, RoomNext
  <2>2. CASE UNCHANGED previewVars
    BY <2>2
       DEF previewVars, Base, SessionTypes, OncePerSession, ProcessOfSession, RoomKept,
           Previews!Live,
       Previews!Creating, Previews!Owned, CreatingFor
  <2> QED
    BY <2>1, <2>2, PreviewsStep
<1>3. Inv => WithinLimits
  <2> SUFFICES ASSUME Inv PROVE WithinLimits
    OBVIOUS
  <2>1. Len(recent) <= MaxLive + MaxCreating - 1
    BY LiveOnes, Counts DEF RoomKept, LimitsSet, Base
  <2>2. ASSUME NEW k \in CallerKeys
        PROVE  Cardinality(Previews!Owned(Previews!Live, OwnerOf[k])) <= MaxPerOwner + MaxCreating - 1
    <3> DEFINE a == Cardinality(Previews!Owned(Previews!Live, OwnerOf[k]))
               b == Cardinality(CreatingFor(OwnerOf[k]))
    <3>1. a + b <= MaxPerOwner + MaxCreating - 1 /\ a \in Nat /\ b \in Nat
      BY Counts DEF RoomKept
    <3> HIDE DEF a, b
    <3>2. a <= MaxPerOwner + MaxCreating - 1
      BY <3>1 DEF LimitsSet
    <3> QED
      BY <3>2 DEF a
  <2> QED
    BY <2>1, <2>2, CountedHere DEF WithinLimits, Previews!WithinLimits
<1> QED
  BY <1>1, <1>2, <1>3, PTL DEF PartsSpec

(* With one main file, every process that nobody killed is the one that a    *)
(* live session names, which will kill it when it goes (ensureProcess,       *)
(* dropSession and the exit handler).                                        *)
THEOREM ProcessesOwned ==
  ASSUME Distinct, LimitsSet, OneEntry
  PROVE  PartsSpec => []ProcessOwned
<1> DEFINE Inv == Base /\ Known(process, session, Previews!Live)
<1>1. PartsInit => Inv
  BY PreviewsStart
<1>2. Inv /\ [PartsNext]_partsVars => Inv'
  <2> SUFFICES ASSUME Inv, [PartsNext]_partsVars PROVE Inv'
    OBVIOUS
  <2>1. CASE Previews!Next
    BY <2>1, BaseNext, KnownNext
  <2>2. CASE UNCHANGED previewVars
    BY <2>2
       DEF previewVars, Base, SessionTypes, OncePerSession, ProcessOfSession, Known, Previews!Live
  <2> QED
    BY <2>1, <2>2, PreviewsStep
<1>3. Inv => ProcessOwned
  BY DEF Known, ProcessOwned, Previews!ProcessOwned, Previews!Running
<1> QED
  BY <1>1, <1>2, <1>3, PTL DEF PartsSpec

LEMMA TexPart ==
  ASSUME MaxSync \in Nat
  PROVE  /\ PartsInit => TexInv
         /\ TexInv /\ [PartsNext]_partsVars => TexInv' /\ (TexKept(texSession') \/ UNCHANGED texVars)
<1>1. ASSUME PartsInit PROVE TexInv
  <2>1. texSession = <<>> /\ workDirs = {} /\ texTokens = 0 /\ clock = 0
    BY <1>1 DEF PartsInit, Tex!Init
  <2>2. TexTypes
    BY <2>1 DEF TexTypes
  <2>3. DirectoriesOwned
    BY <2>1 DEF DirectoriesOwned, Tex!DirectoriesOwned, Tex!TokensOf
  <2> QED
    BY <2>2, <2>3 DEF TexInv
<1>2. [PartsNext]_partsVars => Tex!Next \/ UNCHANGED texVars
  BY DEF PartsNext, OthersRest, partsVars
<1> QED
  BY <1>1, <1>2, TexStep

(* The directories on the disk are those of sessions, and these are within   *)
(* the limit (createSyncTexSession, evictIfNeeded, getSession).               *)
THEOREM DirectoriesHaveSessions ==
  ASSUME MaxSync \in Nat
  PROVE  PartsSpec => []DirectoriesOwned
<1>1. TexInv => DirectoriesOwned
  BY DEF TexInv
<1> QED
  BY <1>1, TexPart, PTL DEF PartsSpec

(* What is evicted was used no later than anything that stays, and what      *)
(* stays fills the limit (evictIfNeeded).                                    *)
THEOREM LeastRecentlyUsedGoes ==
  ASSUME MaxSync \in Nat
  PROVE  PartsSpec => RecentlyUsedKept
<1>1. TexInv /\ [PartsNext]_partsVars =>
        [\A i \in DOMAIN texSession :
           LET x == texSession[i] IN
             x.token \in workDirs /\ ~Tex!Expired(x) /\ x.token \notin Tex!TokensOf(texSession') =>
               /\ Len(texSession') = MaxSync
               /\ \A j \in DOMAIN texSession' : texSession'[j].lastUsedAt >= x.lastUsedAt]_Tex!texVars
  BY TexPart DEF TexKept, texVars, Tex!texVars
<1> QED
  BY <1>1, TexPart, PTL DEF PartsSpec, RecentlyUsedKept, Tex!RecentlyUsedKept

LEMMA LspStart ==
  ASSUME AsksFinite
  PROVE  PartsInit => LspInv
<1> SUFFICES ASSUME PartsInit PROVE LspInv
  OBVIOUS
<1>1. /\ spawned = 0 /\ proc = 0
      /\ opened = [p \in Processed |-> [d \in Places |-> <<>>]]
      /\ versions = [d \in Places |-> 0] /\ shown = [d \in Places |-> NoSource]
      /\ waiters = [d \in Places |-> <<>>]
      /\ mirror = Language!NoMirror /\ directories = 0 /\ revisions = 1
      /\ ask = [a \in Asks |-> Language!AtRest("new")]
  BY DEF PartsInit, Language!Init, Processed, Places
<1>2. NoSource \in LspTexts
  BY DEF LspTexts
<1>3. ServerTypes
  BY <1>1 DEF ServerTypes, AsksFinite
<1>4. FileTypes
  BY <1>1, <1>2 DEF FileTypes
<1>5. MirrorTypes
  <2>1. Language!NoMirror \in LspMirrors /\ Language!NoMirror.dir = 0 /\ Language!NoMirror.revision = 0
    BY <1>2 DEF LspMirrors, KeptTexts, Language!NoMirror, Language!NothingKept
  <2> QED
    BY <1>1, <2>1 DEF MirrorTypes
<1>6. ask \in [Asks -> LspAsks] /\ \A a \in Asks : ask[a].step = "new"
  <2>1. Language!AtRest("new") \in LspAsks /\ Language!AtRest("new").step = "new"
    BY RestIs DEF LspSteps
  <2> QED
    BY <1>1, <2>1
<1>7. AskTypes
  <2>1. Finishing(ask) = {}
    BY <1>6 DEF Finishing
  <2>2. directories <= Cardinality(Finishing(ask))
    <3>1. Cardinality({}) = 0
      BY FS_EmptySet
    <3>2. Cardinality(Finishing(ask)) = 0
      BY <2>1, <3>1
    <3>3. directories = 0
      BY <1>1
    <3> QED
      BY <3>2, <3>3
  <2> QED
    BY <1>6, <2>2 DEF AskTypes
<1>8. NothingSentBefore /\ SentIsMirrored
  BY <1>1 DEF NothingSentBefore, SentIsMirrored
<1>9. Registered
  <2>1. \A d \in Places : waiters[d] = <<>> /\ WaitingFor(ask, d) = {}
    BY <1>1, <1>6 DEF WaitingFor
  <2>2. waiters \in [Places -> Seq(Asks)]
    BY <1>1
  <2> QED
    BY <1>6, <2>1, <2>2 DEF Registered
<1> QED
  BY <1>3, <1>4, <1>5, <1>7, <1>8, <1>9 DEF LspInv, LspBase

(* What the language server was sent last of the mirrored file is what the   *)
(* mirror holds, the requests that wait for its answer are those registered  *)
(* for it, each once, and nothing older than their text counts as an answer  *)
(* (syncDocument, waitForDiagnostics, handleMessage).                        *)
THEOREM MirrorInStep ==
  ASSUME AsksFinite
  PROVE  PartsSpec => []InStepWithServer
<1>1. LspInv /\ [PartsNext]_partsVars => LspInv'
  <2>1. [PartsNext]_partsVars => Language!Next \/ UNCHANGED lspVars
    BY DEF PartsNext, OthersRest, partsVars
  <2> QED
    BY <2>1, LspStep
<1>2. LspInv => InStepWithServer
  <2> SUFFICES ASSUME LspInv PROVE InStepWithServer
    OBVIOUS
  <2>1. ASSUME NEW d \in Places
        PROVE  /\ Language!IsInjective(waiters[d])
               /\ Language!ToSet(waiters[d]) = {a \in Asks : ask[a].step = "waiting" /\ ask[a].dir = d}
               /\ waiters[d] # <<>> => shown[d] = NoSource
    BY DEF LspInv, Registered, WaitingFor, Language!IsInjective, Language!ToSet
  <2>2. proc # 0 /\ mirror.dir # 0 =>
          LET sent == opened[proc][mirror.dir] IN sent # <<>> => Language!Last(sent) = mirror.text
    BY DEF LspInv, SentIsMirrored, Language!Last
  <2> QED
    BY <2>1, <2>2 DEF InStepWithServer, Language!InStepWithServer, Places
<1> QED
  BY <1>1, <1>2, LspStart, PTL DEF PartsSpec

-----------------------------------------------------------------------------
(* A project.                                                                *)

LEMMA MembersPart ==
  PartsInit /\ [][PartsNext]_partsVars => Members!Init /\ [][Members!Next]_Members!sharingVars
<1>1. PartsInit => Members!Init
  BY DEF PartsInit
<1>2. [PartsNext]_partsVars => [Members!Next]_Members!sharingVars
  BY DEF PartsNext, OthersRest, partsVars, sharingVars, Members!sharingVars
<1> QED
  BY <1>1, <1>2, PTL

(* The rows of a project, its owner and the requests under way have their    *)
(* types in every behaviour of db.ts and the routes of sharing.              *)
THEOREM SharingTypesHold ==
  ASSUME FirstOwner \in Users
  PROVE  PartsSpec => []SharingTypes
<1>1. Members!Init => SharingTypes
  BY DEF Members!Init, SharingTypes, Members!Idle
<1> QED
  BY <1>1, SharingTypesStep, MembersPart, PTL DEF PartsSpec

(* transferProjectOwnership, the answers to invitations and requests, and    *)
(* the changes of a member's role, in any order: one row is the owner's, and *)
(* it is that of the owner of the project.                                   *)
THEOREM SingleOwner ==
  ASSUME FirstOwner \in Users, ~Unsettled
  PROVE  PartsSpec => []OneOwner
<1>1. Members!Init => OwnerInv
  BY DEF Members!Init, OwnerInv, OwnerRow, OwnerUntouched, TransferByOwner, AddingSteps, Members!At,
         Members!About, Members!Idle
<1>2. SharingTypes /\ OwnerInv => OneOwner
  BY DEF SharingTypes, OwnerInv, OwnerRow, OneOwner, Members!OneOwner
<1> QED
  BY <1>1, <1>2, SharingTypesHold, OwnerStep, MembersPart, PTL DEF PartsSpec

(* billing.ts and share.ts: the plan is asked and the link looked at when a  *)
(* request begins, and the rows are written later; what requests that        *)
(* overlap can exceed is one each, all but one of them, and it does not add  *)
(* up.                                                                       *)
THEOREM PlanHolds ==
  ASSUME FirstOwner \in Users, ~Unsettled, Bounds
  PROVE  PartsSpec => []WithinPlan
<1>1. Members!Init => PlanInv /\ LinkInv
  <2> SUFFICES ASSUME Members!Init PROVE PlanInv /\ LinkInv
    OBVIOUS
  <2> USE DEF Members!Init, Members!Idle
  <2>1. Rows = {FirstOwner} /\ Pendings = {} /\ Adding = {} /\ Owed = {} /\ Joining = {} /\ Counting = {}
    BY DEF Rows, Pendings, Adding, Owed, Joining, Counting
  <2>2. Cardinality(Handlers) \in Nat /\ Cardinality(Handlers) # 0
    BY FS_CardinalityType, FS_EmptySet DEF Bounds
  <2>3. Cardinality({}) = 0 /\ Cardinality({FirstOwner}) = 1
    BY FS_EmptySet, FS_Singleton
  <2> QED
    BY <2>1, <2>2, <2>3 DEF PlanInv, LinkInv, Bounds
<1>2. PlanInv /\ LinkInv /\ SharingTypes => WithinPlan
  <2> SUFFICES ASSUME PlanInv, LinkInv, SharingTypes PROVE WithinPlan
    OBVIOUS
  <2>1. Members!Counted = Cardinality(Rows) + Cardinality(Pendings)
    BY SameNumber DEF Members!Counted, Rows, Pendings
  <2>2. Members!Counted <= PlanLimit + Cardinality(Handlers) - 1
    BY <2>1, PlanFinite DEF PlanInv, Bounds
  <2>3. Cardinality(Joining) \in Nat /\ Cardinality(Handlers) \in Nat
    BY FS_Subset, FS_CardinalityType DEF Bounds, Joining
  <2>4. joins <= MaxUses + Cardinality(Handlers) - 1
    BY <2>3 DEF LinkInv, SharingTypes, Bounds
  <2> QED
    BY <2>2, <2>4, SameNumber DEF WithinPlan, Members!WithinPlan
<1> QED
  BY <1>1, <1>2, SharingTypesHold, PlanStep, LinkStep, MembersPart, PTL DEF PartsSpec

LEMMA CachesPart ==
  PartsInit /\ [][PartsNext]_partsVars => Caches!Init /\ [][Caches!Next]_Caches!cacheVars
<1>1. PartsInit => Caches!Init
  BY DEF PartsInit
<1>2. [PartsNext]_partsVars => [Caches!Next]_Caches!cacheVars
  BY DEF PartsNext, OthersRest, partsVars, cacheVars, Caches!cacheVars
<1> QED
  BY <1>1, <1>2, PTL

(* projectWorkspace.ts and drive.ts: when nobody writes the file, a load     *)
(* gets what is on the drive, whatever loads and evictions came between the  *)
(* steps of the writers, as long as these take turns and a text, or an       *)
(* upload, is what they write.                                               *)
THEOREM LoadsFresh ==
  ASSUME Ordered
  PROVE  PartsSpec => []FreshWhenQuiet
<1>1. Caches!Init => CacheInv
  BY DEF Caches!Init, CacheInv, CacheTypes, WriterTypes, LoadTypes, OneWriter, ReadAlone, NoneAhead,
         FreshWhenSteady, NewTextKnown, Caches!NoEntry, Caches!IdleLoad, Caches!NoWrite
<1>2. CacheInv => FreshWhenQuiet
  <2> SUFFICES ASSUME CacheInv, ~Caches!Writing PROVE Caches!FreshWhenQuiet
    BY DEF FreshWhenQuiet, Caches!FreshWhenQuiet
  <2>1. Steady
    BY DEF Steady, Caches!Writing
  <2> QED
    BY <2>1 DEF CacheInv, FreshWhenSteady, Caches!FreshWhenQuiet, Caches!GoodFor
<1> QED
  BY <1>1, <1>2, CacheStep, CachesPart, PTL DEF PartsSpec

LEMMA MirrorPart ==
  PartsInit /\ [][PartsNext]_partsVars => Mirrors!Init /\ [][Mirrors!Next]_Mirrors!mirrorVars
<1>1. PartsInit => Mirrors!Init
  BY DEF PartsInit
<1>2. [PartsNext]_partsVars => [Mirrors!Next]_Mirrors!mirrorVars
  BY DEF PartsNext, OthersRest, partsVars, mirrorVars, Mirrors!mirrorVars
<1> QED
  BY <1>1, <1>2, PTL

(* workspaceMirror.ts: however the files of a project become folders and     *)
(* back, the directory has them after each sync and no folder is left over;  *)
(* what the server left under a hidden name stays where it can; for paths of *)
(* any depth.                                                                *)
THEOREM DirectoryFollows ==
  ASSUME MaxDepth \in Nat
  PROVE  PartsSpec => MirrorFollows
<1>1. Mirrors!Init => MirrorInv
  BY MirrorInit
<1>2. MirrorInv /\ [Mirrors!Next]_Mirrors!mirrorVars => MirrorInv'
  BY MirrorStep
<1>3. MirrorInv /\ [Mirrors!Next]_Mirrors!mirrorVars =>
        [project' # project =>
           /\ Mirrors!MirrorExact' /\ Mirrors!NoFolderLeft'
           /\ \A p \in Mirrors!Paths :
                Mirrors!Exists(files, p) /\ Mirrors!Hidden(p) /\ ~Mirrors!Leads(project', p)
                /\ ~Mirrors!InTheWay(project', p) => files'[p] = files[p]]_Mirrors!mirrorVars
  BY MirrorChange
<1> QED
  BY <1>1, <1>2, <1>3, MirrorPart, PTL DEF PartsSpec, MirrorFollows, Mirrors!MirrorFollows

LEMMA WorkspacePart ==
  PartsInit /\ [][PartsNext]_partsVars => Workspaces!Init /\ [][Workspaces!Next]_Workspaces!workspaceVars
<1>1. PartsInit => Workspaces!Init
  BY DEF PartsInit
<1>2. [PartsNext]_partsVars => [Workspaces!Next]_Workspaces!workspaceVars
  BY DEF PartsNext, OthersRest, partsVars, workspaceVars, Workspaces!workspaceVars
<1> QED
  BY <1>1, <1>2, PTL

(* compiler.ts: a compile whose process came to its end, and that no earlier *)
(* process of the session was in the way of, is answered with the pages of   *)
(* its own files, all of them and no others, for any number of compiles,     *)
(* files and cancels.                                                        *)
THEOREM PagesAreOfOwnFiles == PartsSpec => []PagesOfOwnFiles
<1>1. Workspaces!Init => WorkspaceInv
  BY WorkspaceInit
<1>2. WorkspaceInv /\ [Workspaces!Next]_Workspaces!workspaceVars => WorkspaceInv'
  BY WorkspaceStep
<1>3. WorkspaceInv => PagesOfOwnFiles
  BY DEF WorkspaceInv
<1> QED
  BY <1>1, <1>2, <1>3, WorkspacePart, PTL DEF PartsSpec

LEMMA LocalPart ==
  PartsInit /\ [][PartsNext]_partsVars => Local!Init /\ [][Local!Next]_Local!localVars
<1>1. PartsInit => Local!Init
  BY DEF PartsInit
<1>2. [PartsNext]_partsVars => [Local!Next]_Local!localVars
  BY DEF PartsNext, OthersRest, partsVars, localVars, Local!localVars
<1> QED
  BY <1>1, <1>2, PTL

(* routes/projects.ts, driveProjects.ts: whatever requests to create,        *)
(* upload, move, copy, trash, restore and delete a project has had, the rows *)
(* and the disk agree: a row that is not in the trash names its path as      *)
(* storage id and the disk has its own content there; one in the trash has   *)
(* it below the folder of the request that moved it; nothing else is there   *)
(* but files without a row in the project folder and the folders of the      *)
(* trash.                                                                    *)
THEOREM FilesAgree ==
  ASSUME TrashApart
  PROVE  PartsSpec => []LocalInv
<1>1. Local!Init => LocalInv
  BY FilesInit
<1>2. LocalInv /\ [Local!Next]_Local!localVars => LocalInv'
  BY FilesStep
<1> QED
  BY <1>1, <1>2, LocalPart, PTL DEF PartsSpec

(* routes/projects.ts: a read or a write of a file that is not in the trash  *)
(* finds that file and no other, for any entries and names.                  *)
THEOREM FilesAreReadable ==
  ASSUME TrashApart
  PROVE  PartsSpec => []FilesReadable
<1>1. LocalInv => FilesReadable
  BY RowsAreFound
<1> QED
  BY <1>1, FilesAgree, PTL

(* getProjectFileByStorageId: that no two rows share a storage id, which the *)
(* table does not ask for, comes of what the requests write.                 *)
THEOREM StorageIdsDiffer ==
  ASSUME TrashApart
  PROVE  PartsSpec => []OneHolder
<1>1. LocalInv => OneHolder
  BY RowsAreFound
<1> QED
  BY <1>1, FilesAgree, PTL

(* driveProjects.ts: no move, restore, copy or deletion of one entry         *)
(* destroys the content of a file of another, in the trash or not.           *)
THEOREM ContentsAreKept ==
  ASSUME TrashApart
  PROVE  PartsSpec => []ContentKept
<1>1. LocalInv => ContentKept
  BY RowsAreFound
<1> QED
  BY <1>1, FilesAgree, PTL
================================================================================
