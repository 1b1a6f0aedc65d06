-------------------------- MODULE EditorParts_proofs --------------------------
(***************************************************************************)
(* The parts that an open editor works with, proved for every number of    *)
(* requests, pages and edits and for texts of any length: the requests to  *)
(* the Typst compiler in the browser (TypstWasmClient), the text that      *)
(* pages share (SharedText), the replacement of a text (YTextDiff) and the *)
(* edits that the assistant proposes (SuggestedEdits).  Each part has an   *)
(* invariant that holds at first and that its steps keep; Parts_proofs     *)
(* draws the theorems about MCParts from these.  The lemmas on positions   *)
(* that these parts and those of the server need come first.               *)
(***************************************************************************)
EXTENDS EditorParts, Naturals, Sequences, Selection, FiniteSetTheorems, SequenceTheorems, TLAPS

-----------------------------------------------------------------------------
(* Positions of a sequence (Selection).                                      *)

LEMMA RankGrows ==
  ASSUME NEW I \in SUBSET Nat, IsFiniteSet(I), NEW i \in I, NEW j \in I, i < j
  PROVE  RankIn(I, i) < RankIn(I, j)
<1> DEFINE low == {x \in I : x <= i}
           high == {x \in I : x <= j}
<1>1. low \in SUBSET high /\ j \in high /\ j \notin low
  <2>1. \A x \in I : x \in Nat
    OBVIOUS
  <2>2. \A x \in I : x <= i => x <= j
    BY <2>1
  <2>3. j <= j /\ ~(j <= i)
    BY <2>1
  <2> QED
    BY <2>2, <2>3
<1>2. IsFiniteSet(high)
  BY FS_Subset
<1>3. IsFiniteSet(low) /\ Cardinality(low) <= Cardinality(high) /\ (Cardinality(high) = Cardinality(low) => high = low)
  <2> HIDE DEF low, high
  <2> QED
    BY <1>1, <1>2, FS_Subset
<1>4. Cardinality(low) \in Nat /\ Cardinality(high) \in Nat
  BY <1>2, <1>3, FS_CardinalityType
<1>5. Cardinality(low) < Cardinality(high)
  <2> HIDE DEF low, high
  <2> QED
    BY <1>1, <1>3, <1>4
<1> QED
  BY <1>5 DEF RankIn

LEMMA RankType ==
  ASSUME NEW I \in SUBSET Nat, IsFiniteSet(I), NEW i \in I
  PROVE  RankIn(I, i) \in 1..Cardinality(I) /\ Cardinality(I) \in Nat
<1> DEFINE low == {x \in I : x <= i}
<1>1. low \in SUBSET I /\ low # {}
  OBVIOUS
<1>2. IsFiniteSet(low) /\ Cardinality(low) <= Cardinality(I)
  <2> HIDE DEF low
  <2> QED
    BY <1>1, FS_Subset
<1>3. Cardinality(low) # 0
  <2> HIDE DEF low
  <2> QED
    BY <1>1, <1>2, FS_EmptySet
<1>4. Cardinality(low) \in Nat /\ Cardinality(I) \in Nat
  <2> HIDE DEF low
  <2> QED
    BY <1>2, FS_CardinalityType
<1>5. Cardinality(low) \in 1..Cardinality(I)
  <2> HIDE DEF low
  <2> QED
    BY <1>2, <1>3, <1>4
<1> QED
  BY <1>4, <1>5 DEF RankIn

\* Every number up to the size of I is the rank of one of its elements.
LEMMA RankReached ==
  ASSUME NEW I \in SUBSET Nat, IsFiniteSet(I), NEW k \in 1..Cardinality(I)
  PROVE  \E i \in I : RankIn(I, i) = k
<1> DEFINE n == Cardinality(I)
           f == [i \in I |-> RankIn(I, i)]
<1>1. n \in Nat
  BY FS_CardinalityType
<1>2. IsFiniteSet(1..n) /\ Cardinality(1..n) = n
  BY <1>1, FS_Interval
<1>3. f \in [I -> 1..n]
  BY RankType
<1>4. ASSUME NEW i \in I, NEW j \in I, RankIn(I, i) = RankIn(I, j)
      PROVE  i = j
  <2>1. ~(i < j) /\ ~(j < i)
    BY <1>4, RankGrows, RankType
  <2> QED
    BY <2>1
<1>5. f \in Injection(I, 1..n)
  BY <1>3, <1>4 DEF Injection, IsInjective
<1>6. f \in Surjection(I, 1..n)
  <2> HIDE DEF f
  <2> QED
    BY <1>2, <1>5, FS_Injection
<1>7. \E i \in I : f[i] = k
  BY <1>6 DEF Surjection
<1> QED
  BY <1>7

LEMMA NthIs ==
  ASSUME NEW I \in SUBSET Nat, IsFiniteSet(I), NEW k \in 1..Cardinality(I)
  PROVE  Nth(I, k) \in I /\ RankIn(I, Nth(I, k)) = k
BY RankReached DEF Nth

LEMMA NthOfRank ==
  ASSUME NEW I \in SUBSET Nat, IsFiniteSet(I), NEW i \in I
  PROVE  RankIn(I, i) \in 1..Cardinality(I) /\ Nth(I, RankIn(I, i)) = i
<1> DEFINE k == RankIn(I, i)
<1>1. k \in 1..Cardinality(I)
  BY RankType
<1>2. Nth(I, k) \in I /\ RankIn(I, Nth(I, k)) = k
  BY <1>1, NthIs
<1>3. \A j \in I : RankIn(I, j) = k => j = i
  <2> SUFFICES ASSUME NEW j \in I, RankIn(I, j) = k PROVE j = i
    OBVIOUS
  <2>1. ~(i < j) /\ ~(j < i)
    BY RankGrows, RankType
  <2> QED
    BY <2>1
<1> HIDE DEF k
<1> QED
  BY <1>1, <1>2, <1>3 DEF k

\* A finite set of numbers that is not empty has a least and a greatest one.
LEMMA LeastGreatest ==
  ASSUME NEW I \in SUBSET Nat, IsFiniteSet(I), I # {}
  PROVE  (\E i \in I : \A j \in I : i <= j) /\ (\E i \in I : \A j \in I : j <= i)
<1> DEFINE n == Cardinality(I)
<1>1. n \in Nat /\ n # 0
  BY FS_CardinalityType, FS_EmptySet
<1>2. PICK i \in I : RankIn(I, i) = 1
  BY <1>1, RankReached
<1>3. PICK g \in I : RankIn(I, g) = n
  BY <1>1, RankReached
<1>4. \A j \in I : ~(j < i) /\ ~(g < j)
  BY <1>1, <1>2, <1>3, RankGrows, RankType
<1> QED
  BY <1>4

\* What is selected: the elements at those positions, each as often, in their
\* order.
LEMMA Selected ==
  ASSUME NEW X, NEW s \in Seq(X), NEW I \in SUBSET DOMAIN s
  PROVE  /\ IsFiniteSet(I) /\ I \in SUBSET Nat
         /\ Select(s, I) \in Seq(X) /\ Len(Select(s, I)) = Cardinality(I)
         /\ Cardinality(I) \in Nat
         /\ \A k \in 1..Cardinality(I) : Nth(I, k) \in I /\ Select(s, I)[k] = s[Nth(I, k)]
         /\ \A i \in I : \E k \in 1..Cardinality(I) : Nth(I, k) = i
         /\ \A k, l \in 1..Cardinality(I) : Nth(I, k) = Nth(I, l) => k = l
<1>1. IsFiniteSet(I) /\ I \in SUBSET Nat
  <2>1. DOMAIN s = 1..Len(s) /\ Len(s) \in Nat
    OBVIOUS
  <2>2. IsFiniteSet(1..Len(s))
    BY <2>1, FS_Interval
  <2> QED
    BY <2>1, <2>2, FS_Subset
<1>2. Cardinality(I) \in Nat
  BY <1>1, FS_CardinalityType
<1>3. \A k \in 1..Cardinality(I) : Nth(I, k) \in I /\ RankIn(I, Nth(I, k)) = k
  BY <1>1, NthIs
<1>4. \A i \in I : \E k \in 1..Cardinality(I) : Nth(I, k) = i
  BY <1>1, NthOfRank
<1>5. Select(s, I) \in Seq(X) /\ Len(Select(s, I)) = Cardinality(I)
  BY <1>2, <1>3 DEF Select
<1>6. \A k \in 1..Cardinality(I) : Select(s, I)[k] = s[Nth(I, k)]
  BY DEF Select
<1>7. \A k, l \in 1..Cardinality(I) : Nth(I, k) = Nth(I, l) => k = l
  BY <1>3
<1> QED
  BY <1>1, <1>2, <1>3, <1>4, <1>5, <1>6, <1>7

-----------------------------------------------------------------------------
(* The compiler in the browser (TypstWasmClient).                            *)

WasmTypes ==
  /\ requests \in Nat /\ starts \in Nat
  /\ worker \in BOOLEAN /\ workerAnswered \in BOOLEAN /\ workerUnavailable \in BOOLEAN
  /\ posted \in Seq(1..requests)

\* The requests made are in three places, each in one of them.
Placed ==
  /\ 1..requests = pending \cup mainThread \cup settled
  /\ pending \cap mainThread = {} /\ pending \cap settled = {} /\ mainThread \cap settled = {}

\* A promise waits for the worker only while there is one that has its
\* request.
WorkerHas ==
  /\ \A id \in pending : \E i \in DOMAIN posted : posted[i] = id
  /\ pending # {} => worker

WasmInv == WasmTypes /\ Placed /\ WorkerHas

-----------------------------------------------------------------------------
\* Three disjoint parts of 1..n have n elements together.
LEMMA ThreeParts ==
  ASSUME NEW n \in Nat, NEW A, NEW B, NEW C, 1..n = A \cup B \cup C,
         A \cap B = {}, A \cap C = {}, B \cap C = {}
  PROVE  Cardinality(A) + Cardinality(B) + Cardinality(C) = n
<1>1. IsFiniteSet(1..n) /\ Cardinality(1..n) = n
  BY FS_Interval
<1>2. IsFiniteSet(A) /\ IsFiniteSet(B) /\ IsFiniteSet(C)
  BY <1>1, FS_Subset
<1>3. IsFiniteSet(A \cup B) /\ Cardinality(A \cup B) = Cardinality(A) + Cardinality(B)
  <2>1. Cardinality(A \cap B) = 0
    BY FS_EmptySet
  <2> QED
    BY <1>2, <2>1, FS_Union, FS_CardinalityType
<1>4. Cardinality((A \cup B) \cup C) = Cardinality(A \cup B) + Cardinality(C)
  <2>1. (A \cup B) \cap C = {}
    OBVIOUS
  <2>2. Cardinality((A \cup B) \cap C) = 0
    BY <2>1, FS_EmptySet
  <2>3. Cardinality((A \cup B) \cup C)
          = Cardinality(A \cup B) + Cardinality(C) - Cardinality((A \cup B) \cap C)
    BY <1>2, <1>3, FS_Union
  <2>4. Cardinality(A \cup B) \in Nat /\ Cardinality(C) \in Nat
    BY <1>2, <1>3, FS_CardinalityType
  <2> QED
    BY <2>2, <2>3, <2>4
<1> QED
  BY <1>1, <1>3, <1>4

LEMMA SameCardinality == \A S : Wasm!Cardinality(S) = Cardinality(S)
BY DEF Wasm!Cardinality, Cardinality, Wasm!IsFiniteSet, IsFiniteSet

LEMMA NothingPosted == \A n : <<>> \in Seq(1..n)
OBVIOUS

LEMMA WasmInit == Wasm!Init => WasmInv
<1> SUFFICES ASSUME Wasm!Init PROVE WasmInv
  OBVIOUS
<1> USE DEF Wasm!Init
<1>1. WasmTypes
  <2>1. posted \in Seq(1..requests)
    BY NothingPosted
  <2> QED
    BY <2>1 DEF WasmTypes
<1>2. Placed /\ WorkerHas
  BY DEF Placed, WorkerHas
<1> QED
  BY <1>1, <1>2 DEF WasmInv

LEMMA WasmHeld == WasmInv => Wasm!EveryRequestHeld
<1> SUFFICES ASSUME WasmInv PROVE Wasm!EveryRequestHeld
  OBVIOUS
<1>1. Cardinality(pending) + Cardinality(mainThread) + Cardinality(settled) = requests
  BY ThreeParts DEF WasmInv, WasmTypes, Placed
<1>2. pending \subseteq Wasm!ToSet(posted)
  BY DEF WasmInv, WorkerHas, Wasm!ToSet
<1> QED
  BY <1>1, <1>2, SameCardinality DEF WasmInv, Placed, WorkerHas, Wasm!EveryRequestHeld

LEMMA WasmStep == WasmInv /\ [Wasm!Next]_Wasm!wasmVars => WasmInv'
<1> SUFFICES ASSUME WasmInv, [Wasm!Next]_Wasm!wasmVars PROVE WasmInv'
  OBVIOUS
<1> USE DEF WasmInv, WasmTypes, Placed, WorkerHas
\* Starting a worker ends none.
<1>1. Wasm!StartWorker => /\ starts' \in Nat /\ worker' \in BOOLEAN /\ workerUnavailable' \in BOOLEAN
                     /\ (worker => worker')
  <2> SUFFICES ASSUME Wasm!StartWorker PROVE /\ starts' \in Nat /\ worker' \in BOOLEAN
                                        /\ workerUnavailable' \in BOOLEAN /\ (worker => worker')
    OBVIOUS
  <2>1. starts' = starts \/ starts' = starts + 1
    BY Zenon DEF Wasm!StartWorker
  <2>2. worker' \in BOOLEAN /\ workerUnavailable' \in BOOLEAN
    BY Zenon DEF Wasm!StartWorker
  <2>3. worker => worker'
    BY Zenon DEF Wasm!StartWorker
  <2> QED
    BY <2>1, <2>2, <2>3
<1>2. CASE Wasm!WarmUp
  BY <1>1, <1>2 DEF Wasm!WarmUp
<1>3. CASE Wasm!RunCompile
  <2>1. /\ requests' = requests + 1 /\ 1..requests' = 1..requests \cup {requests'}
        /\ requests' \notin 1..requests
    BY <1>3 DEF Wasm!RunCompile
  <2>2. CASE worker'
    <3>1. posted' = Append(posted, requests') /\ pending' = pending \cup {requests'}
      BY <1>3, <2>2 DEF Wasm!RunCompile
    <3>2. posted' \in Seq(1..requests')
      <4>1. posted \in Seq(1..requests')
        BY <2>1
      <4> QED
        BY <4>1, <3>1, <2>1
    <3>3. \A id \in pending' : \E i \in DOMAIN posted' : posted'[i] = id
      <4>1. DOMAIN posted' = 1..(Len(posted) + 1) /\ posted'[Len(posted) + 1] = requests'
        BY <3>1
      <4>2. \A i \in DOMAIN posted : i \in DOMAIN posted' /\ posted'[i] = posted[i]
        BY <3>1
      <4> QED
        BY <3>1, <4>1, <4>2
    <3> QED
      BY <1>1, <1>3, <2>1, <2>2, <3>1, <3>2, <3>3 DEF Wasm!RunCompile
  <2>3. CASE ~worker'
    BY <1>1, <1>3, <2>1, <2>3 DEF Wasm!RunCompile
  <2> QED
    BY <2>2, <2>3
<1>4. CASE Wasm!Message
  <2>1. /\ posted # <<>> /\ posted' = Tail(posted) /\ requests' = requests
        /\ pending' = pending \ {Head(posted)}
    BY <1>4 DEF Wasm!Message
  <2>2. \A id \in pending' : \E i \in DOMAIN posted' : posted'[i] = id
    <3> SUFFICES ASSUME NEW id \in pending' PROVE \E i \in DOMAIN posted' : posted'[i] = id
      OBVIOUS
    <3>1. PICK i \in DOMAIN posted : posted[i] = id
      BY <2>1
    <3>2. i # 1
      BY <2>1, <3>1
    <3>3. i - 1 \in DOMAIN posted' /\ posted'[i - 1] = posted[i]
      BY <2>1, <3>1, <3>2
    <3> QED
      BY <3>1, <3>3
  <2>3. posted' \in Seq(1..requests')
    BY <2>1
  <2> QED
    BY <1>4, <2>1, <2>2, <2>3 DEF Wasm!Message
\* The worker of a failed start or a crash leaves nothing waiting.
<1>5. CASE Wasm!Error
  <2>1. posted' \in Seq(1..requests')
    BY <1>5, NothingPosted DEF Wasm!Error
  <2>2. WasmTypes'
    BY <1>5, <2>1 DEF Wasm!Error
  <2>3. Placed' /\ WorkerHas'
    BY <1>5 DEF Wasm!Error, Wasm!Failed
  <2> QED
    BY <2>2, <2>3
<1>6. CASE Wasm!Reset
  <2>1. posted' \in Seq(1..requests')
    BY <1>6, NothingPosted DEF Wasm!Reset
  <2>2. WasmTypes'
    <3>1. starts' \in Nat /\ requests' \in Nat
      <4>1. (starts' = starts \/ starts' = starts + 1) /\ requests' = requests
        BY <1>6, Zenon DEF Wasm!Reset
      <4> QED
        BY <4>1
    <3>2. worker' \in BOOLEAN /\ workerAnswered' \in BOOLEAN /\ workerUnavailable' \in BOOLEAN
      BY <1>6, Zenon DEF Wasm!Reset
    <3> QED
      BY <2>1, <3>1, <3>2
  <2>3. Placed' /\ WorkerHas'
    BY <1>6 DEF Wasm!Reset
  <2> QED
    BY <2>2, <2>3
<1>7. CASE \E id \in mainThread : Wasm!MainThreadDone(id)
  BY <1>7 DEF Wasm!MainThreadDone
<1>8. CASE UNCHANGED Wasm!wasmVars
  BY <1>8 DEF Wasm!wasmVars
<1> QED
  BY <1>2, <1>3, <1>4, <1>5, <1>6, <1>7, <1>8 DEF Wasm!Next

-----------------------------------------------------------------------------
(* The shared text of a file (SharedText).  A page sends what it shows while *)
(* it is in step with the server, and the server does not stop between the   *)
(* rewrite of the stored state and the next store (AutosaveAnyTime is        *)
(* FALSE).                                                                   *)

Items == [char : Nat, copy : Nat]
Documents == [items : SUBSET Items, deleted : SUBSET Items]

PageTypes == [doc : {NoDoc} \cup Documents, connected : BOOLEAN,
              timer : {NoText} \cup SUBSET Nat, last : {NoText} \cup SUBSET Nat]

TextTypes ==
  /\ page \in [Pages -> PageTypes]
  /\ live \in {NoDoc} \cup Documents /\ stored \in Documents
  /\ autosaves \in SUBSET [by : Pages, text : SUBSET Nat]
  /\ typed \in Nat /\ rewrites \in Nat
  /\ erased \in SUBSET Nat /\ saved \in SUBSET Nat /\ rewritten \in BOOLEAN

\* The characters a document knows, deleted ones too.
Characters(d) == {i.char : i \in d.items}

\* A document of typed characters, in which only what someone erased is
\* deleted.
Typed(d) == (\A i \in d.items : i.copy = 0) /\ (\A i \in d.deleted : i.char \in erased)

\* No page and no document of the server gets an item that a rewrite made:
\* such items are only in the stored state, and go with the next store.
PageHolds(pg) ==
  /\ pg.doc # NoDoc => Typed(pg.doc)
  /\ pg.connected => pg.doc # NoDoc /\ Shared!Loaded
  /\ pg.timer # {}

PagesHold == \A p \in Pages : PageHolds(page[p])

RewritesStay ==
  /\ Shared!Loaded => Typed(live)
  /\ ~rewritten => Typed(stored)
  /\ rewritten => Shared!Loaded /\ \E i \in stored.items : i.copy > 0

\* What is seen in the stored state was made by one rewrite, or typed.
OneCopy ==
  /\ \A i \in stored.items : i.copy <= rewrites
  /\ \A i, j \in Shared!Visible(stored) : i.copy = j.copy

\* What was stored, and what is being sent to be, is known to the document of
\* the server, or to the stored state if it has none.
SavedKnown ==
  /\ Shared!Loaded => saved \ erased \subseteq Characters(live)
  /\ ~rewritten => saved \ erased \subseteq Characters(stored)

SentKnown ==
  \A r \in autosaves :
    r.text # {} /\ r.text \subseteq Characters(IF Shared!Loaded THEN live ELSE stored)

TextInv == TextTypes /\ PagesHold /\ RewritesStay /\ OneCopy /\ SavedKnown /\ SentKnown

-----------------------------------------------------------------------------
\* What the proofs take: the pages and the server keep to the order named
\* above, NoDoc is no document, and NoText no text.
InOrder == ~AutosaveAnyTime /\ NoDoc \notin Documents /\ NoText \notin SUBSET Nat

LEMMA MergedTyped ==
  ASSUME NEW d \in Documents, NEW e \in Documents, Typed(d), Typed(e)
  PROVE  /\ Shared!Merged(d, e) \in Documents /\ Typed(Shared!Merged(d, e))
         /\ Characters(d) \subseteq Characters(Shared!Merged(d, e))
         /\ Characters(e) \subseteq Characters(Shared!Merged(d, e))
BY DEF Shared!Merged, Documents, Typed, Characters

\* The text of a document is made of characters it knows, and of a typed one
\* it is all of them that nobody erased.
LEMMA TextOf ==
  ASSUME NEW d \in Documents
  PROVE  /\ Shared!Text(d) \in SUBSET Nat /\ Shared!Text(d) \subseteq Characters(d)
         /\ Typed(d) => Characters(d) \ erased \subseteq Shared!Text(d)
BY DEF Shared!Text, Shared!Visible, Documents, Items, Typed, Characters

LEMMA ChangedPage ==
  ASSUME TextTypes, NEW p \in Pages, NEW d \in Documents, page[p].timer # {}
  PROVE  LET pg == Shared!Changed(page[p], d)
         IN  /\ pg \in PageTypes
             /\ pg.doc = d /\ pg.connected = page[p].connected /\ pg.timer # {}
<1>1. page[p] \in PageTypes
  BY DEF TextTypes
<1>2. Shared!Text(d) \in SUBSET Nat
  BY TextOf
<1>3. CASE d = page[p].doc \/ Shared!Text(d) \in {{}, page[p].last}
  BY <1>1, <1>3 DEF Shared!Changed, PageTypes
<1>4. CASE ~(d = page[p].doc \/ Shared!Text(d) \in {{}, page[p].last})
  BY <1>1, <1>2, <1>4 DEF Shared!Changed, PageTypes
<1> QED
  BY <1>3, <1>4

\* What a rewrite makes of the stored state.
LEMMA AppliedDoc ==
  ASSUME NEW d \in Documents, NEW letters \in SUBSET Nat, NEW n \in Nat,
         \A i \in d.items : i.copy < n, Shared!Text(d) # letters
  PROVE  LET e == Shared!Applied(d, letters, n)
         IN  /\ e \in Documents /\ d.items \subseteq e.items
             /\ \A i \in e.items : i.copy <= n
             /\ \A i \in Shared!Visible(e) : i.copy = n
             /\ letters # {} => (e # d /\ \E i \in e.items : i.copy = n)
<1> DEFINE New == {Shared!Item(c, n) : c \in letters}
           e == [items |-> d.items \cup New, deleted |-> d.items]
<1>1. Shared!Applied(d, letters, n) = e
  BY DEF Shared!Applied
<1>2. New \subseteq Items /\ \A i \in New : i.copy = n
  BY DEF Shared!Item, Items
<1>3. d.items \subseteq Items
  BY DEF Documents
<1>4. e \in Documents
  BY <1>2, <1>3 DEF Documents
<1>5. \A i \in e.items : i.copy <= n
  BY <1>2, <1>3 DEF Items
<1>6. \A i \in Shared!Visible(e) : i.copy = n
  BY <1>2 DEF Shared!Visible
<1>7. letters # {} => e # d /\ \E i \in e.items : i.copy = n
  <2> SUFFICES ASSUME NEW c \in letters PROVE e # d /\ \E i \in e.items : i.copy = n
    OBVIOUS
  <2>1. Shared!Item(c, n) \in e.items /\ Shared!Item(c, n).copy = n
    BY DEF Shared!Item
  <2>2. Shared!Item(c, n) \notin d.items
    BY <2>1
  <2> QED
    BY <2>1, <2>2
<1> QED
  BY <1>1, <1>4, <1>5, <1>6, <1>7

LEMMA TextKept == TextInv /\ NoDoc \notin Documents => TextIntact
<1> SUFFICES ASSUME TextInv, NoDoc \notin Documents PROVE TextIntact
  OBVIOUS
<1>1. ASSUME NEW d \in Documents, Typed(d)
      PROVE  \A i, j \in Shared!Visible(d) : i.char = j.char => i = j
  BY <1>1 DEF Typed, Shared!Visible, Documents, Items
<1>2. ASSUME Shared!Loaded
      PROVE  saved \ erased \subseteq Shared!Text(live)
  BY <1>2, TextOf DEF TextInv, TextTypes, RewritesStay, SavedKnown, Shared!Loaded
<1>3. ASSUME ~Shared!Loaded
      PROVE  saved \ erased \subseteq Shared!Text(stored)
  BY <1>3, TextOf DEF TextInv, TextTypes, RewritesStay, SavedKnown
<1>4. ASSUME NEW i \in Shared!Visible(stored), NEW j \in Shared!Visible(stored), i.char = j.char
      PROVE  i = j
  BY <1>4 DEF TextInv, TextTypes, OneCopy, Shared!Visible, Documents, Items
<1>5. ASSUME NEW d \in Shared!Docs
      PROVE  \A i, j \in Shared!Visible(d) : i.char = j.char => i = j
  <2>1. CASE d = stored
    BY <1>4, <2>1
  <2>2. CASE d = live /\ d # NoDoc
    BY <1>1, <2>2 DEF TextInv, TextTypes, RewritesStay, Shared!Loaded
  <2>3. CASE \E p \in Pages : Shared!IsOpen(p) /\ d = page[p].doc
    <3>1. PICK p \in Pages : Shared!IsOpen(p) /\ d = page[p].doc
      BY <2>3
    <3>2. d \in Documents
      BY <3>1 DEF TextInv, TextTypes, PageTypes, Shared!IsOpen
    <3>3. Typed(d)
      BY <3>1 DEF TextInv, PagesHold, PageHolds, Shared!IsOpen
    <3> QED
      BY <1>1, <3>2, <3>3
  <2> QED
    BY <2>1, <2>2, <2>3 DEF Shared!Docs
<1> QED
  BY <1>2, <1>3, <1>5 DEF TextIntact, Shared!TextIntact

LEMMA TextInit == Shared!Init /\ InOrder => TextInv
<1> SUFFICES ASSUME Shared!Init, InOrder PROVE TextInv
  OBVIOUS
<1>1. stored \in Documents /\ Typed(stored)
  BY DEF Shared!Init, Shared!Item, Documents, Items, Typed
<1>2. TextTypes
  <2>1. [doc |-> NoDoc, connected |-> FALSE, timer |-> NoText, last |-> NoText] \in PageTypes
    BY DEF PageTypes
  <2>2. page \in [Pages -> PageTypes]
    BY <2>1 DEF Shared!Init
  <2>3. /\ typed \in Nat /\ rewrites \in Nat
        /\ autosaves \in SUBSET [by : Pages, text : SUBSET Nat]
        /\ erased \in SUBSET Nat /\ saved \in SUBSET Nat
    BY DEF Shared!Init
  <2>4. rewritten \in BOOLEAN /\ live \in {NoDoc} \cup Documents
    BY Zenon DEF Shared!Init
  <2> QED
    BY <1>1, <2>2, <2>3, <2>4 DEF TextTypes
<1>3. 0 \in Characters(stored)
  BY DEF Shared!Init, Shared!Item, Characters
<1>4. OneCopy
  BY DEF Shared!Init, Shared!Item, OneCopy, Shared!Visible
<1>5. RewritesStay
  BY <1>1 DEF Shared!Init, RewritesStay, Shared!Loaded
<1>6. PagesHold
  <2> SUFFICES ASSUME NEW p \in Pages PROVE PageHolds(page[p])
    BY DEF PagesHold
  <2>1. page[p] = [doc |-> NoDoc, connected |-> FALSE, timer |-> NoText, last |-> NoText]
    BY DEF Shared!Init
  <2> QED
    BY <2>1 DEF PageHolds, InOrder
<1>7. SentKnown /\ SavedKnown
  BY <1>3 DEF Shared!Init, SentKnown, SavedKnown, Shared!Loaded
<1> QED
  BY <1>2, <1>4, <1>5, <1>6, <1>7 DEF TextInv

-----------------------------------------------------------------------------
(* The steps keep TextInv.                                                   *)

\* A step that changes one page only.
LEMMA OnePage ==
  ASSUME TextInv, NEW p \in Pages, NEW pg \in PageTypes, PageHolds(pg),
         page' = [page EXCEPT ![p] = pg], typed' \in Nat,
         UNCHANGED <<live, stored, autosaves, rewrites, erased, saved, rewritten>>
  PROVE  TextInv'
<1>1. TextTypes'
  BY DEF TextInv, TextTypes
<1>2. PagesHold'
  <2> SUFFICES ASSUME NEW q \in Pages PROVE PageHolds(page[q])'
    BY DEF PagesHold
  <2>1. page'[q] = IF q = p THEN pg ELSE page[q]
    BY DEF TextInv, TextTypes
  <2>2. PageHolds(page[q])
    BY DEF TextInv, PagesHold
  <2> QED
    BY <2>1, <2>2 DEF PageHolds, Typed, Shared!Loaded
<1>3. (RewritesStay /\ OneCopy /\ SavedKnown /\ SentKnown)'
  BY DEF TextInv, RewritesStay, OneCopy, SavedKnown, SentKnown, Typed, Characters, Shared!Loaded,
         Shared!Visible
<1> QED
  BY <1>1, <1>2, <1>3 DEF TextInv

LEMMA OpenFileStep ==
  ASSUME TextInv, InOrder, NEW p \in Pages, Shared!OpenFile(p) PROVE TextInv'
<1> DEFINE pg == [page[p] EXCEPT !.doc = Shared!EmptyDoc]
<1>1. page[p] \in PageTypes /\ PageHolds(page[p])
  BY DEF TextInv, TextTypes, PagesHold
<1>2. Shared!EmptyDoc \in Documents /\ Typed(Shared!EmptyDoc)
  BY DEF Shared!EmptyDoc, Documents, Typed
<1>3. ~page[p].connected
  BY <1>1 DEF PageHolds, Shared!OpenFile, Shared!IsOpen
<1>4. pg \in PageTypes /\ pg.doc = Shared!EmptyDoc /\ pg.connected = page[p].connected /\ pg.timer = page[p].timer
  BY <1>1, <1>2 DEF PageTypes
<1>5. PageHolds(pg)
  BY <1>1, <1>2, <1>3, <1>4 DEF PageHolds
<1>6. page' = [page EXCEPT ![p] = pg]
  BY DEF Shared!OpenFile
<1> QED
  BY <1>4, <1>5, <1>6, OnePage DEF Shared!OpenFile, TextInv, TextTypes

LEMMA CloseFileStep ==
  ASSUME TextInv, InOrder, NEW p \in Pages, Shared!CloseFile(p) PROVE TextInv'
<1> DEFINE pg == [page[p] EXCEPT !.doc = NoDoc, !.connected = FALSE]
<1>1. page[p] \in PageTypes /\ PageHolds(page[p])
  BY DEF TextInv, TextTypes, PagesHold
<1>2. pg \in PageTypes /\ pg.doc = NoDoc /\ pg.connected = FALSE /\ pg.timer = page[p].timer
  BY <1>1 DEF PageTypes
<1>3. PageHolds(pg)
  BY <1>1, <1>2 DEF PageHolds
<1>4. page' = [page EXCEPT ![p] = pg]
  BY DEF Shared!CloseFile, TextInv, TextTypes, PageTypes
<1> QED
  BY <1>2, <1>3, <1>4, OnePage DEF Shared!CloseFile, TextInv, TextTypes

LEMMA DisconnectStep ==
  ASSUME TextInv, InOrder, NEW p \in Pages, Shared!Disconnect(p) PROVE TextInv'
<1> DEFINE pg == [page[p] EXCEPT !.connected = FALSE]
<1>1. page[p] \in PageTypes /\ PageHolds(page[p])
  BY DEF TextInv, TextTypes, PagesHold
<1>2. pg \in PageTypes /\ pg.doc = page[p].doc /\ pg.connected = FALSE /\ pg.timer = page[p].timer
  BY <1>1 DEF PageTypes
<1>3. PageHolds(pg)
  BY <1>1, <1>2 DEF PageHolds
<1>4. page' = [page EXCEPT ![p] = pg]
  BY DEF Shared!Disconnect
<1> QED
  BY <1>2, <1>3, <1>4, OnePage DEF Shared!Disconnect, TextInv, TextTypes

LEMMA TypeStep ==
  ASSUME TextInv, InOrder, NEW p \in Pages, Shared!Type(p) PROVE TextInv'
<1> DEFINE d == Shared!WithItems(page[p].doc, {Shared!Item(typed', 0)})
           pg == Shared!Changed(page[p], d)
<1>1. page[p] \in PageTypes /\ PageHolds(page[p]) /\ typed \in Nat
  BY DEF TextInv, TextTypes, PagesHold
<1>2. page[p].doc \in Documents /\ Typed(page[p].doc) /\ typed' \in Nat
  BY <1>1 DEF PageTypes, PageHolds, Shared!Type, Shared!IsOpen
<1>3. d \in Documents /\ Typed(d)
  BY <1>2 DEF Shared!WithItems, Shared!Item, Documents, Items, Typed
<1>4. page[p].timer # {}
  BY <1>1 DEF PageHolds
<1>5. pg \in PageTypes /\ pg.doc = d /\ pg.connected = page[p].connected /\ pg.timer # {}
  <2> HIDE DEF d
  <2> QED
    BY <1>3, <1>4, ChangedPage DEF TextInv
<1>6. PageHolds(pg)
  <2> HIDE DEF d, pg
  <2> QED
    BY <1>1, <1>3, <1>5 DEF PageHolds, InOrder
<1>7. page' = [page EXCEPT ![p] = pg]
  BY DEF Shared!Type
<1> QED
  <2> HIDE DEF d, pg
  <2> QED
    BY <1>2, <1>5, <1>6, <1>7, OnePage DEF Shared!Type

LEMMA EraseStep ==
  ASSUME TextInv, InOrder, NEW p \in Pages, Shared!IsOpen(p),
         NEW i \in Shared!Visible(page[p].doc), Shared!Erase(p, i)
  PROVE  TextInv'
<1> DEFINE d == Shared!WithDeleted(page[p].doc, {i})
           pg == Shared!Changed(page[p], d)
<1>1. page[p] \in PageTypes /\ PageHolds(page[p])
  BY DEF TextInv, TextTypes, PagesHold
<1>2. page[p].doc \in Documents /\ Typed(page[p].doc)
  BY <1>1 DEF PageTypes, PageHolds, Shared!IsOpen
<1>3. i \in Items /\ i \in page[p].doc.items /\ i.char \in Nat
  BY <1>2 DEF Shared!Visible, Documents, Items
<1>4. erased' = erased \cup {i.char}
  BY DEF Shared!Erase
<1>5. /\ d \in Documents /\ \A j \in d.items : j.copy = 0
      /\ \A j \in d.deleted : j.char \in erased'
  BY <1>2, <1>3, <1>4 DEF Shared!WithDeleted, Documents, Typed
<1>6. page[p].timer # {}
  BY <1>1 DEF PageHolds
<1>7. pg \in PageTypes /\ pg.doc = d /\ pg.connected = page[p].connected /\ pg.timer # {}
  <2> HIDE DEF d
  <2> QED
    BY <1>5, <1>6, ChangedPage DEF TextInv
<1>8. page' = [page EXCEPT ![p] = pg]
  BY DEF Shared!Erase
<1>9. TextTypes'
  <2> HIDE DEF d, pg
  <2> QED
    BY <1>3, <1>4, <1>7, <1>8 DEF TextInv, TextTypes, Shared!Erase
<1>10. PagesHold'
  <2> SUFFICES ASSUME NEW q \in Pages PROVE PageHolds(page[q])'
    BY DEF PagesHold
  <2>1. page'[q] = IF q = p THEN pg ELSE page[q]
    <3> HIDE DEF pg
    <3> QED
      BY <1>8 DEF TextInv, TextTypes
  <2>2. PageHolds(page[q]) /\ live' = live
    BY DEF TextInv, PagesHold, Shared!Erase
  <2>3. CASE q = p
    <3> HIDE DEF d, pg
    <3> QED
      BY <1>1, <1>5, <1>7, <2>1, <2>2, <2>3 DEF PageHolds, Typed, Shared!Loaded, InOrder
  <2>4. CASE q # p
    BY <1>4, <2>1, <2>2, <2>4 DEF PageHolds, Typed, Shared!Loaded
  <2> QED
    BY <2>3, <2>4
<1>11. (RewritesStay /\ OneCopy /\ SavedKnown /\ SentKnown)'
  BY <1>4
     DEF Shared!Erase, TextInv, RewritesStay, OneCopy, SavedKnown, SentKnown, Typed, Characters,
              Shared!Loaded, Shared!Visible
<1> QED
  BY <1>9, <1>10, <1>11 DEF TextInv

LEMMA ConnectStep ==
  ASSUME TextInv, InOrder, NEW p \in Pages, Shared!Connect(p) PROVE TextInv'
<1> DEFINE pg == [page[p] EXCEPT !.connected = TRUE]
<1>1. page[p] \in PageTypes /\ PageHolds(page[p])
  BY DEF TextInv, TextTypes, PagesHold
<1>2. /\ pg \in PageTypes /\ pg.doc = page[p].doc /\ pg.timer = page[p].timer /\ page[p].doc # NoDoc
  BY <1>1 DEF PageTypes, Shared!Connect, Shared!IsOpen
<1>3. page' = [page EXCEPT ![p] = pg]
  BY DEF Shared!Connect
<1>4. live' = (IF Shared!Loaded THEN live ELSE stored) /\ live' \in Documents /\ (Shared!Loaded)'
  BY DEF Shared!Connect, Shared!Fetched, TextInv, TextTypes, InOrder, Shared!Loaded
<1>5. UNCHANGED <<stored, autosaves, typed, rewrites, erased, saved, rewritten>>
  BY DEF Shared!Connect
<1>6. TextTypes'
  <2> HIDE DEF pg
  <2> QED
    BY <1>2, <1>3, <1>4, <1>5 DEF TextInv, TextTypes
<1>7. PagesHold'
  <2> SUFFICES ASSUME NEW q \in Pages PROVE PageHolds(page[q])'
    BY DEF PagesHold
  <2>1. page'[q] = IF q = p THEN pg ELSE page[q]
    <3> HIDE DEF pg
    <3> QED
      BY <1>3 DEF TextInv, TextTypes
  <2>2. PageHolds(page[q])
    BY DEF TextInv, PagesHold
  <2> HIDE DEF pg
  <2> QED
    BY <1>1, <1>2, <1>4, <1>5, <2>1, <2>2 DEF PageHolds, Typed
<1>8. RewritesStay' /\ OneCopy'
  BY <1>4, <1>5 DEF TextInv, RewritesStay, OneCopy, Typed, Shared!Visible
<1>9. SavedKnown' /\ SentKnown'
  BY <1>4, <1>5 DEF TextInv, RewritesStay, SavedKnown, SentKnown, Characters
<1> QED
  BY <1>6, <1>7, <1>8, <1>9 DEF TextInv

LEMMA SyncStep ==
  ASSUME TextInv, InOrder, NEW p \in Pages, Shared!Sync(p) PROVE TextInv'
<1> DEFINE d == Shared!Merged(page[p].doc, live)
           pg == Shared!Changed(page[p], d)
<1>1. page[p] \in PageTypes /\ PageHolds(page[p])
  BY DEF TextInv, TextTypes, PagesHold
<1>2. page[p].doc \in Documents /\ Typed(page[p].doc) /\ live \in Documents /\ Typed(live) /\ Shared!Loaded
  BY <1>1 DEF TextInv, TextTypes, PageTypes, PageHolds, RewritesStay, Shared!Sync, Shared!Loaded
<1>3. d \in Documents /\ Typed(d) /\ Characters(live) \subseteq Characters(d)
  BY <1>2, MergedTyped
<1>4. page[p].timer # {}
  BY <1>1 DEF PageHolds
<1>5. pg \in PageTypes /\ pg.doc = d /\ pg.connected = page[p].connected /\ pg.timer # {}
  <2> HIDE DEF d
  <2> QED
    BY <1>3, <1>4, ChangedPage DEF TextInv
<1>6. page' = [page EXCEPT ![p] = pg] /\ live' = d
  BY DEF Shared!Sync
<1>7. UNCHANGED <<stored, autosaves, typed, rewrites, erased, saved, rewritten>>
  BY DEF Shared!Sync
<1> HIDE DEF d, pg
<1>8. TextTypes'
  BY <1>3, <1>5, <1>6, <1>7 DEF TextInv, TextTypes
<1>9. d # NoDoc
  BY <1>3 DEF InOrder
<1>10. PagesHold'
  <2> SUFFICES ASSUME NEW q \in Pages PROVE PageHolds(page[q])'
    BY DEF PagesHold
  <2>1. page'[q] = IF q = p THEN pg ELSE page[q]
    BY <1>6 DEF TextInv, TextTypes
  <2>2. PageHolds(page[q])
    BY DEF TextInv, PagesHold
  <2> QED
    BY <1>1, <1>3, <1>5, <1>6, <1>7, <1>9, <2>1, <2>2 DEF PageHolds, Typed, Shared!Loaded
<1>11. RewritesStay' /\ OneCopy'
  BY <1>3, <1>6, <1>7, <1>9 DEF TextInv, RewritesStay, OneCopy, Typed, Shared!Visible, Shared!Loaded
<1>12. Characters(live) \subseteq Characters(live')
  BY <1>3, <1>6
<1>13. SavedKnown'
  BY <1>2, <1>7, <1>9, <1>12 DEF TextInv, SavedKnown, Shared!Loaded, Characters
<1>14. SentKnown'
  BY <1>2, <1>6, <1>7, <1>9, <1>12 DEF TextInv, SentKnown, Shared!Loaded
<1> QED
  BY <1>8, <1>10, <1>11, <1>13, <1>14 DEF TextInv

\* The server's document is stored, and what a rewrite made is gone.
LEMMA StoreStep ==
  ASSUME TextInv, InOrder, Shared!Store PROVE TextInv'
<1>1. live \in Documents /\ Typed(live) /\ Shared!Loaded
  BY DEF TextInv, TextTypes, RewritesStay, Shared!Store, Shared!Loaded
<1>2. /\ stored' = live /\ saved' = saved \cup Shared!Text(live) /\ rewritten' = FALSE
      /\ UNCHANGED <<page, live, autosaves, typed, rewrites, erased>>
  BY DEF Shared!Store
<1>3. Shared!Text(live) \in SUBSET Nat /\ Shared!Text(live) \subseteq Characters(live)
  BY <1>1, TextOf
<1>4. TextTypes'
  BY <1>1, <1>2, <1>3 DEF TextInv, TextTypes
<1>5. PagesHold'
  BY <1>2 DEF TextInv, PagesHold, PageHolds, Typed, Shared!Loaded
<1>6. RewritesStay'
  BY <1>1, <1>2 DEF RewritesStay, Typed, Shared!Loaded
<1>7. OneCopy'
  BY <1>1, <1>2 DEF TextInv, TextTypes, OneCopy, Typed, Shared!Visible
<1>8. SavedKnown'
  BY <1>1, <1>2, <1>3 DEF TextInv, SavedKnown, Characters, Shared!Loaded
<1>9. SentKnown'
  BY <1>1, <1>2 DEF TextInv, SentKnown, Characters, Shared!Loaded
<1> QED
  BY <1>4, <1>5, <1>6, <1>7, <1>8, <1>9 DEF TextInv

\* While the stored state is rewritten, the document of the server is another.
LEMMA UnloadStep ==
  ASSUME TextInv, InOrder, Shared!Unload PROVE TextInv'
<1>1. live \in Documents /\ Typed(live) /\ live = stored
  BY DEF TextInv, TextTypes, RewritesStay, Shared!Unload, Shared!Loaded
<1>2. ~rewritten
  BY <1>1 DEF TextInv, RewritesStay, Typed
<1>3. live' = NoDoc /\ UNCHANGED <<page, stored, autosaves, typed, rewrites, erased, saved, rewritten>>
  BY DEF Shared!Unload
<1>4. TextTypes'
  BY <1>3 DEF TextInv, TextTypes
<1>5. PagesHold'
  BY <1>3 DEF TextInv, PagesHold, PageHolds, Typed, Shared!Unload
<1>6. RewritesStay'
  BY <1>1, <1>2, <1>3 DEF RewritesStay, Typed, Shared!Loaded
<1>7. OneCopy'
  BY <1>3 DEF TextInv, OneCopy, Shared!Visible
<1>8. SavedKnown'
  BY <1>2, <1>3 DEF TextInv, SavedKnown, Characters, Shared!Loaded
<1>9. SentKnown'
  BY <1>1, <1>3 DEF TextInv, SentKnown, Characters, Shared!Loaded
<1> QED
  BY <1>4, <1>5, <1>6, <1>7, <1>8, <1>9 DEF TextInv

LEMMA StopStep ==
  ASSUME TextInv, InOrder, Shared!Stop PROVE TextInv'
<1>1. /\ live' = NoDoc /\ autosaves' = {} /\ rewritten' = FALSE /\ ~rewritten
      /\ UNCHANGED <<stored, typed, rewrites, erased, saved>>
      /\ page' = [p \in Pages |-> [page[p] EXCEPT !.connected = FALSE]]
  BY DEF Shared!Stop, InOrder
<1>2. ASSUME NEW p \in Pages
      PROVE  /\ page'[p] \in PageTypes
             /\ page'[p].doc = page[p].doc /\ ~page'[p].connected /\ page'[p].timer = page[p].timer
  BY <1>1 DEF TextInv, TextTypes, PageTypes
<1>3. page' \in [Pages -> PageTypes]
  <2>1. page' = [p \in Pages |-> page'[p]]
    BY <1>1
  <2> QED
    BY <1>2, <2>1
<1>4. TextTypes'
  BY <1>1, <1>3 DEF TextInv, TextTypes
<1>5. PagesHold'
  BY <1>1, <1>2 DEF TextInv, PagesHold, PageHolds, Typed
<1>6. RewritesStay' /\ OneCopy' /\ SentKnown'
  BY <1>1 DEF TextInv, RewritesStay, OneCopy, SentKnown, Typed, Shared!Loaded, Shared!Visible
<1>7. SavedKnown'
  BY <1>1 DEF TextInv, SavedKnown, Characters, Shared!Loaded
<1> QED
  BY <1>4, <1>5, <1>6, <1>7 DEF TextInv

\* What is sent is what the page and the server show.
LEMMA SendAutosaveStep ==
  ASSUME TextInv, InOrder, NEW p \in Pages, Shared!SendAutosave(p) PROVE TextInv'
<1> DEFINE pg == [page[p] EXCEPT !.timer = NoText]
<1>1. page[p] \in PageTypes /\ PageHolds(page[p])
  BY DEF TextInv, TextTypes, PagesHold
<1>2. /\ page[p].timer # NoText /\ page[p].timer # {} /\ page[p].timer \in SUBSET Nat
      /\ page[p].connected /\ page[p].doc = live /\ page[p].timer = Shared!Text(page[p].doc)
  BY <1>1 DEF PageTypes, PageHolds, Shared!SendAutosave, Shared!InStep, InOrder
<1>3. Shared!Loaded /\ live \in Documents
  BY <1>1, <1>2 DEF PageHolds, TextInv, TextTypes, Shared!Loaded
<1>4. page[p].timer \subseteq Characters(live)
  BY <1>2, <1>3, TextOf
<1>5. /\ pg \in PageTypes /\ pg.doc = page[p].doc /\ pg.timer = NoText
      /\ pg.connected = page[p].connected /\ NoText # {}
  BY <1>1 DEF PageTypes, InOrder
<1>6. /\ page' = [page EXCEPT ![p] = pg]
      /\ autosaves' = autosaves \cup {[by |-> p, text |-> page[p].timer]}
      /\ UNCHANGED <<live, stored, typed, rewrites, erased, saved, rewritten>>
  BY DEF Shared!SendAutosave
<1> HIDE DEF pg
<1>7. TextTypes'
  BY <1>2, <1>5, <1>6 DEF TextInv, TextTypes
<1>8. PagesHold'
  <2> SUFFICES ASSUME NEW q \in Pages PROVE PageHolds(page[q])'
    BY DEF PagesHold
  <2>1. page'[q] = IF q = p THEN pg ELSE page[q]
    BY <1>6 DEF TextInv, TextTypes
  <2>2. PageHolds(page[q])
    BY DEF TextInv, PagesHold
  <2> QED
    BY <1>1, <1>5, <1>6, <2>1, <2>2 DEF PageHolds, Typed, Shared!Loaded
<1>9. RewritesStay' /\ OneCopy' /\ SavedKnown'
  BY <1>6
     DEF TextInv, RewritesStay, OneCopy, SavedKnown, Typed, Characters, Shared!Visible,
         Shared!Loaded
<1>10. SentKnown'
  <2>1. autosaves' = autosaves \cup {[by |-> p, text |-> page[p].timer]} /\ live' = live /\ stored' = stored
    BY <1>6
  <2> QED
    BY <1>2, <1>3, <1>4, <2>1 DEF TextInv, SentKnown, Shared!Loaded
<1> QED
  BY <1>7, <1>8, <1>9, <1>10 DEF TextInv

\* A request rewrites the stored state only while the server has the document,
\* and nothing it names is unknown to that one.
LEMMA AutosaveStep ==
  ASSUME TextInv, InOrder, NEW r \in autosaves, Shared!Autosave(r) PROVE TextInv'
<1>1. /\ r \in [by : Pages, text : SUBSET Nat] /\ r.text # {} /\ r.text \subseteq Characters(live)
      /\ rewrites \in Nat /\ Shared!Loaded
  BY DEF TextInv, TextTypes, SentKnown, Shared!Autosave, InOrder
<1>2. /\ rewrites' = rewrites + 1 /\ stored' = Shared!Applied(stored, r.text, rewrites')
      /\ saved' = saved \cup r.text /\ rewritten' = (rewritten \/ stored' # stored)
      /\ autosaves' = autosaves \ {r} /\ page' = [page EXCEPT ![r.by].last = r.text]
      /\ UNCHANGED <<live, typed, erased>>
  BY DEF Shared!Autosave
<1>3. r.by \in Pages /\ r.text \in SUBSET Nat /\ rewrites' \in Nat
  BY <1>1, <1>2
<1>4. \A i \in stored.items : i.copy <= rewrites /\ i.copy < rewrites' /\ i.copy \in Nat
  BY <1>1, <1>2 DEF TextInv, TextTypes, OneCopy, Documents, Items
<1>5. ASSUME NEW p \in Pages
      PROVE  /\ page'[p] \in PageTypes
             /\ page'[p].doc = page[p].doc /\ page'[p].connected = page[p].connected
             /\ page'[p].timer = page[p].timer
  BY <1>2, <1>3 DEF TextInv, TextTypes, PageTypes
<1>6. page' \in [Pages -> PageTypes]
  <2>1. page' = [p \in Pages |-> page'[p]]
    BY <1>2 DEF TextInv, TextTypes
  <2> QED
    BY <1>5, <2>1
<1>7. PagesHold'
  BY <1>2, <1>5 DEF TextInv, PagesHold, PageHolds, Typed, Shared!Loaded
<1>8. SentKnown'
  BY <1>1, <1>2 DEF TextInv, SentKnown, Shared!Loaded
<1>9. (Shared!Loaded => saved \ erased \subseteq Characters(live))' /\ (Shared!Loaded => Typed(live))'
  BY <1>1, <1>2 DEF TextInv, SavedKnown, RewritesStay, Shared!Loaded, Typed, Characters
<1>10. CASE Shared!Text(stored) = r.text
  <2>1. stored' = stored /\ rewritten' = rewritten
    <3>1. stored' = stored
      BY <1>2, <1>10 DEF Shared!Applied
    <3>2. rewritten \in BOOLEAN
      BY DEF TextInv, TextTypes
    <3> QED
      BY <1>2, <3>1, <3>2
  <2>2. r.text \subseteq Characters(stored)
    BY <1>10, TextOf DEF TextInv, TextTypes
  <2>3. TextTypes'
    BY <1>2, <1>3, <1>6, <2>1 DEF TextInv, TextTypes
  <2>4. RewritesStay'
    BY <1>2, <2>1 DEF TextInv, RewritesStay, Typed, Shared!Loaded
  <2>5. OneCopy'
    BY <1>1, <1>2, <1>4, <2>1 DEF TextInv, OneCopy, Shared!Visible
  <2>6. SavedKnown'
    BY <1>2, <1>9, <2>1, <2>2 DEF TextInv, SavedKnown, Characters
  <2> QED
    BY <1>7, <1>8, <2>3, <2>4, <2>5, <2>6 DEF TextInv
<1>11. CASE Shared!Text(stored) # r.text
  <2>1. stored \in Documents
    BY DEF TextInv, TextTypes
  <2>2. /\ stored' \in Documents /\ stored' # stored
        /\ \A i \in stored'.items : i.copy <= rewrites'
        /\ \A i \in Shared!Visible(stored') : i.copy = rewrites'
        /\ \E i \in stored'.items : i.copy = rewrites'
    <3> DEFINE n == rewrites + 1
    <3>1. n \in Nat /\ rewrites' = n
      BY <1>1, <1>2
    <3>2. \A i \in stored.items : i.copy < n
      BY <1>4, <3>1
    <3>3. stored' = Shared!Applied(stored, r.text, n)
      BY <1>2, <3>1
    <3> HIDE DEF n
    <3>4. LET e == Shared!Applied(stored, r.text, n)
          IN  /\ e \in Documents /\ stored.items \subseteq e.items
              /\ \A i \in e.items : i.copy <= n
              /\ \A i \in Shared!Visible(e) : i.copy = n
              /\ r.text # {} => (e # stored /\ \E i \in e.items : i.copy = n)
      BY <1>3, <1>11, <2>1, <3>1, <3>2, AppliedDoc
    <3> QED
      BY <1>1, <3>1, <3>3, <3>4
  <2>3. rewritten' = TRUE
    BY <1>2, <2>2
  <2>4. rewrites' > 0
    BY <1>1, <1>2
  <2>5. TextTypes'
    BY <1>2, <1>3, <1>6, <2>2, <2>3 DEF TextInv, TextTypes
  <2>6. RewritesStay'
    <3>1. \E i \in stored'.items : i.copy > 0
      BY <2>2, <2>4
    <3> QED
      BY <1>1, <1>2, <1>9, <2>3, <3>1 DEF RewritesStay, Shared!Loaded
  <2>7. OneCopy'
    BY <2>2 DEF OneCopy, Shared!Visible
  <2>8. SavedKnown'
    BY <1>9, <2>3 DEF SavedKnown
  <2> QED
    BY <1>7, <1>8, <2>5, <2>6, <2>7, <2>8 DEF TextInv
<1> QED
  BY <1>10, <1>11

LEMMA NothingStep ==
  ASSUME TextInv, UNCHANGED <<page, live, stored, typed, rewrites, erased, saved, rewritten>>,
         autosaves' \subseteq autosaves
  PROVE  TextInv'
<1>1. TextTypes'
  BY DEF TextInv, TextTypes
<1> QED
  BY <1>1
     DEF TextInv, PagesHold, PageHolds, RewritesStay, OneCopy, SavedKnown, SentKnown, Typed,
         Characters,
              Shared!Visible, Shared!Loaded

LEMMA TextStep == TextInv /\ InOrder /\ [Shared!Next]_Shared!textVars => TextInv'
<1> SUFFICES ASSUME TextInv, InOrder, [Shared!Next]_Shared!textVars PROVE TextInv'
  OBVIOUS
<1>1. ASSUME NEW p \in Pages, Shared!OpenFile(p) \/ Shared!CloseFile(p) \/ Shared!Type(p) PROVE TextInv'
  BY <1>1, OpenFileStep, CloseFileStep, TypeStep
<1>2. ASSUME NEW p \in Pages, Shared!IsOpen(p) /\ \E i \in Shared!Visible(page[p].doc) : Shared!Erase(p, i)
      PROVE  TextInv'
  BY <1>2, EraseStep
<1>3. ASSUME NEW p \in Pages,
             Shared!Connect(p) \/ Shared!Sync(p) \/ Shared!Disconnect(p) \/ Shared!SendAutosave(p)
      PROVE  TextInv'
  BY <1>3, ConnectStep, SyncStep, DisconnectStep, SendAutosaveStep
<1>4. CASE Shared!Store \/ Shared!Unload \/ Shared!Stop
  BY <1>4, StoreStep, UnloadStep, StopStep
<1>5. ASSUME NEW r \in autosaves, Shared!Autosave(r) PROVE TextInv'
  BY <1>5, AutosaveStep
<1>6. ASSUME NEW r \in autosaves, Shared!AutosaveFails(r) PROVE TextInv'
  BY <1>6, NothingStep DEF Shared!AutosaveFails
<1>7. CASE UNCHANGED Shared!textVars
  BY <1>7, NothingStep DEF Shared!textVars
<1> QED
  BY <1>1, <1>2, <1>3, <1>4, <1>5, <1>6, <1>7 DEF Shared!Next

-----------------------------------------------------------------------------
(* The replacement in a shared text (YTextDiff).                             *)

HalvesDiffer == High \cap Low = {}

LEMMA GreatestIs ==
  ASSUME NEW n \in Nat, NEW S \in SUBSET (0..n), S # {}
  PROVE  Diff!Greatest(S) \in S /\ \A m \in S : m <= Diff!Greatest(S)
<1>1. IsFiniteSet(S) /\ S \in SUBSET Nat
  <2>1. IsFiniteSet(0..n) /\ 0..n \in SUBSET Nat
    BY FS_Interval
  <2> QED
    BY <2>1, FS_Subset
<1>2. \E i \in S : \A j \in S : j <= i
  BY <1>1, LeastGreatest
<1> QED
  BY <1>2 DEF Diff!Greatest

LEMMA LeastIs ==
  ASSUME NEW m \in Nat, NEW n \in Nat
  PROVE  Diff!Least(m, n) \in Nat /\ Diff!Least(m, n) <= m /\ Diff!Least(m, n) <= n
         /\ \A k \in Nat : k <= m /\ k <= n => k <= Diff!Least(m, n)
BY DEF Diff!Least

\* What both texts begin with.
LEMMA StartIs ==
  ASSUME HalvesDiffer, NEW a \in Seq(Diff!Units), NEW b \in Seq(Diff!Units), Diff!WellFormed(a)
  PROVE  /\ Diff!Start(a, b) \in Nat /\ Diff!Start(a, b) <= Len(a) /\ Diff!Start(a, b) <= Len(b)
         /\ \A i \in 1..Diff!Start(a, b) : a[i] = b[i]
         /\ Diff!Start(a, b) > 0 => a[Diff!Start(a, b)] \notin High
         /\ \A n \in Nat : n <= Len(a) /\ n <= Len(b) /\ (\A i \in 1..n : a[i] = b[i]) =>
              n <= Diff!Start(a, b) \/ (n = Diff!Start(a, b) + 1 /\ a[n] \in High)
<1> DEFINE l == Diff!Least(Len(a), Len(b))
           S == {n \in 0..l : \A i \in 1..n : a[i] = b[i]}
           same == Diff!Greatest(S)
           st == Diff!Start(a, b)
<1>1. Len(a) \in Nat /\ Len(b) \in Nat /\ DOMAIN a = 1..Len(a)
  OBVIOUS
<1>2. l \in Nat /\ l <= Len(a) /\ l <= Len(b) /\ \A k \in Nat : k <= Len(a) /\ k <= Len(b) => k <= l
  BY <1>1, LeastIs
<1> HIDE DEF l
<1>3. S \in SUBSET (0..l) /\ 0 \in S
  BY <1>2
<1>4. same \in S /\ \A m \in S : m <= same
  <2> HIDE DEF S
  <2> QED
    BY <1>2, <1>3, GreatestIs
<1>5. st = IF same > 0 /\ a[same] \in High THEN same - 1 ELSE same
  BY DEF Diff!Start, l
<1>6. same \in 0..l /\ \A i \in 1..same : a[i] = b[i]
  BY <1>4
<1>7. \A n \in Nat : n <= Len(a) /\ n <= Len(b) /\ (\A i \in 1..n : a[i] = b[i]) => n <= same
  <2> SUFFICES ASSUME NEW n \in Nat, n <= Len(a), n <= Len(b), \A i \in 1..n : a[i] = b[i]
               PROVE  n <= same
    OBVIOUS
  <2>1. n \in S
    BY <1>2
  <2> HIDE DEF S, same
  <2> QED
    BY <1>4, <2>1
<1> HIDE DEF S, same, st
<1>8. CASE same > 0 /\ a[same] \in High
  <2>1. st = same - 1 /\ st \in Nat /\ same \in Nat /\ same \in DOMAIN a
    BY <1>1, <1>2, <1>5, <1>6, <1>8
  <2>2. st > 0 => a[st] \notin High
    <3> SUFFICES ASSUME st > 0, a[st] \in High PROVE FALSE
      OBVIOUS
    <3>1. st \in DOMAIN a /\ st + 1 = same
      BY <1>1, <2>1
    <3>2. a[same] \in Low
      BY <3>1 DEF Diff!WellFormed
    <3> QED
      BY <1>8, <3>2 DEF HalvesDiffer
  <2>3. st <= Len(a) /\ st <= Len(b) /\ \A i \in 1..st : a[i] = b[i]
    BY <1>1, <1>2, <1>6, <2>1
  <2>4. \A n \in Nat : n <= Len(a) /\ n <= Len(b) /\ (\A i \in 1..n : a[i] = b[i]) =>
              n <= st \/ (n = st + 1 /\ a[n] \in High)
    BY <1>7, <1>8, <2>1
  <2> QED
    BY <2>1, <2>2, <2>3, <2>4 DEF st
<1>9. CASE ~(same > 0 /\ a[same] \in High)
  <2>1. st = same /\ same \in Nat
    BY <1>2, <1>5, <1>6, <1>9
  <2>2. same <= Len(a) /\ same <= Len(b)
    BY <1>1, <1>2, <1>6
  <2> QED
    BY <1>6, <1>7, <1>9, <2>1, <2>2 DEF st
<1> QED
  BY <1>8, <1>9

\* What both end with after that.
LEMMA EndIs ==
  ASSUME HalvesDiffer, NEW a \in Seq(Diff!Units), NEW b \in Seq(Diff!Units), Diff!WellFormed(a),
         NEW st \in Nat, st <= Len(a), st <= Len(b)
  PROVE  /\ Diff!End(a, b, st) \in Nat
         /\ st + Diff!End(a, b, st) <= Len(a) /\ st + Diff!End(a, b, st) <= Len(b)
         /\ \A i \in 1..Diff!End(a, b, st) : a[Len(a) + 1 - i] = b[Len(b) + 1 - i]
         /\ Diff!End(a, b, st) > 0 => a[Len(a) + 1 - Diff!End(a, b, st)] \notin Low
         /\ \A n \in Nat : /\ st + n <= Len(a) /\ st + n <= Len(b)
                           /\ \A i \in 1..n : a[Len(a) + 1 - i] = b[Len(b) + 1 - i]
                           => \/ n <= Diff!End(a, b, st)
                              \/ n = Diff!End(a, b, st) + 1 /\ a[Len(a) + 1 - n] \in Low
<1> DEFINE l == Diff!Least(Len(a), Len(b)) - st
           S == {n \in 0..l : \A i \in 1..n : a[Len(a) + 1 - i] = b[Len(b) + 1 - i]}
           same == Diff!Greatest(S)
           en == Diff!End(a, b, st)
<1>1. Len(a) \in Nat /\ Len(b) \in Nat /\ DOMAIN a = 1..Len(a)
  OBVIOUS
<1>2. l \in Nat /\ st + l <= Len(a) /\ st + l <= Len(b)
      /\ \A k \in Nat : st + k <= Len(a) /\ st + k <= Len(b) => k <= l
  <2> DEFINE m == Diff!Least(Len(a), Len(b))
  <2>1. m \in Nat /\ m <= Len(a) /\ m <= Len(b) /\ \A k \in Nat : k <= Len(a) /\ k <= Len(b) => k <= m
    BY <1>1, LeastIs
  <2> HIDE DEF m
  <2>2. l = m - st
    BY DEF m
  <2> HIDE DEF l
  <2>3. st <= m
    BY <2>1
  <2>4. ASSUME NEW k \in Nat, st + k <= Len(a), st + k <= Len(b)
        PROVE  k <= l
    <3>1. st + k <= m
      BY <2>1, <2>4
    <3> QED
      BY <2>1, <2>2, <3>1
  <2> QED
    BY <1>1, <2>1, <2>2, <2>3, <2>4
<1> HIDE DEF l
<1>3. S \in SUBSET (0..l) /\ 0 \in S
  BY <1>2
<1>4. same \in S /\ \A m \in S : m <= same
  <2> HIDE DEF S
  <2> QED
    BY <1>2, <1>3, GreatestIs
<1>5. en = IF same > 0 /\ a[Len(a) + 1 - same] \in Low THEN same - 1 ELSE same
  BY DEF Diff!End, l
<1>6. same \in 0..l /\ \A i \in 1..same : a[Len(a) + 1 - i] = b[Len(b) + 1 - i]
  BY <1>4
<1>7. \A n \in Nat : /\ st + n <= Len(a) /\ st + n <= Len(b)
                     /\ \A i \in 1..n : a[Len(a) + 1 - i] = b[Len(b) + 1 - i]
                     => n <= same
  <2> SUFFICES ASSUME NEW n \in Nat, st + n <= Len(a), st + n <= Len(b),
                      \A i \in 1..n : a[Len(a) + 1 - i] = b[Len(b) + 1 - i]
               PROVE  n <= same
    OBVIOUS
  <2>1. n \in S
    BY <1>2
  <2> HIDE DEF S, same
  <2> QED
    BY <1>4, <2>1
<1> HIDE DEF S, same, en
<1>8. CASE same > 0 /\ a[Len(a) + 1 - same] \in Low
  <2>1. en = same - 1 /\ en \in Nat /\ same \in Nat /\ Len(a) + 1 - same \in DOMAIN a
    BY <1>1, <1>2, <1>5, <1>6, <1>8
  <2>2. en > 0 => a[Len(a) + 1 - en] \notin Low
    <3> SUFFICES ASSUME en > 0, a[Len(a) + 1 - en] \in Low PROVE FALSE
      OBVIOUS
    <3>1. Len(a) + 1 - en \in DOMAIN a /\ (Len(a) + 1 - en) - 1 = Len(a) + 1 - same
      BY <1>1, <1>2, <1>6, <2>1
    <3>2. a[(Len(a) + 1 - en) - 1] \in High
      BY <3>1 DEF Diff!WellFormed
    <3> QED
      BY <1>8, <3>1, <3>2 DEF HalvesDiffer
  <2>3. st + en <= Len(a) /\ st + en <= Len(b) /\ \A i \in 1..en : a[Len(a) + 1 - i] = b[Len(b) + 1 - i]
    BY <1>1, <1>2, <1>6, <2>1
  <2>4. \A n \in Nat : /\ st + n <= Len(a) /\ st + n <= Len(b)
                       /\ \A i \in 1..n : a[Len(a) + 1 - i] = b[Len(b) + 1 - i]
                       => n <= en \/ (n = en + 1 /\ a[Len(a) + 1 - n] \in Low)
    BY <1>7, <1>8, <2>1
  <2> QED
    BY <2>1, <2>2, <2>3, <2>4 DEF en
<1>9. CASE ~(same > 0 /\ a[Len(a) + 1 - same] \in Low)
  <2>1. en = same /\ same \in Nat
    BY <1>2, <1>5, <1>6, <1>9
  <2>2. st + same <= Len(a) /\ st + same <= Len(b)
    BY <1>1, <1>2, <1>6
  <2> QED
    BY <1>6, <1>7, <1>9, <2>1, <2>2 DEF en
<1> QED
  BY <1>8, <1>9

LEMMA MiddleIs ==
  ASSUME NEW X, NEW s \in Seq(X), NEW st \in Nat, NEW en \in Nat, st + en <= Len(s)
  PROVE  /\ SubSeq(s, st + 1, Len(s) - en) \in Seq(X)
         /\ Len(SubSeq(s, st + 1, Len(s) - en)) = Len(s) - en - st
         /\ Len(s) - en - st \in Nat
         /\ \A i \in 1..(Len(s) - en - st) : SubSeq(s, st + 1, Len(s) - en)[i] = s[st + i]
<1>1. Len(s) \in Nat
  OBVIOUS
<1>2. st + 1 \in 1..(Len(s) + 1) /\ Len(s) - en \in st..Len(s) /\ Len(s) - en - st \in Nat
  BY <1>1
<1>3. \A i \in (st + 1)..(Len(s) - en) : s[i] \in X
  BY <1>1, <1>2
<1> DEFINE n == Len(s) - en
<1>4. n \in Int /\ st + 1 \in Int /\ n >= st /\ \A i \in (st + 1)..n : s[i] \in X
  BY <1>1, <1>2, <1>3
<1> HIDE DEF n
<1>5. /\ SubSeq(s, st + 1, n) \in Seq(X)
      /\ Len(SubSeq(s, st + 1, n)) = IF st + 1 <= n THEN n - (st + 1) + 1 ELSE 0
      /\ \A i \in 1..(n - (st + 1) + 1) : SubSeq(s, st + 1, n)[i] = s[(st + 1) + i - 1]
  BY <1>4, SubSeqProperties
<1>6. n - (st + 1) + 1 = n - st
  BY <1>4
<1>7. Len(SubSeq(s, st + 1, n)) = n - st
  BY <1>4, <1>5
<1>8. \A i \in 1..(n - st) : SubSeq(s, st + 1, n)[i] = s[st + i]
  BY <1>4, <1>5, <1>6
<1> QED
  BY <1>2, <1>5, <1>7, <1>8 DEF n

LEMMA MiddleWellFormed ==
  ASSUME HalvesDiffer, NEW s \in Seq(Diff!Units), Diff!WellFormed(s), NEW st \in Nat, NEW en \in Nat,
         st + en <= Len(s), st > 0 => s[st] \notin High, en > 0 => s[Len(s) + 1 - en] \notin Low
  PROVE  Diff!WellFormed(SubSeq(s, st + 1, Len(s) - en))
<1> DEFINE m == SubSeq(s, st + 1, Len(s) - en)
           l == Len(s) - en - st
<1>1. Len(s) \in Nat /\ DOMAIN s = 1..Len(s)
  OBVIOUS
<1>2. /\ Len(m) = l /\ l \in Nat /\ DOMAIN m = 1..l /\ \A i \in 1..l : m[i] = s[st + i]
  <2>1. m \in Seq(Diff!Units) /\ Len(m) = l /\ l \in Nat /\ \A i \in 1..l : m[i] = s[st + i]
    <3> DEFINE X == Diff!Units
    <3>1. s \in Seq(X)
      OBVIOUS
    <3> HIDE DEF X
    <3>2. m \in Seq(X) /\ Len(m) = l /\ l \in Nat /\ \A i \in 1..l : m[i] = s[st + i]
      BY <3>1, MiddleIs
    <3> QED
      BY <3>2 DEF X
  <2> QED
    BY <2>1
<1> HIDE DEF m
<1>3. ASSUME NEW i \in 1..l, m[i] \in High
      PROVE  i < l /\ m[i + 1] \in Low
  <2>1. st + i \in DOMAIN s /\ s[st + i] \in High
    BY <1>1, <1>2, <1>3
  <2>2. st + i < Len(s) /\ s[(st + i) + 1] \in Low
    BY <2>1 DEF Diff!WellFormed
  <2>3. i # l
    <3> SUFFICES ASSUME i = l PROVE FALSE
      OBVIOUS
    <3>1. en > 0 /\ (st + i) + 1 = Len(s) + 1 - en
      BY <1>1, <2>2
    <3> QED
      BY <2>2, <3>1
  <2>4. i < l /\ i + 1 \in 1..l /\ st + (i + 1) = (st + i) + 1
    <3>1. l \in Nat /\ i \in 1..l
      BY <1>2
    <3> HIDE DEF l
    <3> QED
      BY <2>3, <3>1
  <2> QED
    BY <1>2, <2>2, <2>4
<1>4. ASSUME NEW i \in 1..l, m[i] \in Low
      PROVE  i > 1 /\ m[i - 1] \in High
  <2>1. st + i \in DOMAIN s /\ s[st + i] \in Low
    BY <1>1, <1>2, <1>4
  <2>2. st + i > 1 /\ s[(st + i) - 1] \in High
    BY <2>1 DEF Diff!WellFormed
  <2>3. i # 1
    <3> SUFFICES ASSUME i = 1 PROVE FALSE
      OBVIOUS
    <3>1. st > 0 /\ (st + i) - 1 = st
      BY <2>2
    <3> QED
      BY <2>2, <3>1
  <2>4. i > 1 /\ i - 1 \in 1..l /\ st + (i - 1) = (st + i) - 1
    BY <1>2, <2>3
  <2> QED
    BY <1>2, <2>2, <2>4
<1>5. \A i \in DOMAIN m : m[i] \in High => i < Len(m) /\ m[i + 1] \in Low
  BY <1>2, <1>3
<1>6. \A i \in DOMAIN m : m[i] \in Low => i > 1 /\ m[i - 1] \in High
  BY <1>2, <1>4
<1> QED
  BY <1>5, <1>6 DEF Diff!WellFormed, m

\* What is taken out of a, and what comes in its place.
LEMMA ReplacedIs ==
  ASSUME HalvesDiffer, NEW a \in Seq(Diff!Units), NEW b \in Seq(Diff!Units),
         Diff!WellFormed(a), Diff!WellFormed(b)
  PROVE  LET st == Diff!Start(a, b)
             en == Diff!End(a, b, st)
         IN  /\ st \in Nat /\ en \in Nat /\ st + en <= Len(a) /\ st + en <= Len(b)
             /\ \A i \in 1..st : a[i] = b[i]
             /\ \A i \in 1..en : a[Len(a) + 1 - i] = b[Len(b) + 1 - i]
             /\ st > 0 => a[st] \notin High /\ b[st] \notin High
             /\ en > 0 => a[Len(a) + 1 - en] \notin Low /\ b[Len(b) + 1 - en] \notin Low
             /\ Diff!Deleted(a, b) = SubSeq(a, st + 1, Len(a) - en)
             /\ Diff!Inserted(a, b) = SubSeq(b, st + 1, Len(b) - en)
<1> DEFINE st == Diff!Start(a, b)
           en == Diff!End(a, b, st)
<1>1. /\ st \in Nat /\ st <= Len(a) /\ st <= Len(b) /\ \A i \in 1..st : a[i] = b[i]
      /\ st > 0 => a[st] \notin High
  BY StartIs
<1>2. /\ en \in Nat /\ st + en <= Len(a) /\ st + en <= Len(b)
      /\ \A i \in 1..en : a[Len(a) + 1 - i] = b[Len(b) + 1 - i]
      /\ en > 0 => a[Len(a) + 1 - en] \notin Low
  <2> HIDE DEF st
  <2> QED
    BY <1>1, EndIs
<1>3. st > 0 => b[st] \notin High
  <2> HIDE DEF st
  <2> QED
    BY <1>1
<1>4. en > 0 => b[Len(b) + 1 - en] \notin Low
  <2> HIDE DEF en
  <2> QED
    BY <1>2
<1>5. /\ Diff!Deleted(a, b) = SubSeq(a, st + 1, Len(a) - en)
      /\ Diff!Inserted(a, b) = SubSeq(b, st + 1, Len(b) - en)
  BY DEF Diff!Deleted, Diff!Inserted, Diff!From
<1> HIDE DEF st, en
<1>6. /\ st \in Nat /\ en \in Nat /\ st + en <= Len(a) /\ st + en <= Len(b)
      /\ \A i \in 1..st : a[i] = b[i]
      /\ \A i \in 1..en : a[Len(a) + 1 - i] = b[Len(b) + 1 - i]
      /\ st > 0 => a[st] \notin High /\ b[st] \notin High
      /\ en > 0 => a[Len(a) + 1 - en] \notin Low /\ b[Len(b) + 1 - en] \notin Low
      /\ Diff!Deleted(a, b) = SubSeq(a, st + 1, Len(a) - en)
      /\ Diff!Inserted(a, b) = SubSeq(b, st + 1, Len(b) - en)
  BY <1>1, <1>2, <1>3, <1>4, <1>5
<1> QED
  BY <1>6 DEF st, en

LEMMA NothingSplit ==
  ASSUME HalvesDiffer, NEW a \in Seq(Diff!Units), NEW b \in Seq(Diff!Units),
         Diff!WellFormed(a), Diff!WellFormed(b)
  PROVE  Diff!WellFormed(Diff!Deleted(a, b)) /\ Diff!WellFormed(Diff!Inserted(a, b))
<1> DEFINE st == Diff!Start(a, b)
           en == Diff!End(a, b, st)
<1>1. /\ st \in Nat /\ en \in Nat /\ st + en <= Len(a) /\ st + en <= Len(b)
      /\ st > 0 => a[st] \notin High /\ b[st] \notin High
      /\ en > 0 => a[Len(a) + 1 - en] \notin Low /\ b[Len(b) + 1 - en] \notin Low
      /\ Diff!Deleted(a, b) = SubSeq(a, st + 1, Len(a) - en)
      /\ Diff!Inserted(a, b) = SubSeq(b, st + 1, Len(b) - en)
  BY ReplacedIs
<1> HIDE DEF st, en
<1> QED
  BY <1>1, MiddleWellFormed

\* Whole characters that both texts have there are not replaced.
LEMMA NothingMore ==
  ASSUME HalvesDiffer, NEW a \in Seq(Diff!Units), NEW b \in Seq(Diff!Units),
         Diff!WellFormed(a), Diff!WellFormed(b),
         NEW n \in 1..Diff!Least(Len(Diff!Deleted(a, b)), Len(Diff!Inserted(a, b)))
  PROVE  /\ SubSeq(Diff!Deleted(a, b), 1, n) = SubSeq(Diff!Inserted(a, b), 1, n) =>
              ~Diff!WellFormed(SubSeq(Diff!Deleted(a, b), 1, n))
         /\ SubSeq(Diff!Deleted(a, b), Len(Diff!Deleted(a, b)) + 1 - n, Len(Diff!Deleted(a, b)))
              = SubSeq(Diff!Inserted(a, b), Len(Diff!Inserted(a, b)) + 1 - n, Len(Diff!Inserted(a, b))) =>
              ~Diff!WellFormed(SubSeq(Diff!Deleted(a, b), Len(Diff!Deleted(a, b)) + 1 - n, Len(Diff!Deleted(a, b))))
<1> DEFINE st == Diff!Start(a, b)
           en == Diff!End(a, b, st)
           x == Diff!Deleted(a, b)
           y == Diff!Inserted(a, b)
           X == Diff!Units
<1>1. /\ st \in Nat /\ en \in Nat /\ st + en <= Len(a) /\ st + en <= Len(b)
      /\ \A i \in 1..st : a[i] = b[i]
      /\ \A i \in 1..en : a[Len(a) + 1 - i] = b[Len(b) + 1 - i]
      /\ x = SubSeq(a, st + 1, Len(a) - en) /\ y = SubSeq(b, st + 1, Len(b) - en)
  BY ReplacedIs
<1>2. \A k \in Nat : k <= Len(a) /\ k <= Len(b) /\ (\A i \in 1..k : a[i] = b[i]) => k <= st \/ (k = st + 1 /\ a[k] \in High)
  BY StartIs
<1>3. \A k \in Nat : /\ st + k <= Len(a) /\ st + k <= Len(b) /\ \A i \in 1..k : a[Len(a) + 1 - i] = b[Len(b) + 1 - i]
                     => k <= en \/ (k = en + 1 /\ a[Len(a) + 1 - k] \in Low)
  <2>1. st \in Nat /\ st <= Len(a) /\ st <= Len(b)
    BY StartIs
  <2> HIDE DEF st
  <2> QED
    BY <2>1, EndIs
<1>4. a \in Seq(X) /\ b \in Seq(X) /\ Len(a) \in Nat /\ Len(b) \in Nat
  OBVIOUS
<1> HIDE DEF st, en, x, y, X
<1>5. /\ x \in Seq(X) /\ Len(x) = Len(a) - en - st /\ Len(x) \in Nat /\ \A i \in 1..Len(x) : x[i] = a[st + i]
      /\ y \in Seq(X) /\ Len(y) = Len(b) - en - st /\ Len(y) \in Nat /\ \A i \in 1..Len(y) : y[i] = b[st + i]
  <2>1. /\ SubSeq(a, st + 1, Len(a) - en) \in Seq(X)
        /\ Len(SubSeq(a, st + 1, Len(a) - en)) = Len(a) - en - st /\ Len(a) - en - st \in Nat
        /\ \A i \in 1..(Len(a) - en - st) : SubSeq(a, st + 1, Len(a) - en)[i] = a[st + i]
    BY <1>1, <1>4, MiddleIs
  <2>2. /\ SubSeq(b, st + 1, Len(b) - en) \in Seq(X)
        /\ Len(SubSeq(b, st + 1, Len(b) - en)) = Len(b) - en - st /\ Len(b) - en - st \in Nat
        /\ \A i \in 1..(Len(b) - en - st) : SubSeq(b, st + 1, Len(b) - en)[i] = b[st + i]
    BY <1>1, <1>4, MiddleIs
  <2>3. x \in Seq(X) /\ Len(x) = Len(a) - en - st /\ Len(x) \in Nat /\ \A i \in 1..Len(x) : x[i] = a[st + i]
    BY <1>1, <2>1
  <2>4. y \in Seq(X) /\ Len(y) = Len(b) - en - st /\ Len(y) \in Nat /\ \A i \in 1..Len(y) : y[i] = b[st + i]
    BY <1>1, <2>2
  <2> QED
    BY <2>3, <2>4
<1>6. n \in Nat /\ n >= 1 /\ n <= Len(x) /\ n <= Len(y)
  <2>1. n \in 1..Diff!Least(Len(x), Len(y))
    BY DEF x, y
  <2> DEFINE k == Len(x)
             l == Len(y)
  <2>2. k \in Nat /\ l \in Nat
    BY <1>5
  <2> HIDE DEF k, l
  <2>3. Diff!Least(k, l) \in Nat /\ Diff!Least(k, l) <= k /\ Diff!Least(k, l) <= l
    BY <2>2, LeastIs
  <2>4. n \in 1..Diff!Least(k, l)
    BY <2>1 DEF k, l
  <2>5. n \in Nat /\ n >= 1 /\ n <= k /\ n <= l
    BY <2>2, <2>3, <2>4
  <2> QED
    BY <2>5 DEF k, l
<1>7. ASSUME SubSeq(x, 1, n) = SubSeq(y, 1, n) PROVE ~Diff!WellFormed(SubSeq(x, 1, n))
  <2> DEFINE p == SubSeq(x, 1, n)
  <2>1. p \in Seq(X) /\ Len(p) = n /\ \A i \in 1..n : p[i] = x[i]
    BY <1>5, <1>6
  <2>2. \A i \in 1..n : p[i] = y[i]
    BY <1>5, <1>6, <1>7
  <2> HIDE DEF p
  <2>3. \A i \in 1..n : a[st + i] = b[st + i]
    BY <1>5, <1>6, <2>1, <2>2
  <2>4. \A i \in 1..(st + n) : a[i] = b[i]
    <3> SUFFICES ASSUME NEW i \in 1..(st + n), ~(i <= st) PROVE a[i] = b[i]
      BY <1>1, <1>6
    <3>1. i - st \in 1..n /\ st + (i - st) = i
      BY <1>1, <1>6
    <3> QED
      BY <2>3, <3>1
  <2>5. n = 1 /\ a[st + n] \in High
    <3>1. st + n \in Nat /\ st + n <= Len(a) /\ st + n <= Len(b)
      BY <1>1, <1>4, <1>5, <1>6
    <3>2. st + n <= st \/ (st + n = st + 1 /\ a[st + n] \in High)
      BY <1>2, <2>4, <3>1
    <3> QED
      BY <1>1, <1>6, <3>2
  <2>6. p[1] \in High /\ Len(p) = 1 /\ 1 \in DOMAIN p
    <3>1. 1 \in 1..n /\ 1 \in 1..Len(x)
      BY <1>5, <1>6
    <3>2. p[1] = a[st + 1]
      BY <1>5, <2>1, <3>1
    <3>3. DOMAIN p = 1..Len(p)
      BY <2>1
    <3> QED
      BY <2>1, <2>5, <3>1, <3>2, <3>3
  <2>7. ~Diff!WellFormed(p)
    BY <2>6 DEF Diff!WellFormed
  <2> QED
    BY <2>7 DEF p
<1>8. ASSUME SubSeq(x, Len(x) + 1 - n, Len(x)) = SubSeq(y, Len(y) + 1 - n, Len(y))
      PROVE  ~Diff!WellFormed(SubSeq(x, Len(x) + 1 - n, Len(x)))
  <2> DEFINE p == SubSeq(x, (Len(x) - n) + 1, Len(x) - 0)
             q == SubSeq(y, (Len(y) - n) + 1, Len(y) - 0)
  <2>1. p = SubSeq(x, Len(x) + 1 - n, Len(x)) /\ q = SubSeq(y, Len(y) + 1 - n, Len(y))
    <3>1. (Len(x) - n) + 1 = Len(x) + 1 - n /\ Len(x) - 0 = Len(x) /\ (Len(y) - n) + 1 = Len(y) + 1 - n /\ Len(y) - 0 = Len(y)
      BY <1>5, <1>6
    <3> QED
      BY <3>1
  <2>2. p \in Seq(X) /\ Len(p) = n /\ \A i \in 1..n : p[i] = x[(Len(x) - n) + i]
    <3> DEFINE m == Len(x) - n
    <3>1. m \in Nat /\ 0 \in Nat /\ m + 0 <= Len(x) /\ Len(x) - 0 - m = n /\ x \in Seq(X)
      BY <1>5, <1>6
    <3> HIDE DEF m
    <3>2. /\ SubSeq(x, m + 1, Len(x) - 0) \in Seq(X)
          /\ Len(SubSeq(x, m + 1, Len(x) - 0)) = Len(x) - 0 - m
          /\ \A i \in 1..(Len(x) - 0 - m) : SubSeq(x, m + 1, Len(x) - 0)[i] = x[m + i]
      BY <3>1, MiddleIs
    <3> QED
      BY <3>1, <3>2 DEF m, p
  <2>3. q \in Seq(X) /\ Len(q) = n /\ \A i \in 1..n : q[i] = y[(Len(y) - n) + i]
    <3> DEFINE m == Len(y) - n
    <3>1. m \in Nat /\ 0 \in Nat /\ m + 0 <= Len(y) /\ Len(y) - 0 - m = n /\ y \in Seq(X)
      BY <1>5, <1>6
    <3> HIDE DEF m
    <3>2. /\ SubSeq(y, m + 1, Len(y) - 0) \in Seq(X)
          /\ Len(SubSeq(y, m + 1, Len(y) - 0)) = Len(y) - 0 - m
          /\ \A i \in 1..(Len(y) - 0 - m) : SubSeq(y, m + 1, Len(y) - 0)[i] = y[m + i]
      BY <3>1, MiddleIs
    <3> QED
      BY <3>1, <3>2 DEF m, q
  <2> HIDE DEF p, q
  <2>4. \A i \in 1..n : x[(Len(x) - n) + i] = y[(Len(y) - n) + i]
    BY <1>8, <2>1, <2>2, <2>3
  <2>5. ASSUME NEW i \in 1..n PROVE a[Len(a) - en - n + i] = b[Len(b) - en - n + i]
    <3>1. (Len(x) - n) + i \in 1..Len(x) /\ st + ((Len(x) - n) + i) = Len(a) - en - n + i
      BY <1>1, <1>4, <1>5, <1>6
    <3>2. (Len(y) - n) + i \in 1..Len(y) /\ st + ((Len(y) - n) + i) = Len(b) - en - n + i
      BY <1>1, <1>4, <1>5, <1>6
    <3> QED
      BY <1>5, <2>4, <3>1, <3>2
  <2>6. \A i \in 1..(en + n) : a[Len(a) + 1 - i] = b[Len(b) + 1 - i]
    <3> SUFFICES ASSUME NEW i \in 1..(en + n), ~(i <= en) PROVE a[Len(a) + 1 - i] = b[Len(b) + 1 - i]
      BY <1>1, <1>6
    <3> DEFINE j == n + 1 - (i - en)
    <3>1. /\ j \in 1..n /\ Len(a) - en - n + j = Len(a) + 1 - i /\ Len(b) - en - n + j = Len(b) + 1 - i
      BY <1>1, <1>4, <1>6
    <3> HIDE DEF j
    <3> QED
      BY <2>5, <3>1
  <2>7. n = 1 /\ a[Len(a) + 1 - (en + n)] \in Low
    <3>1. en + n \in Nat /\ st + (en + n) <= Len(a) /\ st + (en + n) <= Len(b)
      BY <1>1, <1>4, <1>5, <1>6
    <3>2. en + n <= en \/ (en + n = en + 1 /\ a[Len(a) + 1 - (en + n)] \in Low)
      BY <1>3, <2>6, <3>1
    <3> QED
      BY <1>1, <1>6, <3>2
  <2>8. p[1] \in Low /\ 1 \in DOMAIN p
    <3>1. p[1] = x[(Len(x) - n) + 1] /\ (Len(x) - n) + 1 \in 1..Len(x)
      BY <1>5, <1>6, <2>2
    <3>2. st + ((Len(x) - n) + 1) = Len(a) + 1 - (en + n)
      BY <1>1, <1>4, <1>5, <1>6, <2>7
    <3>3. p[1] \in Low
      BY <1>5, <2>7, <3>1, <3>2
    <3>4. 1 \in DOMAIN p
      BY <1>6, <2>2
    <3> QED
      BY <3>3, <3>4
  <2>9. ~Diff!WellFormed(p)
    BY <2>8 DEF Diff!WellFormed
  <2> QED
    BY <2>1, <2>9
<1> QED
  BY <1>7, <1>8 DEF x, y

\* The text with the replacement is the other one.
LEMMA ReplacedReads ==
  ASSUME HalvesDiffer, NEW a \in Seq(Diff!Units), NEW b \in Seq(Diff!Units),
         Diff!WellFormed(a), Diff!WellFormed(b)
  PROVE  SubSeq(a, 1, Diff!Start(a, b)) \o Diff!Inserted(a, b)
           \o SubSeq(a, Len(a) + 1 - Diff!End(a, b, Diff!Start(a, b)), Len(a)) = b
<1> DEFINE st == Diff!Start(a, b)
           en == Diff!End(a, b, st)
           X == Diff!Units
           x == SubSeq(a, 0 + 1, Len(a) - (Len(a) - st))
           y == SubSeq(b, st + 1, Len(b) - en)
           z == SubSeq(a, (Len(a) - en) + 1, Len(a) - 0)
<1>1. /\ st \in Nat /\ en \in Nat /\ st + en <= Len(a) /\ st + en <= Len(b)
      /\ \A i \in 1..st : a[i] = b[i]
      /\ \A i \in 1..en : a[Len(a) + 1 - i] = b[Len(b) + 1 - i]
      /\ Diff!Inserted(a, b) = y
  BY ReplacedIs
<1>2. a \in Seq(X) /\ b \in Seq(X) /\ Len(a) \in Nat /\ Len(b) \in Nat
  OBVIOUS
<1> HIDE DEF st, en, X
<1>3. x = SubSeq(a, 1, st) /\ z = SubSeq(a, Len(a) + 1 - en, Len(a))
  <2>1. 0 + 1 = 1 /\ Len(a) - (Len(a) - st) = st /\ (Len(a) - en) + 1 = Len(a) + 1 - en /\ Len(a) - 0 = Len(a)
    BY <1>1, <1>2
  <2> QED
    BY <2>1
<1>4. x \in Seq(X) /\ Len(x) = st /\ \A i \in 1..st : x[i] = a[i]
  <2> DEFINE e == Len(a) - st
  <2>1. e \in Nat /\ 0 \in Nat /\ 0 + e <= Len(a) /\ Len(a) - e - 0 = st
    BY <1>1, <1>2
  <2> HIDE DEF e
  <2>2. /\ SubSeq(a, 0 + 1, Len(a) - e) \in Seq(X) /\ Len(SubSeq(a, 0 + 1, Len(a) - e)) = Len(a) - e - 0
        /\ \A i \in 1..(Len(a) - e - 0) : SubSeq(a, 0 + 1, Len(a) - e)[i] = a[0 + i]
    BY <1>2, <2>1, MiddleIs
  <2>3. \A i \in 1..st : 0 + i = i
    BY <1>1
  <2> QED
    BY <2>1, <2>2, <2>3 DEF e
<1>5. y \in Seq(X) /\ Len(y) = Len(b) - en - st /\ \A i \in 1..(Len(b) - en - st) : y[i] = b[st + i]
  BY <1>1, <1>2, MiddleIs
<1>6. z \in Seq(X) /\ Len(z) = en /\ \A i \in 1..en : z[i] = b[(Len(b) - en) + i]
  <2> DEFINE s == Len(a) - en
  <2>1. s \in Nat /\ 0 \in Nat /\ s + 0 <= Len(a) /\ Len(a) - 0 - s = en
    BY <1>1, <1>2
  <2> HIDE DEF s
  <2>2. /\ SubSeq(a, s + 1, Len(a) - 0) \in Seq(X) /\ Len(SubSeq(a, s + 1, Len(a) - 0)) = Len(a) - 0 - s
        /\ \A i \in 1..(Len(a) - 0 - s) : SubSeq(a, s + 1, Len(a) - 0)[i] = a[s + i]
    BY <1>2, <2>1, MiddleIs
  <2>3. ASSUME NEW i \in 1..en PROVE a[s + i] = b[(Len(b) - en) + i]
    <3> DEFINE j == en + 1 - i
    <3>1. j \in 1..en /\ Len(a) + 1 - j = s + i /\ Len(b) + 1 - j = (Len(b) - en) + i
      BY <1>1, <1>2 DEF s
    <3> HIDE DEF j
    <3> QED
      BY <1>1, <3>1
  <2> QED
    BY <2>1, <2>2, <2>3 DEF s
<1> HIDE DEF x, y, z
<1> DEFINE xy == x \o y
           xyz == xy \o z
<1>7. xy \in Seq(X) /\ Len(xy) = Len(b) - en /\ \A i \in 1..(Len(b) - en) : xy[i] = b[i]
  <2>1. /\ xy \in Seq(X) /\ Len(xy) = Len(x) + Len(y)
        /\ \A i \in 1..(Len(x) + Len(y)) : xy[i] = IF i <= Len(x) THEN x[i] ELSE y[i - Len(x)]
    BY <1>4, <1>5, ConcatProperties
  <2>2. Len(x) + Len(y) = Len(b) - en
    BY <1>1, <1>2, <1>4, <1>5
  <2> HIDE DEF xy
  <2>3. ASSUME NEW i \in 1..(Len(b) - en) PROVE xy[i] = b[i]
    <3>1. xy[i] = IF i <= st THEN x[i] ELSE y[i - st]
      BY <1>4, <2>1, <2>2
    <3>2. CASE i <= st
      <4>1. i \in 1..st
        BY <1>1, <1>2, <3>2
      <4> QED
        BY <1>1, <1>4, <3>1, <3>2, <4>1
    <3>3. CASE ~(i <= st)
      <4>1. i - st \in 1..(Len(b) - en - st) /\ st + (i - st) = i
        BY <1>1, <1>2, <3>3
      <4> QED
        BY <1>5, <3>1, <3>3, <4>1
    <3> QED
      BY <3>2, <3>3
  <2> QED
    BY <2>1, <2>2, <2>3
<1> HIDE DEF xy
<1>8. xyz \in Seq(X) /\ Len(xyz) = Len(b) /\ \A i \in 1..Len(b) : xyz[i] = b[i]
  <2>1. /\ xyz \in Seq(X) /\ Len(xyz) = Len(xy) + Len(z)
        /\ \A i \in 1..(Len(xy) + Len(z)) : xyz[i] = IF i <= Len(xy) THEN xy[i] ELSE z[i - Len(xy)]
    BY <1>6, <1>7, ConcatProperties
  <2>2. Len(xy) + Len(z) = Len(b)
    BY <1>1, <1>2, <1>6, <1>7
  <2> HIDE DEF xyz
  <2>3. ASSUME NEW i \in 1..Len(b) PROVE xyz[i] = b[i]
    <3>1. xyz[i] = IF i <= Len(b) - en THEN xy[i] ELSE z[i - (Len(b) - en)]
      BY <1>7, <2>1, <2>2
    <3>2. CASE i <= Len(b) - en
      <4>1. i \in 1..(Len(b) - en)
        BY <1>1, <1>2, <3>2
      <4> QED
        BY <1>7, <3>1, <3>2, <4>1
    <3>3. CASE ~(i <= Len(b) - en)
      <4>1. i - (Len(b) - en) \in 1..en /\ (Len(b) - en) + (i - (Len(b) - en)) = i
        BY <1>1, <1>2, <3>3
      <4> QED
        BY <1>6, <3>1, <3>3, <4>1
    <3> QED
      BY <3>2, <3>3
  <2> QED
    BY <2>1, <2>2, <2>3
<1>9. xyz = b
  <2> HIDE DEF xyz
  <2> QED
    BY <1>2, <1>8
<1>10. SubSeq(a, 1, st) \o Diff!Inserted(a, b) \o SubSeq(a, Len(a) + 1 - en, Len(a)) = xyz
  BY <1>1, <1>3 DEF xy
<1> QED
  BY <1>9, <1>10 DEF st, en

-----------------------------------------------------------------------------
DiffInv ==
  /\ current \in Seq(Diff!Units) /\ target \in Seq(Diff!Units)
  /\ Diff!WellFormed(current) /\ Diff!WellFormed(target)

LEMMA DiffStart ==
  Diff!Init \/ (current = <<>> /\ target = <<>>) => DiffInv
<1>1. Diff!Init => DiffInv
  <2> SUFFICES ASSUME Diff!Init PROVE DiffInv
    OBVIOUS
  <2>1. \A n \in 0..MaxLength : \A s \in [1..n -> Diff!Units] : n \in Nat /\ s \in Seq(Diff!Units)
    OBVIOUS
  <2>2. \A s \in Diff!AllTexts : s \in Seq(Diff!Units) /\ Diff!WellFormed(s)
    BY <2>1 DEF Diff!AllTexts
  <2> QED
    BY <2>2 DEF Diff!Init, DiffInv
<1>2. current = <<>> /\ target = <<>> => DiffInv
  BY DEF DiffInv, Diff!WellFormed
<1> QED
  BY <1>1, <1>2

LEMMA DiffStep ==
  ASSUME HalvesDiffer, DiffInv, Diff!Next \/ UNCHANGED diffVars
  PROVE  DiffInv' /\ (current' = target \/ UNCHANGED diffVars)
<1>1. CASE Diff!Next
  <2>1. current' = target /\ target' = target
    BY <1>1, ReplacedReads DEF Diff!Next, Diff!Replace, DiffInv
  <2> QED
    BY <2>1 DEF DiffInv
<1>2. CASE UNCHANGED diffVars
  BY <1>2 DEF diffVars, DiffInv
<1> QED
  BY <1>1, <1>2

LEMMA DiffHolds == DiffInv /\ HalvesDiffer => NoPairSplit
<1> SUFFICES ASSUME DiffInv, HalvesDiffer PROVE NoPairSplit
  OBVIOUS
<1>1. Diff!WellFormed(Diff!Deleted(current, target)) /\ Diff!WellFormed(Diff!Inserted(current, target))
  BY NothingSplit DEF DiffInv
<1>2. ASSUME NEW n \in 1..Diff!Least(Len(Diff!Deleted(current, target)), Len(Diff!Inserted(current, target)))
      PROVE  /\ SubSeq(Diff!Deleted(current, target), 1, n) = SubSeq(Diff!Inserted(current, target), 1, n) =>
                  ~Diff!WellFormed(SubSeq(Diff!Deleted(current, target), 1, n))
             /\ SubSeq(Diff!Deleted(current, target), Len(Diff!Deleted(current, target)) + 1 - n,
                       Len(Diff!Deleted(current, target)))
                  = SubSeq(Diff!Inserted(current, target), Len(Diff!Inserted(current, target)) + 1 - n,
                           Len(Diff!Inserted(current, target))) =>
                ~Diff!WellFormed(SubSeq(Diff!Deleted(current, target), Len(Diff!Deleted(current, target)) + 1 - n,
                                        Len(Diff!Deleted(current, target))))
  BY NothingMore DEF DiffInv
<1> QED
  BY Zenon, <1>1, <1>2 DEF NoPairSplit, Diff!NoPairSplit

-----------------------------------------------------------------------------
(* The edits the assistant proposes (SuggestedEdits).  First what is needed  *)
(* of numbers and sequences.                                                 *)

\* A set of numbers that is not empty has a least one.
LEMMA LeastNumber ==
  ASSUME NEW T \in SUBSET Nat, T # {}
  PROVE  \E n \in T : \A k \in Nat : k < n => k \notin T
<1>1. PICK m \in T : TRUE
  OBVIOUS
<1>2. m \in Nat
  OBVIOUS
<1> DEFINE I == {n \in T : n <= m}
<1>3. I \in SUBSET (0..m) /\ I # {} /\ I \in SUBSET Nat
  <2>1. \A n \in I : n \in Nat /\ n <= m
    OBVIOUS
  <2>2. m \in I
    BY <1>2
  <2> HIDE DEF I
  <2> QED
    BY <1>2, <2>1, <2>2
<1>4. IsFiniteSet(I)
  <2> HIDE DEF I
  <2>1. IsFiniteSet(0..m)
    BY <1>2, FS_Interval
  <2> QED
    BY <1>3, <2>1, FS_Subset
<1>5. PICK n \in I : \A j \in I : n <= j
  <2> HIDE DEF I
  <2> QED
    BY <1>3, <1>4, LeastGreatest
<1>6. n \in T /\ n \in Nat /\ n <= m
  BY <1>3
<1>7. \A k \in Nat : k < n => k \notin T
  <2> TAKE k \in Nat
  <2> HAVE k < n
  <2> SUFFICES ASSUME k \in T PROVE FALSE
    OBVIOUS
  <2>1. k \in I
    BY <1>2, <1>6
  <2> QED
    BY <1>5, <1>6, <2>1
<1> QED
  BY <1>6, <1>7

\* All positions of a sequence, selected, are the sequence.
LEMMA SelectAll ==
  ASSUME NEW X, NEW s \in Seq(X)
  PROVE  Select(s, DOMAIN s) = s
<1> DEFINE n == Len(s)
           I == 1..n
<1>1. n \in Nat /\ DOMAIN s = I
  OBVIOUS
<1>2. IsFiniteSet(I) /\ Cardinality(I) = n /\ I \in SUBSET Nat
  BY <1>1, FS_Interval
<1>3. \A i \in I : RankIn(I, i) = i
  <2> TAKE i \in I
  <2>1. {j \in I : j <= i} = 1..i /\ i \in Nat
    BY <1>1
  <2>2. Cardinality(1..i) = i
    BY <2>1, FS_Interval
  <2> QED
    BY <2>1, <2>2 DEF RankIn
<1>4. \A k \in 1..n : Nth(I, k) = k
  <2> TAKE k \in 1..n
  <2> HIDE DEF I
  <2>1. Nth(I, k) \in I /\ RankIn(I, Nth(I, k)) = k
    BY <1>2, NthIs
  <2> QED
    BY <1>3, <2>1
<1>5. Select(s, I) = [k \in 1..n |-> s[k]]
  <2> HIDE DEF I
  <2> QED
    BY <1>2, <1>4 DEF Select
<1> QED
  BY <1>1, <1>5

\* A sequence put together from three can be taken apart again.
LEMMA Spliced ==
  ASSUME NEW x \in Seq(Lines), NEW y \in Seq(Lines), NEW z \in Seq(Lines), NEW t, t = x \o y \o z
  PROVE  /\ t \in Seq(Lines) /\ Len(t) = Len(x) + Len(y) + Len(z)
         /\ SubSeq(t, 1, Len(x)) = x
         /\ SubSeq(t, Len(x) + 1, Len(x) + Len(y)) = y
         /\ SubSeq(t, Len(x) + Len(y) + 1, Len(t)) = z
<1>1. t \in Seq(Lines) /\ Len(t) = Len(x) + Len(y) + Len(z) /\ Len(x) \in Nat /\ Len(y) \in Nat /\ Len(z) \in Nat
  OBVIOUS
<1>2. SubSeq(t, 1, Len(x)) = x
  <2> DEFINE u == SubSeq(t, 1, Len(x))
  <2>1. u \in Seq(Lines) /\ Len(u) = Len(x) /\ \A i \in 1..Len(x) : u[i] = t[i]
    BY <1>1
  <2>2. \A i \in 1..Len(x) : t[i] = x[i]
    OBVIOUS
  <2> HIDE DEF u
  <2> QED
    BY <2>1, <2>2, SeqEqual DEF u
<1>3. SubSeq(t, Len(x) + 1, Len(x) + Len(y)) = y
  <2> DEFINE u == SubSeq(t, Len(x) + 1, Len(x) + Len(y))
  <2>1. u \in Seq(Lines) /\ Len(u) = Len(y) /\ \A i \in 1..Len(y) : u[i] = t[Len(x) + i]
    BY <1>1
  <2>2. \A i \in 1..Len(y) : t[Len(x) + i] = y[i]
    BY <1>1
  <2> HIDE DEF u
  <2> QED
    BY <2>1, <2>2, SeqEqual DEF u
<1>4. SubSeq(t, Len(x) + Len(y) + 1, Len(t)) = z
  <2> DEFINE m == Len(x) + Len(y)
             u == SubSeq(t, m + 1, Len(t))
  <2>1. \A i \in 1..Len(z) : t[m + i] = z[i]
    BY <1>1
  <2>2. m \in Nat /\ Len(t) = m + Len(z)
    BY <1>1
  <2> HIDE DEF m
  <2>3. u \in Seq(Lines) /\ Len(u) = Len(z) /\ \A i \in 1..Len(z) : u[i] = t[m + i]
    BY <1>1, <2>2
  <2>4. u = z
    <3> HIDE DEF u
    <3> QED
      BY <2>1, <2>3, SeqEqual
  <2> HIDE DEF u
  <2> QED
    BY <2>4 DEF u, m
<1> QED
  BY <1>1, <1>2, <1>3, <1>4

\* Counting from m to n inside a set that holds the next number of each.
LEMMA CountUp ==
  ASSUME NEW T, NEW m \in Nat, NEW n \in Nat, m \in T,
         \A i \in Nat : m <= i /\ i < n /\ i \in T => i + 1 \in T
  PROVE  \A i \in m..n : i \in T
<1> DEFINE Out == {i \in m..n : i \notin T}
<1>1. Out \in SUBSET Nat
  OBVIOUS
<1>2. Out = {}
  <2> SUFFICES ASSUME Out # {} PROVE FALSE
    OBVIOUS
  <2>1. PICK i \in Out : \A k \in Nat : k < i => k \notin Out
    <3> HIDE DEF Out
    <3> QED
      BY <1>1, LeastNumber
  <2>2. i \in Nat /\ m <= i /\ i <= n /\ i \notin T
    OBVIOUS
  <2>3. i - 1 \in Nat /\ m <= i - 1 /\ i - 1 < n /\ (i - 1) + 1 = i /\ i - 1 \in m..n
    BY <2>2
  <2>4. i - 1 \in T
    BY <2>1, <2>3
  <2> QED
    BY <2>2, <2>3, <2>4
<1> QED
  BY <1>2

\* A function whose value at a place is told by the one at a place of lower
\* rank.
Walk(D, V, stop, first, step, next, f) ==
  f \in [D -> V] /\ \A c \in D : f[c] = IF c \in stop THEN first[c] ELSE step[c][f[next[c]]]
Descends(D, V, stop, first, step, next, rank, bound) ==
  /\ stop \in SUBSET D /\ first \in [D -> V] /\ step \in [D -> [V -> V]]
  /\ next \in [D -> D] /\ rank \in [D -> Nat] /\ bound \in Nat
  /\ \A c \in D : rank[c] < bound
  /\ \A c \in D \ stop : rank[next[c]] < rank[c]

LEMMA WalkThere ==
  ASSUME NEW D, NEW V, NEW stop, NEW first, NEW step, NEW next, NEW rank, NEW bound,
         Descends(D, V, stop, first, step, next, rank, bound)
  PROVE  \E f : Walk(D, V, stop, first, step, next, f)
<1>0. /\ stop \in SUBSET D /\ first \in [D -> V] /\ step \in [D -> [V -> V]]
      /\ next \in [D -> D] /\ rank \in [D -> Nat] /\ bound \in Nat
      /\ \A c \in D : rank[c] < bound
      /\ \A c \in D \ stop : rank[next[c]] < rank[c]
  BY DEF Descends
<1> DEFINE Body(f, c) == IF c \in stop THEN first[c] ELSE step[c][f[next[c]]]
           T == {r \in Nat : \E f \in [D -> V] : \A c \in D : rank[c] < r => f[c] = Body(f, c)}
<1>1. 0 \in T
  <2>1. \A c \in D : ~(rank[c] < 0)
    BY <1>0
  <2> QED
    BY <1>0, <2>1
<1>2. ASSUME NEW r \in Nat, r \in T PROVE r + 1 \in T
  <2>1. PICK f \in [D -> V] : \A c \in D : rank[c] < r => f[c] = Body(f, c)
    BY <1>2
  <2> DEFINE h == [c \in D |-> Body(f, c)]
  <2>2. h \in [D -> V]
    <3>1. \A c \in D : Body(f, c) \in V
      BY <1>0
    <3> QED
      BY <3>1
  <2>3. \A c \in D : rank[c] < r => h[c] = f[c]
    BY <2>1
  <2>4. ASSUME NEW c \in D, rank[c] < r + 1 PROVE h[c] = Body(h, c)
    <3>1. CASE c \in stop
      BY <3>1
    <3>2. CASE c \notin stop
      <4>1. rank[next[c]] < rank[c] /\ next[c] \in D
        BY <1>0, <3>2
      <4>2. rank[next[c]] < r
        <5>1. rank[c] \in Nat /\ rank[next[c]] \in Nat
          BY <1>0, <4>1
        <5> QED
          BY <2>4, <4>1, <5>1
      <4>3. h[next[c]] = f[next[c]]
        BY <2>3, <4>1, <4>2
      <4>4. h[c] = Body(f, c)
        OBVIOUS
      <4> HIDE DEF h
      <4> QED
        BY <4>3, <4>4
    <3> QED
      BY <3>1, <3>2
  <2> HIDE DEF h, Body
  <2> QED
    BY <2>2, <2>4
<1>3. bound \in T
  <2> HIDE DEF T
  <2>1. \A i \in Nat : 0 <= i /\ i < bound /\ i \in T => i + 1 \in T
    BY <1>2
  <2>2. \A i \in 0..bound : i \in T
    BY <1>0, <1>1, <2>1, CountUp
  <2> QED
    BY <1>0, <2>2
<1>4. PICK f \in [D -> V] : \A c \in D : rank[c] < bound => f[c] = Body(f, c)
  BY <1>3
<1> QED
  BY <1>0, <1>4 DEF Walk

\* What the lines of `a` become when the edits `S` replace some of them, up to
\* the n-th line: FlattenSeq, one piece after the other.
PieceAt(a, S, n) == Edits!LineAt(a, S, n) \o Edits!AddedAt(S, n)
Grown(a, S, g) ==
  /\ g \in [0..Len(a) -> Seq(Lines)] /\ g[0] = PieceAt(a, S, 0)
  /\ \A n \in 1..Len(a) : g[n] = g[n - 1] \o PieceAt(a, S, n)

WithLines(S) == \A e \in S : e.replacement \in Seq(Lines)

JoinedUp(seqs, n, h) == h = [i \in 1..n |-> IF i = 1 THEN seqs[i] ELSE h[i - 1] \o seqs[i]]

LEMMA FlattenIs ==
  ASSUME NEW seqs, NEW n \in Nat \ {0}, Len(seqs) = n, NEW h, JoinedUp(seqs, n, h)
  PROVE  Edits!FlattenSeq(seqs) = h[n]
<1> DEFINE Flattens(f) == f = [i \in 1..n |-> IF i = 1 THEN seqs[i] ELSE f[i - 1] \o seqs[i]]
           f == CHOOSE x : Flattens(x)
<1>1. Edits!FlattenSeq(seqs) = f[n]
  BY DEF Edits!FlattenSeq
<1>2. Flattens(h)
  BY DEF JoinedUp
<1>3. Flattens(f)
  <2> HIDE DEF Flattens
  <2> QED
    BY <1>2
<1>4. /\ \A i \in 1..n : f[i] = IF i = 1 THEN seqs[i] ELSE f[i - 1] \o seqs[i]
      /\ \A i \in 1..n : h[i] = IF i = 1 THEN seqs[i] ELSE h[i - 1] \o seqs[i]
  <2> HIDE DEF f
  <2> QED
    BY <1>2, <1>3
<1> HIDE DEF f, Flattens
<1> DEFINE T == {i \in 1..n : f[i] = h[i]}
<1>5. 1 \in T
  BY <1>4
<1>6. ASSUME NEW i \in Nat, 1 <= i, i < n, i \in T PROVE i + 1 \in T
  <2>1. i + 1 \in 1..n /\ i + 1 # 1 /\ (i + 1) - 1 = i /\ f[i] = h[i]
    BY <1>6
  <2>2. f[i + 1] = f[(i + 1) - 1] \o seqs[i + 1] /\ h[i + 1] = h[(i + 1) - 1] \o seqs[i + 1]
    BY <1>4, <2>1
  <2>3. f[i + 1] = h[i + 1]
    BY <2>1, <2>2
  <2> QED
    BY <2>1, <2>3
<1>7. n \in T
  <2> HIDE DEF T
  <2>1. \A i \in Nat : 1 <= i /\ i < n /\ i \in T => i + 1 \in T
    BY <1>6
  <2>2. \A i \in 1..n : i \in T
    BY <1>5, <2>1, CountUp
  <2> QED
    BY <2>2
<1>8. f[n] = h[n]
  BY <1>7
<1> QED
  BY <1>1, <1>8

LEMMA PieceTyped ==
  ASSUME NEW a \in Seq(Lines), NEW S, WithLines(S), NEW n \in 0..Len(a)
  PROVE  PieceAt(a, S, n) \in Seq(Lines)
<1>1. Edits!LineAt(a, S, n) \in Seq(Lines)
  <2>1. n # 0 => a[n] \in Lines
    OBVIOUS
  <2>2. \A x \in Lines : <<x>> \in Seq(Lines)
    OBVIOUS
  <2>3. <<>> \in Seq(Lines)
    OBVIOUS
  <2> QED
    BY <2>1, <2>2, <2>3 DEF Edits!LineAt
<1>2. Edits!AddedAt(S, n) \in Seq(Lines)
  <2>1. <<>> \in Seq(Lines)
    OBVIOUS
  <2>2. ASSUME \E e \in S : e.from = n PROVE (CHOOSE e \in S : e.from = n).replacement \in Seq(Lines)
    BY <2>2 DEF WithLines
  <2> QED
    BY <2>1, <2>2 DEF Edits!AddedAt
<1> QED
  BY <1>1, <1>2, ConcatProperties DEF PieceAt

LEMMA GrownThere ==
  ASSUME NEW a \in Seq(Lines), NEW S, WithLines(S)
  PROVE  \E g : Grown(a, S, g)
<1> DEFINE N == Len(a)
           D == 0..N
           V == Seq(Lines)
           rank == [n \in D |-> n]
           next == [n \in D |-> IF n = 0 THEN 0 ELSE n - 1]
           first == [n \in D |-> PieceAt(a, S, n)]
           step == [n \in D |-> [x \in V |-> x \o PieceAt(a, S, n)]]
<1>1. N \in Nat
  OBVIOUS
<1>2. rank \in [D -> Nat] /\ next \in [D -> D] /\ {0} \in SUBSET D
  BY <1>1
<1>3. first \in [D -> V]
  BY PieceTyped
<1>4. step \in [D -> [V -> V]]
  BY PieceTyped, ConcatProperties
<1>5. /\ N + 1 \in Nat
      /\ \A n \in D : rank[n] < N + 1
      /\ \A n \in D \ {0} : rank[next[n]] < rank[n]
  BY <1>1
<1>6. Descends(D, V, {0}, first, step, next, rank, N + 1)
  <2> HIDE DEF D, V, rank, next, first, step
  <2> QED
    BY <1>2, <1>3, <1>4, <1>5 DEF Descends
<1>7. PICK g : Walk(D, V, {0}, first, step, next, g)
  <2> HIDE DEF D, V, rank, next, first, step
  <2> QED
    BY <1>6, WalkThere
<1>a. g \in [D -> V] /\ \A n \in D : g[n] = IF n \in {0} THEN first[n] ELSE step[n][g[next[n]]]
  BY <1>7 DEF Walk
<1>8. g[0] = PieceAt(a, S, 0)
  <2>1. 0 \in D /\ first[0] = PieceAt(a, S, 0)
    BY <1>1
  <2> HIDE DEF D, first, step, next
  <2> QED
    BY <1>a, <2>1
<1>9. ASSUME NEW n \in 1..N PROVE g[n] = g[n - 1] \o PieceAt(a, S, n)
  <2>1. n \in D /\ n - 1 \in D /\ n \notin {0} /\ next[n] = n - 1
    BY <1>1
  <2>2. g[n - 1] \in V
    BY <1>a, <2>1
  <2>3. g[n] = step[n][g[n - 1]]
    BY <1>a, <2>1
  <2> QED
    BY <2>1, <2>2, <2>3
<1> QED
  BY <1>8, <1>9, <1>a DEF Grown

LEMMA ReplacedGrows ==
  ASSUME NEW a \in Seq(Lines), NEW S, NEW g, Grown(a, S, g)
  PROVE  Edits!Replaced(a, S) = g[Len(a)] /\ g[Len(a)] \in Seq(Lines)
<1> DEFINE N == Len(a)
           M == N + 1
           seqs == [n \in 1..M |-> Edits!LineAt(a, S, n - 1) \o Edits!AddedAt(S, n - 1)]
           h == [i \in 1..M |-> g[i - 1]]
<1>1. N \in Nat /\ M \in Nat \ {0}
  OBVIOUS
<1>2. Len(seqs) = M
  BY <1>1
<1>3. ASSUME NEW i \in 1..M PROVE g[i - 1] = IF i = 1 THEN seqs[i] ELSE h[i - 1] \o seqs[i]
  <2>1. seqs[i] = PieceAt(a, S, i - 1)
    BY DEF PieceAt
  <2>2. CASE i = 1
    <3>1. seqs[1] = PieceAt(a, S, 0) /\ i - 1 = 0
      BY <2>1, <2>2
    <3> QED
      BY <2>2, <3>1 DEF Grown
  <2>3. CASE i # 1
    <3>1. i - 1 \in 1..N /\ i - 1 \in 1..M
      BY <1>1, <2>3
    <3>2. h[i - 1] = g[(i - 1) - 1]
      BY <3>1
    <3>3. g[i - 1] = g[(i - 1) - 1] \o PieceAt(a, S, i - 1)
      BY <3>1 DEF Grown
    <3> HIDE DEF h, seqs
    <3> QED
      BY <2>1, <2>3, <3>2, <3>3
  <2> QED
    BY <2>2, <2>3
<1>4. JoinedUp(seqs, M, h)
  BY <1>3 DEF JoinedUp
<1>5. h[M] = g[N] /\ g[N] \in Seq(Lines)
  BY <1>1 DEF Grown
<1>6. Edits!FlattenSeq(seqs) = h[M]
  <2> HIDE DEF h, seqs, M
  <2> QED
    BY <1>1, <1>2, <1>4, FlattenIs
<1>7. Edits!Replaced(a, S) = Edits!FlattenSeq(seqs)
  BY DEF Edits!Replaced
<1> QED
  BY <1>5, <1>6, <1>7

LEMMA JoinAgain ==
  ASSUME NEW x \in Seq(Lines), NEW y \in Seq(Lines), NEW z \in Seq(Lines)
  PROVE  (x \o y) \o z = x \o (y \o z)
BY ConcatAssociative

LEMMA LinesJoin ==
  ASSUME NEW x \in Seq(Lines), NEW y \in Seq(Lines)
  PROVE  x \o y \in Seq(Lines) /\ x \o <<>> = x /\ <<>> \o x = x /\ Len(x \o y) = Len(x) + Len(y)
OBVIOUS

\* Edits of the text `a`, of which no two touch.
EditsOf(a) ==
  {e \in [from : Nat, to : Nat, original : Seq(Lines), replacement : Seq(Lines), id : Nat] :
     e.from <= e.to /\ e.to <= Len(a) /\ e.original = SubSeq(a, e.from + 1, e.to) /\ e.id = e.from}
FarApart(S) == \A x, y \in S : x = y \/ x.to < y.from \/ y.to < x.from
Touches(e, n) == e.from <= n /\ n <= e.to
\* Of the lines m + 1 to n: both make the same of them, keep them, drop them;
\* and the text at n as that at m with the same behind.
MadeSame(a, S, U, m, n) == \A i \in (m + 1)..n : PieceAt(a, S, i) = PieceAt(a, U, i)
Kept(a, S, m, n)    == \A i \in (m + 1)..n : PieceAt(a, S, i) = <<a[i]>>
Dropped(a, S, m, n) == \A i \in (m + 1)..n : PieceAt(a, S, i) = <<>>
GrowSame(g, h, m, n) == \E r \in Seq(Lines) : g[n] = g[m] \o r /\ h[n] = h[m] \o r
GrowKeeping(a, g, m, n) == g[n] = g[m] \o SubSeq(a, m + 1, n)
Splits(a, e, g, h) ==
  \E r \in Seq(Lines) : /\ g[Len(a)] = g[e.from] \o e.original \o r
                        /\ h[Len(a)] = g[e.from] \o e.replacement \o r
AllBelow(S, n) == \A x \in S : x.from \in Nat /\ x.from > n
AgreeTo(S, U, n) == \A x \in S \cup U : x.from <= n => (x \in S <=> x \in U)

LEMMA EditIs ==
  ASSUME NEW a \in Seq(Lines), NEW e \in EditsOf(a)
  PROVE  /\ e.from \in Nat /\ e.to \in Nat /\ e.from <= e.to /\ e.to <= Len(a) /\ Len(a) \in Nat
         /\ e.original \in Seq(Lines) /\ e.replacement \in Seq(Lines) /\ e.id = e.from
         /\ e.original = SubSeq(a, e.from + 1, e.to) /\ Len(e.original) = e.to - e.from
         /\ \A n \in (e.from + 1)..e.to : n \in 1..Len(a)
<1>1. /\ e.from \in Nat /\ e.to \in Nat /\ e.from <= e.to /\ e.to <= Len(a) /\ Len(a) \in Nat
      /\ e.original \in Seq(Lines) /\ e.replacement \in Seq(Lines) /\ e.id = e.from
      /\ e.original = SubSeq(a, e.from + 1, e.to)
  BY DEF EditsOf
<1>2. Len(SubSeq(a, e.from + 1, e.to)) = e.to - e.from
  BY <1>1
<1> QED
  BY <1>1, <1>2

LEMMA EditsHaveLines ==
  ASSUME NEW a \in Seq(Lines), NEW S \in SUBSET EditsOf(a)
  PROVE  WithLines(S)
BY EditIs DEF WithLines

LEMMA AddedIs ==
  ASSUME NEW a \in Seq(Lines), NEW S \in SUBSET EditsOf(a), FarApart(S), NEW e \in S
  PROVE  Edits!AddedAt(S, e.from) = e.replacement
<1>1. ASSUME NEW x \in S, x.from = e.from PROVE x = e
  <2>1. x \in EditsOf(a) /\ e \in EditsOf(a)
    OBVIOUS
  <2>2. x.from \in Nat /\ x.to \in Nat /\ e.to \in Nat /\ x.from <= x.to /\ e.from <= e.to
    BY <2>1, EditIs
  <2> QED
    BY <1>1, <2>2 DEF FarApart
<1>2. (CHOOSE x \in S : x.from = e.from) = e
  BY <1>1
<1> QED
  BY <1>2 DEF Edits!AddedAt

LEMMA NoneAdded ==
  ASSUME NEW S, NEW n, \A x \in S : x.from # n
  PROVE  Edits!AddedAt(S, n) = <<>>
BY DEF Edits!AddedAt

\* Where the same edits touch, the same becomes of the line.
LEMMA PieceSame ==
  ASSUME NEW a \in Seq(Lines), NEW S \in SUBSET EditsOf(a), NEW U \in SUBSET EditsOf(a), FarApart(S), FarApart(U),
         NEW n \in 0..Len(a), \A x \in S \cup U : Touches(x, n) => (x \in S <=> x \in U)
  PROVE  PieceAt(a, S, n) = PieceAt(a, U, n)
<1>1. \A x \in S \cup U : x.from \in Nat /\ x.to \in Nat /\ x.from <= x.to
  BY EditIs
<1>2. Edits!LineAt(a, S, n) = Edits!LineAt(a, U, n)
  <2>1. (\E e \in S : e.from < n /\ n <= e.to) <=> (\E e \in U : e.from < n /\ n <= e.to)
    BY <1>1 DEF Touches
  <2> QED
    BY <2>1 DEF Edits!LineAt
<1>3. Edits!AddedAt(S, n) = Edits!AddedAt(U, n)
  <2>1. CASE \E e \in S : e.from = n
    <3>1. PICK e \in S : e.from = n
      BY <2>1
    <3>2. e \in U
      BY <1>1, <3>1 DEF Touches
    <3> QED
      BY <3>1, <3>2, AddedIs
  <2>2. CASE ~ \E e \in S : e.from = n
    <3>1. \A e \in U : e.from # n
      BY <1>1, <2>2 DEF Touches
    <3> QED
      BY <2>2, <3>1, NoneAdded
  <2> QED
    BY <2>1, <2>2
<1> QED
  BY <1>2, <1>3 DEF PieceAt

LEMMA GrownIs ==
  ASSUME NEW a \in Seq(Lines), NEW S, NEW g, Grown(a, S, g), NEW i \in Nat, i < Len(a)
  PROVE  g[i] \in Seq(Lines) /\ g[i + 1] = g[i] \o PieceAt(a, S, i + 1)
<1>1. i \in 0..Len(a) /\ i + 1 \in 1..Len(a) /\ (i + 1) - 1 = i
  OBVIOUS
<1> QED
  BY <1>1 DEF Grown

LEMMA GrownTyped ==
  ASSUME NEW a \in Seq(Lines), NEW S, NEW g, Grown(a, S, g), NEW n \in Nat, n <= Len(a)
  PROVE  g[n] \in Seq(Lines) /\ n \in 0..Len(a)
<1>1. n \in 0..Len(a)
  OBVIOUS
<1> QED
  BY <1>1 DEF Grown

\* Two texts that grow alike have the same end.
LEMMA GrowAlike ==
  ASSUME NEW a \in Seq(Lines), NEW S, NEW U, WithLines(S), NEW g, NEW h, Grown(a, S, g), Grown(a, U, h),
         NEW m \in Nat, NEW n \in Nat, m <= n, n <= Len(a),
         MadeSame(a, S, U, m, n)
  PROVE  GrowSame(g, h, m, n)
<1> DEFINE T == {i \in m..n : \E r \in Seq(Lines) : g[i] = g[m] \o r /\ h[i] = h[m] \o r}
<1>0. g[m] \in Seq(Lines) /\ h[m] \in Seq(Lines) /\ Len(a) \in Nat /\ m \in m..n /\ n \in m..n
  <2>1. Len(a) \in Nat
    OBVIOUS
  <2>2. m <= Len(a)
    BY <2>1
  <2> QED
    BY <2>1, <2>2, GrownTyped
<1>1. m \in T
  <2>2. g[m] = g[m] \o <<>> /\ h[m] = h[m] \o <<>> /\ <<>> \in Seq(Lines)
    BY <1>0
  <2> QED
    BY <1>0, <2>2
<1>2. ASSUME NEW i \in Nat, m <= i, i < n, i \in T PROVE i + 1 \in T
  <2>1. PICK r \in Seq(Lines) : g[i] = g[m] \o r /\ h[i] = h[m] \o r
    BY <1>2
  <2>2. i + 1 \in (m + 1)..n /\ i + 1 \in m..n /\ i + 1 \in 0..Len(a) /\ m \in 0..Len(a) /\ i < Len(a)
    BY <1>0, <1>2
  <2> DEFINE p == PieceAt(a, S, i + 1)
  <2>3. p \in Seq(Lines) /\ p = PieceAt(a, U, i + 1)
    BY <2>2, PieceTyped DEF MadeSame
  <2>4. g[i + 1] = g[i] \o p
    BY <2>2, GrownIs
  <2>5. h[i + 1] = h[i] \o p
    <3>1. h[i + 1] = h[i] \o PieceAt(a, U, i + 1)
      BY <2>2, GrownIs
    <3> HIDE DEF p
    <3> QED
      BY <2>3, <3>1
  <2> HIDE DEF p
  <2>6. (g[m] \o r) \o p = g[m] \o (r \o p) /\ (h[m] \o r) \o p = h[m] \o (r \o p) /\ r \o p \in Seq(Lines)
    <3>1. g[m] \in Seq(Lines) /\ h[m] \in Seq(Lines) /\ p \in Seq(Lines)
      BY <1>0, <2>3
    <3>2. r \o p \in Seq(Lines)
      BY <3>1, LinesJoin
    <3>3. (g[m] \o r) \o p = g[m] \o (r \o p)
      BY <3>1, JoinAgain
    <3>4. (h[m] \o r) \o p = h[m] \o (r \o p)
      BY <3>1, JoinAgain
    <3> QED
      BY <3>2, <3>3, <3>4
  <2>7. g[i + 1] = g[m] \o (r \o p) /\ h[i + 1] = h[m] \o (r \o p)
    BY <2>1, <2>4, <2>5, <2>6
  <2> QED
    BY <2>2, <2>6, <2>7
<1>3. \A i \in m..n : i \in T
  <2> HIDE DEF T
  <2>1. \A i \in Nat : m <= i /\ i < n /\ i \in T => i + 1 \in T
    BY <1>2
  <2> QED
    BY <1>1, <2>1, CountUp
<1>4. n \in T
  BY <1>0, <1>3
<1> QED
  BY <1>4 DEF GrowSame

\* Where every line stays as it is, the text grows by these lines.
LEMMA GrowsUnchanged ==
  ASSUME NEW a \in Seq(Lines), NEW S, NEW g, Grown(a, S, g), NEW m \in Nat, NEW n \in Nat, m <= n, n <= Len(a),
         Kept(a, S, m, n)
  PROVE  GrowKeeping(a, g, m, n)
<1> DEFINE T == {i \in m..n : g[i] = g[m] \o SubSeq(a, m + 1, i)}
<1>0. g[m] \in Seq(Lines) /\ Len(a) \in Nat /\ m \in m..n /\ n \in m..n
  <2>1. Len(a) \in Nat
    OBVIOUS
  <2>2. m <= Len(a)
    BY <2>1
  <2> QED
    BY <2>1, <2>2, GrownTyped
<1>1. m \in T
  <2>1. SubSeq(a, m + 1, m) = <<>>
    OBVIOUS
  <2>2. g[m] \o <<>> = g[m]
    BY <1>0
  <2> QED
    BY <1>0, <2>1, <2>2
<1>2. ASSUME NEW i \in Nat, m <= i, i < n, i \in T PROVE i + 1 \in T
  <2>1. g[i] = g[m] \o SubSeq(a, m + 1, i)
    BY <1>2
  <2>2. i + 1 \in (m + 1)..n /\ i + 1 \in m..n /\ i < Len(a) /\ i + 1 \in 1..Len(a)
    BY <1>0, <1>2
  <2>3. g[i + 1] = g[i] \o <<a[i + 1]>>
    <3>1. g[i + 1] = g[i] \o PieceAt(a, S, i + 1)
      BY <2>2, GrownIs
    <3> QED
      BY <2>2, <3>1 DEF Kept
  <2>4. SubSeq(a, m + 1, i + 1) = SubSeq(a, m + 1, i) \o <<a[i + 1]>>
    BY <1>0, <1>2, <2>2
  <2>5. SubSeq(a, m + 1, i) \in Seq(Lines) /\ <<a[i + 1]>> \in Seq(Lines)
    BY <1>0, <1>2, <2>2
  <2>6. (g[m] \o SubSeq(a, m + 1, i)) \o <<a[i + 1]>> = g[m] \o (SubSeq(a, m + 1, i) \o <<a[i + 1]>>)
    <3> DEFINE y == SubSeq(a, m + 1, i)
               z == <<a[i + 1]>>
    <3> HIDE DEF y, z
    <3>1. y \in Seq(Lines) /\ z \in Seq(Lines)
      BY <2>5 DEF y, z
    <3>2. g[m] \in Seq(Lines)
      BY <1>0
    <3>3. (g[m] \o y) \o z = g[m] \o (y \o z)
      BY <3>1, <3>2, JoinAgain
    <3> QED
      BY <3>3 DEF y, z
  <2>7. g[i + 1] = g[m] \o SubSeq(a, m + 1, i + 1)
    BY <2>1, <2>3, <2>4, <2>6
  <2> QED
    BY <2>2, <2>7
<1>3. \A i \in m..n : i \in T
  <2> HIDE DEF T
  <2>1. \A i \in Nat : m <= i /\ i < n /\ i \in T => i + 1 \in T
    BY <1>2
  <2> QED
    BY <1>1, <2>1, CountUp
<1>4. n \in T
  BY <1>0, <1>3
<1> QED
  BY <1>4 DEF GrowKeeping

\* Where every line is replaced, it does not grow.
LEMMA GrowsNot ==
  ASSUME NEW a \in Seq(Lines), NEW S, NEW g, Grown(a, S, g), NEW m \in Nat, NEW n \in Nat, m <= n, n <= Len(a),
         Dropped(a, S, m, n)
  PROVE  g[n] = g[m]
<1> DEFINE T == {i \in m..n : g[i] = g[m]}
<1>0. g[m] \in Seq(Lines) /\ Len(a) \in Nat /\ m \in m..n /\ n \in m..n
  <2>1. Len(a) \in Nat
    OBVIOUS
  <2>2. m <= Len(a)
    BY <2>1
  <2> QED
    BY <2>1, <2>2, GrownTyped
<1>1. m \in T
  OBVIOUS
<1>2. ASSUME NEW i \in Nat, m <= i, i < n, i \in T PROVE i + 1 \in T
  <2>1. g[i] = g[m]
    BY <1>2
  <2>2. i + 1 \in (m + 1)..n /\ i + 1 \in m..n /\ i < Len(a)
    BY <1>0, <1>2
  <2>3. g[i + 1] = g[i] \o <<>>
    BY <2>2, GrownIs DEF Dropped
  <2>4. g[i + 1] = g[m]
    BY <1>0, <2>1, <2>3
  <2> QED
    BY <2>2, <2>4
<1>3. \A i \in m..n : i \in T
  <2> HIDE DEF T
  <2>1. \A i \in Nat : m <= i /\ i < n /\ i \in T => i + 1 \in T
    BY <1>2
  <2> QED
    BY <1>1, <2>1, CountUp
<1>4. n \in T
  BY <1>3
<1> QED
  BY <1>4

\* Up to the line n only the edits that begin there or above matter.
LEMMA GrownSame ==
  ASSUME NEW a \in Seq(Lines), NEW S \in SUBSET EditsOf(a), NEW U \in SUBSET EditsOf(a), FarApart(S), FarApart(U),
         NEW g, NEW h, Grown(a, S, g), Grown(a, U, h), NEW n \in Nat, n <= Len(a),
         AgreeTo(S, U, n)
  PROVE  g[n] = h[n]
<1>1. Len(a) \in Nat /\ 0 \in Nat /\ 0 <= n /\ 0 <= Len(a)
  OBVIOUS
<1>2. \A x \in S \cup U : x.from \in Nat
  BY EditIs
<1>3. ASSUME NEW i \in 0..n PROVE PieceAt(a, S, i) = PieceAt(a, U, i)
  <2>1. i \in 0..Len(a) /\ i \in Nat /\ i <= n
    BY <1>1
  <2>2. \A x \in S \cup U : Touches(x, i) => (x \in S <=> x \in U)
    BY <1>2, <2>1 DEF Touches, AgreeTo
  <2> QED
    BY <2>1, <2>2, PieceSame
<1>4. g[0] = h[0] /\ g[0] \in Seq(Lines)
  <2>1. PieceAt(a, S, 0) = PieceAt(a, U, 0)
    BY <1>1, <1>3
  <2> QED
    BY <1>1, <2>1, GrownTyped DEF Grown
<1>5. GrowSame(g, h, 0, n)
  <2>1. MadeSame(a, S, U, 0, n)
    BY <1>3 DEF MadeSame
  <2>2. WithLines(S)
    BY EditsHaveLines
  <2> QED
    BY <1>1, <2>1, <2>2, GrowAlike
<1> QED
  BY <1>4, <1>5 DEF GrowSame

\* Above the first edit the text is as it was.
LEMMA GrownAbove ==
  ASSUME NEW a \in Seq(Lines), NEW S, NEW g, Grown(a, S, g), NEW n \in Nat, n <= Len(a),
         AllBelow(S, n)
  PROVE  g[n] = SubSeq(a, 1, n) /\ Len(g[n]) = n
<1>1. Len(a) \in Nat
  OBVIOUS
<1>2. ASSUME NEW i \in 0..n PROVE PieceAt(a, S, i) = IF i = 0 THEN <<>> ELSE <<a[i]>>
  <2>1. Edits!AddedAt(S, i) = <<>>
    <3>1. \A x \in S : x.from # i
      BY <1>1 DEF AllBelow
    <3> QED
      BY <3>1, NoneAdded
  <2>2. Edits!LineAt(a, S, i) = IF i = 0 THEN <<>> ELSE <<a[i]>>
    <3>1. ~ \E e \in S : e.from < i /\ i <= e.to
      BY <1>1 DEF AllBelow
    <3> QED
      BY <3>1 DEF Edits!LineAt
  <2>3. <<>> \o <<>> = <<>> /\ <<a[i]>> \o <<>> = <<a[i]>>
    OBVIOUS
  <2> QED
    BY <2>1, <2>2, <2>3 DEF PieceAt
<1>3. g[0] = <<>>
  BY <1>1, <1>2 DEF Grown
<1>4. g[n] = g[0] \o SubSeq(a, 0 + 1, n)
  <2>1. Kept(a, S, 0, n)
    BY <1>2 DEF Kept
  <2>2. GrowKeeping(a, g, 0, n)
    BY <1>1, <2>1, GrowsUnchanged
  <2> QED
    BY <2>2 DEF GrowKeeping
<1>5. SubSeq(a, 1, n) \in Seq(Lines) /\ Len(SubSeq(a, 1, n)) = n
  BY <1>1
<1>6. <<>> \o SubSeq(a, 1, n) = SubSeq(a, 1, n)
  BY <1>5
<1> QED
  BY <1>3, <1>4, <1>5, <1>6

LEMMA NothingReplaced ==
  ASSUME NEW a \in Seq(Lines)
  PROVE  Edits!Replaced(a, {}) = a
<1>1. WithLines({})
  BY DEF WithLines
<1>2. PICK g : Grown(a, {}, g)
  BY <1>1, GrownThere
<1>3. Edits!Replaced(a, {}) = g[Len(a)]
  BY <1>2, ReplacedGrows
<1>4. Len(a) \in Nat /\ SubSeq(a, 1, Len(a)) = a
  OBVIOUS
<1>5. g[Len(a)] = SubSeq(a, 1, Len(a))
  <2>1. AllBelow({}, Len(a)) /\ Len(a) <= Len(a)
    BY <1>4 DEF AllBelow
  <2> QED
    BY <1>2, <1>4, <2>1, GrownAbove
<1> QED
  BY <1>3, <1>4, <1>5

\* One more edit: the text before it and the text behind it stay.
LEMMA OneMoreEdit ==
  ASSUME NEW a \in Seq(Lines), NEW S \in SUBSET EditsOf(a), NEW e \in EditsOf(a), e \notin S, FarApart(S \cup {e}),
         NEW g, NEW h, Grown(a, S, g), Grown(a, S \cup {e}, h)
  PROVE  Splits(a, e, g, h)
<1> DEFINE U == S \cup {e}
<1>1. /\ e.from \in Nat /\ e.to \in Nat /\ e.from <= e.to /\ e.to <= Len(a) /\ Len(a) \in Nat
      /\ e.original \in Seq(Lines) /\ e.replacement \in Seq(Lines)
      /\ e.original = SubSeq(a, e.from + 1, e.to)
  BY EditIs
<1>2. U \in SUBSET EditsOf(a) /\ FarApart(U) /\ FarApart(S) /\ e \in U /\ WithLines(S) /\ WithLines(U)
  <2>1. U \in SUBSET EditsOf(a) /\ FarApart(U) /\ FarApart(S) /\ e \in U
    BY DEF FarApart
  <2> QED
    BY <2>1, EditsHaveLines
<1>3. \A x \in S : x.from \in Nat /\ x.to \in Nat /\ x.from <= x.to /\ (x.to < e.from \/ e.to < x.from)
  BY EditIs DEF FarApart
<1>4. ASSUME NEW i \in 0..Len(a), i < e.from \/ e.to < i PROVE PieceAt(a, S, i) = PieceAt(a, U, i)
  <2>1. \A x \in S \cup U : Touches(x, i) => (x \in S <=> x \in U)
    BY <1>1, <1>4 DEF Touches
  <2> HIDE DEF U
  <2> QED
    BY <1>2, <2>1, PieceSame
<1>5. \A i \in 1..e.from : Edits!LineAt(a, S, i) = Edits!LineAt(a, U, i)
  <2> TAKE i \in 1..e.from
  <2>1. (\E x \in S : x.from < i /\ i <= x.to) <=> (\E x \in U : x.from < i /\ i <= x.to)
    BY <1>1
  <2> QED
    BY <2>1 DEF Edits!LineAt
<1>6. Edits!AddedAt(S, e.from) = <<>> /\ Edits!AddedAt(U, e.from) = e.replacement
  <2>1. \A x \in S : x.from # e.from
    BY <1>1, <1>3
  <2>2. Edits!AddedAt(U, e.from) = e.replacement
    <3> HIDE DEF U
    <3> QED
      BY <1>2, AddedIs
  <2> QED
    BY <2>1, <2>2, NoneAdded
<1>7. ASSUME NEW i \in (e.from + 1)..e.to PROVE PieceAt(a, S, i) = <<a[i]>> /\ PieceAt(a, U, i) = <<>>
  <2>0. i \in Nat /\ i # 0 /\ e.from < i /\ i <= e.to
    BY <1>1
  <2>1. Edits!AddedAt(S, i) = <<>> /\ Edits!AddedAt(U, i) = <<>>
    <3>1. \A x \in U : x.from # i
      <4>1. e.from # i
        BY <1>1, <2>0
      <4>2. ASSUME NEW x \in S PROVE x.from # i
        <5>1. x.from \in Nat /\ x.to \in Nat /\ x.from <= x.to /\ (x.to < e.from \/ e.to < x.from)
          BY <1>3
        <5> QED
          BY <1>1, <2>0, <5>1
      <4> QED
        BY <4>1, <4>2
    <3> QED
      BY <3>1, NoneAdded
  <2>2. Edits!LineAt(a, U, i) = <<>>
    BY <2>0 DEF Edits!LineAt
  <2>3. Edits!LineAt(a, S, i) = <<a[i]>>
    <3>1. ASSUME NEW x \in S, x.from < i, i <= x.to PROVE FALSE
      <4>1. x.from \in Nat /\ x.to \in Nat /\ (x.to < e.from \/ e.to < x.from)
        BY <1>3
      <4> QED
        BY <1>1, <2>0, <3>1, <4>1
    <3> QED
      BY <2>0, <3>1 DEF Edits!LineAt
  <2>4. <<>> \o <<>> = <<>> /\ <<a[i]>> \o <<>> = <<a[i]>>
    OBVIOUS
  <2> QED
    BY <2>1, <2>2, <2>3, <2>4 DEF PieceAt
<1>8. h[e.from] = g[e.from] \o e.replacement
  <2>1. CASE e.from = 0
    <3>1. Edits!LineAt(a, S, 0) = <<>> /\ Edits!LineAt(a, U, 0) = <<>>
      BY DEF Edits!LineAt
    <3>2. g[0] = <<>> \o <<>> /\ h[0] = <<>> \o e.replacement
      BY <1>6, <2>1, <3>1 DEF Grown, PieceAt
    <3>3. <<>> \o <<>> = <<>> /\ <<>> \o e.replacement = e.replacement
      BY <1>1
    <3> QED
      BY <2>1, <3>2, <3>3
  <2>2. CASE e.from # 0
    <3> DEFINE n == e.from - 1
    <3>1. n \in Nat /\ n < e.from /\ n + 1 = e.from /\ n < Len(a) /\ n <= Len(a) /\ e.from \in 1..e.from /\ e.from # 0
      BY <1>1, <2>2
    <3>2. g[n] = h[n] /\ g[n] \in Seq(Lines)
      <4>1. AgreeTo(S, U, n)
        BY <1>1, <3>1 DEF AgreeTo
      <4>2. Grown(a, U, h)
        OBVIOUS
      <4> HIDE DEF n, U
      <4>3. g[n] \in Seq(Lines)
        BY <3>1, GrownTyped
      <4>4. g[n] = h[n]
        BY <1>2, <3>1, <4>1, <4>2, GrownSame
      <4> QED
        BY <4>3, <4>4
    <3> DEFINE l == Edits!LineAt(a, S, e.from)
    <3>3. l \in Seq(Lines) /\ Edits!LineAt(a, U, e.from) = l
      <4>1. Edits!LineAt(a, U, e.from) = l
        BY <1>5, <3>1
      <4>2. <<>> \in Seq(Lines) /\ <<a[e.from]>> \in Seq(Lines)
        BY <1>1, <3>1
      <4> QED
        BY <4>1, <4>2 DEF Edits!LineAt
    <3>4. PieceAt(a, S, e.from) = l \o <<>> /\ PieceAt(a, U, e.from) = l \o e.replacement
      BY <1>6, <3>3 DEF PieceAt
    <3> HIDE DEF l
    <3>5. g[e.from] = g[n] \o (l \o <<>>) /\ h[e.from] = h[n] \o (l \o e.replacement)
      <4>1. g[n + 1] = g[n] \o PieceAt(a, S, n + 1) /\ h[n + 1] = h[n] \o PieceAt(a, U, n + 1)
        <5> HIDE DEF n
        <5> QED
          BY <3>1, GrownIs
      <4> QED
        BY <3>1, <3>4, <4>1
    <3> HIDE DEF n
    <3>6. l \o <<>> = l
      BY <3>3
    <3>7. (g[n] \o l) \o e.replacement = g[n] \o (l \o e.replacement)
      <4>1. g[n] \in Seq(Lines) /\ l \in Seq(Lines) /\ e.replacement \in Seq(Lines)
        BY <1>1, <3>2, <3>3
      <4> QED
        BY <4>1, JoinAgain
    <3> QED
      BY <3>2, <3>5, <3>6, <3>7
  <2> QED
    BY <2>1, <2>2
<1>9. g[e.to] = g[e.from] \o e.original
  <2>1. Kept(a, S, e.from, e.to)
    BY <1>7 DEF Kept
  <2>2. GrowKeeping(a, g, e.from, e.to)
    BY <1>1, <2>1, GrowsUnchanged
  <2> QED
    BY <1>1, <2>2 DEF GrowKeeping
<1>10. h[e.to] = h[e.from]
  <2>1. Dropped(a, U, e.from, e.to)
    BY <1>7 DEF Dropped
  <2>2. Grown(a, U, h)
    OBVIOUS
  <2> HIDE DEF U
  <2> QED
    BY <1>1, <2>1, <2>2, GrowsNot
<1>11. PICK r \in Seq(Lines) : g[Len(a)] = g[e.to] \o r /\ h[Len(a)] = h[e.to] \o r
  <2>1. MadeSame(a, S, U, e.to, Len(a))
    <3> SUFFICES ASSUME NEW i \in (e.to + 1)..Len(a) PROVE PieceAt(a, S, i) = PieceAt(a, U, i)
      BY DEF MadeSame
    <3>1. i \in 0..Len(a) /\ e.to < i
      BY <1>1
    <3> QED
      BY <1>4, <3>1
  <2>2. Len(a) <= Len(a)
    BY <1>1
  <2>3. Grown(a, U, h)
    OBVIOUS
  <2> HIDE DEF U
  <2>4. GrowSame(g, h, e.to, Len(a))
    BY <1>1, <1>2, <2>1, <2>2, <2>3, GrowAlike
  <2> QED
    BY <2>4 DEF GrowSame
<1> QED
  BY <1>8, <1>9, <1>10, <1>11 DEF Splits

-----------------------------------------------------------------------------
(* The walk along the table of both texts, and what it proposes.             *)

LEMMA LinesBehind ==
  ASSUME NEW x \in Seq(Lines), NEW z \in Seq(Lines), NEW t, t = x \o z
  PROVE  SubSeq(t, Len(x) + 1, Len(t)) = z
<1> DEFINE u == SubSeq(t, Len(x) + 1, Len(t))
<1>1. t \in Seq(Lines) /\ Len(t) = Len(x) + Len(z) /\ Len(x) \in Nat /\ Len(z) \in Nat
  OBVIOUS
<1>2. u \in Seq(Lines) /\ Len(u) = Len(z) /\ \A i \in 1..Len(z) : u[i] = t[Len(x) + i]
  BY <1>1
<1>3. \A i \in 1..Len(z) : t[Len(x) + i] = z[i]
  BY <1>1
<1>4. u = z
  <2> HIDE DEF u
  <2> QED
    BY <1>2, <1>3, SeqEqual
<1> QED
  BY <1>4

LEMMA SubSeqIs ==
  ASSUME NEW b \in Seq(Lines), NEW i \in Nat, NEW j \in Nat, i <= j, j <= Len(b)
  PROVE  /\ SubSeq(b, i + 1, j) \in Seq(Lines) /\ Len(SubSeq(b, i + 1, j)) = j - i
         /\ \A k \in 1..(j - i) : SubSeq(b, i + 1, j)[k] = b[i + k]
OBVIOUS

LEMMA OneLine ==
  ASSUME NEW b \in Seq(Lines), NEW j \in Nat, j < Len(b)
  PROVE  SubSeq(b, j + 1, j + 1) = <<b[j + 1]>>
<1> DEFINE u == SubSeq(b, j + 1, j + 1)
           v == <<b[j + 1]>>
<1>1. j + 1 \in Nat /\ j <= j + 1 /\ j + 1 <= Len(b)
  OBVIOUS
<1>2. u \in Seq(Lines) /\ Len(u) = (j + 1) - j /\ \A k \in 1..((j + 1) - j) : u[k] = b[j + k]
  BY <1>1, SubSeqIs
<1>3. v \in Seq(Lines) /\ Len(v) = 1 /\ v[1] = b[j + 1]
  OBVIOUS
<1> HIDE DEF u, v
<1>4. Len(u) = 1 /\ u[1] = b[j + 1]
  BY <1>2
<1>5. u = v
  BY <1>2, <1>3, <1>4, SeqEqual
<1> QED
  BY <1>5 DEF u, v

LEMMA SubSeqsJoin ==
  ASSUME NEW b \in Seq(Lines), NEW i \in Nat, NEW j \in Nat, NEW k \in Nat, i <= j, j <= k, k <= Len(b)
  PROVE  SubSeq(b, i + 1, j) \o SubSeq(b, j + 1, k) = SubSeq(b, i + 1, k)
<1> DEFINE x == SubSeq(b, i + 1, j)
           y == SubSeq(b, j + 1, k)
           z == SubSeq(b, i + 1, k)
<1>1. /\ x \in Seq(Lines) /\ Len(x) = j - i /\ \A n \in 1..(j - i) : x[n] = b[i + n]
      /\ y \in Seq(Lines) /\ Len(y) = k - j /\ \A n \in 1..(k - j) : y[n] = b[j + n]
      /\ z \in Seq(Lines) /\ Len(z) = k - i /\ \A n \in 1..(k - i) : z[n] = b[i + n]
  <2>1. i <= k /\ j <= Len(b)
    OBVIOUS
  <2> QED
    BY <2>1, SubSeqIs
<1> HIDE DEF x, y, z
<1>2. x \o y \in Seq(Lines) /\ Len(x \o y) = k - i
  <2>1. x \in Seq(Lines) /\ y \in Seq(Lines) /\ Len(x) = j - i /\ Len(y) = k - j
    BY <1>1
  <2> QED
    BY <2>1
<1>3. ASSUME NEW n \in 1..(k - i) PROVE (x \o y)[n] = z[n]
  <2>1. CASE n <= j - i
    <3>1. n \in 1..(j - i)
      BY <2>1
    <3>2. (x \o y)[n] = x[n]
      BY <1>1, <3>1
    <3> QED
      BY <1>1, <3>1, <3>2
  <2>2. CASE n > j - i
    <3>1. n - (j - i) \in 1..(k - j) /\ j + (n - (j - i)) = i + n
      BY <2>2
    <3>2. (x \o y)[n] = y[n - (j - i)]
      <4>1. n \in (Len(x) + 1)..(Len(x) + Len(y)) /\ Len(x) \in Nat /\ Len(y) \in Nat
        BY <1>1, <2>2
      <4>2. (x \o y)[n] = y[n - Len(x)]
        <5>1. x \in Seq(Lines) /\ y \in Seq(Lines) /\ n \in Nat /\ n > Len(x) /\ n <= Len(x) + Len(y)
          BY <1>1, <4>1
        <5> QED
          BY <5>1, ConcatProperties
      <4> QED
        BY <1>1, <4>2
    <3>3. y[n - (j - i)] = b[j + (n - (j - i))]
      BY <1>1, <3>1
    <3> QED
      BY <1>1, <3>1, <3>2, <3>3
  <2>3. n \in Nat /\ j - i \in Nat
    OBVIOUS
  <2>4. n <= j - i \/ n > j - i
    BY <2>3
  <2> QED
    BY <2>1, <2>2, <2>4
<1>4. x \o y = z
  BY <1>1, <1>2, <1>3, SeqEqual
<1> QED
  BY <1>4 DEF x, y, z

\* The edits one after the other, each below the one before.
OneByOne(s) == \A k, l \in DOMAIN s : k < l => s[k].to < s[l].from

LEMMA ApartInOrder ==
  ASSUME NEW a \in Seq(Lines), NEW s \in Seq(EditsOf(a)), OneByOne(s)
  PROVE  Edits!ToSet(s) \in SUBSET EditsOf(a) /\ FarApart(Edits!ToSet(s))
<1>1. Edits!ToSet(s) \in SUBSET EditsOf(a)
  BY DEF Edits!ToSet
<1>2. ASSUME NEW x \in Edits!ToSet(s), NEW y \in Edits!ToSet(s) PROVE x = y \/ x.to < y.from \/ y.to < x.from
  <2>1. PICK k \in DOMAIN s : x = s[k]
    BY DEF Edits!ToSet
  <2>2. PICK l \in DOMAIN s : y = s[l]
    BY DEF Edits!ToSet
  <2>3. k \in Nat /\ l \in Nat
    OBVIOUS
  <2>4. k = l \/ k < l \/ l < k
    BY <2>3
  <2> QED
    BY <2>1, <2>2, <2>4 DEF OneByOne
<1> QED
  BY <1>1, <1>2 DEF FarApart

\* An edit above all others.
LEMMA OneAbove ==
  ASSUME NEW a \in Seq(Lines), NEW S \in SUBSET EditsOf(a), FarApart(S), NEW e \in EditsOf(a), \A x \in S : e.to < x.from
  PROVE  Edits!Replaced(a, S \cup {e}) =
           SubSeq(a, 1, e.from) \o e.replacement
             \o SubSeq(Edits!Replaced(a, S), e.to + 1, Len(Edits!Replaced(a, S)))
<1> DEFINE t == Edits!Replaced(a, S)
<1>1. /\ e.from \in Nat /\ e.to \in Nat /\ e.from <= e.to /\ e.to <= Len(a) /\ Len(a) \in Nat /\ e.from <= Len(a)
      /\ e.original \in Seq(Lines) /\ e.replacement \in Seq(Lines) /\ Len(e.original) = e.to - e.from
  BY EditIs
<1>2. \A x \in S : x.from \in Nat /\ x.from > e.from
  BY <1>1, EditIs
<1>3. S \cup {e} \in SUBSET EditsOf(a) /\ FarApart(S \cup {e}) /\ e \notin S
  BY <1>1, <1>2 DEF FarApart
<1>4. PICK g : Grown(a, S, g)
  BY EditsHaveLines, GrownThere
<1>5. PICK h : Grown(a, S \cup {e}, h)
  BY <1>3, EditsHaveLines, GrownThere
<1>6. t = g[Len(a)] /\ Edits!Replaced(a, S \cup {e}) = h[Len(a)] /\ t \in Seq(Lines)
  BY <1>4, <1>5, ReplacedGrows
<1>7. PICK r \in Seq(Lines) : /\ g[Len(a)] = g[e.from] \o e.original \o r
                              /\ h[Len(a)] = g[e.from] \o e.replacement \o r
  <2>1. Splits(a, e, g, h)
    BY <1>3, <1>4, <1>5, OneMoreEdit
  <2> QED
    BY <2>1 DEF Splits
<1>8. g[e.from] = SubSeq(a, 1, e.from) /\ Len(g[e.from]) = e.from /\ g[e.from] \in Seq(Lines)
  <2>1. AllBelow(S, e.from)
    BY <1>2 DEF AllBelow
  <2>2. g[e.from] = SubSeq(a, 1, e.from) /\ Len(g[e.from]) = e.from
    BY <1>1, <1>4, <2>1, GrownAbove
  <2>3. g[e.from] \in Seq(Lines)
    BY <1>1, <1>4, GrownTyped
  <2> QED
    BY <2>2, <2>3
<1> HIDE DEF t
<1>9. SubSeq(t, e.to + 1, Len(t)) = r
  <2>1. t = g[e.from] \o e.original \o r
    BY <1>6, <1>7
  <2>2. SubSeq(t, Len(g[e.from]) + Len(e.original) + 1, Len(t)) = r
    <3> DEFINE x == g[e.from]
               y == e.original
    <3>1. x \in Seq(Lines) /\ y \in Seq(Lines) /\ t = x \o y \o r
      BY <1>1, <1>8, <2>1
    <3> HIDE DEF x, y
    <3>2. SubSeq(t, Len(x) + Len(y) + 1, Len(t)) = r
      BY <3>1, Spliced
    <3> QED
      BY <3>2 DEF x, y
  <2>3. Len(g[e.from]) + Len(e.original) = e.to
    BY <1>1, <1>8
  <2> QED
    BY <2>2, <2>3
<1>10. Edits!Replaced(a, S \cup {e}) = SubSeq(a, 1, e.from) \o e.replacement \o SubSeq(t, e.to + 1, Len(t))
  BY <1>6, <1>7, <1>8, <1>9
<1> QED
  BY <1>10 DEF t

CellRank(a, b, c) == (Len(a) - c[1]) + (Len(b) - c[2])
Beyond(c, d) == c[1] <= d[1] /\ c[2] <= d[2]
AtPart(a, b, c) == ~ Edits!AtEnd(a, b, c) /\ ~ Edits!Same(a, b, c)

LEMMA CellIs ==
  ASSUME NEW a \in Seq(Lines), NEW b \in Seq(Lines), NEW c \in Edits!Cells(a, b)
  PROVE  /\ c[1] \in Nat /\ c[2] \in Nat /\ c[1] <= Len(a) /\ c[2] <= Len(b) /\ Len(a) \in Nat /\ Len(b) \in Nat
         /\ c = <<c[1], c[2]>> /\ CellRank(a, b, c) \in Nat /\ CellRank(a, b, c) < Len(a) + Len(b) + 1
<1>1. Len(a) \in Nat /\ Len(b) \in Nat
  OBVIOUS
<1>2. c[1] \in 0..Len(a) /\ c[2] \in 0..Len(b) /\ c = <<c[1], c[2]>>
  BY DEF Edits!Cells
<1> QED
  BY <1>1, <1>2 DEF CellRank

LEMMA CellMade ==
  ASSUME NEW a \in Seq(Lines), NEW b \in Seq(Lines), NEW i \in Nat, NEW j \in Nat, i <= Len(a), j <= Len(b)
  PROVE  <<i, j>> \in Edits!Cells(a, b) /\ <<i, j>>[1] = i /\ <<i, j>>[2] = j
<1>1. i \in 0..Len(a) /\ j \in 0..Len(b)
  OBVIOUS
<1> QED
  BY <1>1 DEF Edits!Cells

LEMMA CellSteps ==
  ASSUME NEW a \in Seq(Lines), NEW b \in Seq(Lines), NEW c \in Edits!Cells(a, b)
  PROVE  /\ c[1] < Len(a) =>
              /\ Edits!Deleted(c) \in Edits!Cells(a, b) /\ Beyond(c, Edits!Deleted(c))
              /\ CellRank(a, b, Edits!Deleted(c)) < CellRank(a, b, c)
         /\ c[2] < Len(b) =>
              /\ Edits!Inserted(c) \in Edits!Cells(a, b) /\ Beyond(c, Edits!Inserted(c))
              /\ CellRank(a, b, Edits!Inserted(c)) < CellRank(a, b, c)
         /\ Edits!Same(a, b, c) =>
              /\ Edits!Both(c) \in Edits!Cells(a, b)
              /\ CellRank(a, b, Edits!Both(c)) < CellRank(a, b, c)
         /\ ~ Edits!AtEnd(a, b, c) => c[1] < Len(a) \/ c[2] < Len(b)
<1>1. /\ c[1] \in Nat /\ c[2] \in Nat /\ c[1] <= Len(a) /\ c[2] <= Len(b) /\ Len(a) \in Nat /\ Len(b) \in Nat
      /\ c = <<c[1], c[2]>>
  BY CellIs
<1>2. ASSUME c[1] < Len(a)
      PROVE  /\ Edits!Deleted(c) \in Edits!Cells(a, b) /\ Beyond(c, Edits!Deleted(c))
             /\ CellRank(a, b, Edits!Deleted(c)) < CellRank(a, b, c)
  <2> DEFINE d == <<c[1] + 1, c[2]>>
  <2>0. c[1] + 1 \in Nat /\ c[1] + 1 <= Len(a)
    BY <1>1, <1>2
  <2>1. d \in Edits!Cells(a, b) /\ d[1] = c[1] + 1 /\ d[2] = c[2]
    BY <1>1, <2>0, CellMade
  <2>2. Edits!Deleted(c) = d
    BY DEF Edits!Deleted
  <2> HIDE DEF d
  <2> QED
    BY <1>1, <2>1, <2>2 DEF CellRank, Beyond
<1>3. ASSUME c[2] < Len(b)
      PROVE  /\ Edits!Inserted(c) \in Edits!Cells(a, b) /\ Beyond(c, Edits!Inserted(c))
             /\ CellRank(a, b, Edits!Inserted(c)) < CellRank(a, b, c)
  <2> DEFINE d == <<c[1], c[2] + 1>>
  <2>1. d \in Edits!Cells(a, b) /\ d[1] = c[1] /\ d[2] = c[2] + 1
    BY <1>1, <1>3, CellMade
  <2>2. Edits!Inserted(c) = d
    BY DEF Edits!Inserted
  <2> HIDE DEF d
  <2> QED
    BY <1>1, <2>1, <2>2 DEF CellRank, Beyond
<1>4. ASSUME Edits!Same(a, b, c)
      PROVE  /\ Edits!Both(c) \in Edits!Cells(a, b)
             /\ CellRank(a, b, Edits!Both(c)) < CellRank(a, b, c)
  <2> DEFINE d == <<c[1] + 1, c[2] + 1>>
  <2>0. c[1] < Len(a) /\ c[2] < Len(b)
    BY <1>4 DEF Edits!Same
  <2>a. c[1] + 1 \in Nat /\ c[1] + 1 <= Len(a) /\ c[2] + 1 \in Nat /\ c[2] + 1 <= Len(b)
    BY <1>1, <2>0
  <2>1. d \in Edits!Cells(a, b) /\ d[1] = c[1] + 1 /\ d[2] = c[2] + 1
    BY <2>a, CellMade
  <2>2. Edits!Both(c) = d
    BY DEF Edits!Both
  <2> HIDE DEF d
  <2> QED
    BY <1>1, <2>1, <2>2 DEF CellRank, Beyond
<1>5. ~ Edits!AtEnd(a, b, c) => c[1] < Len(a) \/ c[2] < Len(b)
  BY <1>1 DEF Edits!AtEnd
<1> QED
  BY <1>2, <1>3, <1>4, <1>5

\* The next cell inside a part that differs.
NextCell(a, b, c) ==
  IF Edits!AtEnd(a, b, c) \/ Edits!Same(a, b, c) THEN c
  ELSE IF c[2] = Len(b) \/ (c[1] < Len(a) /\ Edits!Table(a, b)[Edits!Deleted(c)] >= Edits!Table(a, b)[Edits!Inserted(c)])
  THEN Edits!Deleted(c) ELSE Edits!Inserted(c)

LEMMA NextCellIs ==
  ASSUME NEW a \in Seq(Lines), NEW b \in Seq(Lines), NEW c \in Edits!Cells(a, b)
  PROVE  /\ NextCell(a, b, c) \in Edits!Cells(a, b) /\ Beyond(c, NextCell(a, b, c))
         /\ AtPart(a, b, c) => CellRank(a, b, NextCell(a, b, c)) < CellRank(a, b, c)
<1>1. /\ c[1] \in Nat /\ c[2] \in Nat /\ c[1] <= Len(a) /\ c[2] <= Len(b) /\ Len(a) \in Nat /\ Len(b) \in Nat
  BY CellIs
<1>2. CASE ~ AtPart(a, b, c)
  <2>1. NextCell(a, b, c) = c
    BY <1>2 DEF AtPart, NextCell
  <2> QED
    BY <1>1, <1>2, <2>1 DEF Beyond
<1>3. CASE AtPart(a, b, c)
  <2> DEFINE deletes == c[2] = Len(b) \/ (c[1] < Len(a) /\ Edits!Table(a, b)[Edits!Deleted(c)] >= Edits!Table(a, b)[Edits!Inserted(c)])
  <2>1. c[1] < Len(a) \/ c[2] < Len(b)
    BY <1>3, CellSteps DEF AtPart
  <2>2. NextCell(a, b, c) = IF deletes THEN Edits!Deleted(c) ELSE Edits!Inserted(c)
    BY <1>3 DEF AtPart, NextCell
  <2>3. CASE deletes
    <3>1. c[1] < Len(a)
      BY <1>1, <2>1, <2>3
    <3>2. NextCell(a, b, c) = Edits!Deleted(c)
      BY <2>2, <2>3
    <3> QED
      BY <3>1, <3>2, CellSteps
  <2>4. CASE ~deletes
    <3>1. c[2] < Len(b)
      BY <1>1, <2>4
    <3>2. NextCell(a, b, c) = Edits!Inserted(c)
      BY <2>2, <2>4
    <3> QED
      BY <3>1, <3>2, CellSteps
  <2> QED
    BY <2>3, <2>4
<1> QED
  BY <1>2, <1>3

\* EndOfPart is what its recursion says.
LEMMA EndOfPartIs ==
  ASSUME NEW a \in Seq(Lines), NEW b \in Seq(Lines)
  PROVE  \A c \in Edits!Cells(a, b) :
           Edits!EndOfPart(a, b)[c] = IF AtPart(a, b, c) THEN Edits!EndOfPart(a, b)[NextCell(a, b, c)] ELSE c
<1> DEFINE D == Edits!Cells(a, b)
           stop == {c \in D : ~ AtPart(a, b, c)}
           rank == [c \in D |-> CellRank(a, b, c)]
           next == [c \in D |-> NextCell(a, b, c)]
           first == [c \in D |-> c]
           step == [c \in D |-> [d \in D |-> d]]
           bound == Len(a) + Len(b) + 1
           Ends(f) == f = [c \in D |->
             IF Edits!AtEnd(a, b, c) \/ Edits!Same(a, b, c) THEN c
             ELSE IF c[2] = Len(b) \/ (c[1] < Len(a) /\ Edits!Table(a, b)[Edits!Deleted(c)] >= Edits!Table(a, b)[Edits!Inserted(c)])
             THEN f[Edits!Deleted(c)] ELSE f[Edits!Inserted(c)]]
<1>1. Descends(D, D, stop, first, step, next, rank, bound)
  <2>1. stop \in SUBSET D /\ first \in [D -> D] /\ step \in [D -> [D -> D]]
    OBVIOUS
  <2>2. next \in [D -> D] /\ rank \in [D -> Nat] /\ bound \in Nat /\ \A c \in D : rank[c] < bound
    BY CellIs, NextCellIs
  <2>3. \A c \in D \ stop : rank[next[c]] < rank[c]
    BY NextCellIs
  <2> HIDE DEF D, stop, first, step, next, rank, bound
  <2> QED
    BY <2>1, <2>2, <2>3 DEF Descends
<1>2. PICK f : Walk(D, D, stop, first, step, next, f)
  <2> HIDE DEF D, stop, first, step, next, rank, bound
  <2> QED
    BY <1>1, WalkThere
<1>3. f \in [D -> D] /\ \A c \in D : f[c] = IF AtPart(a, b, c) THEN f[NextCell(a, b, c)] ELSE c
  <2>1. f \in [D -> D] /\ \A c \in D : f[c] = IF c \in stop THEN first[c] ELSE step[c][f[next[c]]]
    <3> HIDE DEF D, stop, first, step, next
    <3> QED
      BY <1>2 DEF Walk
  <2>2. ASSUME NEW c \in D PROVE f[c] = IF AtPart(a, b, c) THEN f[NextCell(a, b, c)] ELSE c
    <3>1. NextCell(a, b, c) \in D
      BY NextCellIs
    <3>2. f[NextCell(a, b, c)] \in D
      BY <2>1, <3>1
    <3> HIDE DEF D
    <3> QED
      BY <2>1, <2>2, <3>1, <3>2
  <2> HIDE DEF D
  <2> QED
    BY <2>1, <2>2
<1>4. Ends(f)
  <2>1. \A c \in D : f[c] =
             IF Edits!AtEnd(a, b, c) \/ Edits!Same(a, b, c) THEN c
             ELSE IF c[2] = Len(b) \/ (c[1] < Len(a) /\ Edits!Table(a, b)[Edits!Deleted(c)] >= Edits!Table(a, b)[Edits!Inserted(c)])
             THEN f[Edits!Deleted(c)] ELSE f[Edits!Inserted(c)]
    <3> HIDE DEF D
    <3> QED
      BY <1>3 DEF AtPart, NextCell
  <2> HIDE DEF D
  <2> QED
    BY <1>3, <2>1
<1> DEFINE e == CHOOSE x : Ends(x)
<1>5. Edits!EndOfPart(a, b) = e
  BY DEF Edits!EndOfPart
<1>6. Ends(e)
  <2> HIDE DEF Ends
  <2> QED
    BY <1>4
<1> HIDE DEF e
<1>7. \A c \in D : e[c] = IF AtPart(a, b, c) THEN e[NextCell(a, b, c)] ELSE c
  <2>1. \A c \in D : e[c] =
             IF Edits!AtEnd(a, b, c) \/ Edits!Same(a, b, c) THEN c
             ELSE IF c[2] = Len(b) \/ (c[1] < Len(a) /\ Edits!Table(a, b)[Edits!Deleted(c)] >= Edits!Table(a, b)[Edits!Inserted(c)])
             THEN e[Edits!Deleted(c)] ELSE e[Edits!Inserted(c)]
    <3> HIDE DEF D
    <3> QED
      BY <1>6
  <2> HIDE DEF D, Ends
  <2> QED
    BY <2>1 DEF AtPart, NextCell
<1> QED
  BY <1>5, <1>7

\* A part ends where the lines are the same again, or at the end of both.
LEMMA PartEnds ==
  ASSUME NEW a \in Seq(Lines), NEW b \in Seq(Lines), NEW c \in Edits!Cells(a, b)
  PROVE  LET d == Edits!EndOfPart(a, b)[c]
         IN  /\ d \in Edits!Cells(a, b) /\ Beyond(c, d) /\ ~ AtPart(a, b, d)
             /\ AtPart(a, b, c) => d # c /\ CellRank(a, b, d) < CellRank(a, b, c)
<1> DEFINE D == Edits!Cells(a, b)
           e == Edits!EndOfPart(a, b)
           Ends(x) == /\ e[x] \in D /\ Beyond(x, e[x]) /\ ~ AtPart(a, b, e[x])
                      /\ CellRank(a, b, e[x]) <= CellRank(a, b, x)
           T == {r \in Nat : \A x \in D : CellRank(a, b, x) < r => Ends(x)}
           bound == Len(a) + Len(b) + 1
<1>1. \A x \in D : e[x] = IF AtPart(a, b, x) THEN e[NextCell(a, b, x)] ELSE x
  BY EndOfPartIs
<1> HIDE DEF e
<1>2. \A x \in D : /\ CellRank(a, b, x) \in Nat /\ CellRank(a, b, x) < bound
                   /\ x[1] \in Nat /\ x[2] \in Nat /\ bound \in Nat
  BY CellIs
<1> HIDE DEF bound
<1>3. 0 \in T
  <2>1. \A x \in D : ~(CellRank(a, b, x) < 0)
    BY <1>2
  <2> QED
    BY <2>1
<1>4. ASSUME NEW r \in Nat, r \in T PROVE r + 1 \in T
  <2> SUFFICES ASSUME NEW x \in D, CellRank(a, b, x) < r + 1 PROVE Ends(x)
    OBVIOUS
  <2>1. CASE ~ AtPart(a, b, x)
    <3>1. e[x] = x
      BY <1>1, <2>1
    <3> QED
      BY <1>2, <2>1, <3>1 DEF Beyond
  <2>2. CASE AtPart(a, b, x)
    <3> DEFINE y == NextCell(a, b, x)
    <3>1. y \in D /\ Beyond(x, y) /\ CellRank(a, b, y) < CellRank(a, b, x) /\ e[x] = e[y]
      BY <1>1, <2>2, NextCellIs
    <3> HIDE DEF y
    <3>2. CellRank(a, b, y) < r
      <4>1. CellRank(a, b, y) \in Nat /\ CellRank(a, b, x) \in Nat
        BY <1>2, <3>1
      <4> QED
        BY <2>2, <3>1, <4>1
    <3>3. Ends(y)
      BY <1>4, <3>1, <3>2
    <3>4. Beyond(x, e[y]) /\ CellRank(a, b, e[y]) <= CellRank(a, b, x)
      <4>1. /\ e[y][1] \in Nat /\ e[y][2] \in Nat /\ CellRank(a, b, e[y]) \in Nat
            /\ y[1] \in Nat /\ y[2] \in Nat /\ CellRank(a, b, y) \in Nat
            /\ x[1] \in Nat /\ x[2] \in Nat /\ CellRank(a, b, x) \in Nat
        BY <1>2, <3>1, <3>3
      <4> QED
        BY <3>1, <3>3, <4>1 DEF Beyond
    <3> QED
      BY <3>1, <3>3, <3>4
  <2> QED
    BY <2>1, <2>2
<1>5. Ends(c)
  <2>1. bound \in T
    <3> HIDE DEF T
    <3>1. \A i \in Nat : 0 <= i /\ i < bound /\ i \in T => i + 1 \in T
      BY <1>4
    <3>2. bound \in Nat
      BY <1>2
    <3>3. \A i \in 0..bound : i \in T
      BY <1>3, <3>1, <3>2, CountUp
    <3> QED
      BY <3>2, <3>3
  <2> QED
    BY <1>2, <2>1
<1>6. AtPart(a, b, c) => e[c] # c /\ CellRank(a, b, e[c]) < CellRank(a, b, c)
  <2> SUFFICES ASSUME AtPart(a, b, c) PROVE e[c] # c /\ CellRank(a, b, e[c]) < CellRank(a, b, c)
    OBVIOUS
  <2> DEFINE y == NextCell(a, b, c)
  <2>1. y \in D /\ CellRank(a, b, y) < CellRank(a, b, c) /\ e[c] = e[y]
    BY <1>1, NextCellIs
  <2> HIDE DEF y
  <2>2. bound \in T
    <3> HIDE DEF T
    <3>1. \A i \in Nat : 0 <= i /\ i < bound /\ i \in T => i + 1 \in T
      BY <1>4
    <3>2. bound \in Nat
      BY <1>2
    <3>3. \A i \in 0..bound : i \in T
      BY <1>3, <3>1, <3>2, CountUp
    <3> QED
      BY <3>2, <3>3
  <2>3. Ends(y)
    BY <1>2, <2>1, <2>2
  <2>4. CellRank(a, b, e[y]) \in Nat /\ CellRank(a, b, y) \in Nat /\ CellRank(a, b, c) \in Nat
    BY <1>2, <2>1, <2>3
  <2> QED
    BY <1>5, <2>1, <2>3, <2>4
<1> QED
  BY <1>5, <1>6 DEF e

MadeOf(a, b, i, j, k, l, e) ==
  /\ e \in EditsOf(a) /\ e.from = i /\ e.to = j
  /\ e.original = SubSeq(a, i + 1, j) /\ e.replacement = SubSeq(b, k + 1, l)

LEMMA EditMade ==
  ASSUME NEW a \in Seq(Lines), NEW b \in Seq(Lines), NEW i \in Nat, NEW j \in Nat, NEW k \in Nat, NEW l \in Nat,
         i <= j, j <= Len(a), k <= l, l <= Len(b)
  PROVE  MadeOf(a, b, i, j, k, l, Edits!Edit(a, b, i, j, k, l))
<1>1. SubSeq(a, i + 1, j) \in Seq(Lines) /\ SubSeq(b, k + 1, l) \in Seq(Lines)
  BY SubSeqIs
<1> QED
  BY <1>1 DEF Edits!Edit, EditsOf, MadeOf

\* The edit for the part that begins at a cell.
PartAt(a, b, c) ==
  Edits!Edit(a, b, c[1], Edits!EndOfPart(a, b)[c][1], c[2], Edits!EndOfPart(a, b)[c][2])

LEMMA PartIs ==
  ASSUME NEW a \in Seq(Lines), NEW b \in Seq(Lines), NEW c \in Edits!Cells(a, b)
  PROVE  LET e == PartAt(a, b, c)
             d == Edits!EndOfPart(a, b)[c]
         IN  /\ e \in EditsOf(a) /\ e.from = c[1] /\ e.to = d[1]
             /\ e.replacement = SubSeq(b, c[2] + 1, d[2]) /\ e.original = SubSeq(a, c[1] + 1, d[1])
             /\ AtPart(a, b, c) => e.original # e.replacement
<1> DEFINE d == Edits!EndOfPart(a, b)[c]
           e == PartAt(a, b, c)
<1>1. d \in Edits!Cells(a, b) /\ Beyond(c, d) /\ (AtPart(a, b, c) => d # c)
  BY PartEnds
<1>2. e = Edits!Edit(a, b, c[1], d[1], c[2], d[2])
  BY DEF PartAt
<1> HIDE DEF d, e
<1>3. /\ c[1] \in Nat /\ c[2] \in Nat /\ c[1] <= Len(a) /\ c[2] <= Len(b) /\ c = <<c[1], c[2]>>
      /\ d[1] \in Nat /\ d[2] \in Nat /\ d[1] <= Len(a) /\ d[2] <= Len(b) /\ d = <<d[1], d[2]>>
      /\ c[1] <= d[1] /\ c[2] <= d[2] /\ Len(a) \in Nat /\ Len(b) \in Nat
  BY <1>1, CellIs DEF Beyond
<1>4. /\ e \in EditsOf(a) /\ e.from = c[1] /\ e.to = d[1]
      /\ e.original = SubSeq(a, c[1] + 1, d[1]) /\ e.replacement = SubSeq(b, c[2] + 1, d[2])
  <2>1. MadeOf(a, b, c[1], d[1], c[2], d[2], e)
    BY <1>2, <1>3, EditMade
  <2> QED
    BY <2>1 DEF MadeOf
<1>5. ASSUME AtPart(a, b, c) PROVE e.original # e.replacement
  <2>1. c[1] # d[1] \/ c[2] # d[2]
    BY <1>1, <1>3, <1>5
  <2> DEFINE x == SubSeq(a, c[1] + 1, d[1])
             y == SubSeq(b, c[2] + 1, d[2])
  <2>2. /\ Len(x) = d[1] - c[1] /\ \A k \in 1..(d[1] - c[1]) : x[k] = a[c[1] + k]
        /\ Len(y) = d[2] - c[2] /\ \A k \in 1..(d[2] - c[2]) : y[k] = b[c[2] + k]
    <3>1. Len(x) = d[1] - c[1] /\ \A k \in 1..(d[1] - c[1]) : x[k] = a[c[1] + k]
      BY <1>3, SubSeqIs
    <3>2. Len(y) = d[2] - c[2] /\ \A k \in 1..(d[2] - c[2]) : y[k] = b[c[2] + k]
      BY <1>3, SubSeqIs
    <3> QED
      BY <3>1, <3>2
  <2> HIDE DEF x, y
  <2> SUFFICES ASSUME x = y PROVE FALSE
    BY <1>4 DEF x, y
  <2>3. d[1] - c[1] = d[2] - c[2] /\ c[1] < d[1] /\ c[2] < d[2]
    BY <1>3, <2>1, <2>2
  <2>4. x[1] = a[c[1] + 1] /\ y[1] = b[c[2] + 1]
    BY <1>3, <2>2, <2>3
  <2>5. Edits!Same(a, b, c)
    BY <1>3, <2>3, <2>4 DEF Edits!Same
  <2> QED
    BY <1>5, <2>5 DEF AtPart
<1> QED
  BY <1>4, <1>5 DEF d, e

PartsFits(a, b, c) == 
  IF Edits!AtEnd(a, b, c) THEN <<>>
  ELSE IF Edits!Same(a, b, c) THEN Edits!PartsFrom(a, b)[Edits!Both(c)]
  ELSE <<PartAt(a, b, c)>> \o Edits!PartsFrom(a, b)[Edits!EndOfPart(a, b)[c]]

\* PartsFrom is what its recursion says.
LEMMA PartsFromIs ==
  ASSUME NEW a \in Seq(Lines), NEW b \in Seq(Lines)
  PROVE  \A c \in Edits!Cells(a, b) :
           Edits!PartsFrom(a, b)[c] \in Seq(EditsOf(a)) /\ Edits!PartsFrom(a, b)[c] = PartsFits(a, b, c)
<1> DEFINE D == Edits!Cells(a, b)
           V == Seq(EditsOf(a))
           end == Edits!EndOfPart(a, b)
           stop == {c \in D : Edits!AtEnd(a, b, c)}
           rank == [c \in D |-> CellRank(a, b, c)]
           next == [c \in D |-> IF Edits!AtEnd(a, b, c) THEN c
                                ELSE IF Edits!Same(a, b, c) THEN Edits!Both(c) ELSE end[c]]
           first == [c \in D |-> <<>>]
           step == [c \in D |-> [s \in V |-> IF Edits!Same(a, b, c) THEN s ELSE <<PartAt(a, b, c)>> \o s]]
           bound == Len(a) + Len(b) + 1
           Pieces(f) == f = [c \in D |->
             IF Edits!AtEnd(a, b, c) THEN <<>>
             ELSE IF Edits!Same(a, b, c) THEN f[Edits!Both(c)]
             ELSE <<Edits!Edit(a, b, c[1], end[c][1], c[2], end[c][2])>> \o f[end[c]]]
           Fits(f, c) == f[c] = IF Edits!AtEnd(a, b, c) THEN <<>>
                                ELSE IF Edits!Same(a, b, c) THEN f[Edits!Both(c)]
                                ELSE <<PartAt(a, b, c)>> \o f[end[c]]
<1>0. \A c \in D : /\ end[c] \in D /\ (AtPart(a, b, c) => CellRank(a, b, end[c]) < CellRank(a, b, c))
                   /\ PartAt(a, b, c) \in EditsOf(a)
                   /\ Edits!Same(a, b, c) => Edits!Both(c) \in D /\ CellRank(a, b, Edits!Both(c)) < CellRank(a, b, c)
                   /\ CellRank(a, b, c) \in Nat /\ CellRank(a, b, c) < bound /\ bound \in Nat
                   /\ PartAt(a, b, c) = Edits!Edit(a, b, c[1], end[c][1], c[2], end[c][2])
  <2> SUFFICES ASSUME NEW c \in D
               PROVE  /\ end[c] \in D /\ (AtPart(a, b, c) => CellRank(a, b, end[c]) < CellRank(a, b, c))
                      /\ PartAt(a, b, c) \in EditsOf(a)
                      /\ Edits!Same(a, b, c) => Edits!Both(c) \in D /\ CellRank(a, b, Edits!Both(c)) < CellRank(a, b, c)
                      /\ CellRank(a, b, c) \in Nat /\ CellRank(a, b, c) < bound /\ bound \in Nat
                      /\ PartAt(a, b, c) = Edits!Edit(a, b, c[1], end[c][1], c[2], end[c][2])
    OBVIOUS
  <2>1. end[c] \in D /\ (AtPart(a, b, c) => CellRank(a, b, end[c]) < CellRank(a, b, c))
    BY PartEnds
  <2>2. PartAt(a, b, c) \in EditsOf(a)
    BY PartIs
  <2>3. PartAt(a, b, c) = Edits!Edit(a, b, c[1], end[c][1], c[2], end[c][2])
    BY DEF PartAt
  <2> QED
    BY <2>1, <2>2, <2>3, CellIs, CellSteps
<1> HIDE DEF end
<1>1. Descends(D, V, stop, first, step, next, rank, bound)
  <2>1. stop \in SUBSET D /\ first \in [D -> V] /\ rank \in [D -> Nat] /\ bound \in Nat
    <3>1. stop \in SUBSET D /\ first \in [D -> V]
      OBVIOUS
    <3>2. rank \in [D -> Nat]
      BY <1>0
    <3> QED
      BY <3>1, <3>2
  <2>2. step \in [D -> [V -> V]]
    <3>1. ASSUME NEW c \in D, NEW s \in V PROVE <<PartAt(a, b, c)>> \o s \in V
      <4>1. <<PartAt(a, b, c)>> \in V
        BY <1>0
      <4> QED
        BY <4>1, ConcatProperties
    <3> HIDE DEF V, D
    <3> QED
      BY <3>1
  <2>3. next \in [D -> D]
    <3> HIDE DEF D
    <3> QED
      BY <1>0
  <2>4. \A c \in D : rank[c] < bound
    BY <1>0
  <2>5. \A c \in D \ stop : rank[next[c]] < rank[c]
    <3> HIDE DEF D
    <3> QED
      BY <1>0 DEF AtPart
  <2> HIDE DEF D, V, stop, first, step, next, rank, bound
  <2> QED
    BY <2>1, <2>2, <2>3, <2>4, <2>5 DEF Descends
<1>2. PICK f : Walk(D, V, stop, first, step, next, f)
  <2> HIDE DEF D, V, stop, first, step, next, rank, bound
  <2> QED
    BY <1>1, WalkThere
<1>3. f \in [D -> V] /\ \A c \in D : Fits(f, c)
  <2>1. f \in [D -> V] /\ \A c \in D : f[c] = IF c \in stop THEN first[c] ELSE step[c][f[next[c]]]
    <3> HIDE DEF D, V, stop, first, step, next
    <3> QED
      BY <1>2 DEF Walk
  <2>2. ASSUME NEW c \in D PROVE Fits(f, c)
    <3>1. f[Edits!Both(c)] \in V \/ ~ Edits!Same(a, b, c)
      BY <1>0, <2>1
    <3>2. f[end[c]] \in V
      BY <1>0, <2>1
    <3> HIDE DEF D, V
    <3> QED
      BY <2>1, <2>2, <3>1, <3>2
  <2> QED
    BY <2>1, <2>2
<1> HIDE DEF V, stop, first, step, next, rank, bound
<1>4. Pieces(f)
  <2>1. \A c \in D : f[c] =
             IF Edits!AtEnd(a, b, c) THEN <<>>
             ELSE IF Edits!Same(a, b, c) THEN f[Edits!Both(c)]
             ELSE <<Edits!Edit(a, b, c[1], end[c][1], c[2], end[c][2])>> \o f[end[c]]
    <3> HIDE DEF D
    <3> QED
      BY <1>0, <1>3
  <2> HIDE DEF D
  <2> QED
    BY <1>3, <2>1
<1> DEFINE p == CHOOSE x : Pieces(x)
<1>5. Edits!PartsFrom(a, b) = p
  BY DEF Edits!PartsFrom, end
<1>6. Pieces(p)
  <2> HIDE DEF Pieces
  <2> QED
    BY <1>4
<1> HIDE DEF p
<1>7. \A c \in D : Fits(p, c)
  <2>1. \A c \in D : p[c] =
             IF Edits!AtEnd(a, b, c) THEN <<>>
             ELSE IF Edits!Same(a, b, c) THEN p[Edits!Both(c)]
             ELSE <<Edits!Edit(a, b, c[1], end[c][1], c[2], end[c][2])>> \o p[end[c]]
    <3> HIDE DEF D
    <3> QED
      BY <1>6
  <2> HIDE DEF D, Pieces
  <2> QED
    BY <1>0, <2>1
<1>8. \A c \in D : p[c] \in V
  <2> DEFINE T == {r \in Nat : \A x \in D : CellRank(a, b, x) < r => p[x] \in V}
             m == Len(a) + Len(b) + 1
  <2>0. \A x \in D : CellRank(a, b, x) \in Nat /\ CellRank(a, b, x) < m /\ m \in Nat
    BY CellIs
  <2> HIDE DEF m
  <2>1. 0 \in T
    <3>1. \A x \in D : ~(CellRank(a, b, x) < 0)
      BY <2>0
    <3> QED
      BY <3>1
  <2>2. ASSUME NEW r \in Nat, r \in T PROVE r + 1 \in T
    <3> SUFFICES ASSUME NEW x \in D, CellRank(a, b, x) < r + 1 PROVE p[x] \in V
      OBVIOUS
    <3>1. ASSUME NEW y \in D, CellRank(a, b, y) < CellRank(a, b, x) PROVE p[y] \in V
      <4>1. CellRank(a, b, y) < r
        BY <2>0, <3>1
      <4> QED
        BY <2>2, <4>1
    <3>2. CASE Edits!AtEnd(a, b, x)
      <4>1. p[x] = <<>>
        BY <1>7, <3>2
      <4>2. <<>> \in V
        BY DEF V
      <4> QED
        BY <4>1, <4>2
    <3>3. CASE ~ Edits!AtEnd(a, b, x) /\ Edits!Same(a, b, x)
      <4>1. p[Edits!Both(x)] \in V
        BY <1>0, <3>1, <3>3
      <4> QED
        BY <1>7, <3>3, <4>1
    <3>4. CASE AtPart(a, b, x)
      <4>1. p[end[x]] \in V
        BY <1>0, <3>1, <3>4
      <4>2. <<PartAt(a, b, x)>> \in V
        BY <1>0 DEF V
      <4>3. <<PartAt(a, b, x)>> \o p[end[x]] \in V
        BY <4>1, <4>2, ConcatProperties DEF V
      <4>4. p[x] = <<PartAt(a, b, x)>> \o p[end[x]]
        BY <1>7, <3>4 DEF AtPart
      <4> QED
        BY <4>3, <4>4
    <3> QED
      BY <3>2, <3>3, <3>4 DEF AtPart
  <2>3. m \in T \/ D = {}
    <3> HIDE DEF T
    <3>1. \A i \in Nat : 0 <= i /\ i < m /\ i \in T => i + 1 \in T
      BY <2>2
    <3> SUFFICES ASSUME NEW x \in D PROVE m \in T
      OBVIOUS
    <3>2. m \in Nat
      BY <2>0
    <3>3. \A i \in 0..m : i \in T
      BY <2>1, <3>1, <3>2, CountUp
    <3> QED
      BY <3>2, <3>3
  <2> QED
    BY <2>0, <2>3
<1>9. \A c \in D : p[c] = PartsFits(a, b, c)
  BY <1>5, <1>7 DEF PartsFits, end
<1> QED
  BY <1>5, <1>8, <1>9 DEF V

\* Edits that make the rest of `b` of the rest of `a`, beyond a cell.
Fitting(a, b, c, s) ==
  /\ s \in Seq(EditsOf(a)) /\ OneByOne(s)
  /\ \A k \in DOMAIN s : /\ c[1] <= s[k].from /\ s[k].original # s[k].replacement
                         /\ Edits!Same(a, b, c) => c[1] < s[k].from
  /\ Edits!Replaced(a, Edits!ToSet(s)) = SubSeq(a, 1, c[1]) \o SubSeq(b, c[2] + 1, Len(b))

LEMMA FitsAtEnd ==
  ASSUME NEW a \in Seq(Lines), NEW b \in Seq(Lines), NEW c \in Edits!Cells(a, b), Edits!AtEnd(a, b, c)
  PROVE  Fitting(a, b, c, <<>>)
<1>1. c[1] = Len(a) /\ c[2] = Len(b) /\ Len(a) \in Nat /\ Len(b) \in Nat
  BY CellIs DEF Edits!AtEnd
<1>2. Edits!ToSet(<<>>) = {}
  BY DEF Edits!ToSet
<1>3. SubSeq(a, 1, Len(a)) = a /\ SubSeq(b, Len(b) + 1, Len(b)) = <<>> /\ a \o <<>> = a
  OBVIOUS
<1>4. <<>> \in Seq(EditsOf(a)) /\ DOMAIN <<>> = {}
  OBVIOUS
<1>5. Edits!Replaced(a, {}) = a
  BY NothingReplaced
<1> QED
  BY <1>1, <1>2, <1>3, <1>4, <1>5 DEF Fitting, OneByOne

LEMMA FitsAtSame ==
  ASSUME NEW a \in Seq(Lines), NEW b \in Seq(Lines), NEW c \in Edits!Cells(a, b), Edits!Same(a, b, c),
         NEW s, Fitting(a, b, Edits!Both(c), s)
  PROVE  Fitting(a, b, c, s)
<1> DEFINE i == c[1]
           j == c[2]
<1>1. /\ i \in Nat /\ j \in Nat /\ i < Len(a) /\ j < Len(b) /\ Len(a) \in Nat /\ Len(b) \in Nat /\ a[i + 1] = b[j + 1]
  BY CellIs DEF Edits!Same
<1>2. Edits!Both(c)[1] = i + 1 /\ Edits!Both(c)[2] = j + 1
  BY DEF Edits!Both
<1> HIDE DEF i, j
<1>3. Edits!Replaced(a, Edits!ToSet(s)) = SubSeq(a, 1, i + 1) \o SubSeq(b, (j + 1) + 1, Len(b))
  BY <1>2 DEF Fitting
<1>4. SubSeq(a, 1, i + 1) = SubSeq(a, 1, i) \o <<a[i + 1]>> /\ SubSeq(a, 1, i) \in Seq(Lines)
  <2>1. 0 \in Nat /\ i + 1 \in Nat /\ 0 <= i /\ i <= i + 1 /\ i + 1 <= Len(a) /\ i <= Len(a) /\ 0 + 1 = 1
    BY <1>1
  <2>2. SubSeq(a, 0 + 1, i) \o SubSeq(a, i + 1, i + 1) = SubSeq(a, 0 + 1, i + 1)
    BY <1>1, <2>1, SubSeqsJoin
  <2>3. SubSeq(a, i + 1, i + 1) = <<a[i + 1]>>
    BY <1>1, OneLine
  <2>4. SubSeq(a, 0 + 1, i) \in Seq(Lines)
    BY <1>1, <2>1, SubSeqIs
  <2> QED
    BY <2>1, <2>2, <2>3, <2>4
<1>5. SubSeq(b, j + 1, Len(b)) = <<b[j + 1]>> \o SubSeq(b, (j + 1) + 1, Len(b))
  <2>1. SubSeq(b, j + 1, j + 1) = <<b[j + 1]>>
    BY <1>1, OneLine
  <2>2. SubSeq(b, j + 1, j + 1) \o SubSeq(b, (j + 1) + 1, Len(b)) = SubSeq(b, j + 1, Len(b))
    <3>1. j + 1 \in Nat /\ j <= j + 1 /\ j + 1 <= Len(b) /\ Len(b) <= Len(b)
      BY <1>1
    <3> QED
      BY <1>1, <3>1, SubSeqsJoin
  <2> QED
    BY <2>1, <2>2
<1>6. (SubSeq(a, 1, i) \o <<a[i + 1]>>) \o SubSeq(b, (j + 1) + 1, Len(b))
        = SubSeq(a, 1, i) \o (<<a[i + 1]>> \o SubSeq(b, (j + 1) + 1, Len(b)))
  <2> DEFINE x == SubSeq(a, 1, i)
             y == <<a[i + 1]>>
             z == SubSeq(b, (j + 1) + 1, Len(b))
  <2>1. x \in Seq(Lines) /\ y \in Seq(Lines) /\ z \in Seq(Lines)
    BY <1>1, <1>4
  <2> HIDE DEF x, y, z
  <2>2. (x \o y) \o z = x \o (y \o z)
    BY <2>1, JoinAgain
  <2> QED
    BY <2>2 DEF x, y, z
<1>7. Edits!Replaced(a, Edits!ToSet(s)) = SubSeq(a, 1, i) \o SubSeq(b, j + 1, Len(b))
  BY <1>1, <1>3, <1>4, <1>5, <1>6
<1>8. \A k \in DOMAIN s : i < s[k].from /\ i <= s[k].from /\ s[k].original # s[k].replacement
  <2> TAKE k \in DOMAIN s
  <2>1. i + 1 <= s[k].from /\ s[k].original # s[k].replacement /\ s[k] \in EditsOf(a)
    BY <1>2 DEF Fitting
  <2>2. s[k].from \in Nat
    BY <2>1, EditIs
  <2> QED
    BY <1>1, <2>1, <2>2
<1>9. s \in Seq(EditsOf(a)) /\ OneByOne(s)
  BY DEF Fitting
<1> QED
  BY <1>7, <1>8, <1>9 DEF Fitting, i, j

\* The first of a sequence and the others.
LEMMA ConsIs ==
  ASSUME NEW V, NEW e \in V, NEW s \in Seq(V), NEW t, t = <<e>> \o s
  PROVE  /\ t \in Seq(V) /\ 1 \in DOMAIN t /\ t[1] = e
         /\ \A k \in DOMAIN t : k # 1 => k - 1 \in DOMAIN s /\ t[k] = s[k - 1]
         /\ \A k \in DOMAIN s : k + 1 \in DOMAIN t /\ t[k + 1] = s[k]
         /\ DOMAIN t \in SUBSET Nat /\ \A k \in DOMAIN t : k >= 1
OBVIOUS

LEMMA FitsAtPart ==
  ASSUME NEW a \in Seq(Lines), NEW b \in Seq(Lines), NEW c \in Edits!Cells(a, b), AtPart(a, b, c),
         NEW s, Fitting(a, b, Edits!EndOfPart(a, b)[c], s),
         Edits!AtEnd(a, b, Edits!EndOfPart(a, b)[c]) => s = <<>>
  PROVE  Fitting(a, b, c, <<PartAt(a, b, c)>> \o s)
<1> DEFINE d == Edits!EndOfPart(a, b)[c]
           e == PartAt(a, b, c)
           t == <<e>> \o s
           old == Edits!Replaced(a, Edits!ToSet(s))
<1>1. d \in Edits!Cells(a, b) /\ Beyond(c, d) /\ ~ AtPart(a, b, d)
  BY PartEnds
<1>2. /\ e \in EditsOf(a) /\ e.from = c[1] /\ e.to = d[1] /\ e.original # e.replacement
      /\ e.replacement = SubSeq(b, c[2] + 1, d[2])
  BY PartIs
<1>3. Fitting(a, b, d, s) /\ (Edits!AtEnd(a, b, d) => s = <<>>)
  OBVIOUS
<1> HIDE DEF d, e
<1>4. /\ c[1] \in Nat /\ c[2] \in Nat /\ c[1] <= Len(a) /\ c[2] <= Len(b)
      /\ d[1] \in Nat /\ d[2] \in Nat /\ d[1] <= Len(a) /\ d[2] <= Len(b)
      /\ c[1] <= d[1] /\ c[2] <= d[2] /\ Len(a) \in Nat /\ Len(b) \in Nat
  BY <1>1, CellIs DEF Beyond
<1>5. s \in Seq(EditsOf(a)) /\ OneByOne(s) /\ \A k \in DOMAIN s : s[k] \in EditsOf(a) /\ s[k].original # s[k].replacement
  BY <1>3 DEF Fitting
<1>6. \A k \in DOMAIN s : e.to < s[k].from
  <2>1. CASE Edits!AtEnd(a, b, d)
    <3>1. DOMAIN s = {}
      BY <1>3, <2>1
    <3> QED
      BY <3>1
  <2>2. CASE Edits!Same(a, b, d)
    BY <1>2, <1>3, <2>2 DEF Fitting
  <2> QED
    BY <1>1, <2>1, <2>2 DEF AtPart
<1>7. Edits!ToSet(t) = Edits!ToSet(s) \cup {e}
  <2>1. /\ 1 \in DOMAIN t /\ t[1] = e
        /\ \A k \in DOMAIN t : k # 1 => k - 1 \in DOMAIN s /\ t[k] = s[k - 1]
        /\ \A k \in DOMAIN s : k + 1 \in DOMAIN t /\ t[k + 1] = s[k]
    BY <1>2, <1>5, ConsIs
  <2> HIDE DEF t
  <2> QED
    BY <2>1 DEF Edits!ToSet
<1>8. t \in Seq(EditsOf(a)) /\ \A k \in DOMAIN t : t[k] \in EditsOf(a) /\ c[1] <= t[k].from /\ t[k].original # t[k].replacement
  <2>1. /\ t \in Seq(EditsOf(a)) /\ 1 \in DOMAIN t /\ t[1] = e
        /\ \A k \in DOMAIN t : k # 1 => k - 1 \in DOMAIN s /\ t[k] = s[k - 1]
    BY <1>2, <1>5, ConsIs
  <2> HIDE DEF t
  <2>2. ASSUME NEW k \in DOMAIN t PROVE c[1] <= t[k].from /\ t[k].original # t[k].replacement
    <3>1. CASE k = 1
      <4>1. t[k] = e
        BY <2>1, <3>1
      <4>2. c[1] <= e.from
        BY <1>2, <1>4
      <4> QED
        BY <1>2, <4>1, <4>2
    <3>2. CASE k # 1
      <4>1. k - 1 \in DOMAIN s /\ t[k] = s[k - 1]
        BY <2>1, <3>2
      <4>2. s[k - 1].from \in Nat /\ e.to < s[k - 1].from /\ s[k - 1].original # s[k - 1].replacement
        BY <1>5, <1>6, <4>1, EditIs
      <4> QED
        BY <1>2, <1>4, <4>1, <4>2
    <3> QED
      BY <3>1, <3>2
  <2> QED
    BY <2>1, <2>2
<1>9. OneByOne(t)
  <2>1. /\ 1 \in DOMAIN t /\ t[1] = e /\ DOMAIN t \in SUBSET Nat /\ \A k \in DOMAIN t : k >= 1
        /\ \A k \in DOMAIN t : k # 1 => k - 1 \in DOMAIN s /\ t[k] = s[k - 1]
    BY <1>2, <1>5, ConsIs
  <2> HIDE DEF t
  <2> SUFFICES ASSUME NEW k \in DOMAIN t, NEW l \in DOMAIN t, k < l PROVE t[k].to < t[l].from
    BY DEF OneByOne
  <2>2. l # 1 /\ k \in Nat /\ l \in Nat
    BY <2>1
  <2>3. l - 1 \in DOMAIN s /\ t[l] = s[l - 1]
    BY <2>1, <2>2
  <2>4. CASE k = 1
    BY <1>6, <2>1, <2>3, <2>4
  <2>5. CASE k # 1
    <3>1. k - 1 \in DOMAIN s /\ t[k] = s[k - 1] /\ k - 1 < l - 1
      BY <2>1, <2>2, <2>5
    <3> QED
      BY <1>5, <2>3, <3>1 DEF OneByOne
  <2> QED
    BY <2>4, <2>5
<1> DEFINE S == Edits!ToSet(s)
<1>10. S \in SUBSET EditsOf(a) /\ FarApart(S) /\ \A x \in S : e.to < x.from
  <2>1. S \in SUBSET EditsOf(a) /\ FarApart(S)
    BY <1>5, ApartInOrder
  <2>2. \A x \in S : e.to < x.from
    BY <1>6 DEF Edits!ToSet
  <2> QED
    BY <2>1, <2>2
<1>11. Edits!Replaced(a, S \cup {e}) = SubSeq(a, 1, e.from) \o e.replacement \o SubSeq(old, e.to + 1, Len(old))
  <2> HIDE DEF S
  <2>1. Edits!Replaced(a, S \cup {e}) =
           SubSeq(a, 1, e.from) \o e.replacement
             \o SubSeq(Edits!Replaced(a, S), e.to + 1, Len(Edits!Replaced(a, S)))
    BY <1>2, <1>10, OneAbove
  <2> QED
    BY <2>1 DEF S
<1>12. SubSeq(old, e.to + 1, Len(old)) = SubSeq(b, d[2] + 1, Len(b))
  <2> DEFINE x == SubSeq(a, 1, d[1])
             z == SubSeq(b, d[2] + 1, Len(b))
  <2>1. old = x \o z
    BY <1>3 DEF Fitting
  <2>2. x \in Seq(Lines) /\ z \in Seq(Lines) /\ Len(x) = d[1]
    BY <1>4
  <2> HIDE DEF x, z, old
  <2>3. SubSeq(old, Len(x) + 1, Len(old)) = z
    BY <2>1, <2>2, LinesBehind
  <2> QED
    BY <1>2, <2>2, <2>3 DEF z
<1>13. (SubSeq(a, 1, c[1]) \o SubSeq(b, c[2] + 1, d[2])) \o SubSeq(b, d[2] + 1, Len(b))
         = SubSeq(a, 1, c[1]) \o SubSeq(b, c[2] + 1, Len(b))
  <2> DEFINE x == SubSeq(a, 1, c[1])
             y == SubSeq(b, c[2] + 1, d[2])
             z == SubSeq(b, d[2] + 1, Len(b))
  <2>1. x \in Seq(Lines) /\ y \in Seq(Lines) /\ z \in Seq(Lines)
    BY <1>4
  <2>2. y \o z = SubSeq(b, c[2] + 1, Len(b))
    <3> DEFINE i == c[2]
               j == d[2]
    <3>1. i \in Nat /\ j \in Nat /\ Len(b) \in Nat /\ i <= j /\ j <= Len(b) /\ Len(b) <= Len(b)
      BY <1>4
    <3> HIDE DEF i, j
    <3>2. SubSeq(b, i + 1, j) \o SubSeq(b, j + 1, Len(b)) = SubSeq(b, i + 1, Len(b))
      BY <3>1, SubSeqsJoin
    <3> QED
      BY <3>2 DEF i, j
  <2> HIDE DEF x, y, z
  <2>3. (x \o y) \o z = x \o (y \o z)
    BY <2>1, JoinAgain
  <2> QED
    BY <2>2, <2>3 DEF x, y, z
<1>14. Edits!Replaced(a, Edits!ToSet(t)) = SubSeq(a, 1, c[1]) \o SubSeq(b, c[2] + 1, Len(b))
  BY <1>2, <1>7, <1>11, <1>12, <1>13
<1> HIDE DEF t
<1>15. Fitting(a, b, c, t)
  BY <1>8, <1>9, <1>14 DEF Fitting, AtPart
<1> QED
  BY <1>15 DEF t, e

\* Edits that make `b` of `a`.
FittingAll(a, b, s) ==
  s \in Seq(EditsOf(a)) /\ OneByOne(s) /\ Edits!Replaced(a, Edits!ToSet(s)) = b

LEMMA WalkFits ==
  ASSUME NEW a \in Seq(Lines), NEW b \in Seq(Lines), NEW c \in Edits!Cells(a, b)
  PROVE  Fitting(a, b, c, Edits!PartsFrom(a, b)[c])
<1> DEFINE D == Edits!Cells(a, b)
           p == Edits!PartsFrom(a, b)
           end == Edits!EndOfPart(a, b)
           T == {r \in Nat : \A x \in D : CellRank(a, b, x) < r => Fitting(a, b, x, p[x])}
           m == Len(a) + Len(b) + 1
<1>1. \A x \in D : CellRank(a, b, x) \in Nat /\ CellRank(a, b, x) < m /\ m \in Nat
  BY CellIs
<1> HIDE DEF m
<1>2. \A x \in D : p[x] = IF Edits!AtEnd(a, b, x) THEN <<>>
                          ELSE IF Edits!Same(a, b, x) THEN p[Edits!Both(x)]
                          ELSE <<PartAt(a, b, x)>> \o p[end[x]]
  BY PartsFromIs DEF PartsFits
<1>3. 0 \in T
  <2>1. \A x \in D : ~(CellRank(a, b, x) < 0)
    BY <1>1
  <2> QED
    BY <2>1
<1>4. ASSUME NEW r \in Nat, r \in T PROVE r + 1 \in T
  <2> SUFFICES ASSUME NEW x \in D, CellRank(a, b, x) < r + 1 PROVE Fitting(a, b, x, p[x])
    OBVIOUS
  <2> HIDE DEF p, end
  <2>1. ASSUME NEW y \in D, CellRank(a, b, y) < CellRank(a, b, x) PROVE Fitting(a, b, y, p[y])
    <3>1. CellRank(a, b, y) < r
      BY <1>1, <2>1
    <3> QED
      BY <1>4, <3>1
  <2>2. CASE Edits!AtEnd(a, b, x)
    <3>1. p[x] = <<>>
      BY <1>2, <2>2
    <3> QED
      BY <2>2, <3>1, FitsAtEnd
  <2>3. CASE ~ Edits!AtEnd(a, b, x) /\ Edits!Same(a, b, x)
    <3>1. p[x] = p[Edits!Both(x)]
      BY <1>2, <2>3
    <3>2. Edits!Both(x) \in D /\ CellRank(a, b, Edits!Both(x)) < CellRank(a, b, x)
      BY <2>3, CellSteps
    <3>3. Fitting(a, b, Edits!Both(x), p[Edits!Both(x)])
      BY <2>1, <3>2
    <3> QED
      BY <2>3, <3>1, <3>3, FitsAtSame
  <2>4. CASE AtPart(a, b, x)
    <3>1. p[x] = <<PartAt(a, b, x)>> \o p[end[x]]
      BY <1>2, <2>4 DEF AtPart
    <3>2. end[x] \in D /\ CellRank(a, b, end[x]) < CellRank(a, b, x)
      BY <2>4, PartEnds DEF end
    <3>3. Fitting(a, b, end[x], p[end[x]])
      BY <2>1, <3>2
    <3>4. Edits!AtEnd(a, b, end[x]) => p[end[x]] = <<>>
      BY <1>2, <3>2
    <3>5. Fitting(a, b, x, <<PartAt(a, b, x)>> \o p[end[x]])
      BY <2>4, <3>3, <3>4, FitsAtPart DEF end
    <3> QED
      BY <3>1, <3>5
  <2> QED
    BY <2>2, <2>3, <2>4 DEF AtPart
<1>5. m \in T
  <2> HIDE DEF T
  <2>1. \A i \in Nat : 0 <= i /\ i < m /\ i \in T => i + 1 \in T
    BY <1>4
  <2>2. m \in Nat
    BY <1>1
  <2>3. \A i \in 0..m : i \in T
    BY <1>3, <2>1, <2>2, CountUp
  <2> QED
    BY <2>2, <2>3
<1> QED
  BY <1>1, <1>5

LEMMA SelectsEdits ==
  ASSUME NEW s, NEW I
  PROVE  Edits!Select(s, I) = Select(s, I)
BY DEF Edits!Select, Select, Edits!Nth, Nth, Edits!RankIn, RankIn, Edits!Cardinality, Cardinality

LEMMA ByLineFits ==
  ASSUME NEW a \in Seq(Lines), NEW b \in Seq(Lines)
  PROVE  LET s == Edits!ByLine(a, b)
         IN  /\ FittingAll(a, b, s)
             /\ Edits!Select(s, {k \in DOMAIN s : s[k].original # s[k].replacement}) = s
<1> DEFINE s == Edits!ByLine(a, b)
<1>1. <<0, 0>> \in Edits!Cells(a, b) /\ <<0, 0>>[1] = 0 /\ <<0, 0>>[2] = 0
  BY CellMade
<1>2. Fitting(a, b, <<0, 0>>, s)
  <2>1. s = Edits!PartsFrom(a, b)[<<0, 0>>]
    BY DEF Edits!ByLine
  <2> QED
    BY <1>1, <2>1, WalkFits
<1> HIDE DEF s
<1>3. SubSeq(a, 1, 0) \o SubSeq(b, 0 + 1, Len(b)) = b
  <2>1. SubSeq(a, 1, 0) = <<>> /\ SubSeq(b, 0 + 1, Len(b)) = b /\ <<>> \o b = b
    OBVIOUS
  <2> QED
    BY <2>1
<1>4. FittingAll(a, b, s)
  BY <1>1, <1>2, <1>3 DEF Fitting, FittingAll
<1>5. {k \in DOMAIN s : s[k].original # s[k].replacement} = DOMAIN s
  BY <1>2 DEF Fitting
<1>6. Edits!Select(s, DOMAIN s) = s
  BY <1>4, SelectsEdits, SelectAll DEF FittingAll
<1> QED
  BY <1>4, <1>5, <1>6 DEF s

LEMMA MaxIs ==
  ASSUME NEW T \in SUBSET Nat, NEW n \in Nat, 0 \in T, \A k \in T : k <= n
  PROVE  Edits!Max(T) \in T
<1>1. IsFiniteSet(T)
  <2>1. T \in SUBSET (0..n)
    OBVIOUS
  <2>2. IsFiniteSet(0..n)
    BY FS_Interval
  <2> QED
    BY <2>1, <2>2, FS_Subset
<1>2. \E i \in T : \A j \in T : j <= i
  BY <1>1, LeastGreatest
<1>3. \E i \in T : \A j \in T : i >= j
  BY <1>2
<1> QED
  BY <1>3 DEF Edits!Max

LEMMA CommonIs ==
  ASSUME NEW a \in Seq(Lines), NEW b \in Seq(Lines)
  PROVE  LET m == Edits!CommonStart(a, b)
             n == Edits!CommonEnd(a, b, m)
         IN  /\ m \in Nat /\ n \in Nat /\ m + n <= Len(a) /\ m + n <= Len(b)
             /\ \A i \in 1..m : a[i] = b[i]
             /\ \A i \in 1..n : a[Len(a) + 1 - i] = b[Len(b) + 1 - i]
<1> DEFINE m == Edits!CommonStart(a, b)
           T == {n \in 0..Len(a) : n <= Len(b) /\ \A i \in 1..n : a[i] = b[i]}
<1>1. Len(a) \in Nat /\ Len(b) \in Nat
  OBVIOUS
<1>2. m \in T
  <2>1. T \in SUBSET Nat /\ 0 \in T /\ \A k \in T : k <= Len(a)
    BY <1>1
  <2>2. m = Edits!Max(T)
    BY DEF Edits!CommonStart
  <2> HIDE DEF T, m
  <2> QED
    BY <1>1, <2>1, <2>2, MaxIs
<1>3. m \in Nat /\ m <= Len(a) /\ m <= Len(b) /\ \A i \in 1..m : a[i] = b[i]
  BY <1>1, <1>2
<1> HIDE DEF m
<1> DEFINE n == Edits!CommonEnd(a, b, m)
           U == {k \in 0..(Len(a) - m) :
                   k <= Len(b) - m /\ \A i \in 1..k : a[Len(a) + 1 - i] = b[Len(b) + 1 - i]}
<1>4. n \in U
  <2>1. U \in SUBSET Nat /\ 0 \in U /\ Len(a) \in Nat /\ \A k \in U : k <= Len(a)
    BY <1>1, <1>3
  <2>2. n = Edits!Max(U)
    BY DEF Edits!CommonEnd
  <2> HIDE DEF U, n
  <2> QED
    BY <2>1, <2>2, MaxIs
<1>5. n \in Nat /\ m + n <= Len(a) /\ m + n <= Len(b) /\ \A i \in 1..n : a[Len(a) + 1 - i] = b[Len(b) + 1 - i]
  BY <1>1, <1>3, <1>4
<1> QED
  BY <1>3, <1>5 DEF m

LEMMA StartsJoin ==
  ASSUME NEW b \in Seq(Lines), NEW j \in Nat, NEW k \in Nat, j <= k, k <= Len(b)
  PROVE  SubSeq(b, 1, j) \o SubSeq(b, j + 1, k) = SubSeq(b, 1, k)
<1>1. PICK i \in Nat : i = 0
  OBVIOUS
<1>2. i + 1 = 1 /\ i <= j
  BY <1>1
<1>3. SubSeq(b, i + 1, j) \o SubSeq(b, j + 1, k) = SubSeq(b, i + 1, k)
  BY <1>2, SubSeqsJoin
<1> QED
  BY <1>2, <1>3

LEMMA SingleRangeFits ==
  ASSUME NEW a \in Seq(Lines), NEW b \in Seq(Lines)
  PROVE  FittingAll(a, b, Edits!SingleRange(a, b))
<1> DEFINE m == Edits!CommonStart(a, b)
           n == Edits!CommonEnd(a, b, m)
           i == Len(a) - n
           j == Len(b) - n
           e == Edits!Edit(a, b, m, i, m, j)
<1>1. /\ m \in Nat /\ n \in Nat /\ m + n <= Len(a) /\ m + n <= Len(b)
      /\ \A k \in 1..m : a[k] = b[k]
      /\ \A k \in 1..n : a[Len(a) + 1 - k] = b[Len(b) + 1 - k]
  BY CommonIs
<1>2. Edits!SingleRange(a, b) = <<e>>
  BY DEF Edits!SingleRange
<1> HIDE DEF m, n
<1>3. /\ i \in Nat /\ j \in Nat /\ m <= i /\ m <= j /\ i <= Len(a) /\ j <= Len(b) /\ Len(a) \in Nat /\ Len(b) \in Nat
      /\ m <= Len(a) /\ m <= Len(b) /\ Len(a) - i = n /\ Len(b) - j = n /\ 0 <= m
  BY <1>1
<1>a. MadeOf(a, b, m, i, m, j, e)
  <2> HIDE DEF i, j
  <2> QED
    BY <1>1, <1>3, EditMade
<1>4. e \in EditsOf(a) /\ e.from = m /\ e.to = i /\ e.replacement = SubSeq(b, m + 1, j)
  BY <1>a DEF MadeOf
<1> HIDE DEF e
<1>5. <<e>> \in Seq(EditsOf(a)) /\ OneByOne(<<e>>) /\ Edits!ToSet(<<e>>) = {} \cup {e}
  <2>1. DOMAIN <<e>> = {1} /\ <<e>>[1] = e /\ <<e>> \in Seq(EditsOf(a))
    BY <1>4
  <2>2. \A k, l \in {1} : ~(k < l)
    OBVIOUS
  <2> DEFINE s == <<e>>
  <2> HIDE DEF s
  <2>3. OneByOne(s) /\ Edits!ToSet(s) = {} \cup {e} /\ s \in Seq(EditsOf(a))
    BY <2>1, <2>2 DEF OneByOne, Edits!ToSet, s
  <2> QED
    BY <2>3 DEF s
<1>6. Edits!Replaced(a, {} \cup {e}) = SubSeq(a, 1, m) \o SubSeq(b, m + 1, j) \o SubSeq(a, i + 1, Len(a))
  <2>1. {} \in SUBSET EditsOf(a) /\ FarApart({}) /\ \A x \in {} : e.to < x.from
    BY DEF FarApart
  <2>2. Edits!Replaced(a, {} \cup {e}) =
           SubSeq(a, 1, e.from) \o e.replacement
             \o SubSeq(Edits!Replaced(a, {}), e.to + 1, Len(Edits!Replaced(a, {})))
    BY <1>4, <2>1, OneAbove
  <2> QED
    BY <1>4, <2>2, NothingReplaced
<1>7. SubSeq(a, 1, m) = SubSeq(b, 1, m)
  <2> DEFINE x == SubSeq(a, 1, m)
             y == SubSeq(b, 1, m)
  <2>1. x \in Seq(Lines) /\ Len(x) = m /\ \A k \in 1..m : x[k] = a[k]
    BY <1>1, <1>3
  <2>2. y \in Seq(Lines) /\ Len(y) = m /\ \A k \in 1..m : y[k] = b[k]
    BY <1>1, <1>3
  <2> HIDE DEF x, y
  <2>3. \A k \in 1..m : x[k] = y[k]
    BY <1>1, <2>1, <2>2
  <2>4. x = y
    BY <1>1, <2>1, <2>2, <2>3, SeqEqual
  <2> QED
    BY <2>4 DEF x, y
<1>8. SubSeq(a, i + 1, Len(a)) = SubSeq(b, j + 1, Len(b))
  <2> DEFINE x == SubSeq(a, i + 1, Len(a))
             y == SubSeq(b, j + 1, Len(b))
  <2> HIDE DEF i, j
  <2>1. x \in Seq(Lines) /\ Len(x) = n /\ \A k \in 1..n : x[k] = a[i + k]
    <3>1. /\ x \in Seq(Lines) /\ Len(x) = Len(a) - i /\ \A k \in 1..(Len(a) - i) : x[k] = a[i + k]
      BY <1>3, SubSeqIs
    <3> QED
      BY <1>3, <3>1
  <2>2. y \in Seq(Lines) /\ Len(y) = n /\ \A k \in 1..n : y[k] = b[j + k]
    <3>1. /\ y \in Seq(Lines) /\ Len(y) = Len(b) - j /\ \A k \in 1..(Len(b) - j) : y[k] = b[j + k]
      BY <1>3, SubSeqIs
    <3> QED
      BY <1>3, <3>1
  <2>3. n \in Nat /\ i \in Nat /\ j \in Nat /\ Len(a) = i + n /\ Len(b) = j + n
    BY <1>1, <1>3
  <2>4. \A k \in 1..n : a[i + k] = b[j + k]
    <3> TAKE k \in 1..n
    <3> DEFINE l == n + 1 - k
    <3>1. l \in 1..n /\ Len(a) + 1 - l = i + k /\ Len(b) + 1 - l = j + k
      BY <2>3
    <3> HIDE DEF l
    <3> QED
      BY <1>1, <3>1
  <2> HIDE DEF x, y
  <2>5. x = y
    BY <2>1, <2>2, <2>3, <2>4, SeqEqual
  <2> QED
    BY <2>5 DEF x, y
<1>9. SubSeq(b, 1, m) \o SubSeq(b, m + 1, j) \o SubSeq(b, j + 1, Len(b)) = b
  <2> HIDE DEF i, j
  <2>1. SubSeq(b, 1, m) \o SubSeq(b, m + 1, j) = SubSeq(b, 1, j)
    BY <1>1, <1>3, StartsJoin
  <2>2. SubSeq(b, 1, j) \o SubSeq(b, j + 1, Len(b)) = SubSeq(b, 1, Len(b))
    <3>1. Len(b) <= Len(b)
      BY <1>3
    <3> QED
      BY <1>3, <3>1, StartsJoin
  <2>3. SubSeq(b, 1, Len(b)) = b
    OBVIOUS
  <2> QED
    BY <2>1, <2>2, <2>3
<1> QED
  BY <1>2, <1>5, <1>6, <1>7, <1>8, <1>9 DEF FittingAll

LEMMA SuggestedFits ==
  ASSUME NEW a \in Seq(Lines), NEW b \in Seq(Lines)
  PROVE  FittingAll(a, b, Edits!Suggested(a, b))
<1>1. CASE a = b
  <2>1. <<>> \in Seq(EditsOf(a)) /\ OneByOne(<<>>) /\ Edits!ToSet(<<>>) = {}
    BY DEF OneByOne, Edits!ToSet
  <2>2. Edits!Replaced(a, {}) = b
    BY <1>1, NothingReplaced
  <2> QED
    BY <1>1, <2>1, <2>2 DEF FittingAll, Edits!Suggested
<1>2. CASE a # b /\ Len(a) * Len(b) > MaxCells
  <2>1. Edits!Suggested(a, b) = Edits!SingleRange(a, b)
    BY <1>2 DEF Edits!Suggested
  <2> QED
    BY <2>1, SingleRangeFits
<1>3. CASE a # b /\ ~(Len(a) * Len(b) > MaxCells)
  <2> DEFINE s == Edits!ByLine(a, b)
  <2>1. Edits!Suggested(a, b) = Edits!Select(s, {k \in DOMAIN s : s[k].original # s[k].replacement})
    BY <1>3 DEF Edits!Suggested
  <2>2. FittingAll(a, b, s) /\ Edits!Select(s, {k \in DOMAIN s : s[k].original # s[k].replacement}) = s
    BY ByLineFits
  <2> HIDE DEF s
  <2> QED
    BY <2>1, <2>2
<1> QED
  BY <1>1, <1>2, <1>3

-----------------------------------------------------------------------------
(* Where an edit is found, and what the text is once it is there.            *)

WaitingEdit == [from : Nat, to : Nat, original : Seq(Lines), replacement : Seq(Lines), id : Nat]

RangeAt(n, q) == [from |-> n, to |-> n + Len(q.original)]

LEMMA ResolvedThere ==
  ASSUME NEW x \in Seq(Lines), NEW q \in WaitingEdit, q.to = q.from + Len(q.original), q.to <= Len(x),
         SubSeq(x, q.from + 1, q.to) = q.original
  PROVE  Edits!Resolve(x, q) = RangeAt(q.from, q)
<1>1. /\ q.from \in Nat /\ q.to \in Nat /\ Len(x) \in Nat /\ Len(q.original) \in Nat
      /\ q.from <= q.to /\ q.from <= Len(x)
  BY DEF WaitingEdit
<1>2. Edits!Bounded(q.from, 0, Len(x)) = q.from /\ Edits!Bounded(q.to, q.from, Len(x)) = q.to
  BY <1>1 DEF Edits!Bounded
<1> QED
  BY <1>2 DEF Edits!Resolve, RangeAt

LEMMA PlacesAre ==
  ASSUME NEW x \in Seq(Lines), NEW o \in Seq(Lines)
  PROVE  /\ IsFiniteSet(Edits!Places(x, o)) /\ Edits!Places(x, o) \in SUBSET Nat
         /\ \A n \in Nat : n \in Edits!Places(x, o) <=> n + Len(o) <= Len(x) /\ SubSeq(x, n + 1, n + Len(o)) = o
<1>1. Len(x) \in Nat /\ Len(o) \in Nat
  OBVIOUS
<1>2. IsFiniteSet(0..Len(x))
  BY <1>1, FS_Interval
<1>3. Edits!Places(x, o) \in SUBSET (0..Len(x))
  BY DEF Edits!Places
<1>4. IsFiniteSet(Edits!Places(x, o)) /\ Edits!Places(x, o) \in SUBSET Nat
  BY <1>2, <1>3, FS_Subset
<1>5. ASSUME NEW n \in Nat
      PROVE  n \in Edits!Places(x, o) <=> n + Len(o) <= Len(x) /\ SubSeq(x, n + 1, n + Len(o)) = o
  <2>1. n + Len(o) <= Len(x) => n \in 0..Len(x)
    BY <1>1
  <2> QED
    BY <2>1 DEF Edits!Places
<1> QED
  BY <1>4, <1>5

LEMMA ResolvedFound ==
  ASSUME NEW x \in Seq(Lines), NEW q \in WaitingEdit, Edits!FoundAgain(q, x), NEW n \in Edits!Places(x, q.original)
  PROVE  Edits!Resolve(x, q) = RangeAt(n, q)
<1> DEFINE o == q.original
           P == Edits!Places(x, o)
           from == Edits!Bounded(q.from, 0, Len(x))
           to == Edits!Bounded(q.to, from, Len(x))
           near == {m \in P : m + Reach >= from /\ m + Len(o) <= to + Reach}
           found == IF near # {} THEN near ELSE P
<1>1. q.from \in Nat /\ q.to \in Nat /\ Len(x) \in Nat /\ o \in Seq(Lines) /\ Len(o) \in Nat
  BY DEF WaitingEdit
<1>2. o # <<>> /\ P = {n}
  <2>1. o # <<>> /\ Cardinality(P) = 1
    BY DEF Edits!FoundAgain, Edits!Cardinality, Cardinality
  <2>2. IsFiniteSet(P)
    BY <1>1, PlacesAre
  <2>3. \E m : P = {m}
    <3> HIDE DEF P
    <3> QED
      BY <2>1, <2>2, FS_Singleton
  <2> QED
    BY <2>1, <2>3
<1>3. n \in Nat /\ n + Len(o) <= Len(x)
  BY <1>1, PlacesAre
<1>4. from \in Nat /\ to \in Nat /\ from <= to /\ to <= Len(x)
  BY <1>1 DEF Edits!Bounded
<1>5. Edits!Resolve(x, q) =
        IF SubSeq(x, from + 1, to) = o \/ o = <<>> \/ found = {} THEN [from |-> from, to |-> to]
        ELSE [from |-> Edits!FirstOf(found), to |-> Edits!FirstOf(found) + Len(o)]
  BY DEF Edits!Resolve
<1> HIDE DEF from, to
<1>6. CASE SubSeq(x, from + 1, to) = o
  <2>1. Len(o) = to - from
    BY <1>4, <1>6, SubSeqIs
  <2>2. from + Len(o) = to
    BY <1>1, <1>4, <2>1
  <2>3. from \in P
    BY <1>1, <1>4, <1>6, <2>2, PlacesAre
  <2>4. from = n
    BY <1>2, <2>3
  <2> QED
    BY <1>5, <1>6, <2>2, <2>4 DEF RangeAt
<1>7. CASE SubSeq(x, from + 1, to) # o
  <2>1. found = {n}
    <3> HIDE DEF P
    <3> QED
      BY <1>2
  <2>2. Edits!FirstOf(found) = n
    <3> HIDE DEF found
    <3>1. \A m \in found : m = n
      BY <2>1
    <3>2. n \in found /\ \A m \in found : n <= m
      BY <1>3, <2>1
    <3> QED
      BY <3>1, <3>2 DEF Edits!FirstOf
  <2>3. found # {}
    BY <2>1
  <2> HIDE DEF found, o
  <2>4. Edits!Resolve(x, q) = [from |-> n, to |-> n + Len(o)]
    BY <1>2, <1>5, <1>7, <2>2, <2>3
  <2> QED
    BY <2>4 DEF RangeAt, o
<1> QED
  BY <1>6, <1>7

\* An edit of `a` as it waits for a decision, when others have been accepted
\* and the text has become the last of `g`.
PlacedNow(g, e, q) ==
  /\ q.id = e.id /\ q.original = e.original /\ q.replacement = e.replacement
  /\ q.from = Len(g[e.from]) /\ q.to = Len(g[e.from]) + Len(e.original)

LEMMA PlaceIs ==
  ASSUME NEW a \in Seq(Lines), NEW S \in SUBSET EditsOf(a), NEW e \in EditsOf(a), e \notin S, FarApart(S \cup {e}),
         NEW g, Grown(a, S, g)
  PROVE  /\ Len(g[e.from]) \in Nat /\ Len(g[e.from]) \in Edits!Places(g[Len(a)], e.original)
         /\ g[Len(a)] \in Seq(Lines)
<1>1. S \cup {e} \in SUBSET EditsOf(a)
  OBVIOUS
<1>2. PICK h : Grown(a, S \cup {e}, h)
  BY <1>1, EditsHaveLines, GrownThere
<1>3. Splits(a, e, g, h)
  BY <1>2, OneMoreEdit
<1>4. PICK r \in Seq(Lines) : g[Len(a)] = g[e.from] \o e.original \o r
  BY <1>3 DEF Splits
<1>5. g[e.from] \in Seq(Lines) /\ e.original \in Seq(Lines) /\ g[Len(a)] \in Seq(Lines)
  <2>1. e.from \in Nat /\ e.from <= Len(a) /\ e.original \in Seq(Lines) /\ Len(a) \in Nat /\ Len(a) <= Len(a)
    BY EditIs
  <2> QED
    BY <2>1, GrownTyped
<1> DEFINE x == g[e.from]
           y == e.original
           t == g[Len(a)]
<1>6. x \in Seq(Lines) /\ y \in Seq(Lines) /\ t \in Seq(Lines) /\ t = x \o y \o r
  BY <1>4, <1>5
<1> HIDE DEF x, y, t
<1>7. Len(t) = Len(x) + Len(y) + Len(r) /\ SubSeq(t, Len(x) + 1, Len(x) + Len(y)) = y
  BY <1>6, Spliced
<1>8. Len(x) \in Nat /\ Len(y) \in Nat /\ Len(r) \in Nat
  BY <1>6
<1>9. Len(x) \in Edits!Places(t, y)
  <2>1. Len(x) + Len(y) <= Len(t)
    BY <1>7, <1>8
  <2> QED
    BY <1>6, <1>7, <1>8, <2>1, PlacesAre
<1> QED
  BY <1>6, <1>8, <1>9 DEF x, y, t

LEMMA AppliedIs ==
  ASSUME NEW a \in Seq(Lines), NEW S \in SUBSET EditsOf(a), NEW e \in EditsOf(a), e \notin S, FarApart(S \cup {e}),
         NEW g, NEW h, Grown(a, S, g), Grown(a, S \cup {e}, h), NEW q \in WaitingEdit, PlacedNow(g, e, q)
  PROVE  Edits!Apply(g[Len(a)], q) = h[Len(a)]
<1> DEFINE x == g[e.from]
           y == e.original
           t == g[Len(a)]
<1>1. Splits(a, e, g, h)
  BY OneMoreEdit
<1>2. PICK r \in Seq(Lines) : t = x \o y \o r /\ h[Len(a)] = x \o e.replacement \o r
  BY <1>1 DEF Splits
<1>3. x \in Seq(Lines) /\ y \in Seq(Lines) /\ t \in Seq(Lines)
  <2>1. e.from \in Nat /\ e.from <= Len(a) /\ e.original \in Seq(Lines) /\ Len(a) \in Nat /\ Len(a) <= Len(a)
    BY EditIs
  <2> QED
    BY <2>1, GrownTyped
<1>4. q.from = Len(x) /\ q.to = Len(x) + Len(y) /\ q.original = y /\ q.replacement = e.replacement
  BY DEF PlacedNow
<1> HIDE DEF x, y, t
<1>5. /\ Len(t) = Len(x) + Len(y) + Len(r) /\ SubSeq(t, 1, Len(x)) = x
      /\ SubSeq(t, Len(x) + 1, Len(x) + Len(y)) = y
      /\ SubSeq(t, Len(x) + Len(y) + 1, Len(t)) = r
  BY <1>2, <1>3, Spliced
<1>6. Edits!Resolve(t, q) = RangeAt(q.from, q)
  <2>1. q.to = q.from + Len(q.original)
    BY <1>4
  <2>2. q.to <= Len(t)
    <3>1. Len(x) \in Nat /\ Len(y) \in Nat /\ Len(r) \in Nat
      BY <1>3
    <3> QED
      BY <1>4, <1>5, <3>1
  <2>3. SubSeq(t, q.from + 1, q.to) = q.original
    BY <1>4, <1>5
  <2> QED
    BY <1>3, <2>1, <2>2, <2>3, ResolvedThere
<1>7. Edits!Resolve(t, q).from = Len(x) /\ Edits!Resolve(t, q).to = Len(x) + Len(y)
  BY <1>4, <1>6 DEF RangeAt
<1>8. Edits!Apply(t, q) = SubSeq(t, 1, Len(x)) \o q.replacement \o SubSeq(t, Len(x) + Len(y) + 1, Len(t))
  BY <1>7 DEF Edits!Apply
<1> QED
  BY <1>2, <1>4, <1>5, <1>8 DEF t

-----------------------------------------------------------------------------
(* The edits that wait, when one of them is accepted or rejected.            *)

Kth(k, i) == IF i < k THEN i ELSE i + 1

LEMMA RemovedAt ==
  ASSUME NEW V, NEW p \in Seq(V), NEW k \in DOMAIN p
  PROVE  /\ Edits!RemoveAt(p, k) \in Seq(V)
         /\ \A i \in DOMAIN Edits!RemoveAt(p, k) :
              /\ i \in Nat /\ Kth(k, i) \in DOMAIN p /\ Kth(k, i) # k
              /\ Edits!RemoveAt(p, k)[i] = p[Kth(k, i)]
<1> DEFINE x == SubSeq(p, 1, k - 1)
           y == SubSeq(p, k + 1, Len(p))
           r == x \o y
<1>1. k \in Nat /\ Len(p) \in Nat /\ 1 <= k /\ k <= Len(p)
  OBVIOUS
<1>2. /\ x \in Seq(V) /\ Len(x) = k - 1 /\ \A i \in 1..(k - 1) : x[i] = p[i]
      /\ y \in Seq(V) /\ Len(y) = Len(p) - k /\ \A i \in 1..(Len(p) - k) : y[i] = p[k + i]
  BY <1>1
<1>3. Edits!RemoveAt(p, k) = r
  BY DEF Edits!RemoveAt
<1> HIDE DEF x, y
<1>4. x \in Seq(V) /\ y \in Seq(V)
  BY <1>2
<1>5. /\ r \in Seq(V) /\ Len(r) = Len(x) + Len(y)
      /\ \A i \in 1..(Len(x) + Len(y)) : r[i] = IF i <= Len(x) THEN x[i] ELSE y[i - Len(x)]
  BY <1>4, ConcatProperties
<1> HIDE DEF r
<1>6. DOMAIN r = 1..(Len(p) - 1)
  BY <1>1, <1>2, <1>5
<1>7. ASSUME NEW i \in DOMAIN r
      PROVE  i \in Nat /\ Kth(k, i) \in DOMAIN p /\ Kth(k, i) # k /\ r[i] = p[Kth(k, i)]
  <2>1. i \in Nat /\ 1 <= i /\ i <= Len(p) - 1 /\ i \in 1..(Len(x) + Len(y))
    BY <1>1, <1>2, <1>6
  <2>2. CASE i < k
    <3>1. i \in 1..(k - 1) /\ i <= Len(x)
      BY <1>1, <1>2, <2>1, <2>2
    <3>2. r[i] = p[i] /\ Kth(k, i) = i
      BY <1>2, <1>5, <2>1, <2>2, <3>1 DEF Kth
    <3> QED
      BY <1>1, <2>1, <2>2, <3>2
  <2>3. CASE ~(i < k)
    <3>1. i - (k - 1) \in 1..(Len(p) - k) /\ ~(i <= Len(x)) /\ k + (i - (k - 1)) = i + 1
      <4>1. Len(x) = k - 1
        BY <1>2
      <4>2. i - (k - 1) >= 1 /\ i - (k - 1) <= Len(p) - k /\ k + (i - (k - 1)) = i + 1 /\ i - (k - 1) \in Int
        BY <1>1, <2>1, <2>3
      <4> QED
        BY <1>1, <2>1, <2>3, <4>1, <4>2
    <3>2. r[i] = y[i - (k - 1)]
      BY <1>2, <1>5, <2>1, <3>1
    <3>3. y[i - (k - 1)] = p[k + (i - (k - 1))]
      BY <1>2, <3>1
    <3>4. r[i] = p[i + 1] /\ Kth(k, i) = i + 1
      BY <2>3, <3>1, <3>2, <3>3 DEF Kth
    <3>5. i + 1 \in DOMAIN p /\ i + 1 # k
      BY <1>1, <2>1, <2>3
    <3> QED
      BY <2>1, <3>4, <3>5
  <2> QED
    BY <2>2, <2>3
<1> QED
  BY <1>3, <1>5, <1>7

\* Of the edits `E` of `a` those in `A` are accepted, and each of `p` is one of
\* the others, one after the other.
Waiting(E, A, g, p) ==
  /\ p \in Seq(WaitingEdit)
  /\ \A k \in DOMAIN p : \E e \in E \ A : PlacedNow(g, e, p[k])
  /\ \A k, l \in DOMAIN p : k < l => p[k].id < p[l].id

LEMMA WaitingLess ==
  ASSUME NEW E, NEW A, NEW g, NEW p, Waiting(E, A, g, p), NEW k \in DOMAIN p
  PROVE  Waiting(E, A, g, Edits!RemoveAt(p, k))
<1> DEFINE r == Edits!RemoveAt(p, k)
<1>1. /\ p \in Seq(WaitingEdit)
      /\ \A l \in DOMAIN p : \E e \in E \ A : PlacedNow(g, e, p[l])
      /\ \A l, m \in DOMAIN p : l < m => p[l].id < p[m].id
  BY DEF Waiting
<1>2. /\ r \in Seq(WaitingEdit)
      /\ \A i \in DOMAIN r : i \in Nat /\ Kth(k, i) \in DOMAIN p /\ r[i] = p[Kth(k, i)]
  BY <1>1, RemovedAt
<1> HIDE DEF r
<1>3. k \in Nat
  BY <1>1
<1>4. ASSUME NEW i \in DOMAIN r, NEW j \in DOMAIN r, i < j PROVE r[i].id < r[j].id
  <2>1. Kth(k, i) < Kth(k, j)
    BY <1>2, <1>3, <1>4 DEF Kth
  <2>2. Kth(k, i) \in DOMAIN p /\ Kth(k, j) \in DOMAIN p /\ r[i] = p[Kth(k, i)] /\ r[j] = p[Kth(k, j)]
    BY <1>2
  <2> QED
    BY <1>1, <2>1, <2>2
<1>5. Waiting(E, A, g, r)
  BY <1>1, <1>2, <1>4 DEF Waiting
<1> QED
  BY <1>5 DEF r

\* An edit that is still to come, when `e` is: below `e` it has to be found
\* again, above it stays where it was.
LEMMA StillPlaced ==
  ASSUME NEW a \in Seq(Lines), NEW E \in SUBSET EditsOf(a), FarApart(E), NEW A \in SUBSET E,
         NEW e \in E, NEW f \in E \ (A \cup {e}), NEW g, NEW h, Grown(a, A, g), Grown(a, A \cup {e}, h),
         NEW q \in WaitingEdit, PlacedNow(g, f, q), f.id < e.id \/ Edits!FoundAgain(q, h[Len(a)])
  PROVE  Edits!Resolve(h[Len(a)], q) = RangeAt(Len(h[f.from]), q)
<1> DEFINE U == A \cup {e}
           t == h[Len(a)]
           n == Len(h[f.from])
<1>1. U \in SUBSET EditsOf(a) /\ A \in SUBSET EditsOf(a) /\ FarApart(U) /\ FarApart(A) /\ f \notin U /\ FarApart(U \cup {f})
  BY DEF FarApart
<1>2. f \in EditsOf(a) /\ e \in EditsOf(a)
  OBVIOUS
<1>3. n \in Nat /\ n \in Edits!Places(t, f.original) /\ t \in Seq(Lines)
  <2>1. Grown(a, U, h)
    OBVIOUS
  <2> HIDE DEF U
  <2> QED
    BY <1>1, <1>2, <2>1, PlaceIs
<1>4. q.original = f.original /\ q.original \in Seq(Lines)
  BY DEF PlacedNow, WaitingEdit
<1>5. CASE f.id < e.id
  <2>1. h[f.from] = g[f.from]
    <3>1. /\ f.from \in Nat /\ f.from <= Len(a) /\ f.from < e.from
      BY <1>2, <1>5, EditIs
    <3>2. e.from \in Nat
      BY <1>2, EditIs
    <3>3. AgreeTo(A, U, f.from)
      BY <3>1, <3>2 DEF AgreeTo
    <3>4. Grown(a, U, h)
      OBVIOUS
    <3> HIDE DEF U
    <3> QED
      BY <1>1, <3>1, <3>3, <3>4, GrownSame
  <2>2. q.from = n /\ q.to = n + Len(q.original)
    BY <1>4, <2>1 DEF PlacedNow
  <2> HIDE DEF n, t
  <2>3. n + Len(q.original) <= Len(t) /\ SubSeq(t, n + 1, n + Len(q.original)) = q.original
    BY <1>3, <1>4, PlacesAre
  <2>4. Edits!Resolve(t, q) = RangeAt(q.from, q)
    <3>1. q.to = q.from + Len(q.original) /\ q.to <= Len(t) /\ SubSeq(t, q.from + 1, q.to) = q.original
      BY <2>2, <2>3
    <3> QED
      BY <1>3, <3>1, ResolvedThere
  <2> QED
    BY <2>2, <2>4 DEF n, t
<1>6. CASE Edits!FoundAgain(q, t)
  <2> HIDE DEF n, t
  <2>1. n \in Edits!Places(t, q.original)
    BY <1>3, <1>4
  <2>2. Edits!Resolve(t, q) = RangeAt(n, q)
    BY <1>3, <1>6, <2>1, ResolvedFound
  <2> QED
    BY <2>2 DEF n, t
<1> QED
  BY <1>5, <1>6

Moved(x, r) ==
  [i \in DOMAIN r |-> [r[i] EXCEPT !.from = Edits!Resolve(x, r[i]).from, !.to = Edits!Resolve(x, r[i]).to]]

\* All that wait are found again: none is dropped, and each is at its place.
LEMMA WaitingMoved ==
  ASSUME NEW a \in Seq(Lines), NEW E \in SUBSET EditsOf(a), FarApart(E), NEW U \in SUBSET E, NEW h, Grown(a, U, h),
         NEW r \in Seq(WaitingEdit),
         \A i \in DOMAIN r : \E f \in E \ U :
            /\ r[i].id = f.id /\ r[i].original = f.original /\ r[i].replacement = f.replacement
            /\ Edits!Resolve(h[Len(a)], r[i]) = RangeAt(Len(h[f.from]), r[i]),
         \A i, j \in DOMAIN r : i < j => r[i].id < r[j].id
  PROVE  Waiting(E, U, h, Edits!Reanchored(h[Len(a)], r))
<1> DEFINE t == h[Len(a)]
           m == Moved(t, r)
<1>1. ASSUME NEW i \in DOMAIN r
      PROVE  /\ m[i] \in WaitingEdit /\ m[i].id = r[i].id
             /\ \E f \in E \ U : PlacedNow(h, f, m[i])
             /\ m[i].original = <<>> \/ SubSeq(t, m[i].from + 1, m[i].to) = m[i].original
  <2>1. PICK f \in E \ U : /\ r[i].id = f.id /\ r[i].original = f.original /\ r[i].replacement = f.replacement
                           /\ Edits!Resolve(t, r[i]) = RangeAt(Len(h[f.from]), r[i])
    OBVIOUS
  <2> DEFINE n == Len(h[f.from])
  <2>2. f \in EditsOf(a) /\ U \in SUBSET EditsOf(a) /\ f \notin U /\ FarApart(U \cup {f})
    BY DEF FarApart
  <2>3. n \in Nat /\ n \in Edits!Places(t, f.original) /\ t \in Seq(Lines)
    BY <2>2, PlaceIs
  <2>4. f.original \in Seq(Lines)
    BY <2>2, EditIs
  <2> HIDE DEF n, t
  <2>5. n + Len(f.original) <= Len(t) /\ SubSeq(t, n + 1, n + Len(f.original)) = f.original
    BY <2>3, <2>4, PlacesAre
  <2>6. Edits!Resolve(t, r[i]).from = n /\ Edits!Resolve(t, r[i]).to = n + Len(f.original)
    BY <2>1 DEF RangeAt, n
  <2>7. m[i] = [r[i] EXCEPT !.from = n, !.to = n + Len(f.original)]
    BY <2>6 DEF Moved
  <2>8. r[i] \in WaitingEdit /\ n + Len(f.original) \in Nat
    BY <2>3, <2>4
  <2> HIDE DEF m
  <2>9. /\ m[i] \in WaitingEdit /\ m[i].id = r[i].id /\ m[i].original = r[i].original /\ m[i].replacement = r[i].replacement
        /\ m[i].from = n /\ m[i].to = n + Len(f.original)
    BY <2>3, <2>7, <2>8 DEF WaitingEdit
  <2>10. PlacedNow(h, f, m[i])
    BY <2>1, <2>9 DEF PlacedNow, n
  <2> QED
    BY <2>1, <2>5, <2>9, <2>10
<1>2. m \in Seq(WaitingEdit) /\ DOMAIN m = DOMAIN r
  <2>1. DOMAIN r = 1..Len(r) /\ Len(r) \in Nat
    OBVIOUS
  <2>2. m = [i \in 1..Len(r) |-> m[i]]
    BY <2>1 DEF Moved
  <2>3. \A i \in 1..Len(r) : m[i] \in WaitingEdit
    BY <1>1, <2>1
  <2> HIDE DEF m
  <2> QED
    BY <2>1, <2>2, <2>3
<1>3. Edits!Reanchored(t, r) = m
  <2>1. Edits!Reanchored(t, r) =
          Edits!Select(m, {i \in DOMAIN m : m[i].original = <<>> \/ SubSeq(t, m[i].from + 1, m[i].to) = m[i].original})
    BY DEF Edits!Reanchored, Moved
  <2> HIDE DEF m, t
  <2>2. {i \in DOMAIN m : m[i].original = <<>> \/ SubSeq(t, m[i].from + 1, m[i].to) = m[i].original} = DOMAIN m
    BY <1>1, <1>2
  <2> QED
    BY <1>2, <2>1, <2>2, SelectsEdits, SelectAll
<1> HIDE DEF m
<1>4. Waiting(E, U, h, m)
  <2>1. \A k \in DOMAIN m : \E e \in E \ U : PlacedNow(h, e, m[k])
    BY <1>1, <1>2
  <2>2. \A k, l \in DOMAIN m : k < l => m[k].id < m[l].id
    BY <1>1, <1>2
  <2> QED
    BY <1>2, <2>1, <2>2 DEF Waiting
<1> QED
  BY <1>3, <1>4

LEMMA WaitingOn ==
  ASSUME NEW a \in Seq(Lines), NEW E \in SUBSET EditsOf(a), FarApart(E), NEW A \in SUBSET E, NEW g, Grown(a, A, g),
         NEW p, Waiting(E, A, g, p), NEW k \in DOMAIN p, NEW e \in E \ A, PlacedNow(g, e, p[k]),
         NEW h, Grown(a, A \cup {e}, h), \A l \in (k + 1)..Len(p) : Edits!FoundAgain(p[l], h[Len(a)])
  PROVE  Waiting(E, A \cup {e}, h, Edits!Reanchored(h[Len(a)], Edits!RemoveAt(p, k)))
<1> DEFINE r == Edits!RemoveAt(p, k)
           t == h[Len(a)]
<1>1. /\ p \in Seq(WaitingEdit) /\ \A l \in DOMAIN p : \E f \in E \ A : PlacedNow(g, f, p[l])
      /\ \A l, m \in DOMAIN p : l < m => p[l].id < p[m].id
  BY DEF Waiting
<1>2. /\ r \in Seq(WaitingEdit)
      /\ \A i \in DOMAIN r : i \in Nat /\ Kth(k, i) \in DOMAIN p /\ Kth(k, i) # k /\ r[i] = p[Kth(k, i)]
  BY <1>1, RemovedAt
<1>3. k \in Nat /\ DOMAIN p = 1..Len(p) /\ Len(p) \in Nat /\ \A l \in DOMAIN p : p[l] \in WaitingEdit
  BY <1>1
<1>4. p[k].id = e.id /\ e \in EditsOf(a) /\ e.id \in Nat
  BY <1>3 DEF PlacedNow, WaitingEdit
<1> HIDE DEF r, t
<1>5. ASSUME NEW l \in DOMAIN p, l # k
      PROVE  \E f \in E \ (A \cup {e}) :
               /\ p[l].id = f.id /\ p[l].original = f.original /\ p[l].replacement = f.replacement
               /\ Edits!Resolve(t, p[l]) = RangeAt(Len(h[f.from]), p[l])
  <2>1. PICK f \in E \ A : PlacedNow(g, f, p[l])
    BY <1>1
  <2>2. p[l].id = f.id /\ p[l].original = f.original /\ p[l].replacement = f.replacement
    BY <2>1 DEF PlacedNow
  <2>3. l < k \/ k < l
    BY <1>3, <1>5
  <2>4. p[l].id \in Nat
    BY <1>3 DEF WaitingEdit
  <2>5. f # e
    <3>1. p[l].id < p[k].id \/ p[k].id < p[l].id
      BY <1>1, <2>3
    <3> QED
      BY <1>4, <2>2, <2>4, <3>1
  <2>6. f.id < e.id \/ Edits!FoundAgain(p[l], t)
    <3>1. CASE l < k
      <4>1. p[l].id < p[k].id
        BY <1>1, <3>1
      <4> QED
        BY <1>4, <2>2, <4>1
    <3>2. CASE k < l
      <4>1. l \in (k + 1)..Len(p)
        BY <1>3, <3>2
      <4> QED
        BY <4>1 DEF t
    <3> QED
      BY <2>3, <3>1, <3>2
  <2>7. f \in E \ (A \cup {e}) /\ p[l] \in WaitingEdit
    BY <1>3, <2>5
  <2>8. Edits!Resolve(t, p[l]) = RangeAt(Len(h[f.from]), p[l])
    BY <2>1, <2>6, <2>7, StillPlaced DEF t
  <2> QED
    BY <2>2, <2>7, <2>8
<1>6. \A i \in DOMAIN r : \E f \in E \ (A \cup {e}) :
            /\ r[i].id = f.id /\ r[i].original = f.original /\ r[i].replacement = f.replacement
            /\ Edits!Resolve(t, r[i]) = RangeAt(Len(h[f.from]), r[i])
  BY <1>2, <1>5
<1>7. \A i, j \in DOMAIN r : i < j => r[i].id < r[j].id
  <2> SUFFICES ASSUME NEW i \in DOMAIN r, NEW j \in DOMAIN r, i < j PROVE r[i].id < r[j].id
    OBVIOUS
  <2>1. Kth(k, i) < Kth(k, j)
    BY <1>2, <1>3 DEF Kth
  <2>2. Kth(k, i) \in DOMAIN p /\ Kth(k, j) \in DOMAIN p /\ r[i] = p[Kth(k, i)] /\ r[j] = p[Kth(k, j)]
    BY <1>2
  <2> QED
    BY <1>1, <2>1, <2>2
<1>8. Waiting(E, A \cup {e}, h, Edits!Reanchored(t, r))
  <2> DEFINE U == A \cup {e}
  <2>1. U \in SUBSET E /\ Grown(a, U, h)
    OBVIOUS
  <2>2. \A i \in DOMAIN r : \E f \in E \ U :
            /\ r[i].id = f.id /\ r[i].original = f.original /\ r[i].replacement = f.replacement
            /\ Edits!Resolve(t, r[i]) = RangeAt(Len(h[f.from]), r[i])
    BY <1>6
  <2> HIDE DEF U
  <2>3. Waiting(E, U, h, Edits!Reanchored(t, r))
    BY <1>2, <1>7, <2>1, <2>2, WaitingMoved DEF t
  <2> QED
    BY <2>3 DEF U
<1> QED
  BY <1>8 DEF r, t

\* All that wait, from the last to the first.
Chosen(E, p) == {e \in E : \E k \in DOMAIN p : p[k].id = e.id}

LEMMA AllApplied ==
  ASSUME NEW a \in Seq(Lines), NEW E \in SUBSET EditsOf(a), FarApart(E), NEW A \in SUBSET E, NEW g, Grown(a, A, g),
         NEW p, Waiting(E, A, g, p)
  PROVE  Edits!ApplyAll(g[Len(a)], p) = Edits!Replaced(a, A \cup Chosen(E, p))
<1> DEFINE L == Len(p)
           t == g[Len(a)]
           Late(n) == A \cup {e \in E : \E k \in DOMAIN p : k > L - n /\ p[k].id = e.id}
           w == [n \in 0..L |-> Edits!Replaced(a, Late(n))]
           Goes(f) == f = [n \in 0..L |-> IF n = 0 THEN t ELSE Edits!Apply(f[n - 1], p[L + 1 - n])]
           f == CHOOSE x : Goes(x)
<1>1. /\ p \in Seq(WaitingEdit) /\ \A l \in DOMAIN p : \E e \in E \ A : PlacedNow(g, e, p[l])
      /\ \A l, m \in DOMAIN p : l < m => p[l].id < p[m].id
  BY DEF Waiting
<1>2. L \in Nat /\ DOMAIN p = 1..L /\ \A l \in DOMAIN p : p[l] \in WaitingEdit /\ p[l].id \in Nat
  <2>1. L \in Nat /\ DOMAIN p = 1..L /\ \A l \in DOMAIN p : p[l] \in WaitingEdit
    BY <1>1
  <2> QED
    BY <2>1 DEF WaitingEdit
<1>3. \A e \in E : e \in EditsOf(a) /\ e.id = e.from /\ e.from \in Nat /\ e.to \in Nat /\ e.from <= e.to
  BY EditIs
<1>4. \A x, y \in E : x.id = y.id => x = y
  BY <1>3 DEF FarApart
<1>5. \A n \in 0..L : Late(n) \in SUBSET E /\ Late(n) \in SUBSET EditsOf(a) /\ FarApart(Late(n))
  BY DEF FarApart
<1>6. w[0] = t
  <2>1. \A k \in DOMAIN p : ~(k > L - 0)
    BY <1>2
  <2>2. Late(0) = A
    BY <2>1
  <2>3. Edits!Replaced(a, A) = t
    BY ReplacedGrows
  <2>4. w[0] = Edits!Replaced(a, Late(0))
    BY <1>2
  <2> QED
    BY <2>2, <2>3, <2>4
<1>7. ASSUME NEW n \in 1..L PROVE Edits!Apply(w[n - 1], p[L + 1 - n]) = w[n]
  <2> DEFINE k == L + 1 - n
             U == Late(n - 1)
  <2>1. k \in DOMAIN p /\ n - 1 \in 0..L /\ n \in 0..L /\ L - (n - 1) = k /\ L - n = k - 1 /\ k \in Nat
    BY <1>2
  <2>2. PICK e \in E \ A : PlacedNow(g, e, p[k])
    BY <1>1, <2>1
  <2>3. p[k].id = e.id /\ p[k] \in WaitingEdit
    BY <1>2, <2>1, <2>2 DEF PlacedNow
  <2>4. Late(n) = U \cup {e}
    <3>1. \A l \in DOMAIN p : l > L - n <=> l > L - (n - 1) \/ l = k
      BY <1>2, <2>1
    <3>2. \A x \in E : (\E l \in DOMAIN p : l > L - n /\ p[l].id = x.id)
                       <=> ((\E l \in DOMAIN p : l > L - (n - 1) /\ p[l].id = x.id) \/ x = e)
      BY <1>4, <2>1, <2>3, <3>1
    <3> QED
      BY <3>2
  <2>5. \A x \in U : x \notin A => e.id < x.id
    <3> SUFFICES ASSUME NEW x \in U, x \notin A PROVE e.id < x.id
      OBVIOUS
    <3>1. PICK l \in DOMAIN p : l > L - (n - 1) /\ p[l].id = x.id
      OBVIOUS
    <3>2. k < l
      BY <1>2, <2>1, <3>1
    <3> QED
      BY <1>1, <2>1, <2>3, <3>1, <3>2
  <2>6. U \in SUBSET EditsOf(a) /\ FarApart(U) /\ U \in SUBSET E /\ A \in SUBSET U
    BY <1>5, <2>1
  <2>7. w[n - 1] = Edits!Replaced(a, U) /\ w[n] = Edits!Replaced(a, U \cup {e})
    BY <2>1, <2>4
  <2> HIDE DEF U, k
  <2>8. e \in EditsOf(a) /\ e \notin U /\ U \cup {e} \in SUBSET EditsOf(a) /\ FarApart(U \cup {e})
    <3>1. e \notin U
      BY <1>3, <2>5
    <3>2. FarApart(U \cup {e})
      BY <2>6 DEF FarApart
    <3> QED
      BY <2>6, <3>1, <3>2
  <2>9. PICK v : Grown(a, U, v)
    BY <2>6, EditsHaveLines, GrownThere
  <2>10. PICK h : Grown(a, U \cup {e}, h)
    BY <2>8, EditsHaveLines, GrownThere
  <2>11. v[e.from] = g[e.from]
    <3>1. e.from \in Nat /\ e.from <= Len(a)
      BY <2>8, EditIs
    <3>2. AgreeTo(A, U, e.from)
      BY <1>3, <2>5, <2>6 DEF AgreeTo
    <3>3. A \in SUBSET EditsOf(a) /\ FarApart(A)
      BY DEF FarApart
    <3> QED
      BY <2>6, <2>9, <3>1, <3>2, <3>3, GrownSame
  <2>12. PlacedNow(v, e, p[k])
    BY <2>2, <2>11 DEF PlacedNow
  <2>13. Edits!Apply(v[Len(a)], p[k]) = h[Len(a)]
    BY <2>3, <2>6, <2>8, <2>9, <2>10, <2>12, AppliedIs
  <2>14. Edits!Replaced(a, U) = v[Len(a)] /\ Edits!Replaced(a, U \cup {e}) = h[Len(a)]
    BY <2>9, <2>10, ReplacedGrows
  <2>15. Edits!Apply(w[n - 1], p[k]) = w[n]
    BY <2>7, <2>13, <2>14
  <2> QED
    BY <2>15 DEF k
<1> HIDE DEF Late, t
<1>8. Goes(w)
  <2> HIDE DEF L
  <2>1. \A n \in 0..L : w[n] = IF n = 0 THEN t ELSE Edits!Apply(w[n - 1], p[L + 1 - n])
    <3> TAKE n \in 0..L
    <3>1. n = 0 \/ n \in 1..L
      BY <1>2
    <3> HIDE DEF w
    <3> QED
      BY <1>6, <1>7, <3>1
  <2>2. w = [n \in 0..L |-> w[n]]
    OBVIOUS
  <2> HIDE DEF w
  <2> QED
    BY <2>1, <2>2
<1>9. Goes(f)
  <2> HIDE DEF Goes, w
  <2> QED
    BY <1>8
<1>10. Edits!ApplyAll(t, p) = f[L]
  BY DEF Edits!ApplyAll
<1> HIDE DEF f, w
<1>11. \A n \in 0..L : f[n] = IF n = 0 THEN t ELSE Edits!Apply(f[n - 1], p[L + 1 - n])
  BY <1>9
<1> HIDE DEF Goes, L
<1>12. f[L] = w[L]
  <2> DEFINE T == {n \in 0..L : f[n] = w[n]}
  <2>1. 0 \in T
    BY <1>2, <1>6, <1>11
  <2>2. ASSUME NEW n \in Nat, 0 <= n, n < L, n \in T PROVE n + 1 \in T
    <3>1. n + 1 \in 1..L /\ n + 1 \in 0..L /\ n + 1 # 0 /\ (n + 1) - 1 = n /\ f[n] = w[n]
      BY <1>2, <2>2
    <3>2. f[n + 1] = Edits!Apply(f[(n + 1) - 1], p[L + 1 - (n + 1)])
      BY <1>11, <3>1
    <3>3. Edits!Apply(w[(n + 1) - 1], p[L + 1 - (n + 1)]) = w[n + 1]
      BY <1>7, <3>1
    <3> QED
      BY <3>1, <3>2, <3>3
  <2>3. L \in T
    <3> HIDE DEF T
    <3>1. \A n \in Nat : 0 <= n /\ n < L /\ n \in T => n + 1 \in T
      BY <2>2
    <3>2. \A n \in 0..L : n \in T
      BY <1>2, <2>1, <3>1, CountUp
    <3> QED
      BY <1>2, <3>2
  <2> QED
    BY <2>3
<1>13. w[L] = Edits!Replaced(a, A \cup Chosen(E, p))
  <2>1. \A k \in DOMAIN p : k > L - L
    BY <1>2
  <2>2. Late(L) = A \cup Chosen(E, p)
    BY <2>1 DEF Late, Chosen, L
  <2>3. w[L] = Edits!Replaced(a, Late(L))
    BY <1>2 DEF w
  <2> QED
    BY <2>2, <2>3
<1> QED
  BY <1>10, <1>12, <1>13 DEF t

-----------------------------------------------------------------------------
(* The invariant: the text is the one that the edits were proposed for with  *)
(* those accepted in it, and each edit that waits is where its place is now. *)
Proposals == Edits!ToSet(Edits!Suggested(base, proposed))
Taken == {e \in Proposals : e.id \in accepted}

EditInv ==
  /\ base \in Seq(Lines) /\ proposed \in Seq(Lines)
  /\ \E g : Grown(base, Taken, g) /\ text = g[Len(base)] /\ Waiting(Proposals, Taken, g, pendingEdits)

LEMMA ProposalsAre ==
  ASSUME base \in Seq(Lines), proposed \in Seq(Lines)
  PROVE  /\ Proposals \in SUBSET EditsOf(base) /\ FarApart(Proposals)
         /\ Edits!Replaced(base, Proposals) = proposed
         /\ Taken \in SUBSET Proposals
         /\ \A x, y \in Proposals : x.id = y.id => x = y
<1>1. FittingAll(base, proposed, Edits!Suggested(base, proposed))
  BY SuggestedFits
<1>2. Proposals \in SUBSET EditsOf(base) /\ FarApart(Proposals) /\ Edits!Replaced(base, Proposals) = proposed
  BY <1>1, ApartInOrder DEF FittingAll, Proposals
<1>3. ASSUME NEW x \in Proposals, NEW y \in Proposals, x.id = y.id PROVE x = y
  <2>1. x \in EditsOf(base) /\ y \in EditsOf(base)
    BY <1>2
  <2>2. /\ x.from = y.from /\ x.from \in Nat /\ x.to \in Nat /\ y.to \in Nat
        /\ x.from <= x.to /\ y.from <= y.to
    BY <1>3, <2>1, EditIs
  <2> QED
    BY <1>2, <2>2 DEF FarApart
<1> QED
  BY <1>2, <1>3 DEF Taken

LEMMA DocumentsAre ==
  \A d \in Edits!Documents : d \in Seq(Lines)
<1>1. \A n \in 0..MaxLines : \A s \in [1..n -> Lines] : n \in Nat /\ s \in Seq(Lines)
  OBVIOUS
<1> QED
  BY <1>1 DEF Edits!Documents

\* Edits just proposed: none is accepted, and each is where it belongs.
LEMMA EditsProposed ==
  ASSUME NEW a \in Seq(Lines), NEW b \in Seq(Lines)
  PROVE  \E g : /\ Grown(a, {}, g) /\ g[Len(a)] = a
                /\ Waiting(Edits!ToSet(Edits!Suggested(a, b)), {}, g, Edits!Suggested(a, b))
<1> DEFINE s == Edits!Suggested(a, b)
<1>1. s \in Seq(EditsOf(a)) /\ OneByOne(s)
  BY SuggestedFits DEF FittingAll
<1> HIDE DEF s
<1>2. PICK g : Grown(a, {}, g)
  <2>1. WithLines({})
    BY DEF WithLines
  <2> QED
    BY <2>1, GrownThere
<1>3. g[Len(a)] = a
  BY <1>2, NothingReplaced, ReplacedGrows
<1>4. \A e \in EditsOf(a) : PlacedNow(g, e, e)
  <2> SUFFICES ASSUME NEW e \in EditsOf(a) PROVE PlacedNow(g, e, e)
    OBVIOUS
  <2>1. /\ e.from \in Nat /\ e.to \in Nat /\ e.from <= Len(a) /\ Len(e.original) = e.to - e.from
    BY EditIs
  <2>2. AllBelow({}, e.from)
    BY DEF AllBelow
  <2>3. Len(g[e.from]) = e.from
    BY <1>2, <2>1, <2>2, GrownAbove
  <2> QED
    BY <2>1, <2>3 DEF PlacedNow
<1>5. s \in Seq(WaitingEdit)
  <2>1. EditsOf(a) \in SUBSET WaitingEdit
    BY DEF EditsOf, WaitingEdit
  <2> QED
    BY <1>1, <2>1
<1>6. \A k \in DOMAIN s : s[k] \in EditsOf(a) /\ s[k] \in Edits!ToSet(s)
  BY <1>1 DEF Edits!ToSet
<1>7. ASSUME NEW k \in DOMAIN s, NEW l \in DOMAIN s, k < l PROVE s[k].id < s[l].id
  <2>1. s[k].to < s[l].from
    BY <1>1, <1>7 DEF OneByOne
  <2>2. /\ s[k].id = s[k].from /\ s[l].id = s[l].from /\ s[k].from \in Nat /\ s[k].to \in Nat /\ s[l].from \in Nat
        /\ s[k].from <= s[k].to
    BY <1>6, EditIs
  <2> QED
    BY <2>1, <2>2
<1>8. Waiting(Edits!ToSet(s), {}, g, s)
  <2>1. \A k \in DOMAIN s : \E e \in Edits!ToSet(s) \ {} : PlacedNow(g, e, s[k])
    BY <1>4, <1>6
  <2> QED
    BY <1>5, <1>7, <2>1 DEF Waiting
<1> QED
  BY <1>2, <1>3, <1>8 DEF s

LEMMA NothingWaits ==
  ASSUME NEW E, NEW A, NEW g
  PROVE  Waiting(E, A, g, <<>>)
BY DEF Waiting

LEMMA EditInit == Edits!Init => EditInv
<1> SUFFICES ASSUME Edits!Init PROVE EditInv
  OBVIOUS
<1>1. base \in Seq(Lines) /\ proposed = base /\ text = base /\ pendingEdits = <<>> /\ accepted = {}
  BY DocumentsAre DEF Edits!Init
<1>2. Taken = {}
  BY <1>1 DEF Taken
<1>3. WithLines({})
  BY DEF WithLines
<1>4. PICK g : Grown(base, {}, g)
  BY <1>1, <1>3, GrownThere
<1>5. g[Len(base)] = base
  BY <1>1, <1>4, NothingReplaced, ReplacedGrows
<1>6. Waiting(Proposals, Taken, g, pendingEdits)
  BY <1>1, NothingWaits
<1> QED
  BY <1>1, <1>2, <1>4, <1>5, <1>6 DEF EditInv

LEMMA EditHolds == EditInv => AcceptedAsProposed
<1> SUFFICES ASSUME EditInv PROVE AcceptedAsProposed
  OBVIOUS
<1>1. base \in Seq(Lines) /\ proposed \in Seq(Lines)
  BY DEF EditInv
<1>2. PICK g : Grown(base, Taken, g) /\ text = g[Len(base)]
  BY DEF EditInv
<1>3. text = Edits!Replaced(base, Taken)
  BY <1>1, <1>2, ReplacedGrows
<1>4. ASSUME accepted = {e.id : e \in Proposals} PROVE text = proposed
  <2>1. Taken = Proposals
    BY <1>4 DEF Taken
  <2> QED
    BY <1>1, <1>3, <2>1, ProposalsAre
<1> QED
  BY <1>3, <1>4 DEF AcceptedAsProposed, Edits!AcceptedAsProposed, Proposals, Taken

LEMMA SuggestStep ==
  ASSUME EditInv, NEW document \in Edits!Documents, Edits!Suggest(document)
  PROVE  EditInv'
<1>1. base' = text /\ proposed' = document /\ accepted' = {} /\ text' = text
      /\ pendingEdits' = Edits!Suggested(text, document)
  BY DEF Edits!Suggest
<1>2. text \in Seq(Lines) /\ document \in Seq(Lines)
  <2>1. base \in Seq(Lines)
    BY DEF EditInv
  <2>2. PICK g : Grown(base, Taken, g) /\ text = g[Len(base)]
    BY DEF EditInv
  <2> QED
    BY <2>1, <2>2, ReplacedGrows, DocumentsAre
<1>3. PICK g : /\ Grown(text, {}, g) /\ g[Len(text)] = text
               /\ Waiting(Edits!ToSet(Edits!Suggested(text, document)), {}, g, Edits!Suggested(text, document))
  BY <1>2, EditsProposed
<1>4. Proposals' = Edits!ToSet(Edits!Suggested(text, document)) /\ Taken' = {}
  BY <1>1 DEF Proposals, Taken
<1>5. Grown(base', Taken', g) /\ text' = g[Len(base')] /\ Waiting(Proposals', Taken', g, pendingEdits')
  BY <1>1, <1>3, <1>4
<1> QED
  BY <1>1, <1>2, <1>5 DEF EditInv

LEMMA AcceptOneStep ==
  ASSUME ~AnyOrder, EditInv, NEW k \in DOMAIN pendingEdits, Edits!AcceptOne(k)
  PROVE  EditInv'
<1> DEFINE E == Proposals
           A == Taken
           p == pendingEdits
<1>1. base \in Seq(Lines) /\ proposed \in Seq(Lines) /\ base' = base /\ proposed' = proposed
  BY DEF EditInv, Edits!AcceptOne
<1>2. PICK g : Grown(base, A, g) /\ text = g[Len(base)] /\ Waiting(E, A, g, p)
  BY DEF EditInv
<1>3. E \in SUBSET EditsOf(base) /\ FarApart(E) /\ A \in SUBSET E /\ \A x, y \in E : x.id = y.id => x = y
  BY <1>1, ProposalsAre
<1>4. PICK e \in E \ A : PlacedNow(g, e, p[k])
  BY <1>2 DEF Waiting
<1>5. p[k] \in WaitingEdit /\ p[k].id = e.id
  BY <1>2, <1>4 DEF Waiting, PlacedNow
<1>6. Proposals' = E
  BY <1>1 DEF Proposals
<1>7. Taken' = A \cup {e}
  <2>1. accepted' = accepted \cup {e.id}
    BY <1>5 DEF Edits!AcceptOne
  <2>2. Taken' = {x \in E : x.id \in accepted'}
    BY <1>6 DEF Taken
  <2> QED
    BY <1>3, <1>4, <2>1, <2>2 DEF Taken
<1>8. text' = Edits!Apply(text, p[k]) /\ \A l \in (k + 1)..Len(p) : Edits!FoundAgain(p[l], text')
  BY DEF Edits!AcceptOne
<1>9. pendingEdits' = Edits!Reanchored(text', Edits!RemoveAt(p, k))
  BY DEF Edits!AcceptOne
<1> HIDE DEF E, A, p
<1>10. e \in EditsOf(base) /\ A \in SUBSET EditsOf(base) /\ e \notin A
      /\ A \cup {e} \in SUBSET EditsOf(base) /\ FarApart(A \cup {e})
  BY <1>3, <1>4 DEF FarApart
<1>11. PICK h : Grown(base, A \cup {e}, h)
  BY <1>1, <1>10, EditsHaveLines, GrownThere
<1>12. text' = h[Len(base)]
  BY <1>1, <1>2, <1>4, <1>5, <1>8, <1>10, <1>11, AppliedIs
<1>13. k \in DOMAIN p
  BY DEF p
<1>14. Waiting(E, A \cup {e}, h, Edits!Reanchored(h[Len(base)], Edits!RemoveAt(p, k)))
  <2>1. \A l \in (k + 1)..Len(p) : Edits!FoundAgain(p[l], h[Len(base)])
    BY <1>8, <1>12
  <2> QED
    BY <1>1, <1>2, <1>3, <1>4, <1>11, <1>13, <2>1, WaitingOn
<1>15. Grown(base', Taken', h) /\ text' = h[Len(base')] /\ Waiting(Proposals', Taken', h, pendingEdits')
  <2>1. pendingEdits' = Edits!Reanchored(h[Len(base)], Edits!RemoveAt(p, k))
    BY <1>12, <1>9, Zenon
  <2>2. Waiting(Proposals', Taken', h, pendingEdits')
    BY <1>6, <1>7, <1>14, <2>1
  <2>3. Grown(base', Taken', h) /\ text' = h[Len(base')]
    BY <1>1, <1>7, <1>11, <1>12
  <2> QED
    BY <2>2, <2>3
<1> QED
  BY <1>1, <1>15 DEF EditInv

LEMMA RejectOneStep ==
  ASSUME EditInv, NEW k \in DOMAIN pendingEdits, Edits!RejectOne(k)
  PROVE  EditInv'
<1>1. /\ pendingEdits' = Edits!RemoveAt(pendingEdits, k)
      /\ text' = text /\ base' = base /\ proposed' = proposed /\ accepted' = accepted
  BY DEF Edits!RejectOne
<1>2. PICK g : Grown(base, Taken, g) /\ text = g[Len(base)] /\ Waiting(Proposals, Taken, g, pendingEdits)
  BY DEF EditInv
<1>3. Proposals' = Proposals /\ Taken' = Taken
  BY <1>1 DEF Proposals, Taken
<1>4. Waiting(Proposals, Taken, g, Edits!RemoveAt(pendingEdits, k))
  BY <1>2, WaitingLess
<1>5. Grown(base', Taken', g) /\ text' = g[Len(base')] /\ Waiting(Proposals', Taken', g, pendingEdits')
  BY <1>1, <1>2, <1>3, <1>4
<1> QED
  BY <1>1, <1>5 DEF EditInv

LEMMA AcceptAllStep ==
  ASSUME EditInv, Edits!AcceptAll
  PROVE  EditInv'
<1> DEFINE E == Proposals
           A == Taken
           p == pendingEdits
           U == A \cup Chosen(E, p)
<1>1. base \in Seq(Lines) /\ proposed \in Seq(Lines) /\ base' = base /\ proposed' = proposed
  BY DEF EditInv, Edits!AcceptAll
<1>2. PICK g : Grown(base, A, g) /\ text = g[Len(base)] /\ Waiting(E, A, g, p)
  BY DEF EditInv
<1>3. E \in SUBSET EditsOf(base) /\ FarApart(E) /\ A \in SUBSET E
  BY <1>1, ProposalsAre
<1>4. /\ text' = Edits!ApplyAll(text, p) /\ pendingEdits' = <<>>
      /\ accepted' = accepted \cup {p[k].id : k \in DOMAIN p}
  BY DEF Edits!AcceptAll
<1>5. Proposals' = E
  BY <1>1 DEF Proposals
<1>6. Taken' = U
  <2>1. Taken' = {x \in E : x.id \in accepted'}
    BY <1>5 DEF Taken
  <2> QED
    BY <1>4, <2>1 DEF Taken, Chosen
<1> HIDE DEF E, A, p
<1>7. U \in SUBSET EditsOf(base)
  BY <1>3 DEF Chosen
<1>8. text' = Edits!Replaced(base, U)
  BY <1>1, <1>2, <1>3, <1>4, AllApplied
<1> HIDE DEF U
<1>9. PICK h : Grown(base, U, h)
  BY <1>1, <1>7, EditsHaveLines, GrownThere
<1>10. text' = h[Len(base)]
  BY <1>1, <1>8, <1>9, ReplacedGrows
<1>11. Grown(base', Taken', h) /\ text' = h[Len(base')] /\ Waiting(Proposals', Taken', h, pendingEdits')
  BY <1>1, <1>4, <1>6, <1>9, <1>10, NothingWaits
<1> QED
  BY <1>1, <1>11 DEF EditInv

LEMMA EditStep ==
  ASSUME ~AnyOrder, EditInv, Edits!Next \/ UNCHANGED editVars
  PROVE  EditInv'
<1>1. CASE UNCHANGED editVars
  <2>1. text' = text /\ base' = base /\ proposed' = proposed /\ pendingEdits' = pendingEdits /\ accepted' = accepted
    BY <1>1 DEF editVars
  <2>2. Proposals' = Proposals /\ Taken' = Taken
    BY <2>1 DEF Proposals, Taken
  <2> QED
    BY <2>1, <2>2 DEF EditInv
<1>2. CASE Edits!Next
  <2>1. CASE \E document \in Edits!Documents : Edits!Suggest(document)
    BY <2>1, SuggestStep
  <2>2. CASE \E k \in DOMAIN pendingEdits : Edits!AcceptOne(k)
    BY <2>2, AcceptOneStep
  <2>3. CASE \E k \in DOMAIN pendingEdits : Edits!RejectOne(k)
    BY <2>3, RejectOneStep
  <2>4. CASE Edits!AcceptAll
    BY <2>4, AcceptAllStep
  <2> QED
    BY <1>2, <2>1, <2>2, <2>3, <2>4 DEF Edits!Next
<1> QED
  BY <1>1, <1>2
================================================================================
