---------------------------- MODULE SuggestedEdits -----------------------------
(***************************************************************************)
(* The edits that the assistant proposes for a file: what it returned is   *)
(* compared with the text line by line, each part that differs is an edit  *)
(* to accept or reject, and one that is accepted is found again in the     *)
(* text by what it replaces.  Texts are sequences of lines (each with its  *)
(* line ending), positions are numbers of lines before a place.            *)
(***************************************************************************)
EXTENDS Naturals, Sequences, FiniteSets, SequencesExt, Selection

CONSTANTS
  Lines,        \* lines
  MaxLines,     \* bound: lines of a text
  MaxCells,     \* lines of both texts, multiplied, up to which they are compared line by line
  Reach,        \* how far around its old place an edit is looked for first
  AnyOrder      \* may an edit be accepted alone whatever is below it?

VARIABLES
  text,         \* the shared document
  base,         \* what it was when the edits were proposed
  proposed,     \* what the assistant returned
  pendingEdits, \* edits that wait for a decision, from the first to the last
  accepted      \* the edits that were accepted, where they were in `base`

editVars == <<text, base, proposed, pendingEdits, accepted>>

Documents == UNION {[1..n -> Lines] : n \in 0..MaxLines}

-----------------------------------------------------------------------------
(* computeSingleRangeReplacement: one edit for all that differs.             *)
CommonStart(a, b) == Max({n \in 0..Len(a) : n <= Len(b) /\ \A i \in 1..n : a[i] = b[i]})
CommonEnd(a, b, start) ==
  Max({n \in 0..(Len(a) - start) :
         n <= Len(b) - start /\ \A i \in 1..n : a[Len(a) + 1 - i] = b[Len(b) + 1 - i]})

Edit(a, b, from, to, newFrom, newTo) ==
  [from |-> from, to |-> to, original |-> SubSeq(a, from + 1, to), replacement |-> SubSeq(b, newFrom + 1, newTo),
   id |-> from]

SingleRange(a, b) ==
  LET start == CommonStart(a, b)
      end   == CommonEnd(a, b, start)
  IN  <<Edit(a, b, start, Len(a) - end, start, Len(b) - end)>>

-----------------------------------------------------------------------------
(* A cell of the table is a place in both texts: the lines before it.        *)
Cells(a, b) == (0..Len(a)) \X (0..Len(b))
AtEnd(a, b, c) == c = <<Len(a), Len(b)>>
Same(a, b, c) == c[1] < Len(a) /\ c[2] < Len(b) /\ a[c[1] + 1] = b[c[2] + 1]
Deleted(c)  == <<c[1] + 1, c[2]>>
Inserted(c) == <<c[1], c[2] + 1>>
Both(c)     == <<c[1] + 1, c[2] + 1>>

(* The table of the longest common subsequences: dp[c] is the length of the  *)
(* longest one of what follows in both texts.                                *)
Table(a, b) ==
  LET dp[c \in Cells(a, b)] ==
        IF c[1] = Len(a) \/ c[2] = Len(b) THEN 0
        ELSE IF Same(a, b, c) THEN dp[Both(c)] + 1
        ELSE IF dp[Deleted(c)] >= dp[Inserted(c)] THEN dp[Deleted(c)] ELSE dp[Inserted(c)]
  IN  dp

(* The walk along the table: where the lines are the same both go on; a part *)
(* that differs ends at the next such place.                                 *)
EndOfPart(a, b) ==
  LET dp == Table(a, b)
      end[c \in Cells(a, b)] ==
        IF AtEnd(a, b, c) \/ Same(a, b, c) THEN c
        ELSE IF c[2] = Len(b) \/ (c[1] < Len(a) /\ dp[Deleted(c)] >= dp[Inserted(c)])
        THEN end[Deleted(c)] ELSE end[Inserted(c)]
  IN  end

PartsFrom(a, b) ==
  LET end == EndOfPart(a, b)
      parts[c \in Cells(a, b)] ==
        IF AtEnd(a, b, c) THEN <<>>
        ELSE IF Same(a, b, c) THEN parts[Both(c)]
        ELSE <<Edit(a, b, c[1], end[c][1], c[2], end[c][2])>> \o parts[end[c]]
  IN  parts

ByLine(a, b) == PartsFrom(a, b)[<<0, 0>>]

(* computeAiEditSuggestions                                                  *)
Suggested(a, b) ==
  IF a = b THEN <<>>
  ELSE IF Len(a) * Len(b) > MaxCells THEN SingleRange(a, b)
  ELSE LET edits == ByLine(a, b)
       IN  Select(edits, {k \in DOMAIN edits : edits[k].original # edits[k].replacement})

-----------------------------------------------------------------------------
(* resolveAiEditRange: where the edit is now.  It is where it was if what it *)
(* replaces is there; else at the first place nearby, or at all, with that   *)
(* text; else where it was.                                                  *)
Bounded(n, low, high) == IF n < low THEN low ELSE IF n > high THEN high ELSE n
Places(source, original) ==
  {n \in 0..Len(source) : n + Len(original) <= Len(source)
                          /\ SubSeq(source, n + 1, n + Len(original)) = original}
FirstOf(S) == CHOOSE n \in S : \A m \in S : n <= m

Resolve(source, e) ==
  LET from == Bounded(e.from, 0, Len(source))
      to   == Bounded(e.to, from, Len(source))
      near == {n \in Places(source, e.original) :
                 n + Reach >= from /\ n + Len(e.original) <= to + Reach}
      found == IF near # {} THEN near ELSE Places(source, e.original)
  IN  IF SubSeq(source, from + 1, to) = e.original \/ e.original = <<>> \/ found = {}
      THEN [from |-> from, to |-> to]
      ELSE [from |-> FirstOf(found), to |-> FirstOf(found) + Len(e.original)]

Apply(source, e) ==
  LET range == Resolve(source, e)
  IN  SubSeq(source, 1, range.from) \o e.replacement \o SubSeq(source, range.to + 1, Len(source))

\* Mutant: from the first to the last, so that each moves those after it.
ApplyAllDownwards(source, edits) == FoldLeft(Apply, source, edits)

(* From the last to the first: none moves those that are still to come.      *)
ApplyAll(source, edits) ==
  LET after[n \in 0..Len(edits)] ==
        IF n = 0 THEN source ELSE Apply(after[n - 1], edits[Len(edits) + 1 - n])
  IN  after[Len(edits)]

(* reanchorPendingAiEditsForFile                                             *)
Reanchored(source, edits) ==
  LET at(e) == Resolve(source, e)
      moved == [i \in DOMAIN edits |-> [edits[i] EXCEPT !.from = at(edits[i]).from, !.to = at(edits[i]).to]]
      there(e) == e.original = <<>> \/ SubSeq(source, e.from + 1, e.to) = e.original
  IN  Select(moved, {i \in DOMAIN moved : there(moved[i])})

-----------------------------------------------------------------------------
Init ==
  /\ base \in Documents /\ text = base /\ proposed = base
  /\ pendingEdits = <<>> /\ accepted = {}

(* handleSuggestDocumentEdits: the edits of before are replaced.             *)
Suggest(document) ==
  /\ document # text /\ Len(text) <= MaxLines
  /\ base' = text /\ proposed' = document /\ accepted' = {}
  /\ pendingEdits' = Suggested(text, document)
  /\ UNCHANGED text

(* An edit that is below the one accepted can be found again if what it      *)
(* replaces is there once.                                                   *)
FoundAgain(e, source) == e.original # <<>> /\ Cardinality(Places(source, e.original)) = 1

AcceptOne(k) ==
  /\ text' = Apply(text, pendingEdits[k])
  /\ \A l \in (k + 1)..Len(pendingEdits) : AnyOrder \/ FoundAgain(pendingEdits[l], text')
  /\ accepted' = accepted \cup {pendingEdits[k].id}
  /\ pendingEdits' = Reanchored(text', RemoveAt(pendingEdits, k))
  /\ UNCHANGED <<base, proposed>>

RejectOne(k) ==
  /\ pendingEdits' = RemoveAt(pendingEdits, k)
  /\ UNCHANGED <<text, base, proposed, accepted>>

AcceptAll ==
  /\ pendingEdits # <<>>
  /\ text' = ApplyAll(text, pendingEdits)
  /\ accepted' = accepted \cup {pendingEdits[k].id : k \in DOMAIN pendingEdits}
  /\ pendingEdits' = <<>>
  /\ UNCHANGED <<base, proposed>>

Next ==
  \/ \E document \in Documents : Suggest(document)
  \/ \E k \in DOMAIN pendingEdits : AcceptOne(k) \/ RejectOne(k)
  \/ AcceptAll

Spec == Init /\ [][Next]_editVars

-----------------------------------------------------------------------------
(* EditorPage.tsx: whichever edits are accepted, alone or all at once, the   *)
(* text is the one they were proposed for with just these changed, each at   *)
(* its place, and what the assistant returned when all are.                  *)
LineAt(a, S, n) == IF n = 0 \/ \E e \in S : e.from < n /\ n <= e.to THEN <<>> ELSE <<a[n]>>
AddedAt(S, n)   == IF \E e \in S : e.from = n THEN (CHOOSE e \in S : e.from = n).replacement ELSE <<>>
Replaced(a, S)  == FlattenSeq([n \in 1..(Len(a) + 1) |-> LineAt(a, S, n - 1) \o AddedAt(S, n - 1)])

AcceptedAsProposed ==
  LET edits == ToSet(Suggested(base, proposed))
  IN  /\ text = Replaced(base, {e \in edits : e.id \in accepted})
      /\ accepted = {e.id : e \in edits} => text = proposed
=============================================================================
