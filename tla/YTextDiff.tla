------------------------------- MODULE YTextDiff -------------------------------
(***************************************************************************)
(* replaceYText: a text that someone else may be editing is made to read   *)
(* `target` by replacing the part that differs.  Texts are sequences of    *)
(* UTF-16 units, of which some are the halves of a pair.                   *)
(***************************************************************************)
EXTENDS Naturals, Sequences, SequencesExt

CONSTANTS
  Plain, High, Low,   \* units: single ones, and the first and second halves of pairs
  MaxLength           \* bound: length of a text

VARIABLES
  current,            \* the text of the document
  target              \* what it is to read

diffVars == <<current, target>>

Units == Plain \cup High \cup Low
WellFormed(s) ==
  /\ \A i \in DOMAIN s : s[i] \in High => i < Len(s) /\ s[i + 1] \in Low
  /\ \A i \in DOMAIN s : s[i] \in Low => i > 1 /\ s[i - 1] \in High
AllTexts == {s \in UNION {[1..n -> Units] : n \in 0..MaxLength} : WellFormed(s)}

-----------------------------------------------------------------------------
Least(m, n) == IF m < n THEN m ELSE n
Greatest(S) == CHOOSE n \in S : \A m \in S : m <= n

\* Mutant: pairs are not looked at.
StartOfUnits(a, b) == Greatest({n \in 0..Least(Len(a), Len(b)) : \A i \in 1..n : a[i] = b[i]})

(* What both texts begin with, without half of a pair at its end.            *)
Start(a, b) ==
  LET same == Greatest({n \in 0..Least(Len(a), Len(b)) : \A i \in 1..n : a[i] = b[i]})
  IN  IF same > 0 /\ a[same] \in High THEN same - 1 ELSE same

(* What both end with after that, without half of a pair at its beginning.   *)
End(a, b, start) ==
  LET same == Greatest({n \in 0..(Least(Len(a), Len(b)) - start) :
                          \A i \in 1..n : a[Len(a) + 1 - i] = b[Len(b) + 1 - i]})
  IN  IF same > 0 /\ a[Len(a) + 1 - same] \in Low THEN same - 1 ELSE same

From(a, b) == Start(a, b) + 1
Deleted(a, b)  == SubSeq(a, From(a, b), Len(a) - End(a, b, Start(a, b)))
Inserted(a, b) == SubSeq(b, From(a, b), Len(b) - End(a, b, Start(a, b)))

Init == current \in AllTexts /\ target \in AllTexts

(* The transaction: a deletion and an insertion at one place.                *)
Replace ==
  /\ current # target
  /\ current' = SubSeq(current, 1, Start(current, target)) \o Inserted(current, target)
                 \o SubSeq(current, Len(current) + 1 - End(current, target, Start(current, target)), Len(current))
  /\ UNCHANGED target

Next == Replace
Spec == Init /\ [][Next]_diffVars

-----------------------------------------------------------------------------
(* No pair is split: what is deleted and what is inserted are well formed,   *)
(* for each is encoded on its own.  And whole characters that both texts     *)
(* begin or end with are left where they are, so that an edit of someone     *)
(* else in them keeps its place.                                             *)
NoPairSplit ==
  current # target =>
    LET deleted == Deleted(current, target)
        inserted == Inserted(current, target)
    IN  /\ WellFormed(deleted) /\ WellFormed(inserted)
        /\ \A n \in 1..Least(Len(deleted), Len(inserted)) :
             /\ SubSeq(deleted, 1, n) = SubSeq(inserted, 1, n) => ~WellFormed(SubSeq(deleted, 1, n))
             /\ LET tail(s) == SubSeq(s, Len(s) + 1 - n, Len(s))
                IN  tail(deleted) = tail(inserted) => ~WellFormed(tail(deleted))

(* The text reads `target` afterwards.                                       *)
ReadsContent == [][current' = target]_diffVars
=============================================================================
