-------------------------- MODULE ProjectParts_proofs --------------------------
(***************************************************************************)
(* The parts that keep a project: the lock that the saves of a file take   *)
(* (KeyedLock, of its own specification), who is in the project (Sharing), *)
(* the caches that a compile reads the files from (FileCaches), the copy   *)
(* of the files in a directory (WorkspaceMirror), the directories that     *)
(* compiles use again (CompileWorkspaces) and the files on a local disk    *)
(* with their trash (LocalFiles).  Parts_proofs draws the theorems about   *)
(* MCParts from these.                                                     *)
(***************************************************************************)
EXTENDS KeyedLock, ProjectParts, Naturals, Sequences, FiniteSetTheorems, SequenceTheorems, TLAPS

-----------------------------------------------------------------------------
(* The lock (KeyedLock): mutual exclusion and arrival order, for any calls   *)
(* and keys.                                                                 *)

\* Tickets are given in the order of the calls, each once.
TicketsInOrder ==
    /\ \A c \in Calls : pc[c] # "idle" => ticket[c] \in 1 .. calls
    /\ \A c, d \in Calls :
          pc[c] # "idle" /\ pc[d] # "idle" /\ ticket[c] = ticket[d] => c = d

\* A call is linked to the call of its key made last before it, or to none
\* when every earlier one had settled.
Linked ==
    \A c \in Calls : pc[c] # "idle" =>
        /\ previous[c] # NoCall => Before(previous[c], c)
        /\ \A d \in Calls : Before(d, c) =>
              Settled(d) \/ (previous[c] # NoCall /\ ticket[d] <= ticket[previous[c]])

\* The map entry of a key is the last call of that key; without an entry
\* every call of the key has settled.
TailIsLast ==
    \A c \in Calls : pc[c] # "idle" =>
        \/ Settled(c) /\ lockTails[key[c]] = NoCall
        \/ LET t == lockTails[key[c]]
           IN  /\ t # NoCall
               /\ ticket[c] <= ticket[t]

\* An entry belongs to a call of its key that has not yet returned.
TailLive ==
    \A k \in Keys : lockTails[k] # NoCall =>
        /\ key[lockTails[k]] = k
        /\ pc[lockTails[k]] \in {"waiting", "running", "settled"}

LockInv == TypeOK /\ TicketsInOrder /\ Linked /\ TailIsLast /\ TailLive /\ FirstComeFirstServed

-----------------------------------------------------------------------------
LEMMA LockInit == Init => LockInv
<1> SUFFICES ASSUME Init PROVE LockInv
  OBVIOUS
<1> USE NoCallAssumption DEF Init
<1>1. TypeOK
  BY DEF TypeOK, Steps
<1>2. TicketsInOrder /\ Linked /\ TailIsLast /\ TailLive /\ FirstComeFirstServed
  BY DEF TicketsInOrder, Linked, TailIsLast, TailLive, FirstComeFirstServed, Before
<1> QED
  BY <1>1, <1>2 DEF LockInv

\* Entering: the new call gets the largest ticket of all and becomes the tail.
LEMMA LockEnter == ASSUME LockInv, NEW a \in Calls, Enter(a) PROVE LockInv'
<1> USE NoCallAssumption DEF Enter, LockInv
<1>1. TypeOK'
  BY DEF TypeOK, Steps
<1>2. /\ ticket'[a] = calls + 1 /\ pc'[a] = "waiting" /\ previous'[a] = lockTails[key[a]]
      /\ \A c \in Calls \ {a} :
            ticket'[c] = ticket[c] /\ pc'[c] = pc[c] /\ previous'[c] = previous[c]
      /\ pc[a] = "idle" /\ calls' = calls + 1 /\ key' = key
      /\ \A k \in Keys : lockTails'[k] = IF k = key[a] THEN a ELSE lockTails[k]
  BY DEF TypeOK
<1>3. \A c \in Calls : pc[c] # "idle" => c # a /\ ticket[c] \in 1 .. calls
  BY <1>2 DEF TicketsInOrder
<1>4. TicketsInOrder'
  BY <1>1, <1>2, <1>3 DEF TicketsInOrder, TypeOK
<1>5. Linked'
  <2> SUFFICES ASSUME NEW c \in Calls, pc'[c] # "idle"
               PROVE  /\ previous'[c] # NoCall => Before(previous[c], c)'
                      /\ \A d \in Calls : Before(d, c)' =>
                            Settled(d)' \/ (previous'[c] # NoCall /\ ticket'[d] <= ticket'[previous'[c]])
    BY <1>2 DEF Linked, Before
  <2>1. CASE c = a
    <3>1. previous'[a] # NoCall => Before(previous[a], a)'
      <4>1. SUFFICES ASSUME lockTails[key[a]] # NoCall PROVE Before(previous[a], a)'
        BY <1>2
      <4>2. lockTails[key[a]] \in Calls \ {a} /\ key[lockTails[key[a]]] = key[a]
        BY <4>1, <1>2 DEF TailLive, TypeOK
      <4> QED
        BY <4>2, <1>2, <1>3 DEF Before, TailLive, TypeOK
    <3>2. ASSUME NEW d \in Calls, Before(d, a)'
          PROVE  Settled(d)' \/ (previous'[a] # NoCall /\ ticket'[d] <= ticket'[previous'[a]])
      <4>1. d # a /\ pc[d] # "idle" /\ key[d] = key[a]
        BY <3>2, <1>2, <1>3 DEF Before, TypeOK
      <4>2. \/ Settled(d) /\ lockTails[key[a]] = NoCall
            \/ lockTails[key[a]] # NoCall /\ ticket[d] <= ticket[lockTails[key[a]]]
        BY <4>1 DEF TailIsLast
      <4>3. lockTails[key[a]] # NoCall => lockTails[key[a]] \in Calls \ {a}
        BY <1>2 DEF TailLive, TypeOK
      <4> QED
        BY <4>1, <4>2, <4>3, <1>2 DEF Settled
    <3> QED
      BY <2>1, <3>1, <3>2
  <2>2. CASE c # a
    <3>1. pc[c] # "idle" /\ previous'[c] = previous[c]
      BY <2>2, <1>2
    <3>2. previous[c] # NoCall => previous[c] \in Calls \ {a} /\ Before(previous[c], c)
      BY <3>1, <1>2 DEF Linked, Before, TypeOK
    <3>3. ~ Before(a, c)'
      BY <1>2, <1>3, <2>2, <3>1 DEF Before, TypeOK
    <3>4. \A d \in Calls \ {a} : Before(d, c)' => Before(d, c)
      BY <1>2, <2>2 DEF Before
    <3>5. previous[c] # NoCall => Before(previous[c], c)'
      BY <1>2, <2>2, <3>2 DEF Before
    <3> QED
      BY <1>2, <2>2, <3>1, <3>2, <3>3, <3>4, <3>5 DEF Linked, Settled
  <2> QED
    BY <2>1, <2>2
<1>6. TailIsLast'
  <2> SUFFICES ASSUME NEW c \in Calls, pc'[c] # "idle"
               PROVE  \/ Settled(c)' /\ lockTails'[key[c]] = NoCall
                      \/ lockTails'[key[c]] # NoCall /\ ticket'[c] <= ticket'[lockTails'[key[c]]]
    BY <1>2 DEF TailIsLast
  <2>1. CASE key[c] = key[a]
    BY <2>1, <1>2, <1>3 DEF TypeOK
  <2>2. CASE key[c] # key[a]
    <3>1. c # a /\ pc[c] # "idle" /\ lockTails'[key[c]] = lockTails[key[c]] /\ key[c] \in Keys
      BY <2>2, <1>2 DEF TypeOK
    <3>2. lockTails[key[c]] # NoCall => lockTails[key[c]] \in Calls \ {a}
      BY <3>1, <1>2 DEF TailLive, TypeOK
    <3> QED
      BY <1>2, <3>1, <3>2 DEF TailIsLast, Settled
  <2> QED
    BY <2>1, <2>2
<1>7. TailLive'
  BY <1>2 DEF TailLive, TypeOK
<1>8. FirstComeFirstServed'
  BY <1>2, <1>3 DEF FirstComeFirstServed, Before, Settled, TypeOK
<1> QED
  BY <1>1, <1>4, <1>5, <1>6, <1>7, <1>8

\* Starting: the link to the call before it, itself served in order, tells
\* that every earlier call of the key has settled.
LEMMA LockStart == ASSUME LockInv, NEW a \in Calls, Start(a) PROVE LockInv'
<1> USE NoCallAssumption DEF Start, LockInv
<1>1. TypeOK'
  BY DEF TypeOK, Steps
<1>2. /\ pc[a] = "waiting" /\ pc'[a] = "running"
      /\ \A c \in Calls \ {a} : pc'[c] = pc[c]
      /\ \A c \in Calls : Settled(c)' <=> Settled(c)
      /\ \A c, d \in Calls : Before(c, d)' <=> Before(c, d)
  BY DEF TypeOK, Settled, Before
<1>3. TicketsInOrder' /\ Linked' /\ TailIsLast' /\ TailLive'
  <2>1. TicketsInOrder'
    BY <1>2 DEF TicketsInOrder
  <2>2. Linked'
    BY <1>2 DEF Linked, Before, TypeOK
  <2>3. TailIsLast'
    BY <1>2 DEF TailIsLast, Settled
  <2>4. TailLive'
    BY <1>2 DEF TailLive, TypeOK
  <2> QED
    BY <2>1, <2>2, <2>3, <2>4
<1>4. \A c \in Calls : Before(c, a) => Settled(c)
  <2> SUFFICES ASSUME NEW c \in Calls, Before(c, a), ~ Settled(c) PROVE FALSE
    OBVIOUS
  <2>1. previous[a] # NoCall /\ ticket[c] <= ticket[previous[a]]
    BY <1>2 DEF Linked, Before
  <2> DEFINE p == previous[a]
  <2>2. p \in Calls /\ Settled(p) /\ Before(p, a)
    BY <2>1, <1>2 DEF Linked, TypeOK
  <2>3. c # p
    BY <2>2
  <2>4. Before(c, p)
    BY <2>1, <2>2, <2>3 DEF Before, TicketsInOrder, TypeOK
  <2> QED
    BY <2>2, <2>4 DEF FirstComeFirstServed, Settled
<1>5. FirstComeFirstServed'
  BY <1>2, <1>4 DEF FirstComeFirstServed
<1> QED
  BY <1>1, <1>3, <1>5

LEMMA LockSettle == ASSUME LockInv, NEW a \in Calls, Settle(a) PROVE LockInv'
<1> USE DEF Settle, LockInv
<1>1. TypeOK'
  BY DEF TypeOK, Steps
<1>2. /\ pc[a] = "running" /\ pc'[a] = "settled"
      /\ \A c \in Calls \ {a} : pc'[c] = pc[c]
      /\ \A c \in Calls : Settled(c) => Settled(c)'
      /\ \A c, d \in Calls : Before(c, d)' <=> Before(c, d)
  BY DEF TypeOK, Settled, Before
<1>3. TicketsInOrder'
  BY <1>2 DEF TicketsInOrder
<1>4. Linked'
  BY <1>2, NoCallAssumption DEF Linked, Before, TypeOK
<1>5. TailIsLast'
  BY <1>2 DEF TailIsLast
<1>6. TailLive'
  BY <1>2 DEF TailLive, TypeOK
<1>7. FirstComeFirstServed'
  BY <1>2 DEF FirstComeFirstServed
<1> QED
  BY <1>1, <1>3, <1>4, <1>5, <1>6, <1>7

\* Leaving: the entry is removed by the last call of the key only, so every
\* call of the key has settled by then.
LEMMA LockLeave == ASSUME LockInv, NEW a \in Calls, Leave(a) PROVE LockInv'
<1> USE NoCallAssumption DEF Leave, LockInv
<1>1. TypeOK'
  BY DEF TypeOK, Steps
<1>2. /\ pc[a] = "settled" /\ pc'[a] = "done"
      /\ \A c \in Calls \ {a} : pc'[c] = pc[c]
      /\ \A c \in Calls : Settled(c)' <=> Settled(c)
      /\ \A c, d \in Calls : Before(c, d)' <=> Before(c, d)
      /\ \A k \in Keys : lockTails'[k] = IF k = key[a] /\ lockTails[k] = a THEN NoCall ELSE lockTails[k]
  BY DEF TypeOK, Settled, Before
<1>3. TicketsInOrder'
  BY <1>2 DEF TicketsInOrder
<1>4. Linked'
  BY <1>2 DEF Linked, Before, TypeOK
<1>5. TailIsLast'
  <2> SUFFICES ASSUME NEW c \in Calls, pc[c] # "idle", key[c] = key[a], lockTails[key[a]] = a
               PROVE  Settled(c)
    BY <1>2 DEF TailIsLast, TypeOK
  <2>1. c = a \/ Before(c, a)
    <3>1. ticket[c] <= ticket[a]
      BY DEF TailIsLast
    <3>2. c # a => ticket[c] # ticket[a]
      BY <1>2 DEF TicketsInOrder
    <3>3. ticket[c] \in Nat /\ ticket[a] \in Nat /\ pc[a] # "idle"
      BY <1>2 DEF TypeOK
    <3> HIDE DEF LockInv, Leave
    <3> QED
      BY <3>1, <3>2, <3>3 DEF Before
  <2> QED
    BY <2>1, <1>2 DEF FirstComeFirstServed, Settled
<1>6. TailLive'
  BY <1>2 DEF TailLive, TypeOK
<1>7. FirstComeFirstServed'
  BY <1>2 DEF FirstComeFirstServed
<1> QED
  BY <1>1, <1>3, <1>4, <1>5, <1>6, <1>7

LEMMA LockStutter == ASSUME LockInv, UNCHANGED vars PROVE LockInv'
BY DEF LockInv, vars, TypeOK, TicketsInOrder, Linked, TailIsLast, TailLive,
       FirstComeFirstServed, Before, Settled

LEMMA LockStep == LockInv /\ [Next]_vars => LockInv'
<1> SUFFICES ASSUME LockInv, [Next]_vars PROVE LockInv'
  OBVIOUS
<1>1. CASE UNCHANGED vars
  BY <1>1, LockStutter
<1>2. CASE Finished
  BY <1>2, LockStutter DEF Finished
<1>3. ASSUME NEW c \in Calls, Enter(c) \/ Start(c) \/ Settle(c) \/ Leave(c) PROVE LockInv'
  BY <1>3, LockEnter, LockStart, LockSettle, LockLeave
<1> QED
  BY <1>1, <1>2, <1>3 DEF Next

\* Every state of the lock has the types and links the code relies on.
THEOREM LockTypesHold == Spec => []TypeOK
<1>1. Spec => []LockInv
  BY LockInit, LockStep, PTL DEF Spec
<1> QED
  BY <1>1, PTL DEF LockInv

\* keyedLock.ts 3-7: a task runs only after every earlier task with its key
\* has settled, however many calls and keys there are.
THEOREM ArrivalOrder == Spec => []FirstComeFirstServed
<1>1. Spec => []LockInv
  BY LockInit, LockStep, PTL DEF Spec
<1> QED
  BY <1>1, PTL DEF LockInv

\* "work on one file or project never overlaps": of two running tasks of one
\* key, one would have been called first and would have had to settle.
THEOREM MutualExclusion == Spec => []Exclusive
<1>1. Spec => []LockInv
  BY LockInit, LockStep, PTL DEF Spec
<1>2. LockInv => Exclusive
  BY DEF LockInv, TypeOK, TicketsInOrder, FirstComeFirstServed, Before, Settled, Exclusive
<1> QED
  BY <1>1, <1>2, PTL

\* A call that rejects does not block the others: whoever is next can start.
THEOREM NobodyStuck == Spec => []NextInLineFree
<1>1. Spec => []LockInv
  BY LockInit, LockStep, PTL DEF Spec
<1>2. LockInv => NextInLineFree
  BY DEF LockInv, TypeOK, Linked, NextInLineFree
<1> QED
  BY <1>1, <1>2, PTL

\* The map does not grow with the keys that were ever used: an entry belongs
\* to a call that has not returned.
THEOREM MapEmptied == Spec => []NoEntryLeft
<1>1. Spec => []LockInv
  BY LockInit, LockStep, PTL DEF Spec
<1>2. LockInv => NoEntryLeft
  <2> SUFFICES ASSUME LockInv, NEW k \in Keys, lockTails[k] # NoCall
               PROVE  \E c \in Calls : key[c] = k /\ pc[c] \notin {"idle", "done"}
    BY DEF NoEntryLeft
  <2>1. lockTails[k] \in Calls
    BY DEF LockInv, TypeOK
  <2> QED
    BY <2>1 DEF LockInv, TailLive
<1> QED
  BY <1>1, <1>2, PTL

-----------------------------------------------------------------------------
(* The members (Sharing), for any users, requests at a time and limits.  The *)
(* ownership moves to members, once at a time, and nobody adds the one it    *)
(* moves to meanwhile (Unsettled is FALSE).                                  *)

HandlerSteps == {"join", "count", "invite", "respond", "approve", "patch", "remove", "transfer"}

\* The steps of a request after which its user may get a row, whatever is
\* there by then.
AddingSteps == {"join", "invite", "respond", "approve"}

SharingTypes ==
  /\ owner \in Users
  /\ member \in [Users -> {"none", "member", "owner"}]
  /\ invite \in [Users -> {"none", "pending"}]
  /\ request \in [Users -> {"none", "pending"}]
  /\ link \in [state : {"none", "active", "revoked"}, uses : Nat]
  /\ handler \in [Handlers -> {Members!Idle} \cup [step : HandlerSteps, user : Users, by : Users \cup {NoUser}]]
  /\ joins \in Nat

\* Of all users, the owner of the project alone has the owner's row.
OwnerRow == \A u \in Users : member[u] = "owner" <=> u = owner

\* Nothing is open or under way that would make the owner a member again.
OwnerUntouched ==
  /\ invite[owner] = "none" /\ request[owner] = "none"
  /\ \A h \in Handlers : handler[h].step \in AddingSteps => Members!About(h) # owner

\* A transfer under way is by the owner of now, to someone else, and the
\* only one.
TransferByOwner ==
  \A h \in Handlers : Members!At(h, "transfer") =>
    /\ handler[h].by = owner /\ Members!About(h) # owner
    /\ \A g \in Handlers : Members!At(g, "transfer") => g = h

OwnerInv == OwnerRow /\ OwnerUntouched /\ TransferByOwner

-----------------------------------------------------------------------------
LEMMA SharingTypesStep == SharingTypes /\ [Members!Next]_Members!sharingVars => SharingTypes'
<1> SUFFICES ASSUME SharingTypes, [Members!Next]_Members!sharingVars PROVE SharingTypes'
  OBVIOUS
<1> USE DEF SharingTypes, HandlerSteps, Members!Idle, Members!At, Members!About, Members!Done, Members!TakeBy, Members!Take
<1>1. CASE UNCHANGED Members!sharingVars
  BY <1>1 DEF Members!sharingVars
<1>2. Members!CreateLink \/ Members!RevokeLink => SharingTypes'
  BY DEF Members!CreateLink, Members!RevokeLink
<1>3. \A u \in Users : Members!RevokeInvite(u) \/ Members!RequestAccess(u) => SharingTypes'
  BY DEF Members!RevokeInvite, Members!RequestAccess
<1>4. \A h \in Handlers, u \in Users : Members!Join(h, u) \/ Members!Invite(h, u) \/ Members!Respond(h, u) => SharingTypes'
  BY DEF Members!Join, Members!Invite, Members!Respond
<1>5. \A h \in Handlers, u \in Users : Members!Transfer(h, u) => SharingTypes'
  BY DEF Members!Transfer
<1>6. \A h \in Handlers, u \in Users, approved \in BOOLEAN : Members!Decide(h, u, approved) => SharingTypes'
  BY DEF Members!Decide
<1>7. \A h \in Handlers, u \in Users, what \in {"patch", "remove"} : Members!Change(h, u, what) => SharingTypes'
  BY DEF Members!Change
<1>8. \A h \in Handlers : Members!TransferCommit(h) => SharingTypes'
  <2> SUFFICES ASSUME NEW h \in Handlers, Members!TransferCommit(h) PROVE SharingTypes'
    OBVIOUS
  <2> DEFINE to == Members!About(h)
             from == handler[h].by
             promoted == [member EXCEPT ![to] = "owner"]
  <2>1. to \in Users
    BY DEF Members!TransferCommit
  <2>2. promoted \in [Users -> {"none", "member", "owner"}]
    BY <2>1
  <2>3. [promoted EXCEPT ![from] = "member"] \in [Users -> {"none", "member", "owner"}]
    BY <2>2
  <2>4. member' \in [Users -> {"none", "member", "owner"}]
    BY <2>2, <2>3 DEF Members!TransferCommit
  <2> QED
    BY <2>1, <2>4 DEF Members!TransferCommit
<1>9. \A h \in Handlers : Members!JoinAdd(h) \/ Members!JoinCount(h) => SharingTypes'
  BY DEF Members!JoinAdd, Members!JoinCount, Members!AddMember, Members!IncrementUse
<1>10. \A h \in Handlers : Members!InviteWrite(h) \/ Members!InviteFails(h) \/ Members!Approve(h) => SharingTypes'
  BY DEF Members!InviteWrite, Members!InviteFails, Members!Approve, Members!AddMember
<1>11. \A h \in Handlers, accept \in BOOLEAN : Members!RespondCommit(h, accept) => SharingTypes'
  BY DEF Members!RespondCommit, Members!AddMember
<1>12. \A h \in Handlers : Members!UpdateRole(h) \/ Members!RemoveMember(h) \/ Members!RemoveFails(h) => SharingTypes'
  BY DEF Members!UpdateRole, Members!RemoveMember, Members!RemoveFails, Members!AddMember
<1>13. CASE Members!Next
  BY <1>2, <1>3, <1>4, <1>5, <1>6, <1>7, <1>8, <1>9, <1>10, <1>11, <1>12, <1>13 DEF Members!Next
<1> QED
  BY <1>1, <1>13

LEMMA OwnerStep ==
  ASSUME ~Unsettled
  PROVE  SharingTypes /\ OwnerInv /\ [Members!Next]_Members!sharingVars => OwnerInv'
<1> SUFFICES ASSUME SharingTypes, OwnerInv, [Members!Next]_Members!sharingVars PROVE OwnerInv'
  OBVIOUS
<1> USE DEF SharingTypes, HandlerSteps, AddingSteps, Members!Idle, Members!At, Members!About, Members!Done, Members!TakeBy, Members!Take,
            OwnerInv, OwnerRow, OwnerUntouched, TransferByOwner
<1>1. CASE UNCHANGED Members!sharingVars
  BY <1>1 DEF Members!sharingVars
<1>2. Members!CreateLink \/ Members!RevokeLink => OwnerInv'
  BY DEF Members!CreateLink, Members!RevokeLink
<1>3. \A u \in Users : Members!RevokeInvite(u) \/ Members!RequestAccess(u) => OwnerInv'
  BY DEF Members!RevokeInvite, Members!RequestAccess
\* A way in is opened to someone without a row, or to one whose request or
\* invitation is pending: neither is the owner.
<1>4. \A h \in Handlers, u \in Users : Members!Join(h, u) \/ Members!Invite(h, u) \/ Members!Respond(h, u) => OwnerInv'
  BY DEF Members!Join, Members!Invite, Members!Respond
<1>5. \A h \in Handlers, u \in Users : Members!Transfer(h, u) => OwnerInv'
  BY DEF Members!Transfer
<1>6. \A h \in Handlers, u \in Users, approved \in BOOLEAN : Members!Decide(h, u, approved) => OwnerInv'
  BY DEF Members!Decide
<1>7. \A h \in Handlers, u \in Users, what \in {"patch", "remove"} : Members!Change(h, u, what) => OwnerInv'
  BY DEF Members!Change
\* The transfer: its two rows change places, if the other is settled.
<1>8. \A h \in Handlers : Members!TransferCommit(h) => OwnerInv'
  <2> SUFFICES ASSUME NEW h \in Handlers, Members!TransferCommit(h) PROVE OwnerInv'
    OBVIOUS
  <2>1. /\ Members!About(h) \in Users /\ Members!About(h) # owner /\ handler[h].by = owner
        /\ owner' = Members!About(h)
        /\ handler' = [handler EXCEPT ![h] = Members!Idle]
        /\ UNCHANGED <<invite, request>>
        /\ Members!Settled(Members!About(h))
    BY DEF Members!TransferCommit
  <2>2. OwnerRow'
    BY <2>1 DEF Members!TransferCommit
  <2>3. OwnerUntouched'
    BY <2>1 DEF Members!Settled
  <2>4. TransferByOwner'
    BY <2>1 DEF Members!TransferCommit
  <2> QED
    BY <2>2, <2>3, <2>4
\* A row is written for someone who is not the owner.
<1>9. \A h \in Handlers : Members!JoinAdd(h) \/ Members!JoinCount(h) => OwnerInv'
  BY DEF Members!JoinAdd, Members!JoinCount, Members!AddMember
<1>10. \A h \in Handlers : Members!InviteWrite(h) \/ Members!InviteFails(h) \/ Members!Approve(h) => OwnerInv'
  BY DEF Members!InviteWrite, Members!InviteFails, Members!Approve, Members!AddMember
<1>11. \A h \in Handlers, accept \in BOOLEAN : Members!RespondCommit(h, accept) => OwnerInv'
  BY DEF Members!RespondCommit, Members!AddMember
\* These may be about someone who has become the owner meanwhile: the
\* statement looks at the row again.
<1>12. \A h \in Handlers : Members!UpdateRole(h) \/ Members!RemoveMember(h) \/ Members!RemoveFails(h) => OwnerInv'
  BY
     DEF Members!UpdateRole, Members!RemoveMember, Members!RemoveFails, Members!AddMember,
         Members!NotOwner
<1>13. CASE Members!Next
  BY <1>2, <1>3, <1>4, <1>5, <1>6, <1>7, <1>8, <1>9, <1>10, <1>11, <1>12, <1>13 DEF Members!Next
<1> QED
  BY <1>1, <1>13
-----------------------------------------------------------------------------
(* The limits of the plan and of the link.                                   *)

Rows == {u \in Users : member[u] # "none"}
Pendings == {u \in Users : invite[u] = "pending"}

\* The requests that will add someone who is not counted yet.
Adding == {h \in Handlers : handler[h].step \in {"join", "invite", "approve"}}

\* The users that were counted when their invitation was answered, or the
\* transfer to them began, who are not any more, and may get a row again.
Owed ==
  {u \in Users : /\ member[u] = "none" /\ invite[u] = "none"
                 /\ \E h \in Handlers : handler[h].step \in {"respond", "transfer"} /\ handler[h].user = u}

\* What is counted, and may yet be without the plan being asked again.
PlanInv ==
  Cardinality(Rows) + Cardinality(Pendings) + Cardinality(Adding) + Cardinality(Owed)
    <= PlanLimit + Cardinality(Handlers) - 1

Joining == {h \in Handlers : handler[h].step = "join"}
Counting == {h \in Handlers : handler[h].step = "count"}

\* The members added with the link are those it counts and those whose
\* requests are about to be counted.
LinkInv ==
  /\ joins = link.uses + Cardinality(Counting)
  /\ joins + Cardinality(Joining) <= MaxUses + Cardinality(Handlers) - 1

Bounds ==
  /\ IsFiniteSet(Users) /\ IsFiniteSet(Handlers) /\ Handlers # {}
  /\ PlanLimit \in Nat \ {0} /\ MaxUses \in Nat

LEMMA SameNumber == \A S : Members!Cardinality(S) = Cardinality(S)
BY DEF Members!Cardinality, Cardinality, Members!IsFiniteSet, IsFiniteSet

\* What a set can gain and lose in a step.
LEMMA NotMore ==
  ASSUME NEW S, IsFiniteSet(S), NEW T, T \subseteq S
  PROVE  IsFiniteSet(T) /\ Cardinality(T) \in Nat /\ Cardinality(T) <= Cardinality(S)
BY FS_Subset, FS_CardinalityType

LEMMA OneMore ==
  ASSUME NEW S, IsFiniteSet(S), NEW x, NEW T, T \subseteq S \cup {x}
  PROVE  IsFiniteSet(T) /\ Cardinality(T) \in Nat /\ Cardinality(T) <= Cardinality(S) + 1
<1>1. /\ IsFiniteSet(S \cup {x})
      /\ Cardinality(S \cup {x}) = IF x \in S THEN Cardinality(S) ELSE Cardinality(S) + 1
  BY FS_AddElement
<1>2. IsFiniteSet(T) /\ Cardinality(T) <= Cardinality(S \cup {x})
  BY <1>1, FS_Subset
<1>3. Cardinality(T) \in Nat /\ Cardinality(S) \in Nat
  BY <1>2, FS_CardinalityType
<1> QED
  BY <1>1, <1>2, <1>3

LEMMA OneLess ==
  ASSUME NEW S, IsFiniteSet(S), NEW x \in S, NEW T, T \subseteq S \ {x}
  PROVE  IsFiniteSet(T) /\ Cardinality(T) \in Nat /\ Cardinality(T) <= Cardinality(S) - 1
<1>1. IsFiniteSet(S \ {x}) /\ Cardinality(S \ {x}) = Cardinality(S) - 1
  BY FS_RemoveElement
<1> QED
  BY <1>1, FS_Subset, FS_CardinalityType

\* Each handler is in one of two sets, or stands for one of the users of a
\* third.
LEMMA AtMostHandlers ==
  ASSUME NEW H, IsFiniteSet(H), NEW A, NEW B, NEW f, A \subseteq H,
         \A u \in B : f[u] \in H \ A, \A u, v \in B : f[u] = f[v] => u = v
  PROVE  Cardinality(A) + Cardinality(B) <= Cardinality(H)
<1> DEFINE g == [u \in B |-> f[u]]
<1>1. IsFiniteSet(A) /\ IsFiniteSet(H \ A)
  BY FS_Subset
<1>2. g \in Injection(B, H \ A)
  BY DEF Injection, IsInjective
<1>3. IsFiniteSet(B) /\ Cardinality(B) <= Cardinality(H \ A)
  BY <1>1, <1>2, FS_Injection
<1>4. Cardinality(H \ A) = Cardinality(H) - Cardinality(H \cap A)
  BY <1>1, FS_Difference
<1>5. H \cap A = A
  OBVIOUS
<1>6. Cardinality(A) \in Nat /\ Cardinality(B) \in Nat /\ Cardinality(H) \in Nat
  BY <1>1, <1>3, FS_CardinalityType
<1> QED
  BY <1>3, <1>4, <1>5, <1>6

LEMMA PlanFinite ==
  ASSUME Bounds
  PROVE  /\ IsFiniteSet(Rows) /\ IsFiniteSet(Pendings) /\ IsFiniteSet(Adding) /\ IsFiniteSet(Owed)
         /\ Cardinality(Rows) \in Nat /\ Cardinality(Pendings) \in Nat
         /\ Cardinality(Adding) \in Nat /\ Cardinality(Owed) \in Nat /\ Cardinality(Handlers) \in Nat
<1>1. IsFiniteSet(Rows) /\ IsFiniteSet(Pendings) /\ IsFiniteSet(Adding) /\ IsFiniteSet(Owed)
  BY FS_Subset DEF Bounds, Rows, Pendings, Adding, Owed
<1> QED
  BY <1>1, FS_CardinalityType DEF Bounds

LEMMA PlanStep ==
  ASSUME ~Unsettled, Bounds
  PROVE  SharingTypes /\ PlanInv /\ [Members!Next]_Members!sharingVars => PlanInv'
<1> SUFFICES ASSUME SharingTypes, PlanInv, [Members!Next]_Members!sharingVars PROVE PlanInv'
  OBVIOUS
<1> DEFINE r == Cardinality(Rows)      r2 == Cardinality(Rows')
           p == Cardinality(Pendings)  p2 == Cardinality(Pendings')
           a == Cardinality(Adding)    a2 == Cardinality(Adding')
           o == Cardinality(Owed)      o2 == Cardinality(Owed')
           n == Cardinality(Handlers)
<1>f. /\ IsFiniteSet(Rows) /\ IsFiniteSet(Pendings) /\ IsFiniteSet(Adding) /\ IsFiniteSet(Owed)
      /\ r \in Nat /\ p \in Nat /\ a \in Nat /\ o \in Nat /\ n \in Nat
  BY PlanFinite
<1>g. r + p + a + o <= PlanLimit + n - 1 /\ PlanLimit \in Nat
  BY DEF PlanInv, Bounds
\* A step in which the four numbers do not grow together.
<1>s. ASSUME r2 \in Nat, p2 \in Nat, a2 \in Nat, o2 \in Nat, r2 + p2 + a2 + o2 <= r + p + a + o
      PROVE  PlanInv'
  <2>1. r2 + p2 + a2 + o2 <= PlanLimit + n - 1
    BY <1>s, <1>f, <1>g
  <2> QED
    BY <2>1 DEF PlanInv
<1>k. ASSUME Rows' \subseteq Rows, Pendings' \subseteq Pendings, Adding' \subseteq Adding, Owed' \subseteq Owed
      PROVE  PlanInv'
  <2>1. /\ r2 \in Nat /\ r2 <= r /\ p2 \in Nat /\ p2 <= p
        /\ a2 \in Nat /\ a2 <= a /\ o2 \in Nat /\ o2 <= o
    BY <1>k, <1>f, NotMore
  <2> QED
    BY <2>1, <1>f, <1>s
\* A request that asked the plan begins: the others are no more than there
\* are handlers.
<1>b. ASSUME Rows' = Rows, Pendings' = Pendings, Members!CanInvite PROVE PlanInv'
  <2>1. r + p < PlanLimit
    BY <1>b, SameNumber DEF Members!CanInvite, Members!Counted, Rows, Pendings
  <2> DEFINE f == [u \in Owed' |-> CHOOSE h \in Handlers :
                     handler'[h].step \in {"respond", "transfer"} /\ handler'[h].user = u]
  <2>2. \A u \in Owed' : /\ f[u] \in Handlers /\ handler'[f[u]].step \in {"respond", "transfer"}
                         /\ handler'[f[u]].user = u
    BY DEF Owed
  <2>3. \A u \in Owed' : f[u] \in Handlers \ Adding'
    BY <2>2 DEF Adding
  <2>4. \A u, v \in Owed' : f[u] = f[v] => u = v
    BY <2>2
  <2>5. Adding' \subseteq Handlers
    BY DEF Adding
  <2> HIDE DEF f
  <2>6. a2 + o2 <= n
    BY <2>3, <2>4, <2>5, AtMostHandlers DEF Bounds
  <2>7. a2 \in Nat /\ o2 \in Nat
    <3>1. IsFiniteSet(Adding') /\ IsFiniteSet(Owed')
      BY FS_Subset DEF Bounds, Adding, Owed
    <3> QED
      BY <3>1, FS_CardinalityType
  <2>8. r2 = r /\ p2 = p
    BY <1>b
  <2>9. r2 + p2 + a2 + o2 <= PlanLimit + n - 1
    BY <2>1, <2>6, <2>7, <2>8, <1>f, <1>g
  <2> QED
    BY <2>9 DEF PlanInv
<1> HIDE DEF r, p, a, o, n, r2, p2, a2, o2
<1> USE DEF SharingTypes, HandlerSteps, Members!Idle, Members!At, Members!About, Members!Done,
            Members!TakeBy, Members!Take
<1>1. CASE UNCHANGED Members!sharingVars
  BY <1>1, <1>k DEF Members!sharingVars, Rows, Pendings, Adding, Owed
<1>2. CASE Members!CreateLink \/ Members!RevokeLink
  BY <1>2, <1>k DEF Members!CreateLink, Members!RevokeLink, Rows, Pendings, Adding, Owed
<1>3. ASSUME NEW u \in Users, Members!RevokeInvite(u) PROVE PlanInv'
  <2>1. Rows' = Rows /\ Pendings' \subseteq Pendings \ {u} /\ u \in Pendings /\ Adding' = Adding
        /\ Owed' \subseteq Owed \cup {u}
    BY <1>3 DEF Members!RevokeInvite, Rows, Pendings, Adding, Owed
  <2>2. r2 \in Nat /\ r2 <= r /\ a2 \in Nat /\ a2 <= a
    BY <2>1, <1>f, NotMore DEF r2, r, a2, a
  <2>3. p2 \in Nat /\ p2 <= p - 1
    BY <2>1, <1>f, OneLess DEF p2, p
  <2>4. o2 \in Nat /\ o2 <= o + 1
    BY <2>1, <1>f, OneMore DEF o2, o
  <2> QED
    BY <2>2, <2>3, <2>4, <1>f, <1>s
<1>4. ASSUME NEW u \in Users, Members!RequestAccess(u) PROVE PlanInv'
  BY <1>4, <1>k DEF Members!RequestAccess, Rows, Pendings, Adding, Owed
<1>5. ASSUME NEW h \in Handlers, NEW u \in Users, Members!Join(h, u) \/ Members!Invite(h, u) PROVE PlanInv'
  BY <1>5, <1>b DEF Members!Join, Members!Invite, Rows, Pendings, Adding, Owed
<1>6. ASSUME NEW h \in Handlers, NEW u \in Users, Members!Respond(h, u) PROVE PlanInv'
  BY <1>6, <1>k DEF Members!Respond, Rows, Pendings, Adding, Owed
<1>7. ASSUME NEW h \in Handlers, NEW u \in Users, Members!Transfer(h, u) PROVE PlanInv'
  BY <1>7, <1>k DEF Members!Transfer, Rows, Pendings, Adding, Owed
<1>8. ASSUME NEW h \in Handlers, NEW u \in Users, NEW approved \in BOOLEAN, Members!Decide(h, u, approved)
      PROVE PlanInv'
  <2>1. Rows' = Rows /\ Pendings' = Pendings
    BY <1>8 DEF Members!Decide, Rows, Pendings, Adding, Owed
  <2>2. CASE Members!CanInvite
    BY <2>1, <2>2, <1>b
  <2>3. CASE ~Members!CanInvite
    BY <1>8, <2>3, <1>k DEF Members!Decide, Rows, Pendings, Adding, Owed
  <2> QED
    BY <2>2, <2>3
<1>9. ASSUME NEW h \in Handlers, NEW u \in Users, NEW what \in {"patch", "remove"}, Members!Change(h, u, what)
      PROVE PlanInv'
  BY <1>9, <1>k DEF Members!Change, Rows, Pendings, Adding, Owed
\* One that a request adds is one who was to be added, ...
<1>10. ASSUME NEW h \in Handlers, Members!JoinAdd(h) \/ Members!Approve(h) PROVE PlanInv'
  <2> DEFINE u == Members!About(h)
  <2>1. Rows' \subseteq Rows \cup {u} /\ Pendings' = Pendings /\ h \in Adding /\ Adding' \subseteq Adding \ {h}
        /\ Owed' \subseteq Owed
    BY <1>10 DEF Members!JoinAdd, Members!Approve, Members!AddMember, Rows, Pendings, Adding, Owed
  <2>2. p2 \in Nat /\ p2 <= p /\ o2 \in Nat /\ o2 <= o
    BY <2>1, <1>f, NotMore DEF p2, p, o2, o
  <2>3. a2 \in Nat /\ a2 <= a - 1
    BY <2>1, <1>f, OneLess DEF a2, a
  <2>4. r2 \in Nat /\ r2 <= r + 1
    BY <2>1, <1>f, OneMore DEF r2, r
  <2> QED
    BY <2>2, <2>3, <2>4, <1>f, <1>s
<1>11. ASSUME NEW h \in Handlers, Members!InviteWrite(h) PROVE PlanInv'
  <2> DEFINE u == Members!About(h)
  <2>1. Pendings' \subseteq Pendings \cup {u} /\ Rows' = Rows /\ h \in Adding /\ Adding' \subseteq Adding \ {h}
        /\ Owed' \subseteq Owed
    BY <1>11 DEF Members!InviteWrite, Rows, Pendings, Adding, Owed
  <2>2. r2 \in Nat /\ r2 <= r /\ o2 \in Nat /\ o2 <= o
    BY <2>1, <1>f, NotMore DEF r2, r, o2, o
  <2>3. a2 \in Nat /\ a2 <= a - 1
    BY <2>1, <1>f, OneLess DEF a2, a
  <2>4. p2 \in Nat /\ p2 <= p + 1
    BY <2>1, <1>f, OneMore DEF p2, p
  <2> QED
    BY <2>2, <2>3, <2>4, <1>f, <1>s
<1>12. ASSUME NEW h \in Handlers, Members!JoinCount(h) \/ Members!InviteFails(h) PROVE PlanInv'
  BY <1>12, <1>k DEF Members!JoinCount, Members!InviteFails, Rows, Pendings, Adding, Owed
\* ... or one who is pending, or was when the answer began.
<1>13. ASSUME NEW h \in Handlers, NEW accept \in BOOLEAN, Members!RespondCommit(h, accept) PROVE PlanInv'
  <2> DEFINE u == Members!About(h)
  <2>0. u \in Users /\ handler[h].step = "respond"
    BY <1>13 DEF Members!RespondCommit, Rows, Pendings, Adding, Owed
  <2>1. Adding' \subseteq Adding
    BY <1>13 DEF Members!RespondCommit, Rows, Pendings, Adding, Owed
  <2>2. a2 \in Nat /\ a2 <= a
    BY <2>1, <1>f, NotMore DEF a2, a
  <2>3. CASE invite[u] = "pending"
    <3>1. u \in Pendings /\ Pendings' \subseteq Pendings \ {u}
      BY <1>13, <2>0, <2>3 DEF Members!RespondCommit, Rows, Pendings, Adding, Owed
    <3>2. p2 \in Nat /\ p2 <= p - 1
      BY <3>1, <1>f, OneLess DEF p2, p
    <3>3. CASE accept
      <4>1. Rows' \subseteq Rows \cup {u} /\ Owed' \subseteq Owed
        BY <1>13, <2>0, <3>3
           DEF Members!RespondCommit, Members!AddMember, Rows, Pendings, Adding, Owed
      <4>2. r2 \in Nat /\ r2 <= r + 1 /\ o2 \in Nat /\ o2 <= o
        BY <4>1, <1>f, NotMore, OneMore DEF r2, r, o2, o
      <4> QED
        BY <2>2, <3>2, <4>2, <1>f, <1>s
    <3>4. CASE ~accept
      <4>1. Rows' = Rows /\ Owed' \subseteq Owed \cup {u}
        BY <1>13, <2>0, <3>4 DEF Members!RespondCommit, Rows, Pendings, Adding, Owed
      <4>2. r2 \in Nat /\ r2 <= r /\ o2 \in Nat /\ o2 <= o + 1
        BY <4>1, <1>f, NotMore, OneMore DEF r2, r, o2, o
      <4> QED
        BY <2>2, <3>2, <4>2, <1>f, <1>s
    <3> QED
      BY <3>3, <3>4
  <2>4. CASE invite[u] = "none" /\ accept /\ member[u] = "none"
    <3>1. u \in Owed /\ Owed' \subseteq Owed \ {u}
      BY <1>13, <2>0, <2>4
         DEF Members!RespondCommit, Members!AddMember, Rows, Pendings, Adding, Owed
    <3>2. Rows' \subseteq Rows \cup {u} /\ Pendings' \subseteq Pendings
      BY <1>13, <2>0, <2>4
         DEF Members!RespondCommit, Members!AddMember, Rows, Pendings, Adding, Owed
    <3>3. o2 \in Nat /\ o2 <= o - 1
      BY <3>1, <1>f, OneLess DEF o2, o
    <3>4. r2 \in Nat /\ r2 <= r + 1 /\ p2 \in Nat /\ p2 <= p
      BY <3>2, <1>f, NotMore, OneMore DEF r2, r, p2, p
    <3> QED
      BY <2>2, <3>3, <3>4, <1>f, <1>s
  <2>5. CASE invite[u] = "none" /\ ~(accept /\ member[u] = "none")
    <3>1. Rows' \subseteq Rows /\ Pendings' \subseteq Pendings /\ Owed' \subseteq Owed
      <4>1. CASE accept
        BY <1>13, <2>0, <2>5, <4>1
           DEF Members!RespondCommit, Members!AddMember, Rows, Pendings, Adding, Owed
      <4>2. CASE ~accept
        BY <1>13, <2>0, <2>5, <4>2 DEF Members!RespondCommit, Rows, Pendings, Adding, Owed
      <4> QED
        BY <4>1, <4>2
    <3> QED
      BY <2>1, <3>1, <1>k
  <2> QED
    BY <2>0, <2>3, <2>4, <2>5
<1>14. ASSUME NEW h \in Handlers, Members!UpdateRole(h) \/ Members!RemoveFails(h) PROVE PlanInv'
  BY <1>14, <1>k
     DEF Members!UpdateRole, Members!RemoveFails, Members!AddMember, Members!NotOwner, Rows,
         Pendings, Adding, Owed
<1>15. ASSUME NEW h \in Handlers, Members!RemoveMember(h) PROVE PlanInv'
  <2> DEFINE u == Members!About(h)
  <2>0. Pendings' = Pendings /\ Adding' \subseteq Adding /\ u \in Users
    BY <1>15 DEF Members!RemoveMember, Rows, Pendings, Adding, Owed
  <2>1. CASE member[u] # "member"
    <3>1. Rows' \subseteq Rows /\ Owed' \subseteq Owed
      BY <1>15, <2>1 DEF Members!RemoveMember, Members!NotOwner, Rows, Pendings, Adding, Owed
    <3> QED
      BY <2>0, <3>1, <1>k
  <2>2. CASE member[u] = "member"
    <3>1. u \in Rows /\ Rows' \subseteq Rows \ {u} /\ Owed' \subseteq Owed \cup {u}
      BY <1>15, <2>0, <2>2 DEF Members!RemoveMember, Members!NotOwner, Rows, Pendings, Adding, Owed
    <3>2. p2 \in Nat /\ p2 <= p /\ a2 \in Nat /\ a2 <= a
      BY <2>0, <1>f, NotMore DEF p2, p, a2, a
    <3>3. r2 \in Nat /\ r2 <= r - 1
      BY <3>1, <1>f, OneLess DEF r2, r
    <3>4. o2 \in Nat /\ o2 <= o + 1
      BY <3>1, <1>f, OneMore DEF o2, o
    <3> QED
      BY <3>2, <3>3, <3>4, <1>f, <1>s
  <2> QED
    BY <2>1, <2>2
\* The one who gets the project was a member when the transfer began.
<1>16. ASSUME NEW h \in Handlers, Members!TransferCommit(h) PROVE PlanInv'
  <2> DEFINE u == Members!About(h)
             from == handler[h].by
             promoted == [member EXCEPT ![u] = "owner"]
  <2>0. /\ u \in Users /\ handler[h].step = "transfer" /\ invite[u] = "none" /\ Pendings' = Pendings
        /\ Adding' \subseteq Adding
    BY <1>16 DEF Members!TransferCommit, Members!Settled, Rows, Pendings, Adding, Owed
  <2>1. \A v \in Users : member'[v] = "none" => member[v] = "none" /\ v # u
    <3>1. \A v \in Users : promoted[v] = "none" <=> member[v] = "none" /\ v # u
      BY <2>0
    <3>2. \A v \in Users : [promoted EXCEPT ![from] = "member"][v] = "none" => promoted[v] = "none"
      BY <2>0
    <3> QED
      BY <1>16, <3>1, <3>2 DEF Members!TransferCommit, Rows, Pendings, Adding, Owed
  <2>2. \A v \in Users : v # u /\ member[v] = "none" => member'[v] = "none"
    <3>1. \A v \in Users : v # u /\ member[v] = "none" => promoted[v] = "none"
      BY <2>0
    <3>2. \A v \in Users : promoted[from] = "owner" /\ promoted[v] = "none"
                             => [promoted EXCEPT ![from] = "member"][v] = "none"
      BY <2>0
    <3> QED
      BY <1>16, <3>1, <3>2 DEF Members!TransferCommit, Rows, Pendings, Adding, Owed
  <2>3. p2 \in Nat /\ p2 <= p /\ a2 \in Nat /\ a2 <= a
    BY <2>0, <1>f, NotMore DEF p2, p, a2, a
  <2>4. Owed' \subseteq Owed \ {u}
    BY <1>16, <2>0, <2>1 DEF Members!TransferCommit, Rows, Pendings, Adding, Owed
  <2>5. CASE member[u] = "none"
    <3>1. u \in Owed /\ Rows' \subseteq Rows \cup {u}
      BY <2>0, <2>2, <2>5 DEF Rows, Owed
    <3>2. o2 \in Nat /\ o2 <= o - 1 /\ r2 \in Nat /\ r2 <= r + 1
      BY <2>4, <3>1, <1>f, OneLess, OneMore DEF o2, o, r2, r
    <3> QED
      BY <2>3, <3>2, <1>f, <1>s
  <2>6. CASE member[u] # "none"
    <3>1. Rows' \subseteq Rows
      BY <2>0, <2>2, <2>6 DEF Rows
    <3> QED
      BY <2>0, <2>4, <3>1, <1>k
  <2> QED
    BY <2>5, <2>6
<1>17. CASE Members!Next
  BY <1>17, <1>2, <1>3, <1>4, <1>5, <1>6, <1>7, <1>8, <1>9, <1>10, <1>11, <1>12, <1>13, <1>14,
     <1>15, <1>16
     DEF Members!Next
<1> QED
  BY <1>1, <1>17

LEMMA LinkStep ==
  ASSUME Bounds
  PROVE  SharingTypes /\ LinkInv /\ [Members!Next]_Members!sharingVars => LinkInv'
<1> SUFFICES ASSUME SharingTypes, LinkInv, [Members!Next]_Members!sharingVars PROVE LinkInv'
  OBVIOUS
<1> DEFINE j == Cardinality(Joining)   j2 == Cardinality(Joining')
           c == Cardinality(Counting)  c2 == Cardinality(Counting')
           n == Cardinality(Handlers)
<1>f. /\ IsFiniteSet(Joining) /\ IsFiniteSet(Counting) /\ IsFiniteSet(Joining') /\ IsFiniteSet(Counting')
      /\ j \in Nat /\ c \in Nat /\ j2 \in Nat /\ c2 \in Nat /\ n \in Nat
  <2>1. /\ IsFiniteSet(Joining) /\ IsFiniteSet(Counting)
        /\ IsFiniteSet(Joining') /\ IsFiniteSet(Counting')
    BY FS_Subset DEF Bounds, Joining, Counting
  <2> QED
    BY <2>1, FS_CardinalityType DEF Bounds
<1>g. /\ joins = link.uses + c /\ joins + j <= MaxUses + n - 1
      /\ MaxUses \in Nat /\ joins \in Nat /\ link.uses \in Nat
  BY DEF LinkInv, Bounds, SharingTypes
<1>s. ASSUME joins' = link'.uses + c2, joins' + j2 <= MaxUses + n - 1 PROVE LinkInv'
  BY <1>s DEF LinkInv
<1>k. ASSUME Joining' \subseteq Joining, Counting' = Counting, joins' = joins, link'.uses = link.uses
      PROVE  LinkInv'
  <2>1. j2 <= j /\ c2 = c
    BY <1>k, <1>f, NotMore
  <2>2. joins' = link'.uses + c2 /\ joins' + j2 <= MaxUses + n - 1
    BY <1>f, <1>g, <1>k, <2>1
  <2> QED
    BY <2>2, <1>s
<1> HIDE DEF j, c, n, j2, c2
<1> USE DEF SharingTypes, HandlerSteps, Members!Idle, Members!At, Members!About, Members!Done,
            Members!TakeBy, Members!Take
<1>1. CASE UNCHANGED Members!sharingVars
  BY <1>1, <1>k DEF Members!sharingVars, Joining, Counting
<1>2. CASE Members!CreateLink \/ Members!RevokeLink
  BY <1>2, <1>k DEF Members!CreateLink, Members!RevokeLink, Joining, Counting
<1>3. ASSUME NEW u \in Users, Members!RevokeInvite(u) \/ Members!RequestAccess(u) PROVE LinkInv'
  BY <1>3, <1>k DEF Members!RevokeInvite, Members!RequestAccess, Joining, Counting
\* The link is good for one more; those that are about to be counted are
\* other requests than those that are about to join.
<1>4. ASSUME NEW h \in Handlers, NEW u \in Users, Members!Join(h, u) PROVE LinkInv'
  <2>1. Counting' = Counting /\ joins' = joins /\ link' = link /\ link.uses < MaxUses
    BY <1>4 DEF Members!Join, Counting
  <2> DEFINE f == [g \in Joining' |-> g]
  <2>2. Counting \subseteq Handlers /\ \A g \in Joining' : f[g] \in Handlers \ Counting
    BY <2>1 DEF Joining, Counting
  <2>3. \A g, k \in Joining' : f[g] = f[k] => g = k
    OBVIOUS
  <2> HIDE DEF f
  <2>4. c + j2 <= n
    BY <2>2, <2>3, AtMostHandlers DEF Bounds, c, j2, n
  <2>5. c2 = c
    BY <2>1 DEF c2, c
  <2>6. joins' = link'.uses + c2 /\ joins' + j2 <= MaxUses + n - 1
    BY <2>1, <2>4, <2>5, <1>f, <1>g
  <2> QED
    BY <2>6, <1>s
<1>5. ASSUME NEW h \in Handlers, NEW u \in Users,
             Members!Invite(h, u) \/ Members!Respond(h, u) \/ Members!Transfer(h, u)
      PROVE  LinkInv'
  BY <1>5, <1>k DEF Members!Invite, Members!Respond, Members!Transfer, Joining, Counting
<1>6. ASSUME NEW h \in Handlers, NEW u \in Users, NEW approved \in BOOLEAN, Members!Decide(h, u, approved)
      PROVE  LinkInv'
  BY <1>6, <1>k DEF Members!Decide, Joining, Counting
<1>7. ASSUME NEW h \in Handlers, NEW u \in Users, NEW what \in {"patch", "remove"}, Members!Change(h, u, what)
      PROVE  LinkInv'
  BY <1>7, <1>k DEF Members!Change, Joining, Counting
<1>8. ASSUME NEW h \in Handlers, Members!JoinAdd(h) PROVE LinkInv'
  <2>1. /\ h \in Joining /\ Joining' \subseteq Joining \ {h} /\ joins' = joins + 1 /\ link' = link
        /\ h \notin Counting /\ Counting' = Counting \cup {h}
    BY <1>8 DEF Members!JoinAdd, Joining, Counting
  <2>2. j2 <= j - 1
    BY <2>1, <1>f, OneLess DEF j2, j
  <2>3. c2 = c + 1
    BY <2>1, <1>f, FS_AddElement DEF c2, c
  <2>4. joins' = link'.uses + c2 /\ joins' + j2 <= MaxUses + n - 1
    BY <2>1, <2>2, <2>3, <1>f, <1>g
  <2> QED
    BY <2>4, <1>s
<1>9. ASSUME NEW h \in Handlers, Members!JoinCount(h) PROVE LinkInv'
  <2>1. /\ h \in Counting /\ Counting' = Counting \ {h} /\ joins' = joins /\ link'.uses = link.uses + 1
        /\ Joining' \subseteq Joining
    BY <1>9 DEF Members!JoinCount, Members!IncrementUse, Joining, Counting
  <2>2. j2 <= j
    BY <2>1, <1>f, NotMore DEF j2, j
  <2>3. c2 = c - 1
    BY <2>1, <1>f, FS_RemoveElement DEF c2, c
  <2>4. joins' = link'.uses + c2 /\ joins' + j2 <= MaxUses + n - 1
    BY <2>1, <2>2, <2>3, <1>f, <1>g
  <2> QED
    BY <2>4, <1>s
<1>10. ASSUME NEW h \in Handlers, Members!InviteWrite(h) \/ Members!InviteFails(h) \/ Members!Approve(h)
       PROVE  LinkInv'
  BY <1>10, <1>k DEF Members!InviteWrite, Members!InviteFails, Members!Approve, Joining, Counting
<1>11. ASSUME NEW h \in Handlers, NEW accept \in BOOLEAN, Members!RespondCommit(h, accept) PROVE LinkInv'
  BY <1>11, <1>k DEF Members!RespondCommit, Joining, Counting
<1>12. ASSUME NEW h \in Handlers,
              Members!UpdateRole(h) \/ Members!RemoveMember(h) \/ Members!RemoveFails(h)
       PROVE  LinkInv'
  BY <1>12, <1>k
     DEF Members!UpdateRole, Members!RemoveMember, Members!RemoveFails, Joining, Counting
<1>13. ASSUME NEW h \in Handlers, Members!TransferCommit(h) PROVE LinkInv'
  BY <1>13, <1>k DEF Members!TransferCommit, Joining, Counting
<1>14. CASE Members!Next
  BY <1>14, <1>2, <1>3, <1>4, <1>5, <1>6, <1>7, <1>8, <1>9, <1>10, <1>11, <1>12, <1>13
     DEF Members!Next
<1> QED
  BY <1>1, <1>14

-----------------------------------------------------------------------------
(* The caches of a compile (FileCaches).  One writer at a time, of a text or *)
(* of an upload, and none while a file is read from the drive: the revision  *)
(* of the workspace is not needed for that, updated_at is enough.            *)

\* What the writers have still to do, by what the caches may hold: nothing
\* of the new text yet, or of the old one no more, ...
Settling == {<<"write", "uncache", "touch", "invalidate">>, <<"invalidate">>}
\* ... only the new text, which is not on the drive, ...
Ahead == {<<"write", "touch">>, <<"write", "touch", "invalidate">>}
\* ... only the new text, which is there, ...
Arrived == {<<"touch">>, <<"touch", "invalidate">>}
\* ... or the old text, and the new one is there.
Behind == {<<"uncache", "touch", "invalidate">>}

WriterTypes ==
  writer \in [Writers -> {Caches!NoWrite} \cup
                [text : Nat, todo : Settling \cup Ahead \cup Arrived \cup Behind]]

LoadTypes ==
  load \in [Loads -> [step : {"idle", "listed", "missed", "read", "got"},
                      revision : Nat, updatedAt : Nat, text : Nat \cup {NoContent}]]

CacheTypes ==
  /\ content \in Nat /\ updatedAt \in Nat /\ revision \in Nat /\ writes \in Nat
  /\ driveCache \in Nat \cup {NoContent}
  /\ workspace \in [revision : Nat, updatedAt : Nat, text : Nat \cup {NoContent}]
  /\ WriterTypes /\ LoadTypes

OneWriter == \A v, w \in Writers : writer[v] # Caches!NoWrite /\ writer[w] # Caches!NoWrite => v = w

\* While a file is read from the drive nobody writes it, and what was read is
\* what is there.
ReadAlone ==
  \A l \in Loads : load[l].step \in {"missed", "read"} =>
    ~Caches!Writing /\ (load[l].step = "read" => load[l].text = content)

NoneAhead == workspace.updatedAt <= updatedAt /\ \A l \in Loads : load[l].updatedAt <= updatedAt

\* What a load may take for the text of a row with the updated_at of now.
Steady == \A w \in Writers : writer[w] = Caches!NoWrite \/ writer[w].todo \in Settling

FreshWhenSteady ==
  Steady =>
    /\ driveCache \in {NoContent, content}
    /\ workspace.text # NoContent /\ workspace.updatedAt = updatedAt => workspace.text = content
    /\ \A l \in Loads : load[l].step = "got" /\ load[l].updatedAt = updatedAt => load[l].text = content

NewTextKnown ==
  \A w \in Writers :
    /\ writer[w] # Caches!NoWrite /\ writer[w].todo \in Ahead \cup Arrived => driveCache \in {NoContent, writer[w].text}
    /\ writer[w] # Caches!NoWrite /\ writer[w].todo \in Arrived \cup Behind => content = writer[w].text

CacheInv == CacheTypes /\ OneWriter /\ ReadAlone /\ NoneAhead /\ FreshWhenSteady /\ NewTextKnown

Ordered == ~Rough /\ Kinds \subseteq {"text", "route", "upload"} /\ NoContent \notin Nat

\* Todo gives the three lists, and each step takes the first of one.
LEMMA Todos ==
  /\ Caches!Todo("text") = <<"write", "touch">>
  /\ Caches!Todo("route") = <<"write", "touch", "invalidate">>
  /\ Caches!Todo("upload") = <<"write", "uncache", "touch", "invalidate">>
BY Zenon DEF Caches!Todo

LEMMA Heads ==
  /\ \A t \in Settling \cup Ahead \cup Arrived \cup Behind :
       Head(t) \in {"write", "uncache", "touch", "invalidate"}
  /\ \A t \in Settling : Head(t) = "write" =>
       Len(t) # 1 /\ Tail(t) = <<"uncache", "touch", "invalidate">>
  /\ \A t \in Settling : Head(t) = "invalidate" => Len(t) = 1
  /\ \A t \in Settling : Head(t) \notin {"uncache", "touch"}
  /\ \A t \in Ahead : Head(t) = "write" /\ Len(t) # 1 /\ Tail(t) \in Arrived
  /\ \A t \in Arrived : Head(t) = "touch" /\ (Len(t) = 1 \/ Tail(t) = <<"invalidate">>)
  /\ \A t \in Behind : Head(t) = "uncache" /\ Len(t) # 1 /\ Tail(t) = <<"touch", "invalidate">>
BY DEF Settling, Ahead, Arrived, Behind

LEMMA Disjoint ==
  /\ \A t \in Settling : t \notin Ahead /\ t \notin Arrived /\ t \notin Behind
  /\ \A t \in Ahead : t \notin Arrived /\ t \notin Behind
  /\ \A t \in Arrived : t \notin Behind
  /\ <<"uncache", "touch", "invalidate">> \in Behind /\ <<"touch", "invalidate">> \in Arrived
  /\ <<"invalidate">> \in Settling
  /\ <<"write", "touch">> \in Ahead /\ <<"write", "touch", "invalidate">> \in Ahead
  /\ <<"write", "uncache", "touch", "invalidate">> \in Settling
BY DEF Settling, Ahead, Arrived, Behind

\* Only a list with "uncache" in it may be given up while writes succeed.
LEMMA Uncaching ==
  \A t \in Ahead \cup Arrived : ~\E i \in DOMAIN t : t[i] = "uncache"
BY DEF Ahead, Arrived

-----------------------------------------------------------------------------
\* A writer that goes on.
LEMMA AfterStep ==
  ASSUME CacheTypes, NEW w \in Writers, NEW what, Caches!Step(w, what)
  PROVE  /\ writer[w] # Caches!NoWrite /\ writer[w].text \in Nat
         /\ writer[w].todo \in Settling \cup Ahead \cup Arrived \cup Behind /\ Head(writer[w].todo) = what
         /\ writer'[w] = IF Len(writer[w].todo) = 1 THEN Caches!NoWrite
                         ELSE [text |-> writer[w].text, todo |-> Tail(writer[w].todo)]
         /\ \A v \in Writers : v # w => writer'[v] = writer[v]
         /\ DOMAIN writer' = Writers /\ load' = load /\ writes' = writes
<1>1. writer[w] \in [text : Nat, todo : Settling \cup Ahead \cup Arrived \cup Behind]
  BY DEF CacheTypes, WriterTypes, Caches!Step
<1> QED
  BY <1>1 DEF CacheTypes, WriterTypes, Caches!Step

\* The types, when one writer has changed.
LEMMA WriterTyped ==
  ASSUME CacheTypes, NEW w \in Writers, DOMAIN writer' = Writers, \A v \in Writers : v # w => writer'[v] = writer[v],
         \/ writer'[w] = Caches!NoWrite
         \/ writer'[w] \in [text : Nat, todo : Settling \cup Ahead \cup Arrived \cup Behind],
         writer' = [v \in Writers |-> writer'[v]]
  PROVE  WriterTypes'
BY DEF CacheTypes, WriterTypes

LEMMA CacheStep ==
  ASSUME Ordered
  PROVE  CacheInv /\ [Caches!Next]_Caches!cacheVars => CacheInv'
<1> SUFFICES ASSUME CacheInv, [Caches!Next]_Caches!cacheVars PROVE CacheInv'
  OBVIOUS
<1> USE DEF CacheInv
<1> DEFINE Lists == Settling \cup Ahead \cup Arrived \cup Behind
\* While there is a writer nothing is read from the drive.
<1>r. ASSUME NEW w \in Writers, writer[w] # Caches!NoWrite, NEW l \in Loads
      PROVE  load[l].step \notin {"missed", "read"}
  BY <1>r DEF ReadAlone, Caches!Writing
\* A record with a text is no writer at rest.
<1>n. \A t \in Nat : \A todo : [text |-> t, todo |-> todo] # Caches!NoWrite
  BY DEF Ordered, Caches!NoWrite
<1>1. ASSUME NEW w \in Writers, NEW kind \in Kinds, Caches!Begin(w, kind) PROVE CacheInv'
  <2>1. /\ \A v \in Writers : writer[v] = Caches!NoWrite
        /\ \A l \in Loads : load[l].step \notin {"missed", "read"}
        /\ writes' = writes + 1 /\ writes' \in Nat
        /\ writer' = [writer EXCEPT ![w] = [text |-> writes', todo |-> Caches!Todo(kind)]]
        /\ driveCache' = IF kind \in {"text", "route"} THEN writes' ELSE driveCache
        /\ UNCHANGED <<content, updatedAt, revision, workspace, load>>
    BY <1>1 DEF Caches!Begin, Caches!Writing, Caches!Missing, Ordered, CacheTypes
  <2> DEFINE new == [text |-> writes', todo |-> Caches!Todo(kind)]
  <2>2. writer'[w] = new /\ \A v \in Writers : v # w => writer'[v] = Caches!NoWrite
    BY <2>1 DEF CacheTypes, WriterTypes
  <2>3. (kind \in {"text", "route"} /\ Caches!Todo(kind) \in Ahead) \/ (kind = "upload" /\ Caches!Todo(kind) \in Settling)
    BY Todos, Disjoint DEF Ordered
  <2>4. writer'[w].text = writes' /\ writer'[w].todo = Caches!Todo(kind) /\ writer'[w] # Caches!NoWrite
    BY <2>1, <2>2, <1>n
  <2>5. CacheTypes'
    <3>1. new \in [text : Nat, todo : Lists]
      BY <2>1, <2>3
    <3> HIDE DEF new
    <3>2. WriterTypes'
      BY <2>1, <3>1 DEF CacheTypes, WriterTypes, new
    <3> QED
      BY <2>1, <3>2 DEF CacheTypes, LoadTypes
  <2>6. OneWriter'
    BY <2>2 DEF OneWriter
  <2>7. ReadAlone' /\ NoneAhead'
    BY <2>1 DEF ReadAlone, NoneAhead
  <2>8. FreshWhenSteady'
    <3>1. CASE Caches!Todo(kind) \in Ahead
      BY <2>4, <3>1, Disjoint DEF FreshWhenSteady, Steady
    <3>2. CASE kind = "upload"
      <4>1. Steady
        BY <2>1 DEF Steady
      <4> QED
        BY <2>1, <3>2, <4>1 DEF FreshWhenSteady
    <3> QED
      BY <2>3, <3>1, <3>2
  <2>9. NewTextKnown'
    <3>1. CASE kind \in {"text", "route"} /\ Caches!Todo(kind) \in Ahead
      BY <2>1, <2>2, <2>4, <3>1, Disjoint DEF NewTextKnown
    <3>2. CASE Caches!Todo(kind) \in Settling
      BY <2>2, <2>4, <3>2, Disjoint DEF NewTextKnown
    <3> QED
      BY <2>3, <3>1, <3>2
  <2> QED
    BY <2>5, <2>6, <2>7, <2>8, <2>9
\* A step of the writer: what it does not touch of the types, and that it is
\* the only one.
<1>2. ASSUME NEW w \in Writers, NEW what, Caches!Step(w, what),
             content' \in Nat, updatedAt' \in Nat, updatedAt' >= updatedAt, revision' \in Nat,
             driveCache' \in Nat \cup {NoContent},
             workspace' = workspace \/ workspace' = Caches!NoEntry,
             Len(writer[w].todo) = 1 \/ Tail(writer[w].todo) \in Lists
      PROVE  CacheTypes' /\ OneWriter' /\ ReadAlone' /\ NoneAhead'
  <2>1. /\ writer[w] # Caches!NoWrite /\ writer[w].text \in Nat
        /\ writer'[w] = IF Len(writer[w].todo) = 1 THEN Caches!NoWrite
                        ELSE [text |-> writer[w].text, todo |-> Tail(writer[w].todo)]
        /\ \A v \in Writers : v # w => writer'[v] = writer[v]
        /\ DOMAIN writer' = Writers /\ load' = load /\ writes' = writes
    BY <1>2, AfterStep
  <2>2. writer' = [v \in Writers |-> writer'[v]]
    BY <1>2 DEF Caches!Step, CacheTypes, WriterTypes
  <2>3. writer'[w] = Caches!NoWrite \/ writer'[w] \in [text : Nat, todo : Lists]
    BY <1>2, <2>1
  <2>4. WriterTypes'
    BY <2>1, <2>2, <2>3, WriterTyped
  <2>5. workspace' \in [revision : Nat, updatedAt : Nat, text : Nat \cup {NoContent}]
        /\ workspace'.updatedAt <= updatedAt
    BY <1>2 DEF CacheTypes, NoneAhead, Caches!NoEntry
  <2>6. CacheTypes'
    BY <1>2, <2>1, <2>4, <2>5 DEF CacheTypes, LoadTypes
  <2>7. OneWriter'
    BY <2>1 DEF OneWriter
  <2>8. ReadAlone'
    BY <2>1, <1>r DEF ReadAlone
  <2>9. NoneAhead'
    <3>1. \A l \in Loads : load[l].updatedAt \in Nat
      BY DEF CacheTypes, LoadTypes
    <3>2. workspace'.updatedAt \in Nat /\ updatedAt \in Nat
      BY <2>5 DEF CacheTypes
    <3> QED
      BY <1>2, <2>1, <2>5, <3>1, <3>2 DEF NoneAhead
  <2> QED
    BY <2>6, <2>7, <2>8, <2>9
\* Where a writer is, the others are at rest.
<1>o. ASSUME NEW w \in Writers, writer[w] # Caches!NoWrite, NEW v \in Writers, v # w
      PROVE  writer[v] = Caches!NoWrite
  BY <1>o DEF OneWriter
<1>3. ASSUME NEW w \in Writers, Caches!Write(w) PROVE CacheInv'
  <2>1. /\ writer[w] # Caches!NoWrite /\ writer[w].text \in Nat
        /\ writer[w].todo \in Lists /\ Head(writer[w].todo) = "write"
        /\ writer'[w] = IF Len(writer[w].todo) = 1 THEN Caches!NoWrite
                        ELSE [text |-> writer[w].text, todo |-> Tail(writer[w].todo)]
        /\ \A v \in Writers : v # w => writer'[v] = writer[v]
        /\ load' = load
    BY <1>3, AfterStep DEF Caches!Write
  <2>2. /\ content' = writer[w].text /\ UNCHANGED <<updatedAt, revision, driveCache, workspace>>
        /\ Caches!Step(w, "write")
    BY <1>3 DEF Caches!Write
  <2>3. /\ writer[w].todo \in Settling \cup Ahead /\ Len(writer[w].todo) # 1
        /\ (writer[w].todo \in Settling => Tail(writer[w].todo) \in Behind)
        /\ (writer[w].todo \in Ahead => Tail(writer[w].todo) \in Arrived)
    BY <2>1, Heads, Disjoint
  <2>4. CacheTypes' /\ OneWriter' /\ ReadAlone' /\ NoneAhead'
    BY <2>1, <2>2, <2>3, <1>2 DEF CacheTypes
  <2>5. writer'[w].text = writer[w].text /\ writer'[w].todo = Tail(writer[w].todo) /\ writer'[w] # Caches!NoWrite
    BY <2>1, <2>3, <1>n
  <2>6. FreshWhenSteady'
    BY <2>3, <2>5, Disjoint DEF FreshWhenSteady, Steady
  <2>7. NewTextKnown'
    <3>1. \A v \in Writers : v # w => writer'[v] = Caches!NoWrite
      BY <2>1, <1>o
    <3>2. writer[w].todo \in Ahead => driveCache' \in {NoContent, writer[w].text}
      BY <2>1, <2>2 DEF NewTextKnown
    <3> QED
      BY <2>2, <2>3, <2>5, <3>1, <3>2, Disjoint DEF NewTextKnown
  <2> QED
    BY <2>4, <2>6, <2>7
<1>4. ASSUME NEW w \in Writers, Caches!Uncache(w) PROVE CacheInv'
  <2>1. /\ writer[w] # Caches!NoWrite /\ writer[w].text \in Nat
        /\ writer[w].todo \in Lists /\ Head(writer[w].todo) = "uncache"
        /\ writer'[w] = IF Len(writer[w].todo) = 1 THEN Caches!NoWrite
                        ELSE [text |-> writer[w].text, todo |-> Tail(writer[w].todo)]
        /\ \A v \in Writers : v # w => writer'[v] = writer[v]
        /\ load' = load
    BY <1>4, AfterStep DEF Caches!Uncache
  <2>2. /\ driveCache' = NoContent /\ UNCHANGED <<updatedAt, revision, content, workspace>>
        /\ Caches!Step(w, "uncache")
    BY <1>4 DEF Caches!Uncache
  <2>3. writer[w].todo \in Behind /\ Len(writer[w].todo) # 1 /\ Tail(writer[w].todo) \in Arrived
    BY <2>1, Heads, Disjoint
  <2>4. CacheTypes' /\ OneWriter' /\ ReadAlone' /\ NoneAhead'
    BY <2>1, <2>2, <2>3, <1>2 DEF CacheTypes
  <2>5. writer'[w].text = writer[w].text /\ writer'[w].todo = Tail(writer[w].todo) /\ writer'[w] # Caches!NoWrite
    BY <2>1, <2>3, <1>n
  <2>6. FreshWhenSteady'
    BY <2>3, <2>5, Disjoint DEF FreshWhenSteady, Steady
  <2>7. NewTextKnown'
    <3>1. \A v \in Writers : v # w => writer'[v] = Caches!NoWrite
      BY <2>1, <1>o
    <3>2. content = writer[w].text
      BY <2>1, <2>3 DEF NewTextKnown
    <3> QED
      BY <2>2, <2>3, <2>5, <3>1, <3>2, Disjoint DEF NewTextKnown
  <2> QED
    BY <2>4, <2>6, <2>7
\* What is filed under the updated_at of before is no longer looked at.
<1>5. ASSUME NEW w \in Writers, Caches!Touch(w) PROVE CacheInv'
  <2>1. /\ writer[w] # Caches!NoWrite /\ writer[w].text \in Nat
        /\ writer[w].todo \in Lists /\ Head(writer[w].todo) = "touch"
        /\ writer'[w] = IF Len(writer[w].todo) = 1 THEN Caches!NoWrite
                        ELSE [text |-> writer[w].text, todo |-> Tail(writer[w].todo)]
        /\ \A v \in Writers : v # w => writer'[v] = writer[v]
        /\ load' = load
    BY <1>5, AfterStep DEF Caches!Touch
  <2>2. /\ updatedAt' = updatedAt + 1 /\ UNCHANGED <<driveCache, revision, content, workspace>>
        /\ Caches!Step(w, "touch")
    BY <1>5 DEF Caches!Touch
  <2>3. writer[w].todo \in Arrived /\ (Len(writer[w].todo) = 1 \/ Tail(writer[w].todo) = <<"invalidate">>)
    BY <2>1, Heads, Disjoint
  <2>4. CacheTypes' /\ OneWriter' /\ ReadAlone' /\ NoneAhead'
    <3>1. updatedAt' \in Nat /\ updatedAt' >= updatedAt /\ content' \in Nat /\ revision' \in Nat
          /\ driveCache' \in Nat \cup {NoContent}
      BY <2>2 DEF CacheTypes
    <3> QED
      BY <2>2, <2>3, <3>1, <1>2, Disjoint
  <2>5. writer'[w] = Caches!NoWrite \/ writer'[w].todo = <<"invalidate">>
    BY <2>1, <2>3
  <2>6. content = writer[w].text /\ driveCache \in {NoContent, content}
    BY <2>1, <2>3 DEF NewTextKnown
  <2>7. FreshWhenSteady'
    <3>1. workspace'.updatedAt # updatedAt' /\ \A l \in Loads : load'[l].updatedAt # updatedAt'
      <4>1. \A l \in Loads : load[l].updatedAt \in Nat
        BY DEF CacheTypes, LoadTypes
      <4>2. workspace.updatedAt \in Nat /\ updatedAt \in Nat
        BY DEF CacheTypes
      <4> QED
        BY <2>1, <2>2, <4>1, <4>2 DEF NoneAhead
    <3> QED
      BY <2>2, <2>6, <3>1 DEF FreshWhenSteady
  <2>8. NewTextKnown'
    <3>1. \A v \in Writers : v # w => writer'[v] = Caches!NoWrite
      BY <2>1, <1>o
    <3> QED
      BY <2>5, <3>1, Disjoint DEF NewTextKnown
  <2> QED
    BY <2>4, <2>7, <2>8
\* The writers with nothing to write but the first list or the last step:
\* what the caches hold is good before and after it.
<1>s. ASSUME NEW w \in Writers, writer[w] # Caches!NoWrite, writer[w].todo \in Settling PROVE Steady
  BY <1>s, <1>o DEF Steady
<1>6. ASSUME NEW w \in Writers, Caches!Invalidate(w) PROVE CacheInv'
  <2>1. /\ writer[w] # Caches!NoWrite /\ writer[w].text \in Nat
        /\ writer[w].todo \in Lists /\ Head(writer[w].todo) = "invalidate"
        /\ writer'[w] = IF Len(writer[w].todo) = 1 THEN Caches!NoWrite
                        ELSE [text |-> writer[w].text, todo |-> Tail(writer[w].todo)]
        /\ \A v \in Writers : v # w => writer'[v] = writer[v]
        /\ load' = load
    BY <1>6, AfterStep DEF Caches!Invalidate
  <2>2. /\ revision' = revision + 1 /\ workspace' = Caches!NoEntry /\ UNCHANGED <<driveCache, updatedAt, content>>
        /\ Caches!Step(w, "invalidate")
    BY <1>6 DEF Caches!Invalidate
  <2>3. writer[w].todo \in Settling /\ Len(writer[w].todo) = 1
    BY <2>1, Heads, Disjoint
  <2>4. CacheTypes' /\ OneWriter' /\ ReadAlone' /\ NoneAhead'
    <3>1. updatedAt' \in Nat /\ updatedAt' >= updatedAt /\ content' \in Nat /\ revision' \in Nat
          /\ driveCache' \in Nat \cup {NoContent}
      BY <2>2 DEF CacheTypes
    <3> QED
      BY <2>2, <2>3, <3>1, <1>2
  <2>5. Steady
    BY <2>1, <2>3, <1>s
  <2>6. FreshWhenSteady'
    BY <2>1, <2>2, <2>5 DEF FreshWhenSteady, Caches!NoEntry
  <2>7. NewTextKnown'
    BY <2>1, <2>3, <1>o DEF NewTextKnown
  <2> QED
    BY <2>4, <2>6, <2>7
<1>7. ASSUME NEW w \in Writers, Caches!WriteFails(w) PROVE CacheInv'
  <2>1. /\ writer[w] # Caches!NoWrite /\ Head(writer[w].todo) = "write"
        /\ \E i \in DOMAIN writer[w].todo : writer[w].todo[i] = "uncache"
        /\ writer' = [writer EXCEPT ![w] = Caches!NoWrite]
        /\ UNCHANGED <<content, updatedAt, revision, driveCache, workspace, writes, load>>
    BY <1>7 DEF Caches!WriteFails, Ordered
  <2>2. writer[w].todo \in Lists
    BY <2>1 DEF CacheTypes, WriterTypes
  <2>3. writer[w].todo \in Settling
    BY <2>1, <2>2, Heads, Uncaching
  <2>4. Steady
    BY <2>1, <2>3, <1>s
  <2>5. \A v \in Writers : writer'[v] = Caches!NoWrite
    BY <2>1, <1>o DEF CacheTypes, WriterTypes
  <2>6. CacheTypes' /\ OneWriter' /\ ReadAlone' /\ NoneAhead'
    <3>1. WriterTypes'
      BY <2>1 DEF CacheTypes, WriterTypes
    <3>2. CacheTypes'
      BY <2>1, <3>1 DEF CacheTypes, LoadTypes
    <3>3. ReadAlone'
      BY <2>1, <1>r DEF ReadAlone
    <3> QED
      BY <2>1, <2>5, <3>2, <3>3 DEF OneWriter, NoneAhead
  <2>7. FreshWhenSteady' /\ NewTextKnown'
    BY <2>1, <2>4, <2>5 DEF FreshWhenSteady, NewTextKnown
  <2> QED
    BY <2>6, <2>7
\* The loads: what one of them becomes, the others being as they were.
<1>8. ASSUME NEW l \in Loads, DOMAIN load' = Loads, \A k \in Loads : k # l => load'[k] = load[k],
             load'[l] \in [step : {"idle", "listed", "missed", "read", "got"},
                           revision : Nat, updatedAt : Nat, text : Nat \cup {NoContent}],
             load' = [k \in Loads |-> load'[k]], writer' = writer, UNCHANGED <<content, updatedAt, revision, writes>>,
             driveCache' \in Nat \cup {NoContent},
             workspace' \in [revision : Nat, updatedAt : Nat, text : Nat \cup {NoContent}],
             workspace'.updatedAt <= updatedAt,
             load'[l].updatedAt <= updatedAt,
             load'[l].step \in {"missed", "read"} => ~Caches!Writing,
             load'[l].step = "read" => load'[l].text = content
      PROVE  CacheTypes' /\ OneWriter' /\ ReadAlone' /\ NoneAhead'
  <2>1. LoadTypes'
    BY <1>8 DEF CacheTypes, LoadTypes
  <2>2. CacheTypes'
    BY <1>8, <2>1 DEF CacheTypes, WriterTypes
  <2>3. OneWriter'
    BY <1>8 DEF OneWriter
  <2>4. ReadAlone'
    BY <1>8 DEF ReadAlone, Caches!Writing
  <2>5. NoneAhead'
    BY <1>8 DEF NoneAhead
  <2> QED
    BY <2>2, <2>3, <2>4, <2>5
<1>9. ASSUME NEW l \in Loads, Caches!List(l) PROVE CacheInv'
  <2> DEFINE new == [step |-> "listed", revision |-> 0, updatedAt |-> updatedAt, text |-> NoContent]
  <2>1. /\ load' = [load EXCEPT ![l] = new] /\ DOMAIN load' = Loads /\ load'[l] = new
        /\ \A k \in Loads : k # l => load'[k] = load[k]
        /\ load' = [k \in Loads |-> load'[k]]
        /\ UNCHANGED <<content, updatedAt, revision, driveCache, workspace, writes, writer>>
    BY <1>9 DEF Caches!List, CacheTypes, LoadTypes
  <2>2. CacheTypes' /\ OneWriter' /\ ReadAlone' /\ NoneAhead'
    <3>1. /\ new \in [step : {"idle", "listed", "missed", "read", "got"},
                      revision : Nat, updatedAt : Nat, text : Nat \cup {NoContent}]
          /\ new.updatedAt <= updatedAt /\ new.step \notin {"missed", "read"}
      BY DEF CacheTypes
    <3> HIDE DEF new
    <3> QED
      BY <2>1, <3>1, <1>8 DEF CacheTypes, NoneAhead
  <2>3. FreshWhenSteady' /\ NewTextKnown'
    BY <2>1 DEF FreshWhenSteady, NewTextKnown, Steady
  <2> QED
    BY <2>2, <2>3
<1>10. ASSUME NEW l \in Loads, Caches!Look(l) PROVE CacheInv'
  <2> DEFINE found == IF Caches!GoodFor(workspace, load[l].updatedAt) THEN workspace.text ELSE driveCache
             new == [step |-> IF found = NoContent THEN "missed" ELSE "got", revision |-> revision,
                     updatedAt |-> load[l].updatedAt, text |-> found]
  <2>1. /\ load' = [load EXCEPT ![l].step = IF found = NoContent THEN "missed" ELSE "got",
                                ![l].revision = revision, ![l].text = found]
        /\ load[l].step = "listed" /\ (found # NoContent \/ ~Caches!Writing)
        /\ UNCHANGED <<content, updatedAt, revision, driveCache, workspace, writes, writer>>
    BY <1>10 DEF Caches!Look, Ordered
  <2>2. found \in Nat \cup {NoContent}
    BY DEF CacheTypes
  <2>f. Steady /\ load[l].updatedAt = updatedAt => found \in {NoContent, content}
    BY DEF FreshWhenSteady, Caches!GoodFor
  <2> HIDE DEF found
  <2>3. /\ DOMAIN load' = Loads /\ load'[l] = new
        /\ \A k \in Loads : k # l => load'[k] = load[k]
        /\ load' = [k \in Loads |-> load'[k]]
    <3> DEFINE step == IF found = NoContent THEN "missed" ELSE "got"
    <3>1. load' = [load EXCEPT ![l].step = step, ![l].revision = revision, ![l].text = found]
      BY <2>1
    <3>2. load[l] \in [step : {"idle", "listed", "missed", "read", "got"},
                      revision : Nat, updatedAt : Nat, text : Nat \cup {NoContent}]
      BY DEF CacheTypes, LoadTypes
    <3>3. new = [step |-> step, revision |-> revision, updatedAt |-> load[l].updatedAt, text |-> found]
      OBVIOUS
    <3> HIDE DEF step, new
    <3> QED
      BY <3>1, <3>2, <3>3 DEF CacheTypes, LoadTypes
  <2>4. CacheTypes' /\ OneWriter' /\ ReadAlone' /\ NoneAhead'
    <3>1. /\ new \in [step : {"idle", "listed", "missed", "read", "got"},
                      revision : Nat, updatedAt : Nat, text : Nat \cup {NoContent}]
          /\ new.updatedAt <= updatedAt /\ new.step # "read"
          /\ (new.step = "missed" => ~Caches!Writing)
      BY <2>1, <2>2 DEF CacheTypes, LoadTypes, NoneAhead
    <3> HIDE DEF new
    <3> QED
      BY <2>1, <2>3, <3>1, <1>8 DEF CacheTypes, NoneAhead
  <2>5. FreshWhenSteady'
    <3>1. Steady /\ load'[l].step = "got" /\ load'[l].updatedAt = updatedAt => load'[l].text = content
      BY <2>3, <2>f
    <3> QED
      BY <2>1, <2>3, <3>1 DEF FreshWhenSteady, Steady
  <2>6. NewTextKnown'
    BY <2>1 DEF NewTextKnown
  <2> QED
    BY <2>4, <2>5, <2>6
<1>11. ASSUME NEW l \in Loads, Caches!Read(l) PROVE CacheInv'
  <2> DEFINE new == [step |-> "read", revision |-> load[l].revision,
                     updatedAt |-> load[l].updatedAt, text |-> content]
  <2>1. /\ load' = [load EXCEPT ![l].step = "read", ![l].text = content] /\ load[l].step = "missed"
        /\ UNCHANGED <<content, updatedAt, revision, driveCache, workspace, writes, writer>>
    BY <1>11 DEF Caches!Read
  <2>2. /\ DOMAIN load' = Loads /\ load'[l] = new
        /\ \A k \in Loads : k # l => load'[k] = load[k]
        /\ load' = [k \in Loads |-> load'[k]]
    BY <2>1 DEF CacheTypes, LoadTypes
  <2>3. ~Caches!Writing
    BY <2>1 DEF ReadAlone
  <2>4. CacheTypes' /\ OneWriter' /\ ReadAlone' /\ NoneAhead'
    <3>1. /\ new \in [step : {"idle", "listed", "missed", "read", "got"},
                      revision : Nat, updatedAt : Nat, text : Nat \cup {NoContent}]
          /\ new.updatedAt <= updatedAt /\ new.text = content
      BY DEF CacheTypes, LoadTypes, NoneAhead
    <3> HIDE DEF new
    <3> QED
      BY <2>1, <2>2, <2>3, <3>1, <1>8 DEF CacheTypes, NoneAhead
  <2>5. FreshWhenSteady' /\ NewTextKnown'
    BY <2>1, <2>2 DEF FreshWhenSteady, NewTextKnown, Steady
  <2> QED
    BY <2>4, <2>5
<1>12. ASSUME NEW l \in Loads, Caches!Fill(l) PROVE CacheInv'
  <2> DEFINE new == [step |-> "got", revision |-> load[l].revision,
                     updatedAt |-> load[l].updatedAt, text |-> load[l].text]
  <2>1. /\ load' = [load EXCEPT ![l].step = "got"] /\ load[l].step = "read" /\ driveCache' = load[l].text
        /\ UNCHANGED <<content, updatedAt, revision, workspace, writes, writer>>
    BY <1>12 DEF Caches!Fill
  <2>2. /\ DOMAIN load' = Loads /\ load'[l] = new
        /\ \A k \in Loads : k # l => load'[k] = load[k]
        /\ load' = [k \in Loads |-> load'[k]]
    BY <2>1 DEF CacheTypes, LoadTypes
  <2>3. ~Caches!Writing /\ load[l].text = content
    BY <2>1 DEF ReadAlone
  <2>4. CacheTypes' /\ OneWriter' /\ ReadAlone' /\ NoneAhead'
    <3>1. /\ new \in [step : {"idle", "listed", "missed", "read", "got"},
                      revision : Nat, updatedAt : Nat, text : Nat \cup {NoContent}]
          /\ new.updatedAt <= updatedAt /\ new.step = "got"
      BY DEF CacheTypes, LoadTypes, NoneAhead
    <3>2. driveCache' \in Nat \cup {NoContent}
      BY <2>1, <2>3 DEF CacheTypes
    <3> HIDE DEF new
    <3> QED
      BY <2>1, <2>2, <3>1, <3>2, <1>8 DEF CacheTypes, NoneAhead
  <2>5. FreshWhenSteady'
    BY <2>1, <2>2, <2>3 DEF FreshWhenSteady, Steady
  <2>6. NewTextKnown'
    BY <2>1, <2>3 DEF NewTextKnown, Caches!Writing
  <2> QED
    BY <2>4, <2>5, <2>6
<1>13. ASSUME NEW l \in Loads, Caches!Finish(l) PROVE CacheInv'
  <2> DEFINE entry == [revision |-> load[l].revision, updatedAt |-> load[l].updatedAt, text |-> load[l].text]
  <2>1. /\ load' = [load EXCEPT ![l] = Caches!IdleLoad] /\ load[l].step = "got" /\ workspace' = entry
        /\ UNCHANGED <<content, updatedAt, revision, driveCache, writes, writer>>
    BY <1>13 DEF Caches!Finish
  <2>2. /\ DOMAIN load' = Loads /\ load'[l] = Caches!IdleLoad
        /\ \A k \in Loads : k # l => load'[k] = load[k]
        /\ load' = [k \in Loads |-> load'[k]]
    BY <2>1 DEF CacheTypes, LoadTypes
  <2>3. CacheTypes' /\ OneWriter' /\ ReadAlone' /\ NoneAhead'
    <3>1. /\ Caches!IdleLoad \in [step : {"idle", "listed", "missed", "read", "got"},
                                 revision : Nat, updatedAt : Nat, text : Nat \cup {NoContent}]
          /\ Caches!IdleLoad.updatedAt <= updatedAt /\ Caches!IdleLoad.step = "idle"
      BY DEF Caches!IdleLoad, CacheTypes
    <3>2. /\ entry \in [revision : Nat, updatedAt : Nat, text : Nat \cup {NoContent}]
          /\ entry.updatedAt <= updatedAt
      BY DEF CacheTypes, LoadTypes, NoneAhead
    <3> HIDE DEF entry
    <3> QED
      BY <2>1, <2>2, <3>1, <3>2, <1>8 DEF CacheTypes
  <2>4. FreshWhenSteady'
    <3>1. Caches!IdleLoad.step = "idle"
      BY DEF Caches!IdleLoad
    <3> QED
      BY <2>1, <2>2, <3>1 DEF FreshWhenSteady, Steady
  <2>5. NewTextKnown'
    BY <2>1 DEF NewTextKnown
  <2> QED
    BY <2>3, <2>4, <2>5
<1>14. CASE Caches!Evict
  <2>1. /\ UNCHANGED <<content, updatedAt, revision, writes, writer, load>>
        /\ driveCache' = driveCache \/ driveCache' = NoContent
        /\ workspace' = workspace \/ workspace' = Caches!NoEntry
    BY <1>14 DEF Caches!Evict
  <2>2. CacheTypes' /\ NoneAhead'
    BY <2>1 DEF CacheTypes, WriterTypes, LoadTypes, NoneAhead, Caches!NoEntry
  <2>3. OneWriter' /\ ReadAlone' /\ FreshWhenSteady' /\ NewTextKnown'
    BY <2>1
       DEF OneWriter, ReadAlone, FreshWhenSteady, NewTextKnown, Steady, Caches!Writing,
           Caches!NoEntry
  <2> QED
    BY <2>2, <2>3
<1>15. CASE UNCHANGED Caches!cacheVars
  BY <1>15
     DEF Caches!cacheVars, CacheTypes, WriterTypes, LoadTypes, NoneAhead, OneWriter, ReadAlone,
               FreshWhenSteady, NewTextKnown, Steady, Caches!Writing
<1>16. CASE Caches!Next
  BY <1>16, <1>1, <1>3, <1>4, <1>5, <1>6, <1>7, <1>9, <1>10, <1>11, <1>12, <1>13, <1>14
     DEF Caches!Next
<1> QED
  BY <1>15, <1>16

-----------------------------------------------------------------------------
(* The mirrored workspaces (WorkspaceMirror).  MirrorExact is inductive with *)
(* the types; NoFolderLeft holds after every sync, whatever was there.       *)

MirroredTypes ==
  /\ folders \subseteq Mirrors!Paths
  /\ files \in [Mirrors!Paths -> Contents \cup {NoContent}]
  /\ project \in Mirrors!Projects

MirrorInv == MirroredTypes /\ Mirrors!MirrorExact

LEMMA PathIs ==
  ASSUME NEW p \in Mirrors!Paths
  PROVE  p \in Seq(Names) /\ Len(p) \in Nat /\ Len(p) > 0 /\ DOMAIN p = 1..Len(p)
BY DEF Mirrors!Paths

LEMMA PathOf ==
  ASSUME NEW p \in Seq(Names), NEW q \in Mirrors!Paths, Len(p) \in 1..Len(q),
         MaxDepth \in Nat
  PROVE  p \in Mirrors!Paths
<1>1. PICK n \in 1..MaxDepth : q \in [1..n -> Names]
  BY DEF Mirrors!Paths
<1>2. Len(q) = n
  BY <1>1
<1>3. p \in [1..Len(p) -> Names] /\ Len(p) \in 1..MaxDepth
  BY <1>1, <1>2
<1> QED
  BY <1>3 DEF Mirrors!Paths

\* What it means that q lies below p, name by name.
LEMMA BelowIs ==
  ASSUME NEW p \in Mirrors!Paths, NEW q \in Mirrors!Paths
  PROVE  Mirrors!Below(q, p) <=> Len(p) < Len(q) /\ \A i \in 1..Len(p) : p[i] = q[i]
<1>1. p \in Seq(Names) /\ q \in Seq(Names) /\ Len(p) \in Nat /\ Len(q) \in Nat
  BY PathIs
<1>2. SubSeq(p, 1, Len(p)) = p
  BY <1>1
<1>3. ASSUME Len(p) <= Len(q)
      PROVE  SubSeq(q, 1, Len(p)) \in Seq(Names) /\ Len(SubSeq(q, 1, Len(p))) = Len(p)
             /\ \A i \in 1..Len(p) : SubSeq(q, 1, Len(p))[i] = q[i]
  BY <1>1, <1>3
<1>4. ASSUME Mirrors!Below(q, p)
      PROVE  Len(p) < Len(q) /\ \A i \in 1..Len(p) : p[i] = q[i]
  <2>1. Len(p) <= Len(q) /\ SubSeq(q, 1, Len(p)) = p /\ p # q
    BY <1>2, <1>4 DEF Mirrors!Below, Mirrors!IsStrictPrefix, Mirrors!IsPrefix
  <2>2. \A i \in 1..Len(p) : p[i] = q[i]
    BY <1>3, <2>1
  <2>3. Len(p) # Len(q)
    BY <1>1, <2>1, <2>2
  <2> QED
    BY <1>1, <2>1, <2>2, <2>3
<1>5. ASSUME Len(p) < Len(q), \A i \in 1..Len(p) : p[i] = q[i]
      PROVE  Mirrors!Below(q, p)
  <2>1. SubSeq(q, 1, Len(p)) = p
    BY <1>1, <1>3, <1>5
  <2> QED
    BY <1>1, <1>2, <1>5, <2>1 DEF Mirrors!Below, Mirrors!IsStrictPrefix, Mirrors!IsPrefix
<1> QED
  BY <1>4, <1>5

LEMMA BelowTransitive ==
  ASSUME NEW p \in Mirrors!Paths, NEW q \in Mirrors!Paths, NEW r \in Mirrors!Paths,
         Mirrors!Below(q, p), Mirrors!Below(r, q)
  PROVE  Mirrors!Below(r, p)
BY BelowIs, PathIs

\* Of two folders that a path is in, one is in the other.
LEMMA BelowComparable ==
  ASSUME NEW p \in Mirrors!Paths, NEW q \in Mirrors!Paths, NEW r \in Mirrors!Paths,
         Mirrors!Below(q, p), Mirrors!Below(q, r)
  PROVE  p = r \/ Mirrors!Below(p, r) \/ Mirrors!Below(r, p)
<1>1. /\ p \in Seq(Names) /\ r \in Seq(Names)
      /\ Len(p) \in Nat /\ Len(r) \in Nat /\ Len(q) \in Nat
  BY PathIs
<1>2. \A i \in 1..Len(p) : p[i] = q[i]
  BY BelowIs
<1>3. \A i \in 1..Len(r) : r[i] = q[i]
  BY BelowIs
<1>4. CASE Len(p) = Len(r)
  BY <1>1, <1>2, <1>3, <1>4
<1>5. CASE Len(p) < Len(r)
  BY <1>1, <1>2, <1>3, <1>5, BelowIs
<1>6. CASE Len(r) < Len(p)
  BY <1>1, <1>2, <1>3, <1>6, BelowIs
<1> QED
  BY <1>1, <1>4, <1>5, <1>6

\* The folder that a path is in.
LEMMA FolderOfPath ==
  ASSUME NEW p \in Mirrors!Paths, Len(p) > 1, MaxDepth \in Nat
  PROVE  LET q == Mirrors!Front(p)
         IN  /\ q \in Mirrors!Paths /\ Mirrors!Below(p, q) /\ Len(q) = Len(p) - 1
             /\ \A i \in 1..Len(q) : q[i] = p[i]
             /\ \A r \in Mirrors!Paths : Mirrors!Below(p, r) => r = q \/ Mirrors!Below(q, r)
<1> DEFINE q == Mirrors!Front(p)
<1>1. p \in Seq(Names) /\ Len(p) \in Nat
  BY PathIs
<1>2. q \in Seq(Names) /\ Len(q) = Len(p) - 1 /\ \A i \in 1..Len(q) : q[i] = p[i]
  BY <1>1 DEF Mirrors!Front
<1>3. q \in Mirrors!Paths
  <2> HIDE DEF q
  <2> QED
    BY <1>1, <1>2, PathOf
<1> HIDE DEF q
<1>4. Mirrors!Below(p, q)
  BY <1>1, <1>2, <1>3, BelowIs
<1>5. ASSUME NEW r \in Mirrors!Paths, Mirrors!Below(p, r)
      PROVE  r = q \/ Mirrors!Below(q, r)
  <2>1. ~Mirrors!Below(r, q)
    <3>1. Len(r) < Len(p) /\ Len(r) \in Nat
      BY <1>5, BelowIs, PathIs
    <3> QED
      BY <1>1, <1>2, <1>3, <3>1, BelowIs
  <2> QED
    BY <1>3, <1>4, <1>5, <2>1, BelowComparable
<1> QED
  BY <1>2, <1>3, <1>4, <1>5 DEF q

-----------------------------------------------------------------------------
LEMMA MirrorInit ==
  ASSUME Mirrors!Init
  PROVE  MirrorInv
<1>1. Mirrors!NoFiles \in [Mirrors!Paths -> Contents \cup {NoContent}]
      /\ \A p \in Mirrors!Paths : ~Mirrors!Exists(Mirrors!NoFiles, p)
  BY DEF Mirrors!NoFiles, Mirrors!Exists
<1>2. Mirrors!NoFiles \in Mirrors!Projects
  BY <1>1 DEF Mirrors!Projects
<1> QED
  BY <1>1, <1>2 DEF Mirrors!Init, MirrorInv, MirroredTypes, Mirrors!MirrorExact

\* What a sync leaves in the directory, path by path.
LEMMA AfterSync ==
  ASSUME MirrorInv, MaxDepth \in Nat, NEW f \in Mirrors!Projects, Mirrors!Sync(f), NEW p \in Mirrors!Paths
  PROVE  /\ p \in folders' <=> \/ p \in folders /\ p \notin Mirrors!Emptied(f) /\ ~Mirrors!InTheWay(f, p)
                               \/ Mirrors!Leads(f, p)
         /\ Mirrors!Exists(f, p) => p \notin folders' /\ files'[p] = f[p]
         /\ ~Mirrors!Exists(f, p) =>
              files'[p] = IF Mirrors!Leads(f, p) \/ Mirrors!InTheWay(f, p) \/ ~Mirrors!Hidden(p)
                          THEN NoContent ELSE files[p]
<1>1. p \in folders' <=> \/ p \in folders /\ p \notin Mirrors!Emptied(f) /\ ~Mirrors!InTheWay(f, p)
                         \/ Mirrors!Leads(f, p)
  BY DEF Mirrors!Sync
<1>2. files'[p] = IF Mirrors!Exists(f, p) THEN (IF p \in folders' THEN NoContent ELSE f[p])
                  ELSE IF Mirrors!Leads(f, p) \/ Mirrors!InTheWay(f, p) THEN NoContent
                  ELSE Mirrors!Expected(f)[p]
  BY DEF Mirrors!Sync
<1>3. Mirrors!Expected(f)[p] = IF Mirrors!Exists(f, p) \/ Mirrors!Hidden(p) THEN files[p] ELSE NoContent
  BY DEF Mirrors!Expected
<1>4. ASSUME Mirrors!Exists(f, p) PROVE p \notin folders'
  <2>1. ~Mirrors!Leads(f, p)
    BY <1>4 DEF Mirrors!Leads, Mirrors!Projects
  <2>2. Mirrors!InTheWay(f, p)
    BY <1>4 DEF Mirrors!InTheWay
  <2> QED
    BY <1>1, <2>1, <2>2
<1> QED
  BY <1>1, <1>2, <1>3, <1>4

\* Where a path below p is in the way, p is, or it leads to a file.
LEMMA WayAbove ==
  ASSUME NEW f \in Mirrors!Projects, NEW p \in Mirrors!Paths, NEW q \in Mirrors!Paths,
         Mirrors!Below(q, p), Mirrors!InTheWay(f, q)
  PROVE  Mirrors!InTheWay(f, p) \/ Mirrors!Leads(f, p)
<1>1. PICK r \in Mirrors!Paths : Mirrors!Exists(f, r) /\ (q = r \/ Mirrors!Below(q, r))
  BY DEF Mirrors!InTheWay
<1>2. CASE q = r
  BY <1>1, <1>2 DEF Mirrors!Leads
<1>3. CASE Mirrors!Below(q, r)
  <2>1. p = r \/ Mirrors!Below(p, r) \/ Mirrors!Below(r, p)
    BY <1>3, BelowComparable
  <2> QED
    BY <1>1, <2>1 DEF Mirrors!InTheWay, Mirrors!Leads
<1> QED
  BY <1>1, <1>2, <1>3

LEMMA WayBelow ==
  ASSUME NEW f, NEW p \in Mirrors!Paths, NEW q \in Mirrors!Paths,
         Mirrors!Below(q, p), Mirrors!InTheWay(f, p)
  PROVE  Mirrors!InTheWay(f, q)
BY BelowTransitive DEF Mirrors!InTheWay

LEMMA LeadsAbove ==
  ASSUME NEW f, NEW p \in Mirrors!Paths, NEW q \in Mirrors!Paths,
         Mirrors!Below(q, p), Mirrors!Leads(f, q)
  PROVE  Mirrors!Leads(f, p)
BY BelowTransitive DEF Mirrors!Leads

\* A folder stays when something that stays, or a folder that stays, is in it.
LEMMA FolderStays ==
  ASSUME MirrorInv, MaxDepth \in Nat, NEW f \in Mirrors!Projects, NEW p \in Mirrors!Paths, Len(p) > 1,
         ~Mirrors!InTheWay(f, p), ~Mirrors!Leads(f, p),
         \/ p \in folders /\ p \notin Mirrors!Emptied(f)
         \/ Mirrors!Exists(files, p) /\ Mirrors!Hidden(p) /\ ~Mirrors!Exists(f, p)
  PROVE  /\ Mirrors!Front(p) \in folders /\ Mirrors!Front(p) \notin Mirrors!Emptied(f)
         /\ ~Mirrors!InTheWay(f, Mirrors!Front(p))
<1> DEFINE q == Mirrors!Front(p)
<1>1. /\ q \in Mirrors!Paths /\ Mirrors!Below(p, q) /\ Len(q) = Len(p) - 1
      /\ \A i \in 1..Len(q) : q[i] = p[i]
  BY FolderOfPath
<1>2. q \in folders
  BY DEF MirrorInv, Mirrors!MirrorExact
<1> HIDE DEF q
<1>3. ~Mirrors!InTheWay(f, q)
  BY <1>1, WayBelow
<1>4. SUFFICES ASSUME q \in Mirrors!Emptied(f) PROVE FALSE
  BY <1>2, <1>3 DEF q
<1>5. /\ ~Mirrors!Leads(f, q)
      /\ \A i \in DOMAIN q : q[i] \notin HiddenNames
      /\ \A r \in Mirrors!Paths : Mirrors!Below(r, q) =>
           ~Mirrors!Exists(Mirrors!Expected(f), r) /\ ~(r \in folders /\ Mirrors!Hidden(r))
  BY <1>4 DEF Mirrors!Emptied
<1>6. CASE Mirrors!Exists(files, p) /\ Mirrors!Hidden(p)
  BY <1>1, <1>5, <1>6 DEF Mirrors!Expected, Mirrors!Exists
<1>7. CASE p \in folders /\ p \notin Mirrors!Emptied(f)
  <2>1. ~Mirrors!Hidden(p)
    BY <1>1, <1>5, <1>7
  <2>2. \A i \in DOMAIN p : p[i] \notin HiddenNames
    <3>1. DOMAIN p = 1..Len(p) /\ DOMAIN q = 1..Len(q) /\ Len(p) \in Nat
      BY <1>1, PathIs
    <3> QED
      BY <1>1, <1>5, <2>1, <3>1 DEF Mirrors!Hidden, Mirrors!Last
  <2>3. PICK r \in Mirrors!Paths : /\ Mirrors!Below(r, p)
                                   /\ \/ Mirrors!Exists(Mirrors!Expected(f), r)
                                      \/ r \in folders /\ Mirrors!Hidden(r)
    BY <1>7, <2>2 DEF Mirrors!Emptied
  <2>4. Mirrors!Below(r, q)
    BY <1>1, <2>3, BelowTransitive
  <2> QED
    BY <1>5, <2>3, <2>4
<1> QED
  BY <1>6, <1>7

LEMMA SyncTypes ==
  ASSUME MirrorInv, MaxDepth \in Nat, NEW f \in Mirrors!Projects, Mirrors!Sync(f)
  PROVE  MirroredTypes' /\ project' = f
<1>1. project' = f /\ f \in [Mirrors!Paths -> Contents \cup {NoContent}]
  BY DEF Mirrors!Sync, Mirrors!Projects
<1>2. folders' \subseteq Mirrors!Paths
  BY DEF Mirrors!Sync, MirrorInv, MirroredTypes
<1>3. \A p \in Mirrors!Paths : files'[p] \in Contents \cup {NoContent}
  BY <1>1, AfterSync DEF MirrorInv, MirroredTypes
<1>4. files' = [p \in Mirrors!Paths |-> files'[p]]
  BY DEF Mirrors!Sync
<1>5. files' \in [Mirrors!Paths -> Contents \cup {NoContent}]
  BY <1>3, <1>4
<1> QED
  BY <1>1, <1>2, <1>5 DEF MirroredTypes

LEMMA SyncExact ==
  ASSUME MirrorInv, MaxDepth \in Nat, NEW f \in Mirrors!Projects, Mirrors!Sync(f)
  PROVE  Mirrors!MirrorExact'
<1>1. project' = f
  BY DEF Mirrors!Sync
<1> SUFFICES ASSUME NEW p \in Mirrors!Paths
             PROVE  /\ Mirrors!Exists(f, p) => files'[p] = f[p]
                    /\ Mirrors!Exists(files', p) => (Mirrors!Exists(f, p) \/ Mirrors!Hidden(p)) /\ p \notin folders'
                    /\ Len(p) > 1 /\ (Mirrors!Exists(files', p) \/ p \in folders') => Mirrors!Front(p) \in folders'
  BY <1>1 DEF Mirrors!MirrorExact, Mirrors!Exists, Mirrors!Hidden, Mirrors!Last, Mirrors!Front
<1>2. /\ p \in folders' <=> \/ p \in folders /\ p \notin Mirrors!Emptied(f) /\ ~Mirrors!InTheWay(f, p)
                            \/ Mirrors!Leads(f, p)
      /\ Mirrors!Exists(f, p) => p \notin folders' /\ files'[p] = f[p]
      /\ ~Mirrors!Exists(f, p) =>
           files'[p] = IF Mirrors!Leads(f, p) \/ Mirrors!InTheWay(f, p) \/ ~Mirrors!Hidden(p)
                       THEN NoContent ELSE files[p]
  BY AfterSync
<1>3. ASSUME Mirrors!Exists(files', p), ~Mirrors!Exists(f, p)
      PROVE  /\ ~Mirrors!Leads(f, p) /\ ~Mirrors!InTheWay(f, p) /\ Mirrors!Hidden(p)
             /\ Mirrors!Exists(files, p) /\ p \notin folders
  BY <1>2, <1>3 DEF Mirrors!Exists, MirrorInv, Mirrors!MirrorExact
<1>4. Mirrors!Exists(files', p) => (Mirrors!Exists(f, p) \/ Mirrors!Hidden(p)) /\ p \notin folders'
  BY <1>2, <1>3
<1>5. ASSUME Len(p) > 1, Mirrors!Exists(files', p) \/ p \in folders'
      PROVE  Mirrors!Front(p) \in folders'
  <2> DEFINE q == Mirrors!Front(p)
  <2>1. q \in Mirrors!Paths /\ Mirrors!Below(p, q)
    BY <1>5, FolderOfPath
  <2>2. q \in folders' <=> \/ q \in folders /\ q \notin Mirrors!Emptied(f) /\ ~Mirrors!InTheWay(f, q)
                           \/ Mirrors!Leads(f, q)
    <3> HIDE DEF q
    <3> QED
      BY <2>1, AfterSync
  <2>3. CASE Mirrors!Exists(f, p)
    BY <2>1, <2>2, <2>3 DEF Mirrors!Leads
  <2>4. CASE Mirrors!Leads(f, p)
    <3>1. Mirrors!Leads(f, q)
      <4> HIDE DEF q
      <4> QED
        BY <2>1, <2>4, LeadsAbove
    <3> QED
      BY <2>2, <3>1
  <2>5. CASE ~Mirrors!Exists(f, p) /\ ~Mirrors!Leads(f, p)
    <3>1. /\ ~Mirrors!InTheWay(f, p)
          /\ \/ p \in folders /\ p \notin Mirrors!Emptied(f)
             \/ Mirrors!Exists(files, p) /\ Mirrors!Hidden(p) /\ ~Mirrors!Exists(f, p)
      BY <1>2, <1>3, <1>5, <2>5
    <3>2. q \in folders /\ q \notin Mirrors!Emptied(f) /\ ~Mirrors!InTheWay(f, q)
      BY <1>5, <2>5, <3>1, FolderStays
    <3> QED
      BY <2>2, <3>2
  <2> QED
    BY <2>3, <2>4, <2>5
<1> QED
  BY <1>2, <1>4, <1>5

LEMMA SyncLeavesNone ==
  ASSUME MirrorInv, MaxDepth \in Nat, NEW f \in Mirrors!Projects, Mirrors!Sync(f)
  PROVE  Mirrors!NoFolderLeft'
<1>1. project' = f /\ folders' \subseteq Mirrors!Paths
  BY DEF Mirrors!Sync, MirrorInv, MirroredTypes
<1> SUFFICES ASSUME NEW p \in folders', \A i \in DOMAIN p : p[i] \notin HiddenNames
             PROVE  \E q \in Mirrors!Paths : /\ Mirrors!Below(q, p)
                                             /\ \/ Mirrors!Exists(f, q)
                                                \/ /\ Mirrors!Hidden(q)
                                                   /\ Mirrors!Exists(files', q) \/ q \in folders'
  BY <1>1 DEF Mirrors!NoFolderLeft, Mirrors!Exists, Mirrors!Hidden, Mirrors!Last, Mirrors!Below,
              Mirrors!IsStrictPrefix, Mirrors!IsPrefix
<1>2. p \in Mirrors!Paths
  BY <1>1
<1>3. CASE Mirrors!Leads(f, p)
  BY <1>3 DEF Mirrors!Leads
<1>4. CASE ~Mirrors!Leads(f, p)
  <2>1. p \in folders /\ p \notin Mirrors!Emptied(f) /\ ~Mirrors!InTheWay(f, p)
    BY <1>2, <1>4, AfterSync
  <2>2. PICK q \in Mirrors!Paths : /\ Mirrors!Below(q, p)
                                   /\ \/ Mirrors!Exists(Mirrors!Expected(f), q)
                                      \/ q \in folders /\ Mirrors!Hidden(q)
    BY <1>4, <2>1 DEF Mirrors!Emptied
  <2>3. ~Mirrors!Exists(f, q) /\ ~Mirrors!Leads(f, q) /\ ~Mirrors!InTheWay(f, q)
    BY <1>2, <1>4, <2>1, <2>2, LeadsAbove, WayAbove DEF Mirrors!Leads
  <2>4. CASE Mirrors!Exists(Mirrors!Expected(f), q)
    <3>1. Mirrors!Hidden(q) /\ Mirrors!Exists(files, q)
      BY <2>3, <2>4 DEF Mirrors!Expected, Mirrors!Exists
    <3>2. files'[q] = files[q]
      BY <2>3, <3>1, AfterSync
    <3> QED
      BY <2>2, <3>1, <3>2 DEF Mirrors!Exists
  <2>5. CASE q \in folders /\ Mirrors!Hidden(q)
    <3>1. q \notin Mirrors!Emptied(f)
      BY <2>5, PathIs DEF Mirrors!Emptied, Mirrors!Hidden, Mirrors!Last
    <3>2. q \in folders'
      BY <2>3, <2>5, <3>1, AfterSync
    <3> QED
      BY <2>2, <2>5, <3>2
  <2> QED
    BY <2>2, <2>4, <2>5
<1> QED
  BY <1>3, <1>4

LEMMA SyncKeeps ==
  ASSUME MirrorInv, MaxDepth \in Nat, NEW f \in Mirrors!Projects, Mirrors!Sync(f), NEW p \in Mirrors!Paths,
         Mirrors!Exists(files, p), Mirrors!Hidden(p), ~Mirrors!Leads(f, p), ~Mirrors!InTheWay(f, p)
  PROVE  files'[p] = files[p]
<1>1. ~Mirrors!Exists(f, p)
  BY DEF Mirrors!InTheWay
<1> QED
  BY <1>1, AfterSync

LEMMA ServerWritesStep ==
  ASSUME MirrorInv, NEW p \in Mirrors!Paths, NEW words \in Contents \cup {NoContent}, Mirrors!ServerWrites(p, words)
  PROVE  MirrorInv'
<1>1. /\ Mirrors!Hidden(p) /\ p \notin folders /\ ~Mirrors!Exists(project, p)
      /\ Len(p) = 1 \/ Mirrors!Front(p) \in folders
      /\ files' = [files EXCEPT ![p] = words] /\ folders' = folders /\ project' = project
  BY DEF Mirrors!ServerWrites
<1>2. MirroredTypes'
  BY <1>1 DEF MirrorInv, MirroredTypes
<1>3. ASSUME NEW q \in Mirrors!Paths
      PROVE  /\ Mirrors!Exists(project, q) => files'[q] = project[q]
             /\ Mirrors!Exists(files', q) => (Mirrors!Exists(project, q) \/ Mirrors!Hidden(q)) /\ q \notin folders
             /\ Len(q) > 1 /\ (Mirrors!Exists(files', q) \/ q \in folders) => Mirrors!Front(q) \in folders
  <2>1. files'[q] = IF q = p THEN words ELSE files[q]
    BY <1>1 DEF MirrorInv, MirroredTypes
  <2>2. /\ Mirrors!Exists(project, q) => files[q] = project[q]
        /\ Mirrors!Exists(files, q) => (Mirrors!Exists(project, q) \/ Mirrors!Hidden(q)) /\ q \notin folders
        /\ Len(q) > 1 /\ (Mirrors!Exists(files, q) \/ q \in folders) => Mirrors!Front(q) \in folders
    BY DEF MirrorInv, Mirrors!MirrorExact
  <2>3. CASE q = p
    <3>1. Len(p) > 1 => Mirrors!Front(p) \in folders
      <4>1. Len(p) = 1 \/ Mirrors!Front(p) \in folders
        BY <1>1
      <4>2. Len(p) = 1 => ~(Len(p) > 1)
        BY PathIs
      <4> QED
        BY <4>1, <4>2
    <3> QED
      BY <1>1, <2>3, <3>1
  <2>4. CASE q # p
    BY <2>1, <2>2, <2>4 DEF Mirrors!Exists
  <2> QED
    BY <2>3, <2>4
<1>4. Mirrors!MirrorExact'
  BY <1>1, <1>3 DEF Mirrors!MirrorExact, Mirrors!Exists, Mirrors!Hidden, Mirrors!Last, Mirrors!Front
<1> QED
  BY <1>2, <1>4 DEF MirrorInv

LEMMA MirrorStep ==
  ASSUME MirrorInv, MaxDepth \in Nat, [Mirrors!Next]_Mirrors!mirrorVars
  PROVE  MirrorInv'
<1>1. ASSUME NEW f \in Mirrors!Projects, Mirrors!Sync(f) PROVE MirrorInv'
  BY <1>1, SyncTypes, SyncExact DEF MirrorInv
<1>2. ASSUME NEW p \in Mirrors!Paths, NEW words \in Contents \cup {NoContent}, Mirrors!ServerWrites(p, words)
      PROVE  MirrorInv'
  BY <1>2, ServerWritesStep
<1>3. CASE UNCHANGED Mirrors!mirrorVars
  BY <1>3
     DEF Mirrors!mirrorVars, MirrorInv, MirroredTypes, Mirrors!MirrorExact, Mirrors!Exists,
         Mirrors!Hidden,
              Mirrors!Last, Mirrors!Front
<1> QED
  BY <1>1, <1>2, <1>3 DEF Mirrors!Next

LEMMA MirrorChange ==
  ASSUME MirrorInv, MaxDepth \in Nat, [Mirrors!Next]_Mirrors!mirrorVars, project' # project
  PROVE  /\ Mirrors!MirrorExact' /\ Mirrors!NoFolderLeft'
         /\ \A p \in Mirrors!Paths :
              Mirrors!Exists(files, p) /\ Mirrors!Hidden(p) /\ ~Mirrors!Leads(project', p)
              /\ ~Mirrors!InTheWay(project', p) => files'[p] = files[p]
<1>1. PICK f \in Mirrors!Projects : Mirrors!Sync(f)
  BY DEF Mirrors!Next, Mirrors!ServerWrites, Mirrors!mirrorVars
<1>2. project' = f
  BY <1>1, SyncTypes
<1> QED
  BY <1>1, <1>2, SyncExact, SyncLeavesNone, SyncKeeps

-----------------------------------------------------------------------------
(* The directory of a compile session (CompileWorkspaces).                   *)

RunTypes == [step : {"idle", "started", "writing", "cancelled", "late"},
             given : Workspaces!Projects, read : Workspaces!Projects, written : Nat, alone : BOOLEAN]

WorkspaceTypes ==
  /\ refs \in Workspaces!Projects /\ dir \in Workspaces!Projects
  /\ run \in [Runs -> RunTypes]
  /\ out \in Seq(Workspaces!Projects)

\* What the session remembers to have written is what is there, and the
\* compile that runs has its files there.
FilesAreThere == dir = refs /\ \A c \in Runs : Workspaces!Running(c) => run[c].given = refs

\* One compile runs at a time, and one that began without an earlier process
\* stays without.
OneRuns ==
  \A c, d \in Runs : Workspaces!Running(c) /\ c # d =>
    ~Workspaces!Running(d) /\ (run[c].alone => ~Workspaces!Dying(d))

\* The pages that are there are those of the compile that runs alone, up to
\* the one it has written last.
PagesAreOwn ==
  \A c \in Runs :
    /\ run[c].step = "idle" => run[c] = Workspaces!NoRun
    /\ run[c].step = "started" => run[c].written = 0
    /\ run[c].step = "writing" => run[c].read = run[c].given
    /\ Workspaces!Running(c) /\ run[c].alone => out = [n \in 1..run[c].written |-> run[c].given]

WorkspaceInv == WorkspaceTypes /\ FilesAreThere /\ OneRuns /\ PagesAreOwn /\ PagesOfOwnFiles

-----------------------------------------------------------------------------
LEMMA WorkspaceCardinality == \A S : Workspaces!Cardinality(S) = Cardinality(S)
BY DEF Workspaces!Cardinality, Cardinality, Workspaces!IsFiniteSet, IsFiniteSet

LEMMA EmptyProject == Workspaces!Empty \in Workspaces!Projects /\ Workspaces!NoRun \in RunTypes
BY DEF Workspaces!Empty, Workspaces!Projects, Workspaces!NoRun, RunTypes

LEMMA EmptyHasNoPages == Workspaces!PageCount(Workspaces!Empty) = 0
<1>1. {p \in FilePaths : Workspaces!Empty[p] # Absent} = {}
  BY DEF Workspaces!Empty
<1> QED
  BY <1>1, FS_EmptySet, WorkspaceCardinality DEF Workspaces!PageCount

\* Pages without a gap are all there, in their order.
LEMMA PresentAll ==
  ASSUME NEW n \in Nat, NEW given \in Workspaces!Projects,
         out = [i \in 1..n |-> given], n > 0 => given # Workspaces!Empty
  PROVE  Workspaces!Present = [i \in 1..n |-> given]
<1> DEFINE there == {i \in DOMAIN out : out[i] # Workspaces!Empty}
           nth(k) == CHOOSE i \in there : Workspaces!Cardinality({m \in there : m <= i}) = k
<1>1. there = 1..n
  OBVIOUS
<1>2. Cardinality(1..n) = n
  BY FS_Interval
<1>3. ASSUME NEW i \in 1..n
      PROVE  Workspaces!Cardinality({m \in there : m <= i}) = i
  <2>1. {m \in there : m <= i} = 1..i
    BY <1>1
  <2>2. Cardinality(1..i) = i
    BY FS_Interval
  <2> QED
    BY <2>1, <2>2, WorkspaceCardinality
<1>4. ASSUME NEW k \in 1..n
      PROVE  nth(k) = k
  <2>1. \A i \in there : Workspaces!Cardinality({m \in there : m <= i}) = k <=> i = k
    BY <1>1, <1>3
  <2>2. k \in there
    BY <1>1
  <2> HIDE DEF there
  <2> QED
    BY <2>1, <2>2
<1>5. Workspaces!Present = [k \in 1..Workspaces!Cardinality(there) |-> out[nth(k)]]
  BY DEF Workspaces!Present
<1>6. Workspaces!Cardinality(there) = n
  BY <1>1, <1>2, WorkspaceCardinality
<1> HIDE DEF there, nth
<1> QED
  BY <1>4, <1>5, <1>6

LEMMA WorkspaceInit ==
  ASSUME Workspaces!Init
  PROVE  WorkspaceInv
<1>1. WorkspaceTypes
  BY EmptyProject DEF Workspaces!Init, WorkspaceTypes
<1>2. \A c \in Runs : run[c] = Workspaces!NoRun
  BY DEF Workspaces!Init
<1>3. \A c \in Runs : ~Workspaces!Running(c) /\ run[c].step = "idle"
  BY <1>2 DEF Workspaces!Running, Workspaces!NoRun
<1>4. PagesOfOwnFiles
  <2>1. answer.given = Workspaces!Empty /\ answer.pages = <<>>
    BY DEF Workspaces!Init
  <2>2. Workspaces!PagesOf(Workspaces!Empty) = <<>>
    BY EmptyHasNoPages DEF Workspaces!PagesOf
  <2> QED
    BY <2>1, <2>2 DEF PagesOfOwnFiles, Workspaces!PagesOfOwnFiles
<1> QED
  BY <1>1, <1>2, <1>3, <1>4 DEF Workspaces!Init, WorkspaceInv, FilesAreThere, OneRuns, PagesAreOwn

-----------------------------------------------------------------------------
\* A step that changes the run of c only, and not how many run.
LEMMA OneRunChanges ==
  ASSUME WorkspaceInv, NEW c \in Runs, NEW r \in RunTypes, run' = [run EXCEPT ![c] = r],
         out' \in Seq(Workspaces!Projects), UNCHANGED <<refs, dir>>,
         r.step \in {"started", "writing"} =>
           Workspaces!Running(c) /\ r.given = run[c].given /\ r.alone = run[c].alone,
         r.step \in {"cancelled", "late"} => Workspaces!Running(c) \/ Workspaces!Dying(c)
  PROVE  /\ WorkspaceTypes' /\ FilesAreThere' /\ OneRuns'
         /\ \A d \in Runs : run'[d] = IF d = c THEN r ELSE run[d]
<1>1. \A d \in Runs : run'[d] = IF d = c THEN r ELSE run[d]
  BY DEF WorkspaceInv, WorkspaceTypes
<1>2. WorkspaceTypes'
  BY DEF WorkspaceInv, WorkspaceTypes
<1>3. FilesAreThere'
  BY <1>1 DEF WorkspaceInv, FilesAreThere, Workspaces!Running
<1>4. OneRuns'
  BY <1>1 DEF WorkspaceInv, OneRuns, Workspaces!Running, Workspaces!Dying
<1> QED
  BY <1>1, <1>2, <1>3, <1>4

LEMMA WorkspaceStart ==
  ASSUME WorkspaceInv, NEW c \in Runs, NEW p \in Workspaces!Projects, Workspaces!Start(c, p)
  PROVE  WorkspaceInv'
<1> DEFINE r == [Workspaces!NoRun EXCEPT !.step = "started", !.given = p,
                                         !.alone = \A d \in Runs : ~Workspaces!Dying(d)]
<1>1. /\ run[c] = Workspaces!NoRun /\ \A d \in Runs : ~Workspaces!Running(d)
      /\ refs' = p /\ out' = <<>> /\ run' = [run EXCEPT ![c] = r] /\ UNCHANGED answer
  BY DEF Workspaces!Start, Workspaces!Cleared
<1>2. dir' = p
  BY
     DEF Workspaces!Start, Workspaces!Updated, WorkspaceInv, WorkspaceTypes, FilesAreThere,
         Workspaces!Projects
<1>3. /\ r \in RunTypes /\ r.step = "started" /\ r.given = p /\ r.written = 0
      /\ r.alone = \A d \in Runs : ~Workspaces!Dying(d)
  BY EmptyProject DEF RunTypes, Workspaces!NoRun
<1> HIDE DEF r
<1>4. \A d \in Runs : run'[d] = IF d = c THEN r ELSE run[d]
  BY <1>1 DEF WorkspaceInv, WorkspaceTypes
<1>5. WorkspaceTypes'
  BY <1>1, <1>2, <1>3 DEF WorkspaceInv, WorkspaceTypes
<1>6. FilesAreThere'
  BY <1>1, <1>2, <1>3, <1>4 DEF FilesAreThere, Workspaces!Running
<1>7. OneRuns'
  <2> SUFFICES ASSUME NEW d \in Runs, NEW e \in Runs, Workspaces!Running(d)', d # e
               PROVE  ~Workspaces!Running(e)' /\ (run'[d].alone => ~Workspaces!Dying(e)')
    BY DEF OneRuns
  <2>1. d = c /\ run'[d] = r /\ run'[e] = run[e]
    BY <1>1, <1>4 DEF Workspaces!Running
  <2>2. ~Workspaces!Running(e)'
    BY <1>1, <2>1 DEF Workspaces!Running
  <2>3. run'[d].alone => ~Workspaces!Dying(e)'
    BY <1>3, <2>1 DEF Workspaces!Dying
  <2> QED
    BY <2>2, <2>3
<1>8. PagesAreOwn'
  BY <1>1, <1>3, <1>4
     DEF WorkspaceInv, PagesAreOwn, Workspaces!Running, Workspaces!NoRun, Workspaces!Empty
<1>9. PagesOfOwnFiles'
  BY <1>1
     DEF WorkspaceInv, PagesOfOwnFiles, Workspaces!PagesOfOwnFiles, Workspaces!PagesOf,
         Workspaces!PageCount
<1> QED
  BY <1>5, <1>6, <1>7, <1>8, <1>9 DEF WorkspaceInv

LEMMA WorkspaceStartFails ==
  ASSUME WorkspaceInv, NEW p \in Workspaces!Projects, NEW these \in SUBSET FilePaths, NEW failed \in FilePaths,
         Workspaces!StartFails(p, these, failed)
  PROVE  WorkspaceInv'
<1>1. /\ \A c \in Runs : ~Workspaces!Running(c)
      /\ refs' = Workspaces!Updated(refs, p, p, these) /\ dir' = Workspaces!Updated(dir, p, p, these)
      /\ UNCHANGED <<out, run, answer>>
  BY DEF Workspaces!StartFails
<1>2. refs' = dir' /\ refs' \in Workspaces!Projects
  BY <1>1 DEF Workspaces!Updated, WorkspaceInv, WorkspaceTypes, FilesAreThere, Workspaces!Projects
<1> QED
  BY <1>1, <1>2
     DEF WorkspaceInv, WorkspaceTypes, FilesAreThere, OneRuns, PagesAreOwn, PagesOfOwnFiles,
     Workspaces!PagesOfOwnFiles, Workspaces!PagesOf, Workspaces!PageCount, Workspaces!Running, Workspaces!Dying

LEMMA WorkspaceRead ==
  ASSUME WorkspaceInv, NEW c \in Runs, Workspaces!ReadFiles(c)
  PROVE  WorkspaceInv'
<1> DEFINE r == [run[c] EXCEPT !.step = "writing", !.read = dir]
<1>1. run[c] \in RunTypes /\ dir \in Workspaces!Projects /\ run[c].step = "started"
  BY DEF WorkspaceInv, WorkspaceTypes, Workspaces!ReadFiles
<1>2. /\ r \in RunTypes /\ r.step = "writing" /\ r.read = dir /\ r.written = run[c].written
      /\ r.given = run[c].given /\ r.alone = run[c].alone
  BY <1>1 DEF RunTypes
<1>3. run' = [run EXCEPT ![c] = r] /\ UNCHANGED <<refs, dir, out, answer>>
  BY <1>1 DEF Workspaces!ReadFiles, RunTypes, WorkspaceInv, WorkspaceTypes
<1> HIDE DEF r
<1>4. Workspaces!Running(c)
  BY <1>1 DEF Workspaces!Running
<1>5. /\ WorkspaceTypes' /\ FilesAreThere' /\ OneRuns'
      /\ \A d \in Runs : run'[d] = IF d = c THEN r ELSE run[d]
  BY <1>2, <1>3, <1>4, OneRunChanges DEF WorkspaceInv, WorkspaceTypes
<1>6. dir = run[c].given
  BY <1>4 DEF WorkspaceInv, FilesAreThere
<1>7. PagesAreOwn'
  BY <1>2, <1>3, <1>4, <1>5, <1>6 DEF WorkspaceInv, PagesAreOwn, Workspaces!Running
<1>8. PagesOfOwnFiles'
  BY <1>3
     DEF WorkspaceInv, PagesOfOwnFiles, Workspaces!PagesOfOwnFiles, Workspaces!PagesOf,
         Workspaces!PageCount
<1> QED
  BY <1>5, <1>7, <1>8 DEF WorkspaceInv

\* The next page of the compile that runs alone goes behind those that it
\* wrote.
LEMMA WorkspaceWrite ==
  ASSUME WorkspaceInv, NEW c \in Runs, Workspaces!WritePage(c)
  PROVE  WorkspaceInv'
<1> DEFINE n == run[c].written + 1
           r == [run[c] EXCEPT !.written = n]
           pages == [i \in 1..(IF n > Len(out) THEN n ELSE Len(out)) |->
                       IF i = n THEN run[c].read ELSE IF i <= Len(out) THEN out[i] ELSE Workspaces!Empty]
<1>1. run[c] \in RunTypes /\ run[c].written \in Nat /\ n \in Nat /\ n > 0 /\ run[c].read \in Workspaces!Projects
  BY DEF WorkspaceInv, WorkspaceTypes, RunTypes
<1>2. /\ run' = [run EXCEPT ![c] = r] /\ out' = pages /\ UNCHANGED <<refs, dir, answer>>
      /\ run[c].step = "writing" \/ Workspaces!Dying(c)
  BY DEF Workspaces!WritePage
<1>3. /\ r \in RunTypes /\ r.step = run[c].step /\ r.read = run[c].read /\ r.written = n
      /\ r.given = run[c].given /\ r.alone = run[c].alone
  BY <1>1 DEF RunTypes
<1>4. out \in Seq(Workspaces!Projects) /\ Len(out) \in Nat
  BY DEF WorkspaceInv, WorkspaceTypes
<1>5. out' \in Seq(Workspaces!Projects)
  <2>1. (IF n > Len(out) THEN n ELSE Len(out)) \in Nat
    BY <1>1, <1>4
  <2>2. \A i \in 1..(IF n > Len(out) THEN n ELSE Len(out)) :
          (IF i = n THEN run[c].read ELSE IF i <= Len(out) THEN out[i] ELSE Workspaces!Empty) \in Workspaces!Projects
    BY <1>1, <1>4, EmptyProject
  <2> HIDE DEF n
  <2> QED
    BY <1>2, <2>1, <2>2
<1> HIDE DEF r
<1>6. /\ WorkspaceTypes' /\ FilesAreThere' /\ OneRuns'
      /\ \A d \in Runs : run'[d] = IF d = c THEN r ELSE run[d]
  BY <1>2, <1>3, <1>5, OneRunChanges DEF Workspaces!Running, Workspaces!Dying
<1>7. PagesAreOwn'
  <2>1. ASSUME NEW d \in Runs, d # c, Workspaces!Running(d), run[d].alone PROVE FALSE
    BY <1>2, <2>1 DEF WorkspaceInv, OneRuns, Workspaces!Running, Workspaces!Dying
  <2>2. ASSUME Workspaces!Running(c), run[c].alone
        PROVE  out' = [i \in 1..n |-> run[c].given]
    <3>1. run[c].read = run[c].given /\ out = [i \in 1..run[c].written |-> run[c].given]
      BY <1>2, <2>2 DEF WorkspaceInv, PagesAreOwn, Workspaces!Running, Workspaces!Dying
    <3>2. Len(out) = run[c].written
      BY <1>1, <3>1
    <3>3. (IF n > Len(out) THEN n ELSE Len(out)) = n
      BY <1>1, <3>2
    <3>4. \A i \in 1..n : i # n => i <= Len(out) /\ out[i] = run[c].given
      BY <1>1, <3>1, <3>2
    <3> HIDE DEF n
    <3> QED
      BY <1>2, <3>1, <3>3, <3>4
  <2>3. run[c].step # "idle" /\ run[c].step # "started"
    BY <1>2 DEF Workspaces!Dying
  <2>4. ASSUME NEW d \in Runs
        PROVE  /\ run'[d].step = "idle" => run'[d] = Workspaces!NoRun
               /\ run'[d].step = "started" => run'[d].written = 0
               /\ run'[d].step = "writing" => run'[d].read = run'[d].given
    BY <1>3, <1>6, <2>3 DEF WorkspaceInv, PagesAreOwn
  <2>5. ASSUME NEW d \in Runs, Workspaces!Running(d)', run'[d].alone
        PROVE  out' = [i \in 1..run'[d].written |-> run'[d].given]
    <3>1. d = c
      BY <1>6, <2>1, <2>5 DEF Workspaces!Running
    <3> HIDE DEF n, pages
    <3> QED
      BY <1>3, <1>6, <2>2, <2>5, <3>1 DEF Workspaces!Running
  <2> HIDE DEF n, pages
  <2> QED
    BY <2>4, <2>5 DEF PagesAreOwn, Workspaces!NoRun, Workspaces!Empty
<1>8. PagesOfOwnFiles'
  BY <1>2
     DEF WorkspaceInv, PagesOfOwnFiles, Workspaces!PagesOfOwnFiles, Workspaces!PagesOf,
         Workspaces!PageCount
<1> QED
  BY <1>6, <1>7, <1>8 DEF WorkspaceInv

\* The process of `c` ends, is told to end, or is given up.
LEMMA WorkspaceEnds ==
  ASSUME WorkspaceInv, NEW c \in Runs, NEW r \in RunTypes,
         r = Workspaces!NoRun \/ (/\ Workspaces!Running(c) /\ r.step \in {"cancelled", "late"}),
         run' = [run EXCEPT ![c] = r], UNCHANGED <<refs, dir, out>>
  PROVE  WorkspaceTypes' /\ FilesAreThere' /\ OneRuns' /\ PagesAreOwn'
<1>1. Workspaces!NoRun.step = "idle"
  BY DEF Workspaces!NoRun
<1>2. /\ WorkspaceTypes' /\ FilesAreThere' /\ OneRuns'
      /\ \A d \in Runs : run'[d] = IF d = c THEN r ELSE run[d]
  BY <1>1, OneRunChanges DEF WorkspaceInv, WorkspaceTypes
<1>3. r.step \notin {"started", "writing"}
  BY <1>1
<1>4. PagesAreOwn'
  <2> SUFFICES ASSUME NEW d \in Runs
               PROVE  /\ run'[d].step = "idle" => run'[d] = Workspaces!NoRun
                      /\ run'[d].step = "started" => run'[d].written = 0
                      /\ run'[d].step = "writing" => run'[d].read = run'[d].given
                      /\ run'[d].step \in {"started", "writing"} /\ run'[d].alone =>
                           out = [n \in 1..run'[d].written |-> run'[d].given]
    BY DEF PagesAreOwn, Workspaces!Running, Workspaces!NoRun, Workspaces!Empty
  <2>1. CASE d = c
    BY <1>2, <1>3, <2>1
  <2>2. CASE d # c
    <3>1. run'[d] = run[d]
      BY <1>2, <2>2
    <3> QED
      BY <3>1 DEF WorkspaceInv, PagesAreOwn, Workspaces!Running
  <2> QED
    BY <2>1, <2>2
<1> QED
  BY <1>2, <1>4

LEMMA WorkspaceClose ==
  ASSUME WorkspaceInv, NEW c \in Runs, Workspaces!Close(c)
  PROVE  WorkspaceInv'
<1>1. /\ run' = [run EXCEPT ![c] = Workspaces!NoRun] /\ UNCHANGED <<refs, dir, out>>
      /\ answer' = [given |-> run[c].given, pages |-> Workspaces!Present,
                    undisturbed |-> /\ run[c].alone /\ run[c].step = "writing"
                                    /\ run[c].written = Workspaces!PageCount(run[c].read)]
  BY DEF Workspaces!Close
<1>2. WorkspaceTypes' /\ FilesAreThere' /\ OneRuns' /\ PagesAreOwn'
  BY <1>1, EmptyProject, WorkspaceEnds
<1>3. ASSUME answer'.undisturbed
      PROVE  answer'.pages = Workspaces!PagesOf(answer'.given)
  <2> DEFINE n == run[c].written
             p == run[c].given
  <2>1. run[c].alone /\ run[c].step = "writing" /\ n = Workspaces!PageCount(run[c].read)
    BY <1>1, <1>3
  <2>2. run[c].read = p /\ out = [i \in 1..n |-> p]
    BY <2>1 DEF WorkspaceInv, PagesAreOwn, Workspaces!Running
  <2>3. n \in Nat /\ p \in Workspaces!Projects
    BY DEF WorkspaceInv, WorkspaceTypes, RunTypes
  <2>4. n > 0 => p # Workspaces!Empty
    BY <2>1, <2>2, EmptyHasNoPages
  <2> HIDE DEF n, p
  <2>5. Workspaces!Present = [i \in 1..n |-> p]
    BY <2>2, <2>3, <2>4, PresentAll
  <2>6. Workspaces!PagesOf(p) = [i \in 1..n |-> p]
    BY <2>1, <2>2 DEF Workspaces!PagesOf
  <2>7. answer'.pages = Workspaces!Present /\ answer'.given = p
    BY <1>1 DEF p
  <2> QED
    BY <2>5, <2>6, <2>7
<1>4. PagesOfOwnFiles'
  BY <1>3 DEF PagesOfOwnFiles, Workspaces!PagesOfOwnFiles, Workspaces!PagesOf, Workspaces!PageCount
<1> QED
  BY <1>2, <1>4 DEF WorkspaceInv

LEMMA AnswerKept ==
  ASSUME WorkspaceInv, UNCHANGED answer
  PROVE  PagesOfOwnFiles'
BY
   DEF WorkspaceInv, PagesOfOwnFiles, Workspaces!PagesOfOwnFiles, Workspaces!PagesOf,
       Workspaces!PageCount

LEMMA WorkspaceCancel ==
  ASSUME WorkspaceInv, NEW c \in Runs, Workspaces!Cancel(c) \/ Workspaces!Gone(c) \/ Workspaces!TimeOut(c)
  PROVE  WorkspaceInv'
<1>1. UNCHANGED <<refs, dir, out, answer>>
  BY DEF Workspaces!Cancel, Workspaces!Gone, Workspaces!TimeOut
<1>2. run[c] \in RunTypes
  BY DEF WorkspaceInv, WorkspaceTypes
<1>3. ASSUME NEW s \in {"cancelled", "late"}, Workspaces!Running(c), run' = [run EXCEPT ![c].step = s]
      PROVE  WorkspaceTypes' /\ FilesAreThere' /\ OneRuns' /\ PagesAreOwn'
  <2> DEFINE r == [run[c] EXCEPT !.step = s]
  <2>1. r \in RunTypes /\ r.step = s
    BY <1>2 DEF RunTypes
  <2>2. run' = [run EXCEPT ![c] = r]
    BY <1>3
  <2> HIDE DEF r
  <2> QED
    BY <1>1, <1>3, <2>1, <2>2, WorkspaceEnds
<1>4. ASSUME run' = [run EXCEPT ![c] = Workspaces!NoRun]
      PROVE  WorkspaceTypes' /\ FilesAreThere' /\ OneRuns' /\ PagesAreOwn'
  BY <1>1, <1>4, EmptyProject, WorkspaceEnds
<1>5. WorkspaceTypes' /\ FilesAreThere' /\ OneRuns' /\ PagesAreOwn'
  BY <1>3, <1>4 DEF Workspaces!Cancel, Workspaces!Gone, Workspaces!TimeOut
<1> QED
  BY <1>1, <1>5, AnswerKept DEF WorkspaceInv

LEMMA WorkspaceSweep ==
  ASSUME WorkspaceInv, Workspaces!SweepDirectory
  PROVE  WorkspaceInv'
<1>1. /\ \A c \in Runs : run[c] = Workspaces!NoRun
      /\ refs' = Workspaces!Empty /\ dir' = Workspaces!Empty /\ out' = <<>> /\ UNCHANGED <<run, answer>>
  BY DEF Workspaces!SweepDirectory
<1>2. \A c \in Runs : ~Workspaces!Running(c)
  BY <1>1 DEF Workspaces!Running, Workspaces!NoRun
<1>3. WorkspaceTypes'
  BY <1>1, EmptyProject DEF WorkspaceInv, WorkspaceTypes
<1>4. FilesAreThere' /\ OneRuns' /\ PagesAreOwn'
  BY <1>1, <1>2
     DEF WorkspaceInv, FilesAreThere, OneRuns, PagesAreOwn, Workspaces!Running, Workspaces!Dying
<1> QED
  BY <1>1, <1>3, <1>4, AnswerKept DEF WorkspaceInv

LEMMA WorkspaceStep ==
  ASSUME WorkspaceInv, [Workspaces!Next]_Workspaces!workspaceVars
  PROVE  WorkspaceInv'
<1>1. ASSUME NEW c \in Runs, NEW p \in Workspaces!Projects, Workspaces!Start(c, p) PROVE WorkspaceInv'
  BY <1>1, WorkspaceStart
<1>2. ASSUME NEW p \in Workspaces!Projects, NEW these \in SUBSET FilePaths, NEW failed \in FilePaths,
             Workspaces!StartFails(p, these, failed)
      PROVE  WorkspaceInv'
  BY <1>2, WorkspaceStartFails
<1>3. ASSUME NEW c \in Runs, Workspaces!ReadFiles(c) \/ Workspaces!WritePage(c) \/ Workspaces!Close(c)
      PROVE  WorkspaceInv'
  BY <1>3, WorkspaceRead, WorkspaceWrite, WorkspaceClose
<1>4. ASSUME NEW c \in Runs, Workspaces!Cancel(c) \/ Workspaces!Gone(c) \/ Workspaces!TimeOut(c)
      PROVE  WorkspaceInv'
  BY <1>4, WorkspaceCancel
<1>5. CASE Workspaces!SweepDirectory
  BY <1>5, WorkspaceSweep
<1>6. CASE UNCHANGED Workspaces!workspaceVars
  BY <1>6, AnswerKept
     DEF Workspaces!workspaceVars, WorkspaceInv, WorkspaceTypes, FilesAreThere, OneRuns,
         PagesAreOwn,
     Workspaces!Running, Workspaces!Dying
<1> QED
  BY <1>1, <1>2, <1>3, <1>4, <1>5, <1>6 DEF Workspaces!Next

-----------------------------------------------------------------------------
(* The files on a local disk (LocalFiles).  First what is needed of paths: a *)
(* path is a sequence of steps, a prefix is compared step by step, and what  *)
(* lies below one path can be moved below another and back.                  *)

LEMMA StartOf ==
  ASSUME NEW S, NEW p \in Seq(S), NEW n \in 0..Len(p)
  PROVE  /\ SubSeq(p, 1, n) \in Seq(S) /\ Len(SubSeq(p, 1, n)) = n
         /\ \A i \in 1..n : SubSeq(p, 1, n)[i] = p[i]
OBVIOUS

LEMMA SameSteps ==
  ASSUME NEW S, NEW p \in Seq(S), NEW q \in Seq(S), Len(p) = Len(q), \A i \in 1..Len(p) : p[i] = q[i]
  PROVE  p = q
OBVIOUS

LEMMA AtOrBelowIs ==
  ASSUME NEW S, NEW p \in Seq(S), NEW q \in Seq(S)
  PROVE  Local!AtOrBelow(p, q) <=> Len(p) <= Len(q) /\ \A i \in 1..Len(p) : p[i] = q[i]
<1>1. Len(p) \in Nat /\ Len(q) \in Nat
  OBVIOUS
<1>2. SubSeq(p, 1, Len(p)) = p
  BY <1>1, StartOf, SameSteps
<1>3. CASE Len(p) <= Len(q)
  <2>1. /\ SubSeq(q, 1, Len(p)) \in Seq(S) /\ Len(SubSeq(q, 1, Len(p))) = Len(p)
        /\ \A i \in 1..Len(p) : SubSeq(q, 1, Len(p))[i] = q[i]
    BY <1>1, <1>3, StartOf
  <2>2. SubSeq(q, 1, Len(p)) = p <=> \A i \in 1..Len(p) : p[i] = q[i]
    BY <1>1, <2>1, SameSteps
  <2> QED
    BY <1>2, <1>3, <2>2 DEF Local!AtOrBelow, Local!IsPrefix
<1>4. CASE ~(Len(p) <= Len(q))
  BY <1>4 DEF Local!AtOrBelow, Local!IsPrefix
<1> QED
  BY <1>3, <1>4

\* At or below is an order, and two paths above a third are comparable.
LEMMA AtOrBelowOrder ==
  ASSUME NEW S, NEW p \in Seq(S), NEW q \in Seq(S), NEW r \in Seq(S)
  PROVE  /\ Local!AtOrBelow(p, p)
         /\ Local!AtOrBelow(p, q) /\ Local!AtOrBelow(q, p) => p = q
         /\ Local!AtOrBelow(p, q) /\ Local!AtOrBelow(q, r) => Local!AtOrBelow(p, r)
         /\ Local!AtOrBelow(p, r) /\ Local!AtOrBelow(q, r) => Local!AtOrBelow(p, q) \/ Local!AtOrBelow(q, p)
<1>1. Len(p) \in Nat /\ Len(q) \in Nat /\ Len(r) \in Nat
  OBVIOUS
<1>2. Local!AtOrBelow(p, p)
  BY AtOrBelowIs
<1>3. Local!AtOrBelow(p, q) /\ Local!AtOrBelow(q, p) => p = q
  BY <1>1, AtOrBelowIs, SameSteps
<1>4. Local!AtOrBelow(p, q) /\ Local!AtOrBelow(q, r) => Local!AtOrBelow(p, r)
  <2> SUFFICES ASSUME Local!AtOrBelow(p, q), Local!AtOrBelow(q, r) PROVE Local!AtOrBelow(p, r)
    OBVIOUS
  <2>1. Len(p) <= Len(q) /\ \A i \in 1..Len(p) : p[i] = q[i]
    BY AtOrBelowIs
  <2>2. Len(q) <= Len(r) /\ \A i \in 1..Len(q) : q[i] = r[i]
    BY AtOrBelowIs
  <2>3. Len(p) <= Len(r) /\ \A i \in 1..Len(p) : p[i] = r[i]
    BY <1>1, <2>1, <2>2
  <2> QED
    BY <2>3, AtOrBelowIs
<1>5. Local!AtOrBelow(p, r) /\ Local!AtOrBelow(q, r) => Local!AtOrBelow(p, q) \/ Local!AtOrBelow(q, p)
  <2> SUFFICES ASSUME Local!AtOrBelow(p, r), Local!AtOrBelow(q, r)
               PROVE  Local!AtOrBelow(p, q) \/ Local!AtOrBelow(q, p)
    OBVIOUS
  <2>1. Len(p) <= Len(r) /\ \A i \in 1..Len(p) : p[i] = r[i]
    BY AtOrBelowIs
  <2>2. Len(q) <= Len(r) /\ \A i \in 1..Len(q) : q[i] = r[i]
    BY AtOrBelowIs
  <2>3. CASE Len(p) <= Len(q)
    <3>1. \A i \in 1..Len(p) : p[i] = q[i]
      BY <1>1, <2>1, <2>2, <2>3
    <3> QED
      BY <2>3, <3>1, AtOrBelowIs
  <2>4. CASE Len(q) <= Len(p)
    <3>1. \A i \in 1..Len(q) : q[i] = p[i]
      BY <1>1, <2>1, <2>2, <2>4
    <3> QED
      BY <2>4, <3>1, AtOrBelowIs
  <2> QED
    BY <1>1, <2>3, <2>4
<1> QED
  BY <1>2, <1>3, <1>4, <1>5

LEMMA BelowIsStrict ==
  ASSUME NEW p, NEW q
  PROVE  Local!Below(p, q) <=> Local!AtOrBelow(p, q) /\ p # q
BY DEF Local!Below, Local!AtOrBelow, Local!IsStrictPrefix

\* What is left of a path below a prefix of it.
LEMMA RestOf ==
  ASSUME NEW S, NEW p \in Seq(S), NEW n \in 0..Len(p)
  PROVE  /\ SubSeq(p, n + 1, Len(p)) \in Seq(S) /\ Len(SubSeq(p, n + 1, Len(p))) = Len(p) - n
         /\ \A i \in 1..(Len(p) - n) : SubSeq(p, n + 1, Len(p))[i] = p[n + i]
OBVIOUS

LEMMA Joined ==
  ASSUME NEW S, NEW p \in Seq(S), NEW q \in Seq(S)
  PROVE  /\ p \o q \in Seq(S) /\ Len(p \o q) = Len(p) + Len(q)
         /\ \A i \in 1..Len(p) : (p \o q)[i] = p[i]
         /\ \A i \in 1..Len(q) : (p \o q)[Len(p) + i] = q[i]
OBVIOUS

\* A path moved, step by step.
StepsOfMoved(S, p, from, to, m) ==
  /\ m \in Seq(S) /\ Len(m) = Len(to) + (Len(p) - Len(from)) /\ Local!AtOrBelow(to, m)
  /\ \A i \in 1..Len(to) : m[i] = to[i]
  /\ \A i \in 1..(Len(p) - Len(from)) : m[Len(to) + i] = p[Len(from) + i]

LEMMA MovedIs ==
  ASSUME NEW S, NEW p \in Seq(S), NEW from \in Seq(S), NEW to \in Seq(S), Local!AtOrBelow(from, p)
  PROVE  StepsOfMoved(S, p, from, to, Local!Moved(p, from, to))
<1> DEFINE m == Local!Moved(p, from, to)
           rest == SubSeq(p, Len(from) + 1, Len(p))
<1>1. Len(p) \in Nat /\ Len(from) \in Nat /\ Len(to) \in Nat /\ Len(from) <= Len(p)
  BY AtOrBelowIs
<1>2. /\ rest \in Seq(S) /\ Len(rest) = Len(p) - Len(from)
      /\ \A i \in 1..(Len(p) - Len(from)) : rest[i] = p[Len(from) + i]
  BY <1>1, RestOf
<1>3. m = to \o rest
  BY DEF Local!Moved
<1> HIDE DEF m, rest
<1>4. m \in Seq(S) /\ Len(m) = Len(to) + (Len(p) - Len(from))
  BY <1>2, <1>3, Joined
<1>5. \A i \in 1..Len(to) : m[i] = to[i]
  BY <1>2, <1>3, Joined
<1>6. \A i \in 1..(Len(p) - Len(from)) : m[Len(to) + i] = p[Len(from) + i]
  BY <1>2, <1>3, Joined
<1>7. Local!AtOrBelow(to, m)
  BY <1>1, <1>4, <1>5, AtOrBelowIs
<1>8. StepsOfMoved(S, p, from, to, m)
  BY <1>4, <1>5, <1>6, <1>7 DEF StepsOfMoved
<1> QED
  BY <1>8 DEF m

\* A path that begins with `to` and goes on like p below `from` is p moved.
LEMMA MovedIsThis ==
  ASSUME NEW S, NEW p \in Seq(S), NEW from \in Seq(S), NEW to \in Seq(S), Local!AtOrBelow(from, p),
         NEW q \in Seq(S), Local!AtOrBelow(to, q), Len(q) = Len(to) + (Len(p) - Len(from)),
         \A i \in 1..(Len(p) - Len(from)) : q[Len(to) + i] = p[Len(from) + i]
  PROVE  Local!Moved(p, from, to) = q
<1>1. Len(p) \in Nat /\ Len(from) \in Nat /\ Len(to) \in Nat /\ Len(from) <= Len(p)
  BY AtOrBelowIs
<1> DEFINE m == Local!Moved(p, from, to)
<1>a. m = Local!Moved(p, from, to)
  OBVIOUS
<1> HIDE DEF m
<1>2. /\ m \in Seq(S) /\ Len(m) = Len(to) + (Len(p) - Len(from))
      /\ \A i \in 1..Len(to) : m[i] = to[i]
      /\ \A i \in 1..(Len(p) - Len(from)) : m[Len(to) + i] = p[Len(from) + i]
  <2>1. StepsOfMoved(S, p, from, to, m)
    BY <1>a, MovedIs
  <2> QED
    BY <2>1 DEF StepsOfMoved
<1>3. \A i \in 1..Len(to) : q[i] = to[i]
  BY AtOrBelowIs
<1>4. ASSUME NEW i \in 1..Len(m) PROVE m[i] = q[i]
  <2>1. CASE i <= Len(to)
    BY <1>1, <1>2, <1>3, <2>1
  <2>2. CASE ~(i <= Len(to))
    <3>1. i - Len(to) \in 1..(Len(p) - Len(from)) /\ Len(to) + (i - Len(to)) = i
      BY <1>1, <1>2, <2>2
    <3> QED
      BY <1>2, <3>1
  <2> QED
    BY <2>1, <2>2
<1>5. m = q
  BY <1>2, <1>4, SameSteps
<1> QED
  BY <1>a, <1>5

LEMMA MovedBack ==
  ASSUME NEW S, NEW p \in Seq(S), NEW from \in Seq(S), NEW to \in Seq(S), Local!AtOrBelow(from, p)
  PROVE  Local!Moved(Local!Moved(p, from, to), to, from) = p
<1>1. Len(p) \in Nat /\ Len(from) \in Nat /\ Len(to) \in Nat /\ Len(from) <= Len(p)
  BY AtOrBelowIs
<1> DEFINE m == Local!Moved(p, from, to)
<1>a. m = Local!Moved(p, from, to)
  OBVIOUS
<1> HIDE DEF m
<1>2. /\ m \in Seq(S) /\ Len(m) = Len(to) + (Len(p) - Len(from))
      /\ Local!AtOrBelow(to, m)
      /\ \A i \in 1..(Len(p) - Len(from)) : m[Len(to) + i] = p[Len(from) + i]
  <2>1. StepsOfMoved(S, p, from, to, m)
    BY <1>a, MovedIs
  <2> QED
    BY <2>1 DEF StepsOfMoved
<1>3. Len(p) = Len(from) + (Len(m) - Len(to)) /\ Len(m) - Len(to) = Len(p) - Len(from)
  BY <1>1, <1>2
<1>4. \A i \in 1..(Len(m) - Len(to)) : p[Len(from) + i] = m[Len(to) + i]
  BY <1>2, <1>3
<1>5. Local!Moved(m, to, from) = p
  BY <1>2, <1>3, <1>4, MovedIsThis
<1> QED
  BY <1>a, <1>5

\* What is moved keeps its place below what it was below.
LEMMA MovedBelow ==
  ASSUME NEW S, NEW p \in Seq(S), NEW q \in Seq(S), NEW from \in Seq(S), NEW to \in Seq(S),
         Local!AtOrBelow(from, p), Local!AtOrBelow(p, q)
  PROVE  Local!AtOrBelow(Local!Moved(p, from, to), Local!Moved(q, from, to))
<1>1. /\ Len(p) \in Nat /\ Len(q) \in Nat /\ Len(from) \in Nat /\ Len(to) \in Nat
      /\ Len(from) <= Len(p) /\ Len(p) <= Len(q) /\ \A i \in 1..Len(p) : p[i] = q[i]
  BY AtOrBelowIs
<1>2. Local!AtOrBelow(from, q)
  BY AtOrBelowOrder
<1> DEFINE m == Local!Moved(p, from, to)
           n == Local!Moved(q, from, to)
<1>a. m = Local!Moved(p, from, to) /\ n = Local!Moved(q, from, to)
  OBVIOUS
<1> HIDE DEF m, n
<1>3. /\ m \in Seq(S) /\ Len(m) = Len(to) + (Len(p) - Len(from))
      /\ \A i \in 1..Len(to) : m[i] = to[i]
      /\ \A i \in 1..(Len(p) - Len(from)) : m[Len(to) + i] = p[Len(from) + i]
  <2>1. StepsOfMoved(S, p, from, to, m)
    BY <1>a, MovedIs
  <2> QED
    BY <2>1 DEF StepsOfMoved
<1>4. /\ n \in Seq(S) /\ Len(n) = Len(to) + (Len(q) - Len(from))
      /\ \A i \in 1..Len(to) : n[i] = to[i]
      /\ \A i \in 1..(Len(q) - Len(from)) : n[Len(to) + i] = q[Len(from) + i]
  <2>1. StepsOfMoved(S, q, from, to, n)
    BY <1>2, <1>a, MovedIs
  <2> QED
    BY <2>1 DEF StepsOfMoved
<1>5. ASSUME NEW i \in 1..Len(m) PROVE m[i] = n[i]
  <2>1. CASE i <= Len(to)
    BY <1>1, <1>3, <1>4, <2>1
  <2>2. CASE ~(i <= Len(to))
    <3>1. /\ i - Len(to) \in 1..(Len(p) - Len(from)) /\ i - Len(to) \in 1..(Len(q) - Len(from))
          /\ Len(to) + (i - Len(to)) = i /\ Len(from) + (i - Len(to)) \in 1..Len(p)
      BY <1>1, <1>3, <2>2
    <3>2. m[i] = p[Len(from) + (i - Len(to))]
      BY <1>3, <3>1
    <3>3. n[i] = q[Len(from) + (i - Len(to))]
      BY <1>4, <3>1
    <3> QED
      BY <1>1, <3>1, <3>2, <3>3
  <2> QED
    BY <2>1, <2>2
<1>6. Len(m) <= Len(n)
  BY <1>1, <1>3, <1>4
<1>7. Local!AtOrBelow(m, n)
  BY <1>3, <1>4, <1>5, <1>6, AtOrBelowIs
<1> QED
  BY <1>a, <1>7

\* A path put below another is moved there.
LEMMA MovedUnder ==
  ASSUME NEW S, NEW p \in Seq(S), NEW from \in Seq(S), NEW h \in Seq(S), Local!AtOrBelow(from, p)
  PROVE  Local!Moved(p, from, h \o from) = h \o p
<1>1. /\ Len(p) \in Nat /\ Len(from) \in Nat /\ Len(h) \in Nat
      /\ Len(from) <= Len(p) /\ \A i \in 1..Len(from) : from[i] = p[i]
  BY AtOrBelowIs
<1> DEFINE t == h \o from
           q == h \o p
<1>2. /\ t \in Seq(S) /\ Len(t) = Len(h) + Len(from)
      /\ \A i \in 1..Len(h) : t[i] = h[i]
      /\ \A i \in 1..Len(from) : t[Len(h) + i] = from[i]
  BY Joined
<1>3. /\ q \in Seq(S) /\ Len(q) = Len(h) + Len(p)
      /\ \A i \in 1..Len(h) : q[i] = h[i]
      /\ \A i \in 1..Len(p) : q[Len(h) + i] = p[i]
  BY Joined
<1>a. t = h \o from /\ q = h \o p
  OBVIOUS
<1> HIDE DEF t, q
<1>4. ASSUME NEW i \in 1..Len(t) PROVE t[i] = q[i]
  <2>1. CASE i <= Len(h)
    BY <1>1, <1>2, <1>3, <2>1
  <2>2. CASE ~(i <= Len(h))
    <3> DEFINE j == i - Len(h)
    <3>1. j \in 1..Len(from) /\ j \in 1..Len(p) /\ Len(h) + j = i
      BY <1>1, <1>2, <2>2
    <3> HIDE DEF j
    <3>2. t[Len(h) + j] = from[j]
      BY <1>2, <3>1
    <3>3. q[Len(h) + j] = p[j]
      BY <1>3, <3>1
    <3> QED
      BY <1>1, <3>1, <3>2, <3>3
  <2> QED
    BY <2>1, <2>2
<1>5. Local!AtOrBelow(t, q)
  <2>1. Len(t) <= Len(q)
    BY <1>1, <1>2, <1>3
  <2> QED
    BY <1>2, <1>3, <1>4, <2>1, AtOrBelowIs
<1>6. ASSUME NEW i \in 1..(Len(p) - Len(from)) PROVE q[Len(t) + i] = p[Len(from) + i]
  <2>1. Len(from) + i \in 1..Len(p) /\ Len(t) + i = Len(h) + (Len(from) + i)
    BY <1>1, <1>2
  <2> QED
    BY <1>3, <2>1
<1>7. Len(q) = Len(t) + (Len(p) - Len(from))
  BY <1>1, <1>2, <1>3
<1>8. Local!Moved(p, from, t) = q
  BY <1>2, <1>3, <1>5, <1>6, <1>7, MovedIsThis
<1> QED
  BY <1>a, <1>8

\* The first step of a path is the one of every path below it.
LEMMA FirstStep ==
  ASSUME NEW S, NEW p \in Seq(S), NEW q \in Seq(S), p # <<>>, Local!AtOrBelow(p, q)
  PROVE  /\ q # <<>> /\ p[1] = q[1] /\ p[1] \in S
<1>1. Len(p) \in Nat /\ Len(q) \in Nat /\ Len(p) # 0
  OBVIOUS
<1>2. Len(p) <= Len(q) /\ \A i \in 1..Len(p) : p[i] = q[i]
  BY AtOrBelowIs
<1>3. 1 \in 1..Len(p) /\ Len(q) # 0
  BY <1>1, <1>2
<1> QED
  BY <1>2, <1>3

\* What is moved, and what is put below a folder.
LEMMA MovedFacts ==
  ASSUME NEW S, NEW p \in Seq(S), NEW q \in Seq(S), NEW from \in Seq(S), NEW to \in Seq(S), Local!AtOrBelow(from, p)
  PROVE  /\ Local!Moved(p, from, to) \in Seq(S) /\ Local!AtOrBelow(to, Local!Moved(p, from, to))
         /\ Local!Moved(Local!Moved(p, from, to), to, from) = p
         /\ Local!AtOrBelow(p, q) =>
              Local!AtOrBelow(from, q) /\ Local!AtOrBelow(Local!Moved(p, from, to), Local!Moved(q, from, to))
<1>1. StepsOfMoved(S, p, from, to, Local!Moved(p, from, to))
  BY MovedIs
<1>2. Local!Moved(p, from, to) \in Seq(S) /\ Local!AtOrBelow(to, Local!Moved(p, from, to))
  BY <1>1 DEF StepsOfMoved
<1> QED
  BY <1>2, MovedBack, MovedBelow, AtOrBelowOrder

LEMMA AppendFacts ==
  ASSUME NEW S, NEW p \in Seq(S), NEW a \in S
  PROVE  /\ Append(p, a) \in Seq(S) /\ Append(p, a) # <<>> /\ Append(p, a) # p
         /\ Local!Folder(Append(p, a)) = p /\ Local!Last(Append(p, a)) = a
         /\ Local!AtOrBelow(p, Append(p, a))
         /\ \A s \in Seq(S) : Local!AtOrBelow(s, Append(p, a)) /\ s # Append(p, a) => Local!AtOrBelow(s, p)
<1> DEFINE q == Append(p, a)
<1>1. /\ q \in Seq(S) /\ Len(q) = Len(p) + 1 /\ Len(p) \in Nat /\ q[Len(p) + 1] = a
      /\ \A i \in 1..Len(p) : q[i] = p[i]
  OBVIOUS
<1>2. q = Append(p, a)
  OBVIOUS
<1> HIDE DEF q
<1>3. q # <<>> /\ q # p
  BY <1>1
<1>4. SubSeq(q, 1, Len(q) - 1) = p
  <2>1. Len(p) \in 0..Len(q) /\ Len(q) - 1 = Len(p)
    BY <1>1
  <2>2. /\ SubSeq(q, 1, Len(p)) \in Seq(S) /\ Len(SubSeq(q, 1, Len(p))) = Len(p)
        /\ \A i \in 1..Len(p) : SubSeq(q, 1, Len(p))[i] = q[i]
    BY <1>1, <2>1, StartOf
  <2> QED
    BY <1>1, <2>1, <2>2, SameSteps
<1>5. Local!Folder(q) = p /\ Local!Last(q) = a
  BY <1>1, <1>4 DEF Local!Folder, Local!Front, Local!Last
<1>6. Local!AtOrBelow(p, q)
  <2>1. Len(p) <= Len(q)
    BY <1>1
  <2> QED
    BY <1>1, <2>1, AtOrBelowIs
<1>7. ASSUME NEW s \in Seq(S), Local!AtOrBelow(s, q), s # q PROVE Local!AtOrBelow(s, p)
  <2>1. Len(s) \in Nat /\ Len(s) <= Len(q) /\ \A i \in 1..Len(s) : s[i] = q[i]
    BY <1>1, <1>7, AtOrBelowIs
  <2>2. Len(s) # Len(q)
    BY <1>1, <1>7, <2>1, SameSteps
  <2>3. Len(s) <= Len(p) /\ \A i \in 1..Len(s) : s[i] = p[i]
    BY <1>1, <2>1, <2>2
  <2> QED
    BY <2>3, AtOrBelowIs
<1> QED
  BY <1>1, <1>2, <1>3, <1>5, <1>6, <1>7

LEMMA FolderFacts ==
  ASSUME NEW S, NEW p \in Seq(S), p # <<>>
  PROVE  /\ Local!Folder(p) \in Seq(S) /\ Local!Last(p) \in S /\ Append(Local!Folder(p), Local!Last(p)) = p
         /\ (Len(p) = 1 <=> Local!Folder(p) = <<>>)
<1> DEFINE f == SubSeq(p, 1, Len(p) - 1)
           a == p[Len(p)]
<1>1. Len(p) \in Nat /\ Len(p) > 0 /\ Len(p) - 1 \in 0..Len(p) /\ a \in S
  OBVIOUS
<1>2. f \in Seq(S) /\ Len(f) = Len(p) - 1 /\ \A i \in 1..(Len(p) - 1) : f[i] = p[i]
  BY <1>1, StartOf
<1>3. Local!Folder(p) = f /\ Local!Last(p) = a
  BY DEF Local!Folder, Local!Front, Local!Last
<1>4. a = p[Len(p)]
  OBVIOUS
<1> HIDE DEF f, a
<1>5. Append(f, a) = p
  <2>1. /\ Append(f, a) \in Seq(S) /\ Len(Append(f, a)) = Len(f) + 1 /\ Append(f, a)[Len(f) + 1] = a
        /\ \A i \in 1..Len(f) : Append(f, a)[i] = f[i]
    BY <1>1, <1>2
  <2>2. \A i \in 1..Len(p) : Append(f, a)[i] = p[i]
    BY <1>1, <1>2, <1>4, <2>1
  <2> QED
    BY <1>1, <1>2, <2>1, <2>2, SameSteps
<1>6. Len(p) = 1 <=> f = <<>>
  BY <1>1, <1>2
<1> QED
  BY <1>1, <1>2, <1>3, <1>5, <1>6

\* The folder of a request in the trash, and the paths below it.
PathSteps == Names \cup {Local!TrashPrefix} \cup Nat
Hidden(n) == <<Local!TrashPrefix, n>>

LEMMA LocalPaths ==
  /\ Seq(Names) \subseteq Seq(PathSteps) /\ <<>> \in Seq(PathSteps) /\ <<Local!TrashPrefix>> \in Seq(PathSteps)
  /\ \A n \in Nat : Hidden(n) \in Seq(PathSteps) /\ Len(Hidden(n)) = 2
  /\ \A p \in Seq(PathSteps) : Local!AtOrBelow(<<>>, p)
<1>1. Names \subseteq PathSteps
  BY DEF PathSteps
<1>2. Seq(Names) \subseteq Seq(PathSteps)
  BY <1>1, SeqMonotonic
<1>3. \A n \in Nat : Hidden(n) \in Seq(PathSteps) /\ Len(Hidden(n)) = 2
  BY DEF Hidden, PathSteps
<1>4. <<>> \in Seq(PathSteps) /\ <<Local!TrashPrefix>> \in Seq(PathSteps)
  BY DEF PathSteps
<1>5. \A p \in Seq(PathSteps) : Local!AtOrBelow(<<>>, p)
  <2> TAKE p \in Seq(PathSteps)
  <2>1. Len(<<>>) = 0 /\ Len(p) \in Nat /\ <<>> \in Seq(PathSteps)
    OBVIOUS
  <2>2. Len(<<>>) <= Len(p) /\ \A i \in 1..Len(<<>>) : <<>>[i] = p[i]
    BY <2>1
  <2> QED
    BY <2>1, <2>2, AtOrBelowIs
<1> QED
  BY <1>2, <1>3, <1>4, <1>5

LEMMA HiddenFacts ==
  ASSUME NEW n \in Nat, NEW o \in Seq(Names), o # <<>>
  PROVE  /\ Hidden(n) \o o \in Seq(PathSteps) /\ Hidden(n) \o o # <<>>
         /\ Len(Hidden(n) \o o) \in Nat \ {0, 1, 2}
         /\ (Hidden(n) \o o)[1] = Local!TrashPrefix /\ (Hidden(n) \o o)[2] = n
         /\ Local!AtOrBelow(Hidden(n), Hidden(n) \o o)
<1> DEFINE p == Hidden(n) \o o
<1>1. o \in Seq(PathSteps) /\ Hidden(n) \in Seq(PathSteps) /\ Len(Hidden(n)) = 2
  BY LocalPaths
<1>2. /\ p \in Seq(PathSteps) /\ Len(p) = Len(Hidden(n)) + Len(o)
      /\ \A i \in 1..Len(Hidden(n)) : p[i] = Hidden(n)[i]
  BY <1>1, Joined
<1>3. p = Hidden(n) \o o
  OBVIOUS
<1> HIDE DEF p
<1>4. Len(o) \in Nat /\ Len(o) > 0
  OBVIOUS
<1>5. Len(p) \in Nat \ {0, 1, 2} /\ p # <<>>
  BY <1>1, <1>2, <1>4
<1>6. p[1] = Local!TrashPrefix /\ p[2] = n
  <2>1. p[1] = Hidden(n)[1] /\ p[2] = Hidden(n)[2]
    BY <1>1, <1>2
  <2> QED
    BY <2>1 DEF Hidden
<1>7. Local!AtOrBelow(Hidden(n), p)
  <2>1. Len(Hidden(n)) <= Len(p)
    BY <1>1, <1>5, <1>2
  <2>2. \A i \in 1..Len(Hidden(n)) : Hidden(n)[i] = p[i]
    BY <1>2
  <2> QED
    BY <1>1, <1>2, <2>1, <2>2, AtOrBelowIs
<1> QED
  BY <1>2, <1>3, <1>5, <1>6, <1>7

(* What the requests keep of the rows `r`, the disk `d`, the ids `free` that  *)
(* are left, and the number `k` of folders made in the trash.                *)
LocalRow ==
  [path : Seq(PathSteps), storage : Seq(Names), folder : BOOLEAN, trashed : BOOLEAN, original : Seq(Names)]

DiskTypes(d) == d \in [DOMAIN d -> Ids \cup {"dir", NoId}] /\ DOMAIN d \subseteq Seq(PathSteps) \ {<<>>}
LocalTypes(r, d, free, k) ==
  /\ r \in [DOMAIN r -> LocalRow] /\ free \subseteq Ids /\ DOMAIN r \subseteq Ids \ free
  /\ DiskTypes(d) /\ k \in Nat

\* A row that is not in the trash names its path as storage id; one in the
\* trash keeps the id it had, and its path is that one below the folder of the
\* request that moved it.
RowsPlaced(r, k) ==
  \A x \in DOMAIN r :
    /\ ~r[x].trashed => r[x].storage # <<>> /\ r[x].path = r[x].storage
    /\ r[x].trashed => /\ r[x].original # <<>> /\ r[x].storage = r[x].original
                       /\ \E n \in 1..k : r[x].path = Hidden(n) \o r[x].original

\* What the disk has at the path of a row is the row's own, and only its.
RowOnDisk(row, x, d) == row.path \in DOMAIN d /\ d[row.path] = (IF row.folder THEN "dir" ELSE x)
InPlace(r, d) == \A x \in DOMAIN r : RowOnDisk(r[x], x, d)
OnePath(r) == \A x, y \in DOMAIN r : r[x].path = r[y].path => x = y

\* Above what the disk has there are folders.
FoldersThere(d) ==
  \A q \in DOMAIN d, s \in Seq(PathSteps) :
    s # <<>> /\ s # q /\ Local!AtOrBelow(s, q) => s \in DOMAIN d /\ d[s] = "dir"

\* What has no row: a file somebody wrote into the project folder, and the
\* folders of the trash.
Rowless(p, held, k) ==
  \/ Len(p) = 1 /\ p[1] \in Names /\ held = NoId
  \/ p = <<Local!TrashPrefix>> /\ held = "dir"
  \/ \E n \in 1..k : p = Hidden(n) /\ held = "dir"
Rowed(r, d, k) == \A p \in DOMAIN d : (\E x \in DOMAIN r : r[x].path = p) \/ Rowless(p, d[p], k)

\* Nothing of the project is where something in the trash was, and what was in
\* the same folder of the project is in the same folder of the trash.
Apart(r, d) == \A p \in DOMAIN d, y \in DOMAIN r : r[y].trashed => p[1] # r[y].storage[1]
OneTree(r) ==
  \A y, z \in DOMAIN r :
    r[y].trashed /\ r[z].trashed /\ r[y].storage[1] = r[z].storage[1] => r[y].path[2] = r[z].path[2]

FilesInv(r, d, free, k) ==
  /\ LocalTypes(r, d, free, k) /\ RowsPlaced(r, k) /\ InPlace(r, d) /\ OnePath(r) /\ FoldersThere(d)
  /\ Rowed(r, d, k) /\ Apart(r, d) /\ OneTree(r)

LocalInv == FilesInv(rows, disk, fresh, tokens)

\* Entries are trashed from the project folder only, a location that
\* something in the trash had is not used again, nobody calls an entry like
\* the trash, and no id is one of the two marks on the disk.
TrashApart ==
  /\ ~TrashNested /\ ~ReuseLocations /\ Local!TrashPrefix \notin Names
  /\ Main \in Ids /\ MainName \in Names /\ "dir" \notin Ids /\ NoId \notin Ids \cup {"dir"}

-----------------------------------------------------------------------------
LEMMA RowTyped ==
  ASSUME NEW r, NEW d, NEW free, NEW k, LocalTypes(r, d, free, k), NEW x \in DOMAIN r
  PROVE  /\ r[x] \in LocalRow /\ x \in Ids /\ x \notin free
         /\ r[x].path \in Seq(PathSteps) /\ r[x].storage \in Seq(Names) /\ r[x].original \in Seq(Names)
         /\ r[x].folder \in BOOLEAN /\ r[x].trashed \in BOOLEAN
<1>1. r[x] \in LocalRow /\ x \in Ids /\ x \notin free
  BY DEF LocalTypes
<1> QED
  BY <1>1 DEF LocalRow

\* The first step of a row's path says whether it is in the trash.
LEMMA RowPlace ==
  ASSUME TrashApart, NEW r, NEW d, NEW free, NEW k, LocalTypes(r, d, free, k), RowsPlaced(r, k), NEW x \in DOMAIN r
  PROVE  /\ r[x].path # <<>> /\ r[x].storage # <<>> /\ r[x].storage[1] \in Names
         /\ r[x].trashed => /\ r[x].path[1] = Local!TrashPrefix /\ Len(r[x].path) \notin {1, 2}
                            /\ r[x].path[2] \in 1..k
                            /\ r[x].path = Hidden(r[x].path[2]) \o r[x].storage
         /\ ~r[x].trashed => r[x].path \in Seq(Names) /\ r[x].path[1] \in Names /\ r[x].path[1] # Local!TrashPrefix
<1>1. /\ r[x].path \in Seq(PathSteps) /\ r[x].storage \in Seq(Names) /\ r[x].original \in Seq(Names)
      /\ r[x].trashed \in BOOLEAN /\ k \in Nat
  BY RowTyped DEF LocalTypes
<1>2. \A p \in Seq(Names) : p # <<>> => p[1] \in Names
  OBVIOUS
<1>3. CASE r[x].trashed
  <2>1. PICK n \in 1..k : r[x].path = Hidden(n) \o r[x].original
    BY <1>3 DEF RowsPlaced
  <2>2. r[x].original # <<>> /\ r[x].storage = r[x].original
    BY <1>3 DEF RowsPlaced
  <2>3. n \in Nat
    BY <1>1, <2>1
  <2> DEFINE o == r[x].original
             p == r[x].path
  <2>4. p # <<>> /\ Len(p) \notin {1, 2} /\ p[1] = Local!TrashPrefix /\ p[2] = n
    <3>1. o \in Seq(Names) /\ o # <<>> /\ p = Hidden(n) \o o
      BY <1>1, <2>1, <2>2
    <3> HIDE DEF o, p
    <3> QED
      BY <2>3, <3>1, HiddenFacts
  <2> QED
    BY <1>1, <1>2, <1>3, <2>1, <2>2, <2>4
<1>4. CASE ~r[x].trashed
  BY <1>1, <1>2, <1>4 DEF RowsPlaced, TrashApart
<1> QED
  BY <1>1, <1>3, <1>4

\* No two rows have the same storage id.
LEMMA OneStorage ==
  ASSUME TrashApart, NEW r, NEW d, NEW free, NEW k, FilesInv(r, d, free, k), NEW x \in DOMAIN r, NEW y \in DOMAIN r,
         r[x].storage = r[y].storage
  PROVE  x = y
<1>1. LocalTypes(r, d, free, k) /\ RowsPlaced(r, k) /\ InPlace(r, d) /\ OnePath(r) /\ Apart(r, d) /\ OneTree(r)
  BY DEF FilesInv
<1>2. r[x].trashed \in BOOLEAN /\ r[y].trashed \in BOOLEAN
  BY <1>1, RowTyped
<1>3. r[x].path \in DOMAIN d /\ r[y].path \in DOMAIN d
  BY <1>1 DEF InPlace, RowOnDisk
<1>4. CASE ~r[x].trashed /\ ~r[y].trashed
  BY <1>1, <1>4 DEF RowsPlaced, OnePath
<1>5. CASE r[x].trashed /\ r[y].trashed
  <2>1. r[x].path[2] = r[y].path[2]
    BY <1>1, <1>5 DEF OneTree
  <2>2. /\ r[x].path = Hidden(r[x].path[2]) \o r[x].storage
        /\ r[y].path = Hidden(r[y].path[2]) \o r[y].storage
    BY <1>1, <1>5, RowPlace
  <2>3. r[x].path = r[y].path
    BY <2>1, <2>2
  <2> QED
    BY <1>1, <2>3 DEF OnePath
<1>6. CASE r[x].trashed /\ ~r[y].trashed
  BY <1>1, <1>3, <1>6 DEF RowsPlaced, Apart
<1>7. CASE ~r[x].trashed /\ r[y].trashed
  BY <1>1, <1>3, <1>7 DEF RowsPlaced, Apart
<1> QED
  BY <1>2, <1>4, <1>5, <1>6, <1>7

\* The rows of a tree: those at or below its path.
LEMMA TreeIs ==
  ASSUME NEW r, NEW d, NEW free, NEW k, FilesInv(r, d, free, k), TrashApart,
         NEW id \in DOMAIN r, NEW x \in DOMAIN r
  PROVE  (x = id \/ (r[id].folder /\ Local!Below(r[id].path, r[x].path))) <=> Local!AtOrBelow(r[id].path, r[x].path)
<1>1. LocalTypes(r, d, free, k) /\ RowsPlaced(r, k) /\ InPlace(r, d) /\ OnePath(r) /\ FoldersThere(d)
  BY DEF FilesInv
<1>2. /\ r[id].path \in Seq(PathSteps) /\ r[x].path \in Seq(PathSteps) /\ id \in Ids
      /\ r[id].path # <<>> /\ r[x].path \in DOMAIN d
  BY <1>1, RowTyped, RowPlace DEF InPlace, RowOnDisk
<1>3. Local!AtOrBelow(r[id].path, r[id].path)
  BY <1>2, AtOrBelowOrder
<1>4. ASSUME Local!AtOrBelow(r[id].path, r[x].path), x # id
      PROVE  r[id].folder /\ r[id].path # r[x].path
  <2>1. r[id].path # r[x].path
    BY <1>1, <1>4 DEF OnePath
  <2>2. d[r[id].path] = "dir"
    BY <1>1, <1>2, <1>4, <2>1 DEF FoldersThere
  <2>3. d[r[id].path] = (IF r[id].folder THEN "dir" ELSE id)
    BY <1>1 DEF InPlace, RowOnDisk
  <2> QED
    BY <1>2, <2>1, <2>2, <2>3 DEF TrashApart
<1> QED
  BY <1>3, <1>4, BelowIsStrict

\* A target of a rename has nothing below it.
LEMMA TargetClear ==
  ASSUME NEW d, NEW from, NEW to \in Seq(PathSteps), FoldersThere(d), to # <<>>, Local!CanRename(d, from, to)
  PROVE  from \in DOMAIN d /\ \A q \in DOMAIN d : Local!AtOrBelow(to, q) => q = to
<1>1. from \in DOMAIN d
  BY DEF Local!CanRename
<1>2. ASSUME NEW q \in DOMAIN d, Local!AtOrBelow(to, q), q # to PROVE FALSE
  <2>1. to \in DOMAIN d /\ d[to] = "dir"
    BY <1>2 DEF FoldersThere
  <2> QED
    BY <1>2, <2>1, BelowIsStrict DEF Local!CanRename
<1> QED
  BY <1>1, <1>2

\* A rename to a place with nothing below it, in a folder that is there, and
\* what it leaves of the disk.
RenameClear(d, from, to) ==
  /\ DiskTypes(d) /\ FoldersThere(d) /\ from \in DOMAIN d
  /\ to \in Seq(PathSteps) /\ to # <<>> /\ ~Local!AtOrBelow(from, to)
  /\ \A q \in DOMAIN d : Local!AtOrBelow(to, q) => q = to
  /\ \A s \in Seq(PathSteps) : s # <<>> /\ s # to /\ Local!AtOrBelow(s, to) => s \in DOMAIN d /\ d[s] = "dir"
Renamed(d, e, from, to) ==
  /\ \A q \in DOMAIN d : ~Local!AtOrBelow(from, q) /\ q # to => q \in DOMAIN e /\ e[q] = d[q]
  /\ \A q \in DOMAIN d : Local!AtOrBelow(from, q) =>
       Local!Moved(q, from, to) \in DOMAIN e /\ e[Local!Moved(q, from, to)] = d[q]
  /\ \A p \in DOMAIN e :
       \/ p \in DOMAIN d /\ ~Local!AtOrBelow(from, p) /\ p # to /\ ~Local!AtOrBelow(to, p)
       \/ \E q \in DOMAIN d : Local!AtOrBelow(from, q) /\ p = Local!Moved(q, from, to)

LEMMA RenameOnDisk ==
  ASSUME NEW d, NEW from, NEW to, RenameClear(d, from, to), NEW e, e = Local!Rename(d, from, to)
  PROVE  DiskTypes(e) /\ FoldersThere(e) /\ Renamed(d, e, from, to)
<1> DEFINE Kept == {q \in DOMAIN d : ~Local!AtOrBelow(from, q) /\ ~Local!AtOrBelow(to, q)}
           M(q) == Local!Moved(q, from, to)
           Back(q) == Local!Moved(q, to, from)
           Gone == {q \in DOMAIN d : Local!AtOrBelow(from, q)}
           V == Ids \cup {"dir", NoId}
<1>0. /\ d \in [DOMAIN d -> V] /\ DOMAIN d \subseteq Seq(PathSteps) \ {<<>>} /\ FoldersThere(d)
      /\ from \in Seq(PathSteps) /\ to \in Seq(PathSteps) /\ to # <<>> /\ ~Local!AtOrBelow(from, to)
      /\ from \in DOMAIN d /\ \A q \in DOMAIN d : Local!AtOrBelow(to, q) => q = to
      /\ \A s \in Seq(PathSteps) : s # <<>> /\ s # to /\ Local!AtOrBelow(s, to) => s \in DOMAIN d /\ d[s] = "dir"
  BY DEF RenameClear, DiskTypes
<1> HIDE DEF V
<1>1. e = [q \in Kept \cup {M(x) : x \in Gone} |-> IF q \in Kept THEN d[q] ELSE d[Back(q)]]
  BY DEF Local!Rename
<1>2. \A q \in Gone : /\ M(q) \in Seq(PathSteps) /\ Local!AtOrBelow(to, M(q)) /\ Back(M(q)) = q
  BY <1>0, MovedFacts
<1>3. \A q \in DOMAIN d : q \in Kept <=> ~Local!AtOrBelow(from, q) /\ q # to
  BY <1>0, AtOrBelowOrder
<1>4. \A s \in Seq(PathSteps) : Local!AtOrBelow(s, <<>>) => s = <<>>
  BY <1>0, LocalPaths, AtOrBelowOrder
<1>5. \A q \in Gone : M(q) # <<>> /\ M(q) \notin Kept
  BY <1>0, <1>2, <1>4
<1>6. DOMAIN e = Kept \cup {M(x) : x \in Gone}
  BY <1>0, <1>1
<1>7. \A q \in Kept : q \in DOMAIN e /\ e[q] = d[q]
  BY <1>0, <1>1
<1>8. \A q \in Gone : M(q) \in DOMAIN e /\ e[M(q)] = d[q]
  BY <1>0, <1>1, <1>2, <1>5
<1>9. \A p \in DOMAIN e : e[p] \in V
  BY <1>0, <1>6, <1>7, <1>8
<1>10. e \in [DOMAIN e -> V]
  <2>1. e = [q \in DOMAIN e |-> e[q]]
    BY <1>0, <1>1
  <2> QED
    BY <1>0, <1>9, <2>1
<1>11. DOMAIN e \subseteq Seq(PathSteps) \ {<<>>}
  BY <1>0, <1>2, <1>5, <1>6
<1>12. ASSUME NEW p \in DOMAIN e, NEW s \in Seq(PathSteps), s # <<>>, s # p, Local!AtOrBelow(s, p)
       PROVE  s \in DOMAIN e /\ e[s] = "dir"
  <2>1. CASE p \in Kept
    <3>1. s \in DOMAIN d /\ d[s] = "dir"
      BY <1>0, <1>12, <2>1 DEF FoldersThere
    <3>2. ~Local!AtOrBelow(from, s) /\ ~Local!AtOrBelow(to, s)
      BY <1>0, <1>12, <2>1, AtOrBelowOrder
    <3> QED
      BY <1>0, <1>7, <3>1, <3>2
  <2>2. CASE \E x \in Gone : p = M(x)
    <3>1. PICK x \in Gone : p = M(x)
      BY <1>0, <2>2
    <3>2. Local!AtOrBelow(to, p) /\ x \in Seq(PathSteps) /\ p \in Seq(PathSteps)
      BY <1>0, <1>2, <3>1
    <3>3. Local!AtOrBelow(s, to) \/ Local!AtOrBelow(to, s)
      BY <1>0, <1>12, <3>2, AtOrBelowOrder
    \* Above the target: the folder it is put into, or one above it.
    <3>4. CASE Local!AtOrBelow(s, to) /\ s # to
      <4>1. s \in DOMAIN d /\ d[s] = "dir"
        BY <1>0, <1>12, <3>4
      <4>2. ~Local!AtOrBelow(from, s) /\ ~Local!AtOrBelow(to, s)
        BY <1>0, <1>12, <3>4, AtOrBelowOrder
      <4> QED
        BY <1>0, <1>7, <4>1, <4>2
    \* At or below the target: a folder that was moved as well.
    <3>5. CASE Local!AtOrBelow(to, s)
      <4> DEFINE y == Back(s)
      <4>1. y \in Seq(PathSteps) /\ Local!AtOrBelow(from, y) /\ Local!Moved(y, from, to) = s
        BY <1>0, <1>12, <3>5, MovedFacts
      <4>2. Local!AtOrBelow(y, x)
        <5>1. Local!AtOrBelow(Back(s), Back(p))
          BY <1>0, <1>12, <3>2, <3>5, MovedFacts
        <5> QED
          BY <1>0, <1>2, <3>1, <5>1
      <4> HIDE DEF y
      <4>3. y # x
        BY <1>0, <1>12, <3>1, <4>1
      <4>4. y # <<>>
        <5>1. CASE from # <<>>
          BY <1>0, <1>4, <4>1, <5>1
        <5>2. CASE from = <<>>
          BY <1>0, <5>2, LocalPaths
        <5> QED
          BY <1>0, <5>1, <5>2
      <4>5. y \in DOMAIN d /\ d[y] = "dir"
        BY <1>0, <3>1, <3>2, <4>1, <4>2, <4>3, <4>4 DEF FoldersThere
      <4>6. y \in Gone /\ M(y) = s
        BY <1>0, <4>1, <4>5
      <4> QED
        BY <1>0, <1>8, <4>5, <4>6
    <3> QED
      BY <1>0, <3>3, <3>4, <3>5, AtOrBelowOrder
  <2> QED
    BY <1>0, <1>6, <2>1, <2>2
<1>13. FoldersThere(e)
  BY <1>0, <1>12 DEF FoldersThere
<1>14. \A p \in DOMAIN e :
         \/ p \in DOMAIN d /\ ~Local!AtOrBelow(from, p) /\ p # to /\ ~Local!AtOrBelow(to, p)
         \/ \E q \in DOMAIN d : Local!AtOrBelow(from, q) /\ p = Local!Moved(q, from, to)
  BY <1>0, <1>3, <1>6
<1>15. DiskTypes(e)
  BY <1>10, <1>11 DEF DiskTypes, V
<1>16. Renamed(d, e, from, to)
  BY <1>3, <1>7, <1>8, <1>14 DEF Renamed
<1> QED
  BY <1>13, <1>15, <1>16

\* The rows of a tree go where the disk has it after the rename.
LEMMA RowsMoved ==
  ASSUME NEW r, NEW r2, NEW d, NEW e, NEW free, NEW k,
         LocalTypes(r, d, free, k), InPlace(r, d), OnePath(r), NEW from, NEW to, RenameClear(d, from, to),
         Renamed(d, e, from, to), \A x \in DOMAIN r : r[x].path # to, DOMAIN r2 = DOMAIN r,
         \A x \in DOMAIN r :
           /\ r2[x].folder = r[x].folder
           /\ Local!AtOrBelow(from, r[x].path) => r2[x].path = Local!Moved(r[x].path, from, to)
           /\ ~Local!AtOrBelow(from, r[x].path) => r2[x].path = r[x].path
  PROVE  InPlace(r2, e) /\ OnePath(r2)
<1>1. \A x \in DOMAIN r : r[x].path \in DOMAIN d /\ r[x].path \in Seq(PathSteps)
  BY RowTyped DEF InPlace, RowOnDisk
<1>3. /\ from \in DOMAIN d /\ from \in Seq(PathSteps) /\ to \in Seq(PathSteps)
      /\ \A q \in DOMAIN d : Local!AtOrBelow(to, q) => q = to
  BY DEF RenameClear, DiskTypes
<1>4. /\ \A q \in DOMAIN d : ~Local!AtOrBelow(from, q) /\ q # to => q \in DOMAIN e /\ e[q] = d[q]
      /\ \A q \in DOMAIN d : Local!AtOrBelow(from, q) =>
           Local!Moved(q, from, to) \in DOMAIN e /\ e[Local!Moved(q, from, to)] = d[q]
  BY DEF Renamed
<1>5. InPlace(r2, e)
  <2> SUFFICES ASSUME NEW x \in DOMAIN r PROVE r2[x].path \in DOMAIN e /\ e[r2[x].path] = d[r[x].path]
    BY DEF InPlace, RowOnDisk
  <2> QED
    BY <1>1, <1>4
<1>6. ASSUME NEW x \in DOMAIN r, NEW y \in DOMAIN r, r2[x].path = r2[y].path PROVE x = y
  <2>1. \A z \in DOMAIN r : Local!AtOrBelow(from, r[z].path) =>
          Local!AtOrBelow(to, r2[z].path) /\ Local!Moved(r2[z].path, to, from) = r[z].path
    BY <1>1, <1>3, MovedFacts
  <2>2. \A z \in DOMAIN r : ~Local!AtOrBelow(from, r[z].path) => ~Local!AtOrBelow(to, r2[z].path)
    BY <1>1, <1>3
  <2>3. r[x].path = r[y].path
    BY <1>6, <2>1, <2>2
  <2> QED
    BY <2>3 DEF OnePath
<1>7. OnePath(r2)
  BY <1>6 DEF OnePath
<1> QED
  BY <1>5, <1>7

\* Folders that are there are not made.
LEMMA FoldersMade ==
  ASSUME NEW r, NEW d, NEW free, NEW k, LocalTypes(r, d, free, k), FoldersThere(d), NEW p \in Seq(PathSteps),
         p = <<>> \/ (p \in DOMAIN d /\ d[p] = "dir")
  PROVE  Local!MakeFolders(d, p) = d
<1>1. ASSUME NEW n \in 1..Len(p) PROVE SubSeq(p, 1, n) \in DOMAIN d
  <2>1. n \in 0..Len(p) /\ Len(p) \in Nat /\ n <= Len(p) /\ n > 0
    OBVIOUS
  <2> DEFINE s == SubSeq(p, 1, n)
  <2>2. s \in Seq(PathSteps) /\ Len(s) = n /\ \A i \in 1..n : s[i] = p[i]
    BY <2>1, StartOf
  <2> HIDE DEF s
  <2>3. Local!AtOrBelow(s, p) /\ s # <<>>
    BY <2>1, <2>2, AtOrBelowIs
  <2>4. p # <<>>
    BY <2>1
  <2>5. s \in DOMAIN d
    BY <2>2, <2>3, <2>4 DEF FoldersThere
  <2> QED
    BY <2>5 DEF s
<1>2. DOMAIN d \cup {SubSeq(p, 1, n) : n \in 1..Len(p)} = DOMAIN d
  BY <1>1
<1>3. d = [q \in DOMAIN d |-> d[q]]
  BY DEF LocalTypes, DiskTypes
<1> QED
  BY <1>2, <1>3 DEF Local!MakeFolders

\* A folder that something is put into is on the disk where its row says.
LEMMA ParentIs ==
  ASSUME TrashApart, LocalInv, NEW parent \in Local!Parents
  PROVE  /\ parent.at = parent.path /\ parent.path \in Seq(Names)
         /\ parent.path = <<>> \/ (parent.path \in DOMAIN disk /\ disk[parent.path] = "dir")
<1>1. /\ LocalTypes(rows, disk, fresh, tokens) /\ RowsPlaced(rows, tokens) /\ InPlace(rows, disk)
  BY DEF LocalInv, FilesInv
<1>2. CASE parent = [path |-> <<>>, at |-> <<>>]
  BY <1>2
<1>3. ASSUME NEW x \in DOMAIN rows, rows[x].folder, ~rows[x].trashed,
             parent = [path |-> rows[x].path,
                       at |-> IF Local!OnDisk(rows[x].storage) THEN rows[x].storage ELSE rows[x].path]
      PROVE  /\ parent.at = parent.path /\ parent.path \in Seq(Names)
             /\ parent.path \in DOMAIN disk /\ disk[parent.path] = "dir"
  <2>1. rows[x].path = rows[x].storage /\ rows[x].storage \in Seq(Names)
    BY <1>1, <1>3, RowTyped DEF RowsPlaced
  <2>2. rows[x].path \in DOMAIN disk /\ disk[rows[x].path] = "dir"
    BY <1>1, <1>3 DEF InPlace, RowOnDisk
  <2>3. parent.path = rows[x].path /\ parent.at = rows[x].path
    BY <1>3, <2>1
  <2> QED
    BY <2>1, <2>2, <2>3
<1> QED
  BY <1>2, <1>3 DEF Local!Parents

\* A new place in a folder: what is above it is there, and nothing in the
\* trash was in the same folder of the project.
LEMMA NewPlace ==
  ASSUME TrashApart, NEW r, NEW d, NEW free, NEW k, FilesInv(r, d, free, k), NEW f \in Seq(Names), NEW name \in Names,
         f = <<>> \/ (f \in DOMAIN d /\ d[f] = "dir")
  PROVE  /\ Append(f, name) \in Seq(Names) /\ Append(f, name) \in Seq(PathSteps) /\ Append(f, name) # <<>>
         /\ Append(f, name)[1] \in Names /\ Append(f, name)[1] # Local!TrashPrefix
         /\ Local!Folder(Append(f, name)) = f /\ Local!Last(Append(f, name)) = name
         /\ \A s \in Seq(PathSteps) :
              s # <<>> /\ s # Append(f, name) /\ Local!AtOrBelow(s, Append(f, name)) => s \in DOMAIN d /\ d[s] = "dir"
         /\ (\A y \in DOMAIN r : r[y].trashed => ~Local!AtOrBelow(Append(f, name), r[y].storage)) =>
              \A y \in DOMAIN r : r[y].trashed => Append(f, name)[1] # r[y].storage[1]
<1> DEFINE p == Append(f, name)
<1>1. LocalTypes(r, d, free, k) /\ RowsPlaced(r, k) /\ FoldersThere(d) /\ Apart(r, d)
  BY DEF FilesInv
<1>2. Seq(Names) \subseteq Seq(PathSteps) /\ f \in Seq(PathSteps) /\ name \in PathSteps
  BY LocalPaths DEF PathSteps
<1>3. /\ p \in Seq(Names) /\ p # <<>> /\ p # f /\ Local!Folder(p) = f /\ Local!Last(p) = name
      /\ Local!AtOrBelow(f, p)
  BY AppendFacts
<1>4. \A s \in Seq(PathSteps) : Local!AtOrBelow(s, p) /\ s # p => Local!AtOrBelow(s, f)
  BY <1>2, AppendFacts
<1>5. p = Append(f, name)
  OBVIOUS
<1> HIDE DEF p
<1>6. p[1] \in Names /\ p[1] # Local!TrashPrefix
  BY <1>3 DEF TrashApart
<1>7. \A s \in Seq(PathSteps) : s # <<>> /\ s # p /\ Local!AtOrBelow(s, p) => s \in DOMAIN d /\ d[s] = "dir"
  <2> SUFFICES ASSUME NEW s \in Seq(PathSteps), s # <<>>, s # p, Local!AtOrBelow(s, p)
               PROVE  s \in DOMAIN d /\ d[s] = "dir"
    OBVIOUS
  <2>1. Local!AtOrBelow(s, f)
    BY <1>4
  <2>2. CASE f = <<>>
    BY <2>1, <2>2, LocalPaths, AtOrBelowOrder
  <2>3. CASE f # <<>> /\ s = f
    BY <2>3
  <2>4. CASE f # <<>> /\ s # f
    BY <1>1, <2>1, <2>4 DEF FoldersThere
  <2> QED
    BY <2>2, <2>3, <2>4
<1>8. ASSUME \A y \in DOMAIN r : r[y].trashed => ~Local!AtOrBelow(p, r[y].storage),
             NEW y \in DOMAIN r, r[y].trashed, p[1] = r[y].storage[1]
      PROVE  FALSE
  <2>1. r[y].storage \in Seq(Names) /\ r[y].storage # <<>>
    BY <1>1, RowTyped, RowPlace
  <2>2. CASE f = <<>>
    <3>1. Len(p) = 1
      BY <1>5, <2>2
    <3>2. Len(p) <= Len(r[y].storage) /\ \A i \in 1..Len(p) : p[i] = r[y].storage[i]
      BY <1>8, <2>1, <3>1
    <3>3. Local!AtOrBelow(p, r[y].storage)
      BY <1>3, <2>1, <3>2, AtOrBelowIs
    <3> QED
      BY <1>8, <3>3
  <2>3. CASE f # <<>>
    <3>1. f[1] = p[1]
      BY <1>3, <2>3, FirstStep
    <3> QED
      BY <1>1, <1>8, <2>3, <3>1 DEF Apart
  <2> QED
    BY <2>2, <2>3
<1> QED
  BY <1>2, <1>3, <1>5, <1>6, <1>7, <1>8

\* What is moved on the disk is where the row is.
LEMMA MoveOnDiskIs ==
  ASSUME TrashApart, LocalInv, NEW id \in DOMAIN rows, NEW d, NEW to, Local!MoveOnDisk(id, d, to), rows[id].path # to
  PROVE  Local!CanRename(d, rows[id].path, to) /\ disk' = Local!Rename(d, rows[id].path, to)
<1>1. InPlace(rows, disk)
  BY DEF LocalInv, FilesInv
<1>2. Local!OnDisk(rows[id].path)
  BY <1>1 DEF InPlace, RowOnDisk, Local!OnDisk
<1>3. \A h \in Local!Holders(rows[id].storage) : h = id
  BY OneStorage DEF LocalInv, Local!Holders
<1> QED
  BY <1>2, <1>3 DEF Local!MoveOnDisk

LEMMA ShortIs ==
  ASSUME NEW S, NEW p \in Seq(S), NEW q \in Seq(S), p # <<>>, Local!AtOrBelow(p, q), Len(q) = 1
  PROVE  p = q
<1>1. Len(p) \in Nat /\ Len(p) # 0
  OBVIOUS
<1>2. Len(p) <= Len(q) /\ \A i \in 1..Len(p) : p[i] = q[i]
  BY AtOrBelowIs
<1>3. Len(p) = Len(q)
  BY <1>1, <1>2
<1> QED
  BY <1>2, <1>3, SameSteps

LEMMA TreeHere ==
  ASSUME TrashApart, LocalInv, NEW id \in DOMAIN rows
  PROVE  /\ Local!Tree(id) \subseteq DOMAIN rows
         /\ \A x \in DOMAIN rows : x \in Local!Tree(id) <=> Local!AtOrBelow(rows[id].path, rows[x].path)
         /\ \A x \in Local!Tree(id) : rows[x].trashed = rows[id].trashed
<1>1. \A x \in DOMAIN rows : x \in Local!Tree(id) <=> Local!AtOrBelow(rows[id].path, rows[x].path)
  BY TreeIs DEF LocalInv, Local!Tree
<1>2. Local!Tree(id) \subseteq DOMAIN rows
  BY DEF Local!Tree
<1>3. LocalTypes(rows, disk, fresh, tokens) /\ RowsPlaced(rows, tokens)
  BY DEF LocalInv, FilesInv
<1>4. ASSUME NEW x \in Local!Tree(id) PROVE rows[x].trashed = rows[id].trashed
  <2>1. /\ rows[id].path \in Seq(PathSteps) /\ rows[x].path \in Seq(PathSteps) /\ rows[id].path # <<>>
        /\ rows[x].trashed \in BOOLEAN /\ rows[id].trashed \in BOOLEAN
    BY <1>2, <1>3, RowTyped, RowPlace
  <2>2. rows[id].path[1] = rows[x].path[1]
    BY <1>1, <1>2, <2>1, FirstStep
  <2> QED
    BY <1>2, <1>3, <2>1, <2>2, RowPlace
<1> QED
  BY <1>1, <1>2, <1>4

\* A rename of a tree of rows that are not in the trash to a new place.
LEMMA FilesMove ==
  ASSUME TrashApart, LocalInv, NEW id \in DOMAIN rows, NEW parent \in Local!Parents, NEW name \in Names,
         Local!Move(id, parent, name)
  PROVE  LocalInv'
<1> DEFINE next == Append(parent.path, name)
           from == rows[id].path
<1>1. /\ LocalTypes(rows, disk, fresh, tokens) /\ RowsPlaced(rows, tokens) /\ InPlace(rows, disk)
      /\ OnePath(rows) /\ FoldersThere(disk) /\ Rowed(rows, disk, tokens) /\ Apart(rows, disk) /\ OneTree(rows)
      /\ FilesInv(rows, disk, fresh, tokens)
  BY DEF LocalInv, FilesInv
<1>2. /\ parent.at = parent.path /\ parent.path \in Seq(Names) /\ parent.path \in Seq(PathSteps)
      /\ parent.path = <<>> \/ (parent.path \in DOMAIN disk /\ disk[parent.path] = "dir")
  BY ParentIs, LocalPaths
<1>3. /\ next \in Seq(Names) /\ next \in Seq(PathSteps) /\ next # <<>>
      /\ next[1] \in Names /\ next[1] # Local!TrashPrefix /\ Local!Folder(next) = parent.path
  BY <1>1, <1>2, NewPlace
<1>4. /\ \A s \in Seq(PathSteps) : s # <<>> /\ s # next /\ Local!AtOrBelow(s, next) => s \in DOMAIN disk /\ disk[s] = "dir"
      /\ (\A y \in DOMAIN rows : rows[y].trashed => ~Local!AtOrBelow(next, rows[y].storage)) =>
           \A y \in DOMAIN rows : rows[y].trashed => next[1] # rows[y].storage[1]
  BY <1>1, <1>2, NewPlace
<1>5. /\ ~rows[id].trashed /\ next # from /\ Local!AtPath(next) = {} /\ Local!Free(next)
      /\ rows[id].folder => ~Local!AtOrBelow(from, next)
      /\ Local!MoveOnDisk(id, Local!MakeFolders(disk, Local!Folder(next)), next)
      /\ Local!MoveRows(id, next) /\ UNCHANGED <<fresh, tokens>>
  BY <1>2 DEF Local!Move, Local!Live
<1>6. \A y \in DOMAIN rows : rows[y].trashed => next[1] # rows[y].storage[1]
  BY <1>4, <1>5 DEF Local!Free, TrashApart
<1> HIDE DEF next
<1>7. /\ from \in Seq(Names) /\ from \in Seq(PathSteps) /\ from # <<>> /\ from[1] \in Names /\ from[1] # Local!TrashPrefix
      /\ id \in Ids /\ from \in DOMAIN disk /\ disk[from] = (IF rows[id].folder THEN "dir" ELSE id)
  BY <1>1, <1>5, RowTyped, RowPlace DEF InPlace, RowOnDisk
<1>8. Local!MakeFolders(disk, Local!Folder(next)) = disk
  BY <1>1, <1>2, <1>3, FoldersMade
<1>9. Local!CanRename(disk, from, next) /\ disk' = Local!Rename(disk, from, next)
  BY <1>5, <1>8, MoveOnDiskIs
<1>10. RenameClear(disk, from, next)
  <2>1. ~Local!AtOrBelow(from, next)
    <3>1. CASE rows[id].folder
      BY <1>5, <3>1
    <3>2. CASE ~rows[id].folder
      BY <1>4, <1>5, <1>7, <3>2 DEF TrashApart
    <3> QED
      BY <3>1, <3>2
  <2>2. \A q \in DOMAIN disk : Local!AtOrBelow(next, q) => q = next
    BY <1>1, <1>3, <1>9, TargetClear
  <2> QED
    BY <1>1, <1>3, <1>4, <1>7, <2>1, <2>2 DEF RenameClear, LocalTypes
<1>11. DiskTypes(disk') /\ FoldersThere(disk') /\ Renamed(disk, disk', from, next)
  BY <1>9, <1>10, RenameOnDisk
<1>12. /\ \A x \in DOMAIN rows : x \in Local!Tree(id) <=> Local!AtOrBelow(from, rows[x].path)
       /\ \A x \in Local!Tree(id) : ~rows[x].trashed
  BY <1>5, TreeHere
<1>13. /\ DOMAIN rows' = DOMAIN rows /\ rows' = [x \in DOMAIN rows |-> rows'[x]]
       /\ \A x \in DOMAIN rows : ~Local!AtOrBelow(from, rows[x].path) => rows'[x] = rows[x]
       /\ \A x \in DOMAIN rows : Local!AtOrBelow(from, rows[x].path) =>
            LET p == Local!Moved(rows[x].path, from, next)
            IN  rows'[x] = [rows[x] EXCEPT !.path = p, !.storage = Local!SyncedStorage(p, rows[x].storage)]
  BY <1>5, <1>12 DEF Local!MoveRows
<1>a. DOMAIN rows' = DOMAIN rows
  BY <1>13
<1>14. ASSUME NEW x \in DOMAIN rows, Local!AtOrBelow(from, rows[x].path)
       PROVE  LET p == Local!Moved(rows[x].path, from, next)
              IN  /\ p \in Seq(Names) /\ p \in Seq(PathSteps) /\ p # <<>> /\ ~rows[x].trashed
                  /\ rows'[x] = [rows[x] EXCEPT !.path = p, !.storage = p]
  <2> DEFINE p == Local!Moved(rows[x].path, from, next)
  <2>1. ~rows[x].trashed
    BY <1>12, <1>14
  <2>2. rows[x].path \in Seq(Names)
    BY <1>1, <2>1, RowPlace
  <2>3. p \in Seq(Names) /\ Local!AtOrBelow(next, p)
    BY <1>3, <1>7, <1>14, <2>2, MovedFacts
  <2>4. p # <<>> /\ p[1] = next[1]
    BY <1>3, <2>3, FirstStep
  <2>5. rows'[x] = [rows[x] EXCEPT !.path = p, !.storage = Local!SyncedStorage(p, rows[x].storage)]
    BY <1>13, <1>14
  <2> HIDE DEF p
  <2>6. Local!SyncedStorage(p, rows[x].storage) = p
    BY <1>3, <2>4 DEF Local!SyncedStorage, Local!InTrash
  <2>7. p \in Seq(PathSteps)
    BY <2>3, LocalPaths
  <2>8. /\ p \in Seq(Names) /\ p \in Seq(PathSteps) /\ p # <<>> /\ ~rows[x].trashed
        /\ rows'[x] = [rows[x] EXCEPT !.path = p, !.storage = p]
    BY <2>1, <2>3, <2>4, <2>5, <2>6, <2>7
  <2> QED
    BY <2>8 DEF p
<1>15. ASSUME NEW x \in DOMAIN rows
       PROVE  /\ rows'[x] \in LocalRow /\ rows'[x].folder = rows[x].folder /\ rows'[x].trashed = rows[x].trashed
              /\ rows[x].trashed => rows'[x] = rows[x]
              /\ Local!AtOrBelow(from, rows[x].path) => rows'[x].path = Local!Moved(rows[x].path, from, next)
              /\ ~Local!AtOrBelow(from, rows[x].path) => rows'[x].path = rows[x].path
              /\ ~rows[x].trashed => rows'[x].storage # <<>> /\ rows'[x].path = rows'[x].storage
  <2>1. rows[x] \in LocalRow
    BY <1>1, RowTyped
  <2>2. CASE Local!AtOrBelow(from, rows[x].path)
    <3>1. PICK p \in Seq(Names) : /\ p = Local!Moved(rows[x].path, from, next) /\ p \in Seq(PathSteps) /\ p # <<>>
                                  /\ ~rows[x].trashed /\ rows'[x] = [rows[x] EXCEPT !.path = p, !.storage = p]
      BY <1>14, <2>2
    <3> QED
      BY <2>1, <2>2, <3>1 DEF LocalRow
  <2>3. CASE ~Local!AtOrBelow(from, rows[x].path)
    BY <1>1, <1>13, <2>1, <2>3 DEF RowsPlaced
  <2> QED
    BY <2>2, <2>3
<1>16. LocalTypes(rows', disk', fresh', tokens')
  <2>1. rows' \in [DOMAIN rows' -> LocalRow]
    BY <1>13, <1>15
  <2> QED
    BY <1>1, <1>5, <1>11, <1>13, <2>1 DEF LocalTypes
<1>17. RowsPlaced(rows', tokens')
  <2>1. ASSUME NEW x \in DOMAIN rows', rows'[x].trashed
        PROVE  /\ rows'[x].original # <<>> /\ rows'[x].storage = rows'[x].original
               /\ \E n \in 1..tokens' : rows'[x].path = Hidden(n) \o rows'[x].original
    <3>1. x \in DOMAIN rows /\ rows[x].trashed /\ rows'[x] = rows[x] /\ tokens' = tokens
      BY <1>5, <1>a, <1>15, <2>1
    <3> QED
      BY <1>1, <3>1 DEF RowsPlaced
  <2>2. ASSUME NEW x \in DOMAIN rows', ~rows'[x].trashed
        PROVE  rows'[x].storage # <<>> /\ rows'[x].path = rows'[x].storage
    BY <1>a, <1>15, <2>2
  <2> QED
    BY <2>1, <2>2 DEF RowsPlaced
<1>18. InPlace(rows', disk') /\ OnePath(rows')
  <2>1. \A x \in DOMAIN rows : rows[x].path # next
    BY <1>5 DEF Local!AtPath
  <2> QED
    BY <1>1, <1>10, <1>11, <1>a, <1>15, <2>1, RowsMoved
<1>19. ASSUME NEW p \in DOMAIN disk'
       PROVE  /\ (\E x \in DOMAIN rows' : rows'[x].path = p) \/ Rowless(p, disk'[p], tokens')
              /\ \A y \in DOMAIN rows' : rows'[y].trashed => p[1] # rows'[y].storage[1]
  <2>1. CASE p \in DOMAIN disk /\ ~Local!AtOrBelow(from, p) /\ p # next
    <3>1. disk'[p] = disk[p]
      BY <1>11, <2>1 DEF Renamed
    <3>2. (\E x \in DOMAIN rows' : rows'[x].path = p) \/ Rowless(p, disk'[p], tokens')
      BY <1>1, <1>5, <1>a, <1>15, <2>1, <3>1 DEF Rowed
    <3> QED
      BY <1>1, <1>a, <1>15, <2>1, <3>2 DEF Apart
  <2>2. ASSUME NEW q \in DOMAIN disk, Local!AtOrBelow(from, q), p = Local!Moved(q, from, next)
        PROVE  /\ \E x \in DOMAIN rows' : rows'[x].path = p
               /\ p[1] = next[1]
    <3>1. q \in Seq(PathSteps) /\ q # <<>>
      BY <1>1 DEF LocalTypes, DiskTypes
    <3>2. q[1] = from[1]
      BY <1>7, <2>2, <3>1, FirstStep
    <3>3. \E x \in DOMAIN rows : rows[x].path = q
      <4>1. CASE Rowless(q, disk[q], tokens)
        <5>1. Len(q) = 1
          BY <1>7, <3>2, <4>1 DEF Rowless, Hidden
        <5>4. from = q
          BY <1>7, <2>2, <3>1, <5>1, ShortIs
        <5> QED
          BY <5>4
      <4> QED
        BY <1>1, <4>1 DEF Rowed
    <3>4. \E x \in DOMAIN rows' : rows'[x].path = p
      BY <1>a, <1>15, <2>2, <3>3
    <3>5. Local!AtOrBelow(next, p) /\ p \in Seq(PathSteps)
      BY <1>3, <1>7, <2>2, <3>1, MovedFacts
    <3> QED
      BY <1>3, <3>4, <3>5, FirstStep
  <2>3. (p \in DOMAIN disk /\ ~Local!AtOrBelow(from, p) /\ p # next)
          \/ \E q \in DOMAIN disk : Local!AtOrBelow(from, q) /\ p = Local!Moved(q, from, next)
    BY <1>11 DEF Renamed
  <2> QED
    BY <1>6, <1>a, <1>15, <2>1, <2>2, <2>3
<1>20. Rowed(rows', disk', tokens') /\ Apart(rows', disk')
  BY <1>19 DEF Rowed, Apart
<1>21. OneTree(rows')
  BY <1>1, <1>a, <1>15 DEF OneTree
<1>22. FilesInv(rows', disk', fresh', tokens')
  BY <1>11, <1>16, <1>17, <1>18, <1>20, <1>21 DEF FilesInv
<1> QED
  BY <1>22 DEF LocalInv

\* The two folders of the trash above what one request puts there.
LEMMA HiddenIs ==
  ASSUME NEW n \in Nat, NEW T, T = <<Local!TrashPrefix>>, NEW H, H = Hidden(n)
  PROVE  /\ T \in Seq(PathSteps) /\ Len(T) = 1 /\ T[1] = Local!TrashPrefix /\ T # <<>>
         /\ H \in Seq(PathSteps) /\ Len(H) = 2 /\ H[1] = Local!TrashPrefix /\ H[2] = n /\ H # <<>>
         /\ \A s \in Seq(PathSteps) : Local!AtOrBelow(s, H) => s = <<>> \/ s = T \/ s = H
<1>1. T \in Seq(PathSteps) /\ Len(T) = 1 /\ T[1] = Local!TrashPrefix
  BY DEF PathSteps
<1>2. H \in Seq(PathSteps) /\ Len(H) = 2 /\ H[1] = Local!TrashPrefix /\ H[2] = n
  BY DEF PathSteps, Hidden
<1>8. ASSUME NEW s \in Seq(PathSteps), Local!AtOrBelow(s, H) PROVE s = <<>> \/ s = T \/ s = H
  <2>1. Len(s) <= Len(H) /\ \A i \in 1..Len(s) : s[i] = H[i]
    BY <1>2, <1>8, AtOrBelowIs
  <2>2. Len(s) \in {0, 1, 2}
    BY <1>2, <2>1
  <2>3. CASE Len(s) = 0
    BY <2>3
  <2>4. CASE Len(s) = 1
    <3>1. \A i \in 1..1 : s[i] = T[i]
      BY <1>1, <1>2, <2>1, <2>4
    <3> QED
      BY <1>1, <2>4, <3>1, SameSteps
  <2>5. CASE Len(s) = 2
    BY <1>2, <2>1, <2>5, SameSteps
  <2> QED
    BY <2>2, <2>3, <2>4, <2>5
<1>9. T # <<>> /\ H # <<>>
  BY <1>1, <1>2
<1> QED
  BY <1>1, <1>2, <1>8, <1>9

LEMMA HiddenStarts ==
  ASSUME NEW n \in Nat
  PROVE  {SubSeq(Hidden(n), 1, i) : i \in 1..Len(Hidden(n))} = {<<Local!TrashPrefix>>, Hidden(n)}
<1> DEFINE T == <<Local!TrashPrefix>>
           H == Hidden(n)
<1>0. T = <<Local!TrashPrefix>> /\ H = Hidden(n)
  OBVIOUS
<1> HIDE DEF T, H
<1>1. T \in Seq(PathSteps) /\ Len(T) = 1 /\ T[1] = Local!TrashPrefix
  BY <1>0, HiddenIs
<1>2. H \in Seq(PathSteps) /\ Len(H) = 2 /\ H[1] = Local!TrashPrefix
  BY <1>0, HiddenIs
<1>3. SubSeq(H, 1, 1) \in Seq(PathSteps) /\ Len(SubSeq(H, 1, 1)) = 1 /\ SubSeq(H, 1, 1)[1] = H[1]
  BY <1>2, StartOf
<1>4. SubSeq(H, 1, 2) \in Seq(PathSteps) /\ Len(SubSeq(H, 1, 2)) = 2 /\ \A i \in 1..2 : SubSeq(H, 1, 2)[i] = H[i]
  <2>1. 2 \in 0..Len(H)
    BY <1>2
  <2> QED
    BY <1>2, <2>1, StartOf
<1>5. SubSeq(H, 1, 1) = T
  <2>1. \A i \in 1..1 : SubSeq(H, 1, 1)[i] = T[i]
    BY <1>1, <1>2, <1>3
  <2> QED
    BY <1>1, <1>3, <2>1, SameSteps
<1>6. SubSeq(H, 1, 2) = H
  BY <1>2, <1>4, SameSteps
<1>7. {SubSeq(H, 1, i) : i \in 1..Len(H)} = {T, H}
  <2>1. \A i \in 1..Len(H) : i = 1 \/ i = 2
    BY <1>2
  <2>2. 1 \in 1..Len(H) /\ 2 \in 1..Len(H)
    BY <1>2
  <2> QED
    BY <1>5, <1>6, <2>1, <2>2
<1> QED
  BY <1>7 DEF T, H

\* The folder of a request in the trash is new.
LEMMA TrashFolders ==
  ASSUME TrashApart, NEW r, NEW d, NEW free, NEW k, FilesInv(r, d, free, k), NEW n, n = k + 1,
         NEW e, e = Local!MakeFolders(d, Hidden(n))
  PROVE  /\ DiskTypes(e) /\ FoldersThere(e) /\ n \in Nat
         /\ Hidden(n) \in DOMAIN e /\ <<Local!TrashPrefix>> \in DOMAIN e
         /\ e[Hidden(n)] = "dir" /\ e[<<Local!TrashPrefix>>] = "dir"
         /\ \A q \in DOMAIN e : q \in DOMAIN d \/ q = Hidden(n) \/ q = <<Local!TrashPrefix>>
         /\ \A q \in DOMAIN d : q \in DOMAIN e /\ e[q] = d[q]
         /\ \A q \in DOMAIN e : Local!AtOrBelow(Hidden(n), q) => q = Hidden(n)
         /\ \A s \in Seq(PathSteps) : Local!AtOrBelow(s, Hidden(n)) =>
              s = <<>> \/ s = <<Local!TrashPrefix>> \/ s = Hidden(n)
<1> DEFINE T == <<Local!TrashPrefix>>
           H == Hidden(n)
<1>1. /\ LocalTypes(r, d, free, k) /\ RowsPlaced(r, k) /\ FoldersThere(d) /\ Rowed(r, d, k) /\ k \in Nat /\ n \in Nat
  BY DEF FilesInv, LocalTypes
<1>a. T = <<Local!TrashPrefix>> /\ H = Hidden(n)
  OBVIOUS
<1> HIDE DEF T, H
<1>2. /\ T \in Seq(PathSteps) /\ Len(T) = 1 /\ T[1] = Local!TrashPrefix /\ T # <<>>
      /\ H \in Seq(PathSteps) /\ Len(H) = 2 /\ H[1] = Local!TrashPrefix /\ H[2] = n /\ H # <<>>
  BY <1>1, <1>a, HiddenIs
<1>3. \A s \in Seq(PathSteps) : Local!AtOrBelow(s, H) => s = <<>> \/ s = T \/ s = H
  BY <1>1, <1>a, HiddenIs
<1>4. {SubSeq(H, 1, i) : i \in 1..Len(H)} = {T, H}
  <2>1. {SubSeq(Hidden(n), 1, i) : i \in 1..Len(Hidden(n))} = {<<Local!TrashPrefix>>, Hidden(n)}
    BY <1>1, HiddenStarts
  <2> QED
    BY <2>1 DEF T, H
<1>5. e = [q \in DOMAIN d \cup {T, H} |-> IF q \in DOMAIN d THEN d[q] ELSE "dir"]
  BY <1>4, <1>a DEF Local!MakeFolders
<1>6. \A x \in DOMAIN r : r[x].path # T /\ r[x].path # H
  <2> SUFFICES ASSUME NEW x \in DOMAIN r PROVE r[x].path # T /\ r[x].path # H
    OBVIOUS
  <2>1. r[x].trashed => Len(r[x].path) \notin {1, 2}
    BY <1>1, RowPlace
  <2>2. ~r[x].trashed => r[x].path[1] # Local!TrashPrefix
    BY <1>1, RowPlace
  <2>3. CASE r[x].trashed
    <3>1. Len(r[x].path) # 1 /\ Len(r[x].path) # 2
      BY <2>1, <2>3
    <3> QED
      BY <1>2, <3>1
  <2>4. CASE ~r[x].trashed
    BY <1>2, <2>2, <2>4
  <2> QED
    BY <2>3, <2>4
<1>7. H \notin DOMAIN d
  <2>1. ~Rowless(H, d[H], k)
    <3>1. \A m \in 1..k : m # n
      BY <1>1
    <3>2. \A m \in 1..k : Hidden(m) # H
      BY <3>1, <1>a DEF Hidden
    <3>3. Len(H) # 1 /\ H # <<Local!TrashPrefix>>
      BY <1>2, <1>a
    <3> QED
      BY <3>2, <3>3 DEF Rowless
  <2> QED
    BY <1>1, <1>6, <2>1 DEF Rowed
<1>8. T \in DOMAIN d => d[T] = "dir"
  <2>1. ~(T[1] \in Names)
    BY <1>2 DEF TrashApart
  <2> QED
    BY <1>1, <1>2, <1>6, <1>a, <2>1 DEF Rowed, Rowless, Hidden
<1>9. /\ DOMAIN e = DOMAIN d \cup {T, H} /\ e[H] = "dir" /\ e[T] = "dir"
      /\ \A q \in DOMAIN d : e[q] = d[q]
  BY <1>5, <1>7, <1>8
<1>10. DiskTypes(e)
  <2>1. DOMAIN e \subseteq Seq(PathSteps) \ {<<>>}
    <3>1. DOMAIN d \subseteq Seq(PathSteps) \ {<<>>}
      BY <1>1 DEF LocalTypes, DiskTypes
    <3> QED
      BY <1>2, <1>9, <3>1
  <2>2. e \in [DOMAIN e -> Ids \cup {"dir", NoId}]
    BY <1>1, <1>5, <1>9 DEF LocalTypes, DiskTypes
  <2> QED
    BY <2>1, <2>2 DEF DiskTypes
<1>11. FoldersThere(e)
  <2> SUFFICES ASSUME NEW q \in DOMAIN e, NEW s \in Seq(PathSteps), s # <<>>, s # q, Local!AtOrBelow(s, q)
               PROVE  s \in DOMAIN e /\ e[s] = "dir"
    BY DEF FoldersThere
  <2>1. CASE q \in DOMAIN d
    BY <1>1, <1>9, <2>1 DEF FoldersThere
  <2>2. CASE q = T
    BY <1>2, <2>2, ShortIs
  <2>3. CASE q = H
    BY <1>3, <1>9, <2>3
  <2> QED
    BY <1>9, <2>1, <2>2, <2>3
<1>12. \A q \in DOMAIN e : Local!AtOrBelow(H, q) => q = H
  <2> SUFFICES ASSUME NEW q \in DOMAIN e, Local!AtOrBelow(H, q), q # H PROVE FALSE
    OBVIOUS
  <2>1. CASE q \in DOMAIN d
    BY <1>1, <1>2, <1>7, <2>1 DEF FoldersThere
  <2>2. CASE q = T
    BY <1>2, <2>2, ShortIs
  <2> QED
    BY <1>9, <2>1, <2>2
<1> QED
  BY <1>1, <1>3, <1>9, <1>10, <1>11, <1>12 DEF T, H

\* An entry of the project folder moves to a folder of its own in the trash.
LEMMA FilesTrash ==
  ASSUME TrashApart, LocalInv, NEW id \in DOMAIN rows, Local!Trash(id)
  PROVE  LocalInv'
<1> DEFINE n == tokens + 1
           hidden == Hidden(n)
           from == rows[id].path
           to == hidden \o from
           d == Local!MakeFolders(disk, hidden)
<1>1. /\ LocalTypes(rows, disk, fresh, tokens) /\ RowsPlaced(rows, tokens) /\ InPlace(rows, disk)
      /\ OnePath(rows) /\ FoldersThere(disk) /\ Rowed(rows, disk, tokens) /\ Apart(rows, disk) /\ OneTree(rows)
      /\ FilesInv(rows, disk, fresh, tokens) /\ tokens \in Nat /\ n \in Nat
  BY DEF LocalInv, FilesInv, LocalTypes
<1>b. n \in 1..n /\ \A m \in 1..tokens : m \in 1..n
  BY <1>1
<1>2. /\ ~rows[id].trashed /\ Len(from) = 1 /\ tokens' = n /\ UNCHANGED fresh
      /\ Local!MoveOnDisk(id, d, Append(hidden, Local!Last(from)))
      /\ rows' = [x \in DOMAIN rows |->
                    IF x \in Local!Tree(id)
                    THEN [rows[x] EXCEPT !.path = hidden \o rows[x].path, !.trashed = TRUE, !.original = rows[x].path]
                    ELSE rows[x]]
  BY DEF Local!Trash, Local!Live, Hidden, TrashApart
<1>3. /\ from \in Seq(Names) /\ from \in Seq(PathSteps) /\ from # <<>> /\ from[1] \in Names /\ from[1] # Local!TrashPrefix
      /\ id \in Ids /\ from \in DOMAIN disk
  BY <1>1, <1>2, RowTyped, RowPlace DEF InPlace, RowOnDisk
<1>4. d = Local!MakeFolders(disk, hidden)
  OBVIOUS
<1>5. /\ DiskTypes(d) /\ FoldersThere(d) /\ hidden \in DOMAIN d /\ d[hidden] = "dir"
      /\ <<Local!TrashPrefix>> \in DOMAIN d /\ d[<<Local!TrashPrefix>>] = "dir"
      /\ \A q \in DOMAIN d : q \in DOMAIN disk \/ q = hidden \/ q = <<Local!TrashPrefix>>
      /\ \A q \in DOMAIN disk : q \in DOMAIN d /\ d[q] = disk[q]
      /\ \A q \in DOMAIN d : Local!AtOrBelow(hidden, q) => q = hidden
      /\ \A s \in Seq(PathSteps) : Local!AtOrBelow(s, hidden) => s = <<>> \/ s = <<Local!TrashPrefix>> \/ s = hidden
  BY <1>1, <1>4, TrashFolders
<1>6. /\ to \in Seq(PathSteps) /\ to # <<>> /\ to[1] = Local!TrashPrefix /\ Local!AtOrBelow(hidden, to)
      /\ hidden \in Seq(PathSteps) /\ to # hidden
  <2>1. hidden \in Seq(PathSteps) /\ Len(hidden) = 2
    BY <1>1, LocalPaths
  <2>2. Len(to) \notin {1, 2}
    BY <1>1, <1>3, HiddenFacts
  <2>3. /\ to \in Seq(PathSteps) /\ to # <<>> /\ to[1] = Local!TrashPrefix /\ Local!AtOrBelow(hidden, to)
    BY <1>1, <1>3, HiddenFacts
  <2>4. to # hidden
    <3> HIDE DEF to, hidden
    <3> QED
      BY <2>1, <2>2
  <2> QED
    BY <2>1, <2>3, <2>4
<1>7. to = Append(hidden, Local!Last(from))
  <2> DEFINE a == Local!Last(from)
  <2>1. a \in PathSteps /\ Append(Local!Folder(from), a) = from /\ Local!Folder(from) = <<>>
    BY <1>2, <1>3, FolderFacts
  <2>2. from = <<a>>
    BY <2>1
  <2> HIDE DEF a
  <2>3. Append(hidden, a) = hidden \o <<a>>
    BY <1>6, <2>1
  <2> QED
    BY <2>2, <2>3 DEF a
<1> HIDE DEF n, hidden, to, d
<1>8. disk' = Local!Rename(d, from, to)
  <2>1. from # to
    BY <1>3, <1>6
  <2> QED
    BY <1>2, <1>7, <2>1, MoveOnDiskIs
<1>9. \A q \in DOMAIN d : ~Local!AtOrBelow(to, q)
  <2> SUFFICES ASSUME NEW q \in DOMAIN d, Local!AtOrBelow(to, q) PROVE FALSE
    OBVIOUS
  <2>1. q \in Seq(PathSteps)
    BY <1>5 DEF DiskTypes
  <2>2. q = hidden
    BY <1>5, <1>6, <2>1, AtOrBelowOrder
  <2> QED
    BY <1>6, <2>2, AtOrBelowOrder
<1>10. RenameClear(d, from, to)
  <2>1. ~Local!AtOrBelow(from, to)
    BY <1>3, <1>6, FirstStep
  <2>2. ASSUME NEW s \in Seq(PathSteps), s # <<>>, s # to, Local!AtOrBelow(s, to)
        PROVE  s \in DOMAIN d /\ d[s] = "dir"
    <3>1. Local!Last(from) \in PathSteps
      BY <1>3, FolderFacts
    <3>2. Local!AtOrBelow(s, hidden)
      BY <1>6, <1>7, <2>2, <3>1, AppendFacts
    <3> QED
      BY <1>5, <2>2, <3>2
  <2> QED
    BY <1>3, <1>5, <1>6, <1>9, <2>1, <2>2 DEF RenameClear
<1>11. DiskTypes(disk') /\ FoldersThere(disk') /\ Renamed(d, disk', from, to)
  BY <1>8, <1>10, RenameOnDisk
<1>12. /\ \A x \in DOMAIN rows : x \in Local!Tree(id) <=> Local!AtOrBelow(from, rows[x].path)
       /\ \A x \in Local!Tree(id) : ~rows[x].trashed
  BY <1>2, TreeHere
<1>13. /\ DOMAIN rows' = DOMAIN rows /\ rows' = [x \in DOMAIN rows |-> rows'[x]]
       /\ \A x \in DOMAIN rows : ~Local!AtOrBelow(from, rows[x].path) => rows'[x] = rows[x]
       /\ \A x \in DOMAIN rows : Local!AtOrBelow(from, rows[x].path) =>
            /\ rows'[x] = [rows[x] EXCEPT !.path = hidden \o rows[x].path, !.trashed = TRUE, !.original = rows[x].path]
            /\ ~rows[x].trashed
  BY <1>2, <1>12
<1>14. DOMAIN rows' = DOMAIN rows
  BY <1>13
<1>c. \A x \in DOMAIN rows : ~Local!AtOrBelow(from, rows[x].path) => rows'[x] = rows[x]
  BY <1>13
<1>15. ASSUME NEW x \in DOMAIN rows, Local!AtOrBelow(from, rows[x].path)
       PROVE  /\ rows'[x].path = Local!Moved(rows[x].path, from, to) /\ rows'[x].path = hidden \o rows[x].path
              /\ rows[x].path \in Seq(Names) /\ rows[x].path # <<>> /\ rows[x].path[1] = from[1]
              /\ rows'[x] \in LocalRow /\ rows'[x].folder = rows[x].folder /\ rows'[x].trashed
              /\ rows'[x].original = rows[x].path /\ rows'[x].storage = rows[x].path /\ rows'[x].path[2] = n
  <2> DEFINE p == rows[x].path
             h == hidden \o p
  <2>1. rows'[x] = [rows[x] EXCEPT !.path = h, !.trashed = TRUE, !.original = p] /\ ~rows[x].trashed
    BY <1>13, <1>15
  <2>2. rows[x] \in LocalRow
    BY <1>1, RowTyped
  <2>3. p \in Seq(Names) /\ p \in Seq(PathSteps) /\ p # <<>> /\ rows[x].storage = p
    BY <1>1, <2>1, RowTyped, RowPlace DEF RowsPlaced
  <2>4. p[1] = from[1]
    BY <1>3, <1>15, <2>3, FirstStep
  <2>5. Local!Moved(p, from, to) = h
    BY <1>3, <1>6, <1>15, <2>3, MovedUnder DEF to
  <2>6. h \in Seq(PathSteps) /\ h[2] = n
    BY <1>1, <2>3, HiddenFacts DEF hidden
  <2> HIDE DEF h
  <2>7. /\ rows'[x] \in LocalRow /\ rows'[x].path = h /\ rows'[x].folder = rows[x].folder /\ rows'[x].trashed
        /\ rows'[x].original = p /\ rows'[x].storage = rows[x].storage
    BY <2>1, <2>2, <2>3, <2>6 DEF LocalRow
  <2> QED
    BY <2>3, <2>4, <2>5, <2>6, <2>7 DEF h
<1>16. LocalTypes(rows', disk', fresh', tokens')
  <2>1. \A x \in DOMAIN rows : rows'[x] \in LocalRow
    BY <1>1, <1>13, <1>15, RowTyped
  <2>2. rows' \in [DOMAIN rows' -> LocalRow]
    BY <1>13, <2>1
  <2> QED
    BY <1>1, <1>2, <1>11, <1>14, <2>2 DEF LocalTypes
<1>17. RowsPlaced(rows', tokens')
  <2>1. ASSUME NEW x \in DOMAIN rows, Local!AtOrBelow(from, rows[x].path)
        PROVE  /\ rows'[x].trashed /\ rows'[x].original # <<>> /\ rows'[x].storage = rows'[x].original
               /\ \E m \in 1..tokens' : rows'[x].path = Hidden(m) \o rows'[x].original
    <3>1. n \in 1..tokens'
      BY <1>2, <1>b
    <3>2. rows'[x].path = Hidden(n) \o rows'[x].original
      BY <1>15, <2>1 DEF hidden
    <3> QED
      BY <1>15, <2>1, <3>1, <3>2
  <2>2. ASSUME NEW x \in DOMAIN rows, ~Local!AtOrBelow(from, rows[x].path)
        PROVE  /\ ~rows'[x].trashed => rows'[x].storage # <<>> /\ rows'[x].path = rows'[x].storage
               /\ rows'[x].trashed => /\ rows'[x].original # <<>> /\ rows'[x].storage = rows'[x].original
                                      /\ \E m \in 1..tokens' : rows'[x].path = Hidden(m) \o rows'[x].original
    <3>1. \A m \in 1..tokens : m \in 1..tokens'
      BY <1>2, <1>b
    <3>2. rows'[x] = rows[x]
      BY <1>13, <2>2
    <3> QED
      BY <1>1, <3>1, <3>2 DEF RowsPlaced
  <2> QED
    BY <1>14, <2>1, <2>2 DEF RowsPlaced
<1>18. InPlace(rows', disk') /\ OnePath(rows')
  <2>1. \A x \in DOMAIN rows : rows[x].path \in DOMAIN disk /\ rows[x].path \in DOMAIN d /\ d[rows[x].path] = disk[rows[x].path]
    BY <1>1, <1>5 DEF InPlace, RowOnDisk
  <2>2. InPlace(rows, d)
    BY <1>1, <2>1 DEF InPlace, RowOnDisk
  <2>3. LocalTypes(rows, d, fresh, tokens)
    BY <1>1, <1>5 DEF LocalTypes
  <2>4. \A x \in DOMAIN rows : rows[x].path # to
    <3>1. Local!AtOrBelow(to, to)
      BY <1>6, AtOrBelowOrder
    <3> QED
      BY <1>9, <2>1, <3>1
  <2>5. \A x \in DOMAIN rows :
          /\ rows'[x].folder = rows[x].folder
          /\ Local!AtOrBelow(from, rows[x].path) => rows'[x].path = Local!Moved(rows[x].path, from, to)
          /\ ~Local!AtOrBelow(from, rows[x].path) => rows'[x].path = rows[x].path
    BY <1>13, <1>15
  <2> QED
    BY <1>1, <1>10, <1>11, <1>14, <2>2, <2>3, <2>4, <2>5, RowsMoved
\* What the disk has now: what it had, the folders of the trash, or something
\* that came with the tree.
<1>19. ASSUME NEW p \in DOMAIN disk'
       PROVE  \/ p \in DOMAIN disk /\ ~Local!AtOrBelow(from, p) /\ disk'[p] = disk[p]
              \/ p[1] = Local!TrashPrefix /\ Rowless(p, disk'[p], tokens')
              \/ p[1] = Local!TrashPrefix /\ \E x \in DOMAIN rows : rows'[x].path = p
  <2>1. CASE p \in DOMAIN d /\ ~Local!AtOrBelow(from, p) /\ p # to
    <3>1. disk'[p] = d[p]
      BY <1>11, <2>1 DEF Renamed
    <3>2. CASE p \in DOMAIN disk
      BY <1>5, <2>1, <3>1, <3>2
    <3>3. CASE p = hidden
      <4>1. p[1] = Local!TrashPrefix /\ n \in 1..tokens'
        BY <1>2, <1>b, <3>3 DEF hidden, Hidden
      <4>2. p = Hidden(n) /\ disk'[p] = "dir"
        BY <1>5, <3>1, <3>3 DEF hidden
      <4> QED
        BY <4>1, <4>2 DEF Rowless
    <3>4. CASE p = <<Local!TrashPrefix>>
      <4>1. p[1] = Local!TrashPrefix /\ disk'[p] = "dir"
        BY <1>5, <3>1, <3>4
      <4> QED
        BY <3>4, <4>1 DEF Rowless
    <3> QED
      BY <1>5, <2>1, <3>2, <3>3, <3>4
  <2>2. ASSUME NEW q \in DOMAIN d, Local!AtOrBelow(from, q), p = Local!Moved(q, from, to)
        PROVE  p[1] = Local!TrashPrefix /\ \E x \in DOMAIN rows : rows'[x].path = p
    <3>1. q \in Seq(PathSteps) /\ q # <<>>
      BY <1>5 DEF DiskTypes
    <3>2. q[1] = from[1]
      BY <1>3, <2>2, <3>1, FirstStep
    <3>3. q # <<Local!TrashPrefix>> /\ q # hidden
      <4>1. q[1] # Local!TrashPrefix
        BY <1>3, <3>2
      <4> QED
        BY <4>1 DEF hidden, Hidden
    <3>4. q \in DOMAIN disk
      BY <1>5, <3>3
    <3>5. \E x \in DOMAIN rows : rows[x].path = q
      <4>1. CASE Rowless(q, disk[q], tokens)
        <5>1. Len(q) = 1
          BY <1>3, <3>2, <4>1 DEF Rowless, Hidden
        <5>2. from = q
          BY <1>3, <2>2, <3>1, <5>1, ShortIs
        <5> QED
          BY <5>2
      <4> QED
        BY <1>1, <3>4, <4>1 DEF Rowed
    <3>6. \E x \in DOMAIN rows : rows'[x].path = p
      BY <1>15, <2>2, <3>5
    <3>7. Local!AtOrBelow(to, p) /\ p \in Seq(PathSteps)
      BY <1>3, <1>6, <2>2, <3>1, MovedFacts
    <3>8. p[1] = Local!TrashPrefix
      BY <1>6, <3>7, FirstStep
    <3> QED
      BY <3>6, <3>8
  <2>3. (p \in DOMAIN d /\ ~Local!AtOrBelow(from, p) /\ p # to)
          \/ \E q \in DOMAIN d : Local!AtOrBelow(from, q) /\ p = Local!Moved(q, from, to)
    BY <1>11 DEF Renamed
  <2> QED
    BY <2>1, <2>2, <2>3
<1>20. Rowed(rows', disk', tokens')
  <2> SUFFICES ASSUME NEW p \in DOMAIN disk', ~\E x \in DOMAIN rows : rows'[x].path = p
               PROVE  Rowless(p, disk'[p], tokens')
    BY <1>14 DEF Rowed
  <2>1. CASE p \in DOMAIN disk /\ ~Local!AtOrBelow(from, p) /\ disk'[p] = disk[p]
    <3>1. Rowless(p, disk[p], tokens)
      BY <1>1, <1>13, <2>1 DEF Rowed
    <3>2. \A m \in 1..tokens : m \in 1..tokens'
      BY <1>2, <1>b
    <3> QED
      BY <2>1, <3>1, <3>2 DEF Rowless
  <2> QED
    BY <1>19, <2>1
<1>21. Apart(rows', disk')
  <2> SUFFICES ASSUME NEW p \in DOMAIN disk', NEW y \in DOMAIN rows, rows'[y].trashed, p[1] = rows'[y].storage[1]
               PROVE  FALSE
    BY <1>14 DEF Apart
  <2>1. rows'[y].storage[1] \in Names
    BY <1>16, <1>17, <1>14, RowPlace
  <2>2. p \in DOMAIN disk /\ ~Local!AtOrBelow(from, p)
    BY <1>19, <2>1 DEF TrashApart
  <2>3. CASE Local!AtOrBelow(from, rows[y].path)
    <3>1. p[1] = from[1]
      BY <1>15, <2>3
    <3>2. p \in Seq(PathSteps) /\ p # <<>>
      BY <1>1, <2>2 DEF LocalTypes, DiskTypes
    <3>3. Len(from) <= Len(p) /\ \A i \in 1..Len(from) : from[i] = p[i]
      <4>1. Len(p) \in Nat /\ Len(p) # 0
        BY <3>2
      <4>2. \A i \in 1..1 : from[i] = p[i]
        BY <3>1
      <4>3. 1 <= Len(p)
        BY <4>1
      <4> QED
        BY <1>2, <4>2, <4>3
    <3> QED
      BY <1>3, <2>2, <3>2, <3>3, AtOrBelowIs
  <2>4. CASE ~Local!AtOrBelow(from, rows[y].path)
    <3>1. rows'[y] = rows[y]
      BY <1>c, <2>4
    <3> QED
      BY <1>1, <2>2, <3>1 DEF Apart
  <2> QED
    BY <2>3, <2>4
<1>22. OneTree(rows')
  <2> SUFFICES ASSUME NEW y \in DOMAIN rows, NEW z \in DOMAIN rows, rows'[y].trashed, rows'[z].trashed,
                      rows'[y].storage[1] = rows'[z].storage[1]
               PROVE  rows'[y].path[2] = rows'[z].path[2]
    BY <1>14 DEF OneTree
  <2>1. ASSUME NEW u \in DOMAIN rows, Local!AtOrBelow(from, rows[u].path)
        PROVE  rows'[u].path[2] = n /\ rows'[u].storage[1] = from[1]
    BY <1>15, <2>1
  <2>2. ASSUME NEW u \in DOMAIN rows, ~Local!AtOrBelow(from, rows[u].path), rows'[u].trashed
        PROVE  rows'[u] = rows[u] /\ rows[u].trashed /\ rows'[u].storage[1] # from[1]
    <3>1. rows'[u] = rows[u] /\ rows[u].trashed
      BY <1>c, <2>2
    <3>2. from[1] # rows[u].storage[1]
      BY <1>1, <1>3, <3>1 DEF Apart
    <3> QED
      BY <3>1, <3>2
  <2>3. CASE Local!AtOrBelow(from, rows[y].path) /\ Local!AtOrBelow(from, rows[z].path)
    BY <2>1, <2>3
  <2>4. CASE ~Local!AtOrBelow(from, rows[y].path) /\ ~Local!AtOrBelow(from, rows[z].path)
    BY <1>1, <2>2, <2>4 DEF OneTree
  <2> QED
    BY <2>1, <2>2, <2>3, <2>4
<1>23. FilesInv(rows', disk', fresh', tokens')
  BY <1>11, <1>16, <1>17, <1>18, <1>20, <1>21, <1>22 DEF FilesInv
<1> QED
  BY <1>23 DEF LocalInv

LEMMA OneStep ==
  ASSUME NEW S, NEW o \in Seq(S), Len(o) = 1, NEW s \in Seq(S), s # <<>>
  PROVE  Local!AtOrBelow(o, s) <=> o[1] = s[1]
<1>1. Len(s) \in Nat /\ Len(s) # 0
  OBVIOUS
<1>2. Len(o) <= Len(s)
  BY <1>1
<1>3. (\A i \in 1..Len(o) : o[i] = s[i]) <=> o[1] = s[1]
  OBVIOUS
<1>4. Local!AtOrBelow(o, s) <=> Len(o) <= Len(s) /\ \A i \in 1..Len(o) : o[i] = s[i]
  BY AtOrBelowIs
<1> QED
  BY <1>2, <1>3, <1>4

\* What a restored entry of the project folder takes along.
LEMMA HiddenBelow ==
  ASSUME NEW n \in Nat, NEW m \in Nat, NEW o \in Seq(Names), Len(o) = 1, NEW s \in Seq(Names), s # <<>>
  PROVE  /\ Local!AtOrBelow(Hidden(n) \o o, Hidden(m) \o s) <=> n = m /\ o[1] = s[1]
         /\ n = m /\ o[1] = s[1] => Local!Moved(Hidden(m) \o s, Hidden(n) \o o, o) = s
<1> DEFINE f == Hidden(n) \o o
           p == Hidden(m) \o s
<1>0. o # <<>>
  <2> SUFFICES ASSUME o = <<>> PROVE FALSE
    OBVIOUS
  <2>1. Len(o) = 0
    OBVIOUS
  <2> QED
    BY <2>1
<1>1. o \in Seq(PathSteps) /\ s \in Seq(PathSteps) /\ o # <<>>
  BY <1>0, LocalPaths
<1>2. /\ Hidden(n) \in Seq(PathSteps) /\ Len(Hidden(n)) = 2 /\ Hidden(m) \in Seq(PathSteps) /\ Len(Hidden(m)) = 2
  BY LocalPaths
<1>3. /\ f \in Seq(PathSteps) /\ Len(f) = 2 + Len(o) /\ f[2] = n
      /\ \A i \in 1..Len(o) : f[2 + i] = o[i]
  <2>1. f \in Seq(PathSteps) /\ Len(f) = 2 + Len(o) /\ \A i \in 1..Len(o) : f[2 + i] = o[i]
    BY <1>1, <1>2, Joined
  <2>2. f[2] = n
    BY <1>1, HiddenFacts
  <2> QED
    BY <2>1, <2>2
<1>4. /\ p \in Seq(PathSteps) /\ p[2] = m /\ \A i \in 1..Len(s) : p[2 + i] = s[i]
  <2>1. p \in Seq(PathSteps) /\ \A i \in 1..Len(s) : p[2 + i] = s[i]
    <3>1. p \in Seq(PathSteps) /\ \A i \in 1..Len(s) : p[Len(Hidden(m)) + i] = s[i]
      <4>1. Hidden(m) \in Seq(PathSteps) /\ s \in Seq(PathSteps)
        BY <1>1, <1>2
      <4> QED
        BY <4>1, Joined
    <3> QED
      BY <1>2, <3>1
  <2>2. p[2] = m
    BY HiddenFacts
  <2> QED
    BY <2>1, <2>2
<1>5. f = Hidden(n) \o o /\ p = Hidden(m) \o s
  OBVIOUS
<1> HIDE DEF f, p
<1>6. ASSUME Local!AtOrBelow(f, p) PROVE n = m /\ o[1] = s[1]
  <2>1. \A i \in 1..Len(f) : f[i] = p[i]
    BY <1>3, <1>4, <1>6, AtOrBelowIs
  <2>2. f[2] = p[2] /\ f[3] = p[3]
    BY <1>3, <2>1
  <2>3. Len(s) \in Nat /\ Len(s) # 0
    OBVIOUS
  <2>4. 1 \in 1..Len(s) /\ 1 \in 1..Len(o) /\ 2 + 1 = 3
    BY <2>3
  <2>5. f[3] = o[1] /\ p[3] = s[1]
    BY <1>3, <1>4, <2>4
  <2> QED
    BY <1>3, <1>4, <2>2, <2>5
<1>7. ASSUME n = m, o[1] = s[1] PROVE Local!AtOrBelow(f, p) /\ Local!Moved(p, f, o) = s
  <2>1. Local!AtOrBelow(o, s)
    BY <1>7, OneStep
  <2>2. Local!Moved(s, o, f) = p
    BY <1>1, <1>2, <1>5, <1>7, <2>1, MovedUnder
  <2> QED
    BY <1>1, <1>3, <2>1, <2>2, MovedFacts
<1> QED
  BY <1>6, <1>7 DEF f, p

\* An entry of the project folder comes back from the trash, to where it was.
LEMMA FilesRestore ==
  ASSUME TrashApart, LocalInv, NEW id \in DOMAIN rows, Local!Restore(id)
  PROVE  LocalInv'
<1> DEFINE o == rows[id].original
           from == rows[id].path
           n == from[2]
<1>1. /\ LocalTypes(rows, disk, fresh, tokens) /\ RowsPlaced(rows, tokens) /\ InPlace(rows, disk)
      /\ OnePath(rows) /\ FoldersThere(disk) /\ Rowed(rows, disk, tokens) /\ Apart(rows, disk) /\ OneTree(rows)
      /\ FilesInv(rows, disk, fresh, tokens) /\ tokens \in Nat
  BY DEF LocalInv, FilesInv, LocalTypes
<1>2. rows[id].trashed /\ UNCHANGED <<fresh, tokens>>
  BY DEF Local!Restore
<1>3. PICK parent \in Local!Parents :
        /\ parent.path = Local!Folder(o)
        /\ Local!MoveOnDisk(id, Local!MakeFolders(disk, parent.at), Append(parent.at, Local!Last(o)))
  BY DEF Local!Restore
<1>4. /\ o \in Seq(Names) /\ o \in Seq(PathSteps) /\ o # <<>> /\ o[1] \in Names /\ o[1] # Local!TrashPrefix
      /\ rows[id].storage = o /\ from \in DOMAIN disk /\ from \in Seq(PathSteps) /\ from # <<>>
      /\ from[1] = Local!TrashPrefix /\ n \in 1..tokens /\ n \in Nat /\ from = Hidden(n) \o o
      /\ Len(from) \notin {1, 2}
  <2>1. o # <<>> /\ rows[id].storage = o
    BY <1>1, <1>2 DEF RowsPlaced
  <2>2. o \in Seq(Names) /\ o \in Seq(PathSteps) /\ from \in Seq(PathSteps) /\ from \in DOMAIN disk
    BY <1>1, RowTyped, LocalPaths DEF InPlace, RowOnDisk
  <2>3. /\ from # <<>> /\ o[1] \in Names /\ from[1] = Local!TrashPrefix /\ n \in 1..tokens /\ from = Hidden(n) \o o
        /\ Len(from) \notin {1, 2}
    <3>1. /\ rows[id].path[1] = Local!TrashPrefix /\ Len(rows[id].path) \notin {1, 2}
          /\ rows[id].path[2] \in 1..tokens
          /\ rows[id].path = Hidden(rows[id].path[2]) \o rows[id].storage
          /\ rows[id].path # <<>> /\ rows[id].storage[1] \in Names
      BY <1>1, <1>2, RowPlace
    <3> QED
      BY <2>1, <3>1
  <2>4. n \in Nat
    BY <1>1, <2>3
  <2> QED
    BY <2>1, <2>2, <2>3, <2>4 DEF TrashApart
<1>d. /\ o \in Seq(PathSteps) /\ from \in Seq(PathSteps) /\ from # <<>> /\ Len(from) \notin {1, 2}
  BY <1>4
<1>5. \A p \in DOMAIN disk : p[1] # o[1]
  BY <1>1, <1>2, <1>4 DEF Apart
<1> HIDE DEF o, from, n
\* Nothing of the project is where it was: the folder was the project folder.
<1>6. parent.path = <<>> /\ parent.at = <<>> /\ Len(o) = 1
  <2>1. parent.at = parent.path /\ (parent.path = <<>> \/ parent.path \in DOMAIN disk)
    BY ParentIs
  <2>2. /\ Local!Folder(o) \in Seq(Names) /\ Local!Last(o) \in Names
        /\ Append(Local!Folder(o), Local!Last(o)) = o /\ (Len(o) = 1 <=> Local!Folder(o) = <<>>)
    BY <1>4, FolderFacts
  <2>3. CASE Local!Folder(o) # <<>>
    <3>1. Local!AtOrBelow(Local!Folder(o), o)
      <4>1. PICK f \in Seq(Names), a \in Names : f = Local!Folder(o) /\ Append(f, a) = o
        BY <2>2
      <4>2. Local!AtOrBelow(f, Append(f, a))
        BY AppendFacts
      <4> QED
        BY <4>1, <4>2
    <3>2. Local!Folder(o)[1] = o[1]
      BY <1>4, <2>2, <2>3, <3>1, FirstStep
    <3> QED
      BY <1>3, <1>5, <2>1, <2>3, <3>2
  <2> QED
    BY <1>3, <2>1, <2>2, <2>3
<1>7. Local!AtPath(o) = {}
  <2>1. \A x \in DOMAIN rows : rows[x].path \in DOMAIN disk
    BY <1>1 DEF InPlace, RowOnDisk
  <2> QED
    BY <1>5, <2>1 DEF Local!AtPath
<1>8. disk' = Local!Rename(disk, from, o)
  <2>1. Append(parent.at, Local!Last(o)) = o
    BY <1>3, <1>4, <1>6, FolderFacts
  <2>2. Local!MakeFolders(disk, parent.at) = disk
    BY <1>1, <1>6, FoldersMade, LocalPaths
  <2>3. rows[id].path # o
    BY <1>4 DEF from
  <2> QED
    BY <1>3, <2>1, <2>2, <2>3, MoveOnDiskIs DEF from
<1>9. RenameClear(disk, from, o)
  <2>1. ~Local!AtOrBelow(from, o)
    BY <1>4, FirstStep
  <2>2. \A q \in DOMAIN disk : ~Local!AtOrBelow(o, q)
    <3>1. \A q \in DOMAIN disk : q \in Seq(PathSteps)
      BY <1>1 DEF LocalTypes, DiskTypes
    <3> QED
      BY <1>4, <1>5, <3>1, FirstStep
  <2>3. \A s \in Seq(PathSteps) : s # <<>> /\ Local!AtOrBelow(s, o) => s = o
    BY <1>4, <1>6, ShortIs
  <2> QED
    BY <1>1, <1>4, <2>1, <2>2, <2>3 DEF RenameClear, LocalTypes
<1>10. DiskTypes(disk') /\ FoldersThere(disk') /\ Renamed(disk, disk', from, o)
  BY <1>8, <1>9, RenameOnDisk
<1>11. /\ \A x \in DOMAIN rows : x \in Local!Tree(id) <=> Local!AtOrBelow(from, rows[x].path)
       /\ \A x \in Local!Tree(id) : rows[x].trashed
  BY <1>2, TreeHere DEF from
<1>12. rows' = [x \in DOMAIN rows |->
                  IF x \in Local!Tree(id) /\ rows[x].trashed
                  THEN [rows[x] EXCEPT !.path = rows[x].original, !.trashed = FALSE,
                                       !.original = <<>>, !.storage = rows[x].original]
                  ELSE rows[x]]
  BY <1>7 DEF Local!Restore, o
<1>13. /\ rows' = [x \in DOMAIN rows |-> rows'[x]]
       /\ \A x \in DOMAIN rows : Local!AtOrBelow(from, rows[x].path) =>
            /\ rows'[x] = [rows[x] EXCEPT !.path = rows[x].original, !.trashed = FALSE,
                                          !.original = <<>>, !.storage = rows[x].original]
            /\ rows[x].trashed
  BY <1>11, <1>12
<1>14. /\ DOMAIN rows' = DOMAIN rows
       /\ \A x \in DOMAIN rows : ~Local!AtOrBelow(from, rows[x].path) => rows'[x] = rows[x]
  BY <1>11, <1>12
<1>15. ASSUME NEW x \in DOMAIN rows, Local!AtOrBelow(from, rows[x].path)
       PROVE  /\ rows'[x].path = Local!Moved(rows[x].path, from, o) /\ rows'[x].path = rows'[x].storage
              /\ rows'[x].storage # <<>> /\ rows'[x] \in LocalRow /\ rows'[x].folder = rows[x].folder /\ ~rows'[x].trashed
  <2> DEFINE s == rows[x].original
             p == rows[x].path
             m == p[2]
  <2>1. /\ rows'[x] = [rows[x] EXCEPT !.path = s, !.trashed = FALSE, !.original = <<>>, !.storage = s]
        /\ rows[x].trashed
    BY <1>13, <1>15
  <2>2. rows[x] \in LocalRow
    BY <1>1, RowTyped
  <2>3. s # <<>> /\ rows[x].storage = s
    BY <1>1, <2>1 DEF RowsPlaced
  <2>4. s \in Seq(Names) /\ s \in Seq(PathSteps)
    BY <1>1, RowTyped, LocalPaths
  <2>5. p = Hidden(m) \o s /\ m \in 1..tokens
    <3>1. rows[x].path = Hidden(rows[x].path[2]) \o rows[x].storage /\ rows[x].path[2] \in 1..tokens
      BY <1>1, <2>1, RowPlace
    <3> QED
      BY <2>3, <3>1
  <2>6. m \in Nat
    BY <1>1, <2>5
  <2>7. Local!AtOrBelow(from, p)
    BY <1>15
  <2> HIDE DEF s, m, p
  <2>8. Local!Moved(p, from, o) = s
    BY <1>4, <1>6, <2>3, <2>4, <2>5, <2>6, <2>7, HiddenBelow
  <2>9. <<>> \in Seq(Names)
    OBVIOUS
  <2>10. /\ rows'[x].path = s /\ rows'[x].storage = s /\ ~rows'[x].trashed /\ rows'[x].folder = rows[x].folder
         /\ rows'[x] \in LocalRow
    BY <2>1, <2>2, <2>4, <2>9 DEF LocalRow
  <2> QED
    BY <2>3, <2>8, <2>10 DEF p
<1>16. LocalTypes(rows', disk', fresh', tokens')
  <2>1. \A x \in DOMAIN rows : rows'[x] \in LocalRow
    BY <1>1, <1>14, <1>15, RowTyped
  <2>2. rows' \in [DOMAIN rows' -> LocalRow]
    BY <1>13, <1>14, <2>1
  <2> QED
    BY <1>1, <1>2, <1>10, <1>14, <2>2 DEF LocalTypes
<1>17. RowsPlaced(rows', tokens')
  <2> SUFFICES ASSUME NEW x \in DOMAIN rows
               PROVE  /\ ~rows'[x].trashed => rows'[x].storage # <<>> /\ rows'[x].path = rows'[x].storage
                      /\ rows'[x].trashed => /\ rows'[x].original # <<>> /\ rows'[x].storage = rows'[x].original
                                             /\ \E m \in 1..tokens' : rows'[x].path = Hidden(m) \o rows'[x].original
    BY <1>14 DEF RowsPlaced
  <2>1. CASE Local!AtOrBelow(from, rows[x].path)
    BY <1>15, <2>1
  <2>2. CASE ~Local!AtOrBelow(from, rows[x].path)
    <3>1. rows'[x] = rows[x] /\ tokens' = tokens
      BY <1>2, <1>14, <2>2
    <3> QED
      BY <1>1, <3>1 DEF RowsPlaced
  <2> QED
    BY <2>1, <2>2
<1>18. InPlace(rows', disk') /\ OnePath(rows')
  <2>1. \A x \in DOMAIN rows : rows[x].path # o
    BY <1>7 DEF Local!AtPath
  <2>2. \A x \in DOMAIN rows :
          /\ rows'[x].folder = rows[x].folder
          /\ Local!AtOrBelow(from, rows[x].path) => rows'[x].path = Local!Moved(rows[x].path, from, o)
          /\ ~Local!AtOrBelow(from, rows[x].path) => rows'[x].path = rows[x].path
    BY <1>14, <1>15
  <2> QED
    BY <1>1, <1>9, <1>10, <1>14, <2>1, <2>2, RowsMoved
<1>19. ASSUME NEW p \in DOMAIN disk'
       PROVE  \/ p \in DOMAIN disk /\ ~Local!AtOrBelow(from, p) /\ disk'[p] = disk[p]
              \/ p[1] = o[1] /\ \E x \in DOMAIN rows : rows'[x].path = p
  <2>1. CASE p \in DOMAIN disk /\ ~Local!AtOrBelow(from, p) /\ p # o
    BY <1>10, <2>1 DEF Renamed
  <2>2. ASSUME NEW q \in DOMAIN disk, Local!AtOrBelow(from, q), p = Local!Moved(q, from, o)
        PROVE  p[1] = o[1] /\ \E x \in DOMAIN rows : rows'[x].path = p
    <3>1. q \in Seq(PathSteps) /\ q # <<>>
      BY <1>1 DEF LocalTypes, DiskTypes
    <3>2. \E x \in DOMAIN rows : rows[x].path = q
      <4>1. CASE Rowless(q, disk[q], tokens)
        <5>1. Len(q) \in {1, 2}
          BY <4>1 DEF Rowless, Hidden
        <5>2. Len(from) <= Len(q)
          BY <1>d, <2>2, <3>1, AtOrBelowIs
        <5>3. Len(from) \in Nat \ {0, 1, 2}
          BY <1>d
        <5>4. \A i \in Nat \ {0, 1, 2}, j \in {1, 2} : ~(i <= j)
          OBVIOUS
        <5> QED
          BY <5>1, <5>2, <5>3, <5>4
      <4> QED
        BY <1>1, <4>1 DEF Rowed
    <3>3. \E x \in DOMAIN rows : rows'[x].path = p
      BY <1>15, <2>2, <3>2
    <3>4. Local!AtOrBelow(o, p) /\ p \in Seq(PathSteps)
      BY <1>d, <2>2, <3>1, MovedFacts
    <3> QED
      BY <1>4, <3>3, <3>4, FirstStep
  <2>3. (p \in DOMAIN disk /\ ~Local!AtOrBelow(from, p) /\ p # o)
          \/ \E q \in DOMAIN disk : Local!AtOrBelow(from, q) /\ p = Local!Moved(q, from, o)
    BY <1>10 DEF Renamed
  <2> QED
    BY <2>1, <2>2, <2>3
<1>20. Rowed(rows', disk', tokens')
  <2> SUFFICES ASSUME NEW p \in DOMAIN disk', ~\E x \in DOMAIN rows : rows'[x].path = p
               PROVE  Rowless(p, disk'[p], tokens')
    BY <1>14 DEF Rowed
  <2>1. p \in DOMAIN disk /\ ~Local!AtOrBelow(from, p) /\ disk'[p] = disk[p]
    BY <1>19
  <2>2. ~\E x \in DOMAIN rows : rows[x].path = p
    BY <1>14, <2>1
  <2>3. Rowless(p, disk[p], tokens)
    BY <1>1, <2>1, <2>2 DEF Rowed
  <2> QED
    BY <1>2, <2>1, <2>3
\* What stays in the trash was not below the same entry of the project folder.
<1>21. ASSUME NEW y \in DOMAIN rows, rows'[y].trashed
       PROVE  rows'[y] = rows[y] /\ rows[y].trashed /\ rows[y].storage[1] # o[1]
  <2>1. ~Local!AtOrBelow(from, rows[y].path)
    BY <1>15, <1>21
  <2>2. rows'[y] = rows[y] /\ rows[y].trashed
    BY <1>14, <1>21, <2>1
  <2>3. ASSUME rows[y].storage[1] = o[1] PROVE FALSE
    <3>1. rows[y].path[2] = n
      BY <1>1, <1>2, <1>4, <2>2, <2>3 DEF OneTree, n, from
    <3>2. rows[y].path = Hidden(n) \o rows[y].storage /\ rows[y].storage # <<>>
      <4>1. /\ rows[y].path = Hidden(rows[y].path[2]) \o rows[y].storage /\ rows[y].storage # <<>>
        <5>1. rows[y].trashed /\ LocalTypes(rows, disk, fresh, tokens) /\ RowsPlaced(rows, tokens)
          BY <1>1, <2>2
        <5> QED
          BY <5>1, RowPlace
      <4> QED
        BY <3>1, <4>1
    <3>3. rows[y].storage \in Seq(Names)
      BY <1>1, RowTyped
    <3>4. Local!AtOrBelow(from, rows[y].path)
      BY <1>4, <1>6, <2>3, <3>2, <3>3, HiddenBelow
    <3> QED
      BY <2>1, <3>4
  <2> QED
    BY <2>2, <2>3
<1>22. Apart(rows', disk')
  <2> SUFFICES ASSUME NEW p \in DOMAIN disk', NEW y \in DOMAIN rows, rows'[y].trashed
               PROVE  p[1] # rows'[y].storage[1]
    BY <1>14 DEF Apart
  <2>1. rows'[y] = rows[y] /\ rows[y].trashed /\ rows[y].storage[1] # o[1]
    BY <1>21
  <2>2. CASE p \in DOMAIN disk
    BY <1>1, <2>1, <2>2 DEF Apart
  <2>3. CASE p[1] = o[1]
    BY <2>1, <2>3
  <2> QED
    BY <1>19, <2>2, <2>3
<1>23. OneTree(rows')
  BY <1>1, <1>14, <1>21 DEF OneTree
<1>24. FilesInv(rows', disk', fresh', tokens')
  BY <1>10, <1>16, <1>17, <1>18, <1>20, <1>22, <1>23 DEF FilesInv
<1> QED
  BY <1>24 DEF LocalInv

\* A deletion takes a tree from the disk and its rows.
LEMMA FilesDelete ==
  ASSUME TrashApart, LocalInv, NEW id \in DOMAIN rows, Local!DeleteEntry(id)
  PROVE  LocalInv'
<1> DEFINE from == rows[id].path
<1>1. /\ LocalTypes(rows, disk, fresh, tokens) /\ RowsPlaced(rows, tokens) /\ InPlace(rows, disk)
      /\ OnePath(rows) /\ FoldersThere(disk) /\ Rowed(rows, disk, tokens) /\ Apart(rows, disk) /\ OneTree(rows)
      /\ FilesInv(rows, disk, fresh, tokens)
  BY DEF LocalInv, FilesInv
<1>2. /\ disk' = Local!Removed(Local!Removed(disk, from), rows[id].storage)
      /\ rows' = [x \in DOMAIN rows \ Local!Tree(id) |-> rows[x]]
      /\ UNCHANGED <<fresh, tokens>>
  <2>1. \A h \in Local!Holders(rows[id].storage) : h = id
    BY OneStorage DEF LocalInv, Local!Holders
  <2> QED
    BY <2>1 DEF Local!DeleteEntry
<1>3. /\ rows[id].storage \in Seq(Names) /\ rows[id].storage \in Seq(PathSteps) /\ rows[id].storage # <<>>
      /\ from \in Seq(PathSteps) /\ rows[id].trashed \in BOOLEAN
  BY <1>1, RowTyped, RowPlace, LocalPaths
<1>4. \A q \in DOMAIN disk : q \in Seq(PathSteps) /\ q # <<>>
  BY <1>1 DEF LocalTypes, DiskTypes
\* The storage id names the same place, or one where nothing is.
<1>5. \A q \in DOMAIN disk : Local!AtOrBelow(rows[id].storage, q) => Local!AtOrBelow(from, q)
  <2>1. CASE ~rows[id].trashed
    BY <1>1, <2>1 DEF RowsPlaced
  <2>2. CASE rows[id].trashed
    <3>1. \A q \in DOMAIN disk : q[1] # rows[id].storage[1]
      BY <1>1, <2>2 DEF Apart
    <3> QED
      BY <1>3, <1>4, <3>1, FirstStep
  <2> QED
    BY <1>3, <2>1, <2>2
<1>6. /\ DOMAIN disk' = {q \in DOMAIN disk : ~Local!AtOrBelow(from, q)}
      /\ disk' = [q \in DOMAIN disk' |-> disk[q]]
  <2> DEFINE d == Local!Removed(disk, from)
  <2>1. d = [q \in {x \in DOMAIN disk : ~Local!AtOrBelow(from, x)} |-> disk[q]]
    BY DEF Local!Removed
  <2> HIDE DEF d
  <2>2. DOMAIN d = {q \in DOMAIN disk : ~Local!AtOrBelow(from, q)} /\ \A q \in DOMAIN d : d[q] = disk[q]
    BY <2>1
  <2>3. {x \in DOMAIN d : ~Local!AtOrBelow(rows[id].storage, x)} = DOMAIN d
    BY <1>5, <2>2
  <2>4. disk' = [q \in {x \in DOMAIN d : ~Local!AtOrBelow(rows[id].storage, x)} |-> d[q]]
    BY <1>2 DEF Local!Removed, d
  <2> QED
    BY <2>2, <2>3, <2>4
<1>7. \A q \in DOMAIN disk' : q \in DOMAIN disk /\ ~Local!AtOrBelow(from, q) /\ disk'[q] = disk[q]
  BY <1>6
<1>8. \A q \in DOMAIN disk : ~Local!AtOrBelow(from, q) => q \in DOMAIN disk' /\ disk'[q] = disk[q]
  BY <1>6
<1>9. \A x \in DOMAIN rows' : x \in DOMAIN rows /\ ~Local!AtOrBelow(from, rows[x].path) /\ rows'[x] = rows[x]
  BY <1>2, TreeHere
<1>10. \A x \in DOMAIN rows : ~Local!AtOrBelow(from, rows[x].path) => x \in DOMAIN rows' /\ rows'[x] = rows[x]
  BY <1>2, TreeHere
<1>11. LocalTypes(rows', disk', fresh', tokens')
  <2>1. rows' \in [DOMAIN rows' -> LocalRow]
    <3>1. \A x \in DOMAIN rows' : rows'[x] \in LocalRow
      BY <1>1, <1>9, RowTyped
    <3>2. rows' = [x \in DOMAIN rows' |-> rows'[x]]
      BY <1>2
    <3> QED
      BY <3>1, <3>2
  <2>2. DiskTypes(disk')
    <3>1. DiskTypes(disk)
      BY <1>1 DEF LocalTypes
    <3>2. disk' \in [DOMAIN disk' -> Ids \cup {"dir", NoId}]
      BY <1>6, <1>7, <3>1 DEF DiskTypes
    <3> QED
      BY <1>4, <1>7, <3>2 DEF DiskTypes
  <2> QED
    BY <1>1, <1>2, <1>9, <2>1, <2>2 DEF LocalTypes
<1>12. RowsPlaced(rows', tokens')
  BY <1>1, <1>2, <1>9 DEF RowsPlaced
<1>13. InPlace(rows', disk') /\ OnePath(rows')
  BY <1>1, <1>8, <1>9 DEF InPlace, RowOnDisk, OnePath
<1>14. FoldersThere(disk')
  <2> SUFFICES ASSUME NEW q \in DOMAIN disk', NEW s \in Seq(PathSteps), s # <<>>, s # q, Local!AtOrBelow(s, q)
               PROVE  s \in DOMAIN disk' /\ disk'[s] = "dir"
    BY DEF FoldersThere
  <2>1. q \in DOMAIN disk /\ ~Local!AtOrBelow(from, q)
    BY <1>7
  <2>2. s \in DOMAIN disk /\ disk[s] = "dir"
    BY <1>1, <2>1 DEF FoldersThere
  <2>3. ~Local!AtOrBelow(from, s)
    BY <1>3, <1>4, <2>1, AtOrBelowOrder
  <2> QED
    BY <1>8, <2>2, <2>3
<1>15. Rowed(rows', disk', tokens')
  BY <1>1, <1>2, <1>7, <1>10 DEF Rowed
<1>16. Apart(rows', disk') /\ OneTree(rows')
  BY <1>1, <1>7, <1>9 DEF Apart, OneTree
<1>17. FilesInv(rows', disk', fresh', tokens')
  BY <1>11, <1>12, <1>13, <1>14, <1>15, <1>16 DEF FilesInv
<1> QED
  BY <1>17 DEF LocalInv

\* A new row at a place that no row has, with its file or folder on the disk.
PlaceFree(r, d, p) ==
  /\ p \in Seq(Names) /\ p # <<>> /\ \A x \in DOMAIN r : r[x].path # p
  /\ \A s \in Seq(PathSteps) : s # <<>> /\ s # p /\ Local!AtOrBelow(s, p) => s \in DOMAIN d /\ d[s] = "dir"
  /\ \A y \in DOMAIN r : r[y].trashed => p[1] # r[y].storage[1]
WithRow(r, id, p, folder) == [x \in DOMAIN r \cup {id} |-> IF x = id THEN Local!Row(p, p, folder) ELSE r[x]]
WithEntry(d, id, p, folder) ==
  [q \in DOMAIN d \cup {p} |-> IF q = p THEN (IF folder THEN "dir" ELSE id) ELSE d[q]]

LEMMA EntryAdded ==
  ASSUME TrashApart, NEW r, NEW d, NEW free, NEW k, FilesInv(r, d, free, k), NEW r2, NEW d2, NEW free2,
         NEW id \in free, NEW p, PlaceFree(r, d, p), NEW folder \in BOOLEAN,
         p \in DOMAIN d /\ d[p] = "dir" => folder,
         r2 = WithRow(r, id, p, folder), d2 = WithEntry(d, id, p, folder), free2 = free \ {id}
  PROVE  FilesInv(r2, d2, free2, k)
<1> DEFINE row == Local!Row(p, p, folder)
           v == IF folder THEN "dir" ELSE id
<1>1. /\ LocalTypes(r, d, free, k) /\ RowsPlaced(r, k) /\ InPlace(r, d) /\ OnePath(r) /\ FoldersThere(d)
      /\ Rowed(r, d, k) /\ Apart(r, d) /\ OneTree(r)
  BY DEF FilesInv
<1>0. /\ p \in Seq(Names) /\ p # <<>> /\ \A x \in DOMAIN r : r[x].path # p
      /\ \A s \in Seq(PathSteps) : s # <<>> /\ s # p /\ Local!AtOrBelow(s, p) => s \in DOMAIN d /\ d[s] = "dir"
      /\ \A y \in DOMAIN r : r[y].trashed => p[1] # r[y].storage[1]
  BY DEF PlaceFree
<1>a. /\ r2 = [x \in DOMAIN r \cup {id} |-> IF x = id THEN row ELSE r[x]]
      /\ d2 = [q \in DOMAIN d \cup {p} |-> IF q = p THEN v ELSE d[q]]
  BY DEF WithRow, WithEntry
<1>2. /\ row.path = p /\ row.storage = p /\ row.folder = folder /\ ~row.trashed /\ row \in LocalRow
  <2>1. p \in Seq(PathSteps) /\ <<>> \in Seq(Names)
    BY <1>0, LocalPaths
  <2> QED
    BY <1>0, <2>1 DEF Local!Row, LocalRow
<1>3. row = Local!Row(p, p, folder) /\ v = (IF folder THEN "dir" ELSE id)
  OBVIOUS
<1>4. id \notin DOMAIN r /\ id \in Ids
  BY <1>1 DEF LocalTypes
<1> HIDE DEF row, v
<1>5. /\ DOMAIN r2 = DOMAIN r \cup {id} /\ r2[id] = row /\ \A x \in DOMAIN r : r2[x] = r[x]
  BY <1>a, <1>4
<1>6. /\ DOMAIN d2 = DOMAIN d \cup {p} /\ d2[p] = v /\ \A q \in DOMAIN d : q # p => d2[q] = d[q]
  BY <1>a
<1>7. LocalTypes(r2, d2, free2, k)
  <2>1. r2 \in [DOMAIN r2 -> LocalRow]
    <3>1. \A x \in DOMAIN r2 : r2[x] \in LocalRow
      BY <1>1, <1>2, <1>5, RowTyped
    <3>2. r2 = [x \in DOMAIN r2 |-> r2[x]]
      BY <1>a
    <3> QED
      BY <3>1, <3>2
  <2>2. DiskTypes(d2)
    <3>1. DiskTypes(d)
      BY <1>1 DEF LocalTypes
    <3>2. \A q \in DOMAIN d2 : d2[q] \in Ids \cup {"dir", NoId}
      BY <1>3, <1>4, <1>6, <3>1 DEF DiskTypes
    <3>3. d2 = [q \in DOMAIN d2 |-> d2[q]]
      BY <1>a
    <3>4. p \in Seq(PathSteps) /\ p # <<>>
      BY <1>0, LocalPaths
    <3>5. d2 \in [DOMAIN d2 -> Ids \cup {"dir", NoId}]
      BY <3>2, <3>3
    <3>6. DOMAIN d2 \subseteq Seq(PathSteps) \ {<<>>}
      BY <1>6, <3>1, <3>4 DEF DiskTypes
    <3> QED
      BY <3>5, <3>6 DEF DiskTypes
  <2> QED
    BY <1>1, <1>4, <1>5, <2>1, <2>2 DEF LocalTypes
<1>8. RowsPlaced(r2, k)
  <2> SUFFICES ASSUME NEW x \in DOMAIN r2
               PROVE  /\ ~r2[x].trashed => r2[x].storage # <<>> /\ r2[x].path = r2[x].storage
                      /\ r2[x].trashed => /\ r2[x].original # <<>> /\ r2[x].storage = r2[x].original
                                          /\ \E n \in 1..k : r2[x].path = Hidden(n) \o r2[x].original
    BY DEF RowsPlaced
  <2>1. CASE x = id
    BY <1>0, <1>2, <1>5, <2>1
  <2>2. CASE x \in DOMAIN r
    <3>1. r2[x] = r[x]
      BY <1>5, <2>2
    <3> QED
      BY <1>1, <2>2, <3>1 DEF RowsPlaced
  <2> QED
    BY <1>5, <2>1, <2>2
<1>9. InPlace(r2, d2)
  <2> SUFFICES ASSUME NEW x \in DOMAIN r2 PROVE RowOnDisk(r2[x], x, d2)
    BY DEF InPlace
  <2>1. CASE x = id
    BY <1>0, <1>2, <1>3, <1>5, <1>6, <2>1 DEF RowOnDisk
  <2>2. CASE x \in DOMAIN r
    <3>1. r2[x] = r[x] /\ r[x].path # p /\ RowOnDisk(r[x], x, d)
      BY <1>0, <1>1, <1>5, <2>2 DEF InPlace
    <3> QED
      BY <1>0, <1>6, <3>1 DEF RowOnDisk
  <2> QED
    BY <1>0, <1>5, <2>1, <2>2
<1>10. OnePath(r2)
  BY <1>0, <1>1, <1>2, <1>5 DEF OnePath
<1>11. FoldersThere(d2)
  <2> SUFFICES ASSUME NEW q \in DOMAIN d2, NEW s \in Seq(PathSteps), s # <<>>, s # q, Local!AtOrBelow(s, q)
               PROVE  s \in DOMAIN d2 /\ d2[s] = "dir"
    BY DEF FoldersThere
  <2>1. s \in DOMAIN d /\ d[s] = "dir"
    BY <1>0, <1>1, <1>6 DEF FoldersThere
  <2>2. CASE s = p
    BY <1>0, <1>3, <1>6, <2>1, <2>2
  <2>3. CASE s # p
    BY <1>0, <1>6, <2>1, <2>3
  <2> QED
    BY <1>0, <2>2, <2>3
<1>12. Rowed(r2, d2, k)
  <2> SUFFICES ASSUME NEW q \in DOMAIN d2 PROVE (\E x \in DOMAIN r2 : r2[x].path = q) \/ Rowless(q, d2[q], k)
    BY DEF Rowed
  <2>1. CASE q = p
    BY <1>0, <1>2, <1>5, <2>1
  <2>2. CASE q # p
    <3>1. q \in DOMAIN d /\ d2[q] = d[q]
      BY <1>0, <1>6, <2>2
    <3> QED
      BY <1>0, <1>1, <1>5, <3>1 DEF Rowed
  <2> QED
    BY <1>0, <2>1, <2>2
<1>13. Apart(r2, d2)
  BY <1>0, <1>1, <1>2, <1>5, <1>6 DEF Apart
<1>14. OneTree(r2)
  BY <1>0, <1>1, <1>2, <1>5 DEF OneTree
<1> QED
  BY <1>7, <1>8, <1>9, <1>10, <1>11, <1>12, <1>13, <1>14 DEF FilesInv

LEMMA FolderAdded ==
  ASSUME NEW d, NEW p \in Seq(PathSteps), p # <<>>, p \in DOMAIN d => d[p] = "dir",
         \A s \in Seq(PathSteps) : s # <<>> /\ s # p /\ Local!AtOrBelow(s, p) => s \in DOMAIN d /\ d[s] = "dir"
  PROVE  Local!MakeFolders(d, p) = [q \in DOMAIN d \cup {p} |-> IF q = p THEN "dir" ELSE d[q]]
<1> DEFINE Starts == {SubSeq(p, 1, n) : n \in 1..Len(p)}
<1>1. Len(p) \in Nat /\ Len(p) # 0
  OBVIOUS
<1>2. ASSUME NEW n \in 1..Len(p) PROVE SubSeq(p, 1, n) \in DOMAIN d \cup {p}
  <2>1. n \in 0..Len(p) /\ n <= Len(p) /\ n > 0
    BY <1>1
  <2> DEFINE s == SubSeq(p, 1, n)
  <2>2. s \in Seq(PathSteps) /\ Len(s) = n /\ \A i \in 1..n : s[i] = p[i]
    BY <2>1, StartOf
  <2> HIDE DEF s
  <2>3. Local!AtOrBelow(s, p) /\ s # <<>>
    BY <2>1, <2>2, AtOrBelowIs
  <2>4. s \in DOMAIN d \cup {p}
    BY <2>2, <2>3
  <2> QED
    BY <2>4 DEF s
<1>3. p \in Starts
  <2>1. Len(p) \in 1..Len(p) /\ Len(p) \in 0..Len(p)
    BY <1>1
  <2>2. SubSeq(p, 1, Len(p)) = p
    BY <2>1, StartOf, SameSteps
  <2> QED
    BY <2>1, <2>2
<1>4. DOMAIN d \cup Starts = DOMAIN d \cup {p}
  BY <1>2, <1>3
<1>5. Local!MakeFolders(d, p) = [q \in DOMAIN d \cup Starts |-> IF q \in DOMAIN d THEN d[q] ELSE "dir"]
  BY DEF Local!MakeFolders
<1> HIDE DEF Starts
<1> QED
  BY <1>4, <1>5

LEMMA FilesCreate ==
  ASSUME TrashApart, LocalInv, NEW parent \in Local!Parents, NEW name \in Names, NEW id \in fresh,
         Local!CreateFile(parent, name, id) \/ Local!CreateFolder(parent, name, id)
  PROVE  LocalInv'
<1> DEFINE p == Append(parent.path, name)
<1>1. /\ LocalTypes(rows, disk, fresh, tokens) /\ FoldersThere(disk) /\ FilesInv(rows, disk, fresh, tokens)
  BY DEF LocalInv, FilesInv
<1>2. /\ parent.at = parent.path /\ parent.path \in Seq(Names) /\ parent.path \in Seq(PathSteps)
      /\ parent.path = <<>> \/ (parent.path \in DOMAIN disk /\ disk[parent.path] = "dir")
  BY ParentIs, LocalPaths
<1>3. /\ p \in Seq(Names) /\ p \in Seq(PathSteps) /\ p # <<>> /\ Local!Folder(p) = parent.path
  BY <1>1, <1>2, NewPlace
<1>4. /\ \A s \in Seq(PathSteps) : s # <<>> /\ s # p /\ Local!AtOrBelow(s, p) => s \in DOMAIN disk /\ disk[s] = "dir"
      /\ (\A y \in DOMAIN rows : rows[y].trashed => ~Local!AtOrBelow(p, rows[y].storage)) =>
           \A y \in DOMAIN rows : rows[y].trashed => p[1] # rows[y].storage[1]
  BY <1>1, <1>2, NewPlace
<1>5. /\ Local!AtPath(p) = {} /\ Local!Free(p) /\ UNCHANGED tokens /\ fresh' = fresh \ {id}
  BY <1>2 DEF Local!CreateFile, Local!CreateFolder
<1>6. PlaceFree(rows, disk, p)
  BY <1>3, <1>4, <1>5 DEF PlaceFree, Local!Free, Local!AtPath, TrashApart
<1>7. CASE Local!CreateFile(parent, name, id)
  <2>1. /\ ~(p \in DOMAIN disk /\ disk[p] = "dir")
        /\ disk' = Local!PutFile(Local!MakeFolders(disk, Local!Folder(p)), p, id)
        /\ rows' = WithRow(rows, id, p, FALSE)
    BY <1>2, <1>7 DEF Local!CreateFile, Local!IsDir, Local!AddRow, WithRow
  <2>2. Local!MakeFolders(disk, Local!Folder(p)) = disk
    <3> HIDE DEF p
    <3> QED
      BY <1>1, <1>2, <1>3, FoldersMade
  <2> HIDE DEF p
  <2>3. disk' = WithEntry(disk, id, p, FALSE)
    BY <2>1, <2>2 DEF Local!PutFile, WithEntry
  <2>4. FilesInv(rows', disk', fresh', tokens)
    BY <1>1, <1>5, <1>6, <2>1, <2>3, EntryAdded
  <2> QED
    BY <1>5, <2>4 DEF LocalInv
<1>8. CASE Local!CreateFolder(parent, name, id)
  <2>1. /\ p \in DOMAIN disk => disk[p] = "dir"
        /\ disk' = Local!MakeFolders(disk, p)
        /\ rows' = WithRow(rows, id, p, TRUE)
    BY <1>2, <1>3, <1>8 DEF Local!CreateFolder, Local!IsDir, Local!OnDisk, Local!AddRow, WithRow
  <2> HIDE DEF p
  <2>2. disk' = [q \in DOMAIN disk \cup {p} |-> IF q = p THEN "dir" ELSE disk[q]]
    BY <1>3, <1>4, <2>1, FolderAdded
  <2>3. disk' = WithEntry(disk, id, p, TRUE)
    BY <2>2 DEF WithEntry
  <2>4. FilesInv(rows', disk', fresh', tokens)
    BY <1>1, <1>5, <1>6, <2>1, <2>3, EntryAdded
  <2> QED
    BY <1>5, <2>4 DEF LocalInv
<1> QED
  BY <1>7, <1>8

\* An upload over a file changes nothing that is modelled but its content.
LEMMA FilesUpload ==
  ASSUME TrashApart, LocalInv, NEW parent \in Local!Parents, NEW name \in Names, Local!Upload(parent, name)
  PROVE  UNCHANGED <<rows, disk, fresh, tokens>>
<1> DEFINE p == Append(parent.path, name)
<1>1. /\ LocalTypes(rows, disk, fresh, tokens) /\ RowsPlaced(rows, tokens) /\ InPlace(rows, disk)
      /\ FoldersThere(disk) /\ FilesInv(rows, disk, fresh, tokens)
  BY DEF LocalInv, FilesInv
<1>2. /\ parent.at = parent.path /\ parent.path \in Seq(Names) /\ parent.path \in Seq(PathSteps)
      /\ parent.path = <<>> \/ (parent.path \in DOMAIN disk /\ disk[parent.path] = "dir")
  BY ParentIs, LocalPaths
<1>3. /\ p \in Seq(Names) /\ p[1] # Local!TrashPrefix /\ Local!Folder(p) = parent.path
  BY <1>1, <1>2, NewPlace
<1>4. PICK id \in Local!AtPath(p) :
        /\ ~rows[id].folder /\ disk' = Local!PutFile(Local!MakeFolders(disk, Local!Folder(p)), p, id)
        /\ rows' = [rows EXCEPT ![id].storage = p]
        /\ UNCHANGED <<fresh, tokens>>
  BY <1>2 DEF Local!Upload
<1> HIDE DEF p
<1>5. id \in DOMAIN rows /\ rows[id].path = p
  BY <1>4 DEF Local!AtPath
<1>6. rows[id].storage = p /\ p \in DOMAIN disk /\ disk[p] = id
  <2>1. ~rows[id].trashed
    BY <1>1, <1>3, <1>5, RowPlace
  <2> QED
    BY <1>1, <1>4, <1>5, <2>1 DEF RowsPlaced, InPlace, RowOnDisk
<1>7. rows' = rows
  <2>1. rows = [x \in DOMAIN rows |-> rows[x]] /\ rows[id] \in LocalRow
    BY <1>1, <1>5, RowTyped DEF LocalTypes
  <2>2. [rows[id] EXCEPT !.storage = p] = rows[id]
    BY <1>6, <2>1 DEF LocalRow
  <2>3. rows' = [rows EXCEPT ![id] = [rows[id] EXCEPT !.storage = p]]
    BY <1>4, <1>5
  <2> QED
    BY <2>1, <2>2, <2>3
<1>8. disk' = disk
  <2>1. Local!MakeFolders(disk, Local!Folder(p)) = disk
    BY <1>1, <1>2, <1>3, FoldersMade
  <2>2. disk = [q \in DOMAIN disk |-> disk[q]]
    BY <1>1 DEF LocalTypes, DiskTypes
  <2>3. disk' = [q \in DOMAIN disk \cup {p} |-> IF q = p THEN id ELSE disk[q]]
    BY <1>4, <2>1 DEF Local!PutFile
  <2> QED
    BY <1>6, <2>2, <2>3
<1> QED
  BY <1>4, <1>7, <1>8

\* The synchronisation finds a row where it says, or adopts a file.
LEMMA FilesSync ==
  ASSUME TrashApart, LocalInv, NEW p \in DOMAIN disk, Local!SyncEntry(p)
  PROVE  LocalInv'
<1>1. /\ LocalTypes(rows, disk, fresh, tokens) /\ RowsPlaced(rows, tokens) /\ FoldersThere(disk)
      /\ Rowed(rows, disk, tokens) /\ Apart(rows, disk) /\ FilesInv(rows, disk, fresh, tokens)
  BY DEF LocalInv, FilesInv
<1>2. p \in Seq(PathSteps) /\ p # <<>> /\ p[1] # Local!TrashPrefix /\ tokens' = tokens
  BY <1>1 DEF Local!SyncEntry, Local!InTrash, LocalTypes, DiskTypes
<1>3. CASE Local!AtPath(p) # {}
  <2>1. /\ rows' = [x \in DOMAIN rows |-> IF x \in Local!AtPath(p) THEN [rows[x] EXCEPT !.storage = p] ELSE rows[x]]
        /\ UNCHANGED <<disk, fresh>>
    BY <1>3 DEF Local!SyncEntry
  <2>2. ASSUME NEW x \in Local!AtPath(p) PROVE [rows[x] EXCEPT !.storage = p] = rows[x]
    <3>1. x \in DOMAIN rows /\ rows[x].path = p
      BY DEF Local!AtPath
    <3>2. rows[x].storage = p /\ rows[x] \in LocalRow
      <4>1. ~rows[x].trashed
        BY <1>1, <1>2, <3>1, RowPlace
      <4> QED
        BY <1>1, <3>1, <4>1, RowTyped DEF RowsPlaced
    <3> QED
      BY <3>2 DEF LocalRow
  <2>3. rows = [x \in DOMAIN rows |-> rows[x]]
    BY <1>1 DEF LocalTypes
  <2>4. rows' = rows
    BY <2>1, <2>2, <2>3
  <2> QED
    BY <1>2, <2>1, <2>4 DEF LocalInv
<1>4. CASE Local!AtPath(p) = {}
  <2>1. PICK id \in fresh :
          /\ rows' = [x \in DOMAIN rows \cup {id} |->
                        IF x = id THEN Local!Row(p, p, disk[p] = "dir")
                        ELSE IF rows[x].storage = p
                        THEN [rows[x] EXCEPT !.storage = Local!SyncedStorage(rows[x].path, p)]
                        ELSE rows[x]]
          /\ disk' = IF disk[p] = NoId THEN Local!PutFile(disk, p, id) ELSE disk
          /\ fresh' = fresh \ {id}
    BY <1>4 DEF Local!SyncEntry
  <2>2. \A x \in DOMAIN rows : rows[x].path # p
    BY <1>4 DEF Local!AtPath
  \* A file of the project folder: the folders without a row are the trash's.
  <2>3. Len(p) = 1 /\ p[1] \in Names /\ disk[p] = NoId
    <3>1. Rowless(p, disk[p], tokens)
      BY <1>1, <2>2 DEF Rowed
    <3> QED
      BY <1>2, <3>1 DEF Rowless, Hidden
  <2>4. p \in Seq(Names) /\ disk[p] # "dir"
    <3>1. p = <<p[1]>>
      BY <1>2, <2>3
    <3>2. <<p[1]>> \in Seq(Names)
      BY <2>3
    <3> QED
      BY <2>3, <3>1, <3>2 DEF TrashApart
  <2>5. \A x \in DOMAIN rows : rows[x].storage # p
    <3>1. \A x \in DOMAIN rows : rows[x].trashed \in BOOLEAN
      BY <1>1, RowTyped
    <3> QED
      BY <1>1, <2>2, <3>1 DEF RowsPlaced, Apart
  <2>6. rows' = WithRow(rows, id, p, FALSE)
    BY <2>1, <2>4, <2>5 DEF WithRow
  <2>7. disk' = WithEntry(disk, id, p, FALSE)
    BY <2>1, <2>3 DEF Local!PutFile, WithEntry
  <2>8. PlaceFree(rows, disk, p)
    BY <1>1, <1>2, <2>2, <2>4 DEF PlaceFree, FoldersThere, Apart
  <2>9. FilesInv(rows', disk', fresh', tokens)
    BY <1>1, <2>1, <2>4, <2>6, <2>7, <2>8, EntryAdded
  <2> QED
    BY <1>2, <2>9 DEF LocalInv
<1> QED
  BY <1>3, <1>4

\* Somebody writes a file into the project folder.
LEMMA FilesOrphan ==
  ASSUME TrashApart, LocalInv, NEW name \in Names, Local!WriteOrphan(name)
  PROVE  LocalInv'
<1> DEFINE p == <<name>>
<1>1. /\ LocalTypes(rows, disk, fresh, tokens) /\ RowsPlaced(rows, tokens) /\ InPlace(rows, disk)
      /\ OnePath(rows) /\ FoldersThere(disk) /\ Rowed(rows, disk, tokens) /\ Apart(rows, disk) /\ OneTree(rows)
      /\ FilesInv(rows, disk, fresh, tokens)
  BY DEF LocalInv, FilesInv
<1>2. /\ Local!AtPath(p) = {} /\ ~(p \in DOMAIN disk /\ disk[p] = "dir") /\ Local!Free(p)
      /\ disk' = Local!PutFile(disk, p, NoId) /\ UNCHANGED <<rows, fresh, tokens>>
  BY DEF Local!WriteOrphan, Local!IsDir
<1>3. /\ p \in Seq(Names) /\ p \in Seq(PathSteps) /\ p # <<>> /\ Len(p) = 1 /\ p[1] = name
  <2>1. p \in Seq(Names) /\ p # <<>> /\ Len(p) = 1 /\ p[1] = name
    OBVIOUS
  <2> QED
    BY <2>1, LocalPaths
<1> HIDE DEF p
<1>4. \A s \in Seq(PathSteps) : s # <<>> /\ Local!AtOrBelow(s, p) => s = p
  BY <1>3, ShortIs
<1>5. \A y \in DOMAIN rows : rows[y].trashed => p[1] # rows[y].storage[1]
  <2> SUFFICES ASSUME NEW y \in DOMAIN rows, rows[y].trashed, p[1] = rows[y].storage[1] PROVE FALSE
    OBVIOUS
  <2>1. rows[y].storage \in Seq(Names) /\ rows[y].storage # <<>>
    BY <1>1, RowTyped, RowPlace
  <2>2. Local!AtOrBelow(p, rows[y].storage)
    BY <1>3, <2>1, OneStep
  <2> QED
    BY <1>2, <2>2 DEF Local!Free, TrashApart
<1>6. /\ DOMAIN disk' = DOMAIN disk \cup {p} /\ disk'[p] = NoId /\ \A q \in DOMAIN disk : q # p => disk'[q] = disk[q]
      /\ disk' = [q \in DOMAIN disk' |-> disk'[q]]
  BY <1>2 DEF Local!PutFile
<1>7. LocalTypes(rows', disk', fresh', tokens')
  <2>1. DiskTypes(disk)
    BY <1>1 DEF LocalTypes
  <2>2. \A q \in DOMAIN disk' : disk'[q] \in Ids \cup {"dir", NoId} /\ q \in Seq(PathSteps) \ {<<>>}
    BY <1>3, <1>6, <2>1 DEF DiskTypes
  <2>3. DiskTypes(disk')
    BY <1>6, <2>2 DEF DiskTypes
  <2> QED
    BY <1>1, <1>2, <2>3 DEF LocalTypes
<1>8. InPlace(rows', disk')
  <2>1. \A x \in DOMAIN rows : rows[x].path # p
    BY <1>2 DEF Local!AtPath
  <2> QED
    BY <1>1, <1>2, <1>6, <2>1 DEF InPlace, RowOnDisk
<1>9. FoldersThere(disk')
  <2> SUFFICES ASSUME NEW q \in DOMAIN disk', NEW s \in Seq(PathSteps), s # <<>>, s # q, Local!AtOrBelow(s, q)
               PROVE  s \in DOMAIN disk' /\ disk'[s] = "dir"
    BY DEF FoldersThere
  <2>1. q # p
    BY <1>4
  <2>2. s \in DOMAIN disk /\ disk[s] = "dir"
    BY <1>1, <1>6, <2>1 DEF FoldersThere
  <2> QED
    BY <1>2, <1>6, <2>2
<1>10. Rowed(rows', disk', tokens')
  <2> SUFFICES ASSUME NEW q \in DOMAIN disk', ~\E x \in DOMAIN rows : rows[x].path = q
               PROVE  Rowless(q, disk'[q], tokens)
    BY <1>2 DEF Rowed
  <2>1. CASE q = p
    BY <1>3, <1>6, <2>1 DEF Rowless
  <2>2. CASE q # p
    <3>1. q \in DOMAIN disk /\ disk'[q] = disk[q]
      BY <1>6, <2>2
    <3> QED
      BY <1>1, <3>1 DEF Rowed
  <2> QED
    BY <2>1, <2>2
<1>11. Apart(rows', disk')
  BY <1>1, <1>2, <1>5, <1>6 DEF Apart
<1>12. RowsPlaced(rows', tokens') /\ OnePath(rows') /\ OneTree(rows')
  BY <1>1, <1>2
<1>13. FilesInv(rows', disk', fresh', tokens')
  BY <1>7, <1>8, <1>9, <1>10, <1>11, <1>12 DEF FilesInv
<1> QED
  BY <1>13 DEF LocalInv

\* A copy of a tree beside it: every entry of the tree has one of its own.
LEMMA FilesDuplicate ==
  ASSUME TrashApart, LocalInv, NEW id \in DOMAIN rows, NEW name \in Names,
         NEW copy \in [Local!Tree(id) -> fresh], Local!Duplicate(id, name, copy)
  PROVE  LocalInv'
<1> DEFINE p == rows[id].path
           next == Append(Local!Folder(p), name)
           Tr == Local!Tree(id)
           new == {copy[x] : x \in Tr}
           source(n) == CHOOSE x \in Tr : copy[x] = n
           path(n) == Local!Moved(rows[source(n)].path, p, next)
           plain == {n \in new : ~rows[source(n)].folder}
           P(t) == Local!Moved(rows[t].path, p, next)
<1>1. /\ LocalTypes(rows, disk, fresh, tokens) /\ RowsPlaced(rows, tokens) /\ InPlace(rows, disk)
      /\ OnePath(rows) /\ FoldersThere(disk) /\ Rowed(rows, disk, tokens) /\ Apart(rows, disk) /\ OneTree(rows)
      /\ FilesInv(rows, disk, fresh, tokens)
  BY DEF LocalInv, FilesInv
<1>2. /\ ~rows[id].trashed /\ Local!IsInjective(copy) /\ ~Local!OnDisk(next) /\ Local!Free(next)
      /\ disk' = [q \in DOMAIN disk \cup {path(n) : n \in new} |->
                    IF \E n \in new : path(n) = q
                    THEN LET n == CHOOSE n \in new : path(n) = q IN IF n \in plain THEN n ELSE "dir"
                    ELSE disk[q]]
      /\ rows' = [x \in DOMAIN rows \cup new |->
                    IF x \in new THEN Local!Row(path(x), path(x), x \notin plain) ELSE rows[x]]
      /\ fresh' = fresh \ new /\ UNCHANGED tokens
  BY DEF Local!Duplicate, Local!Live
<1>3. /\ p \in Seq(Names) /\ p \in Seq(PathSteps) /\ p # <<>> /\ p[1] # Local!TrashPrefix /\ p \in DOMAIN disk
      /\ id \in Ids /\ disk[p] = (IF rows[id].folder THEN "dir" ELSE id)
  BY <1>1, <1>2, RowTyped, RowPlace DEF InPlace, RowOnDisk
<1>4. /\ Local!Folder(p) \in Seq(Names) /\ Local!Folder(p) \in Seq(PathSteps)
      /\ Local!Folder(p) = <<>> \/ (Local!Folder(p) \in DOMAIN disk /\ disk[Local!Folder(p)] = "dir")
  <2>1. /\ Local!Folder(p) \in Seq(Names) /\ Local!Last(p) \in Names
        /\ Append(Local!Folder(p), Local!Last(p)) = p
    BY <1>3, FolderFacts
  <2>2. PICK f \in Seq(Names), a \in Names : f = Local!Folder(p) /\ Append(f, a) = p
    BY <2>1
  <2>3. Local!AtOrBelow(f, Append(f, a)) /\ Append(f, a) # f
    BY AppendFacts
  <2>4. f \in Seq(PathSteps)
    BY LocalPaths
  <2> QED
    BY <1>1, <1>3, <2>2, <2>3, <2>4 DEF FoldersThere
<1>5. next \in Seq(Names) /\ next \in Seq(PathSteps) /\ next # <<>> /\ next[1] \in Names
  BY <1>1, <1>4, NewPlace
<1>6. /\ \A s \in Seq(PathSteps) : s # <<>> /\ s # next /\ Local!AtOrBelow(s, next) => s \in DOMAIN disk /\ disk[s] = "dir"
      /\ (\A y \in DOMAIN rows : rows[y].trashed => ~Local!AtOrBelow(next, rows[y].storage)) =>
           \A y \in DOMAIN rows : rows[y].trashed => next[1] # rows[y].storage[1]
  BY <1>1, <1>4, NewPlace
<1>7. \A y \in DOMAIN rows : rows[y].trashed => next[1] # rows[y].storage[1]
  BY <1>2, <1>6 DEF Local!Free, TrashApart
<1> HIDE DEF p, next
\* The target is new, and so is everything below it.
<1>8. \A q \in DOMAIN disk : ~Local!AtOrBelow(next, q)
  <2>1. next \notin DOMAIN disk
    BY <1>2 DEF Local!OnDisk
  <2> QED
    BY <1>1, <1>5, <2>1 DEF FoldersThere
<1>9. /\ Tr \subseteq DOMAIN rows /\ id \in Tr
      /\ \A x \in DOMAIN rows : x \in Tr <=> Local!AtOrBelow(p, rows[x].path)
      /\ \A x \in Tr : ~rows[x].trashed
  <2>1. id \in Tr
    BY DEF Local!Tree
  <2> QED
    BY <1>2, <2>1, TreeHere DEF p
<1> HIDE DEF Tr
<1>10. ASSUME NEW t \in Tr
       PROVE  /\ rows[t].path \in Seq(PathSteps) /\ rows[t].path \in DOMAIN disk /\ Local!AtOrBelow(p, rows[t].path)
              /\ P(t) \in Seq(Names) /\ P(t) \in Seq(PathSteps) /\ P(t) # <<>> /\ P(t)[1] = next[1]
              /\ Local!AtOrBelow(next, P(t)) /\ Local!Moved(P(t), next, p) = rows[t].path /\ P(t) \notin DOMAIN disk
  <2>1. /\ rows[t].path \in Seq(Names) /\ Local!AtOrBelow(p, rows[t].path) /\ rows[t].path \in DOMAIN disk
    BY <1>1, <1>9, RowPlace DEF InPlace, RowOnDisk
  <2>2. P(t) \in Seq(Names) /\ Local!AtOrBelow(next, P(t)) /\ Local!Moved(P(t), next, p) = rows[t].path
    BY <1>3, <1>5, <2>1, MovedFacts
  <2>3. P(t) # <<>> /\ P(t)[1] = next[1]
    BY <1>5, <2>2, FirstStep
  <2> QED
    BY <1>8, <2>1, <2>2, <2>3, LocalPaths
<1>11. \A t, u \in Tr : P(t) = P(u) => t = u
  <2> SUFFICES ASSUME NEW t \in Tr, NEW u \in Tr, P(t) = P(u) PROVE t = u
    OBVIOUS
  <2>1. rows[t].path = rows[u].path
    BY <1>10
  <2> QED
    BY <1>1, <1>9, <2>1 DEF OnePath
<1>12. \A t \in Tr : copy[t] \in fresh /\ copy[t] \in new /\ source(copy[t]) = t
  <2> SUFFICES ASSUME NEW t \in Tr PROVE copy[t] \in fresh /\ copy[t] \in new /\ source(copy[t]) = t
    OBVIOUS
  <2>1. copy[t] \in fresh /\ DOMAIN copy = Tr
    BY DEF Tr
  <2>2. \A u \in Tr : copy[u] = copy[t] => u = t
    BY <1>2, <2>1 DEF Local!IsInjective
  <2>3. source(copy[t]) \in Tr /\ copy[source(copy[t])] = copy[t]
    OBVIOUS
  <2> QED
    BY <2>1, <2>2, <2>3
<1>13. \A t \in Tr : path(copy[t]) = P(t) /\ (copy[t] \in plain <=> ~rows[t].folder)
  BY <1>12
<1>14. \A n \in new : \E t \in Tr : n = copy[t]
  OBVIOUS
<1> HIDE DEF source, path, plain, new, P
<1>15. /\ DOMAIN rows' = DOMAIN rows \cup new
       /\ \A x \in DOMAIN rows : rows'[x] = rows[x]
       /\ \A t \in Tr : rows'[copy[t]] = Local!Row(P(t), P(t), copy[t] \notin plain)
       /\ rows' = [x \in DOMAIN rows' |-> rows'[x]]
  <2>1. \A x \in DOMAIN rows : x \notin new
    BY <1>1, <1>12, <1>14 DEF LocalTypes
  <2> QED
    BY <1>2, <1>12, <1>13, <2>1
<1>16. ASSUME NEW t \in Tr
       PROVE  /\ copy[t] \in DOMAIN rows' /\ rows'[copy[t]] \in LocalRow /\ ~rows'[copy[t]].trashed
              /\ rows'[copy[t]].path = P(t) /\ rows'[copy[t]].storage = P(t)
              /\ rows'[copy[t]].folder = rows[t].folder
  <2>1. rows'[copy[t]] = Local!Row(P(t), P(t), copy[t] \notin plain) /\ copy[t] \in DOMAIN rows'
    BY <1>12, <1>15
  <2>2. rows[t].folder \in BOOLEAN
    BY <1>1, <1>9, RowTyped
  <2>3. (copy[t] \notin plain) = rows[t].folder
    BY <1>13, <2>2
  <2>4. <<>> \in Seq(Names)
    OBVIOUS
  <2> QED
    BY <1>10, <2>1, <2>2, <2>3, <2>4 DEF Local!Row, LocalRow
<1>17. /\ DOMAIN disk' = DOMAIN disk \cup {P(t) : t \in Tr}
       /\ \A q \in DOMAIN disk : disk'[q] = disk[q]
       /\ \A t \in Tr : disk'[P(t)] = (IF rows[t].folder THEN "dir" ELSE copy[t])
       /\ disk' = [q \in DOMAIN disk' |-> disk'[q]]
  <2>1. {path(n) : n \in new} = {P(t) : t \in Tr}
    BY <1>12, <1>13, <1>14
  <2>2. \A q \in DOMAIN disk : ~\E n \in new : path(n) = q
    BY <1>10, <1>13, <1>14
  <2>3. ASSUME NEW t \in Tr PROVE disk'[P(t)] = (IF rows[t].folder THEN "dir" ELSE copy[t])
    <3> DEFINE m == CHOOSE n \in new : path(n) = P(t)
    <3>1. copy[t] \in new /\ path(copy[t]) = P(t)
      BY <1>12, <1>13
    <3>2. m \in new /\ path(m) = P(t)
      BY <3>1
    <3>3. m = copy[t]
      <4>1. PICK u \in Tr : m = copy[u]
        BY <1>14, <3>2
      <4>2. P(u) = P(t)
        BY <1>13, <3>2, <4>1
      <4> QED
        BY <1>11, <4>1, <4>2
    <3>4. disk'[P(t)] = (IF m \in plain THEN m ELSE "dir")
      BY <1>2, <2>1, <3>1
    <3> HIDE DEF m
    <3> QED
      BY <1>13, <3>3, <3>4
  <2>4. DOMAIN disk' = DOMAIN disk \cup {path(n) : n \in new} /\ disk' = [q \in DOMAIN disk' |-> disk'[q]]
    BY <1>2
  <2>5. \A q \in DOMAIN disk : disk'[q] = disk[q]
    BY <1>2, <2>2
  <2> QED
    BY <2>1, <2>3, <2>4, <2>5
\* A row now is one there was, or the copy of one of the tree.
<1>18. \A x \in DOMAIN rows' : x \in DOMAIN rows \/ \E t \in Tr : x = copy[t]
  BY <1>14, <1>15
<1>19. LocalTypes(rows', disk', fresh', tokens')
  <2>1. rows' \in [DOMAIN rows' -> LocalRow]
    <3>1. \A x \in DOMAIN rows' : rows'[x] \in LocalRow
      BY <1>1, <1>15, <1>16, <1>18, RowTyped
    <3> QED
      BY <1>15, <3>1
  <2>2. DiskTypes(disk')
    <3>1. DiskTypes(disk)
      BY <1>1 DEF LocalTypes
    <3>2. \A t \in Tr : copy[t] \in Ids
      BY <1>1, <1>12 DEF LocalTypes
    <3>3. \A q \in DOMAIN disk' : disk'[q] \in Ids \cup {"dir", NoId} /\ q \in Seq(PathSteps) \ {<<>>}
      BY <1>10, <1>17, <3>1, <3>2 DEF DiskTypes
    <3> QED
      BY <1>17, <3>3 DEF DiskTypes
  <2>3. fresh' \subseteq Ids /\ DOMAIN rows' \subseteq Ids \ fresh' /\ tokens' \in Nat
    BY <1>1, <1>2, <1>12, <1>14, <1>15 DEF LocalTypes
  <2> QED
    BY <2>1, <2>2, <2>3 DEF LocalTypes
<1>20. RowsPlaced(rows', tokens')
  <2> SUFFICES ASSUME NEW x \in DOMAIN rows'
               PROVE  /\ ~rows'[x].trashed => rows'[x].storage # <<>> /\ rows'[x].path = rows'[x].storage
                      /\ rows'[x].trashed => /\ rows'[x].original # <<>> /\ rows'[x].storage = rows'[x].original
                                             /\ \E n \in 1..tokens' : rows'[x].path = Hidden(n) \o rows'[x].original
    BY DEF RowsPlaced
  <2>1. CASE x \in DOMAIN rows
    <3>1. rows'[x] = rows[x] /\ tokens' = tokens
      BY <1>2, <1>15, <2>1
    <3> QED
      BY <1>1, <2>1, <3>1 DEF RowsPlaced
  <2>2. ASSUME NEW t \in Tr, x = copy[t] PROVE ~rows'[x].trashed /\ rows'[x].storage # <<>> /\ rows'[x].path = rows'[x].storage
    BY <1>10, <1>16, <2>2
  <2> QED
    BY <1>18, <2>1, <2>2
<1>21. InPlace(rows', disk')
  <2> SUFFICES ASSUME NEW x \in DOMAIN rows' PROVE RowOnDisk(rows'[x], x, disk')
    BY DEF InPlace
  <2>1. CASE x \in DOMAIN rows
    BY <1>1, <1>15, <1>17, <2>1 DEF InPlace, RowOnDisk
  <2>2. ASSUME NEW t \in Tr, x = copy[t] PROVE RowOnDisk(rows'[x], x, disk')
    BY <1>16, <1>17, <2>2 DEF RowOnDisk
  <2> QED
    BY <1>18, <2>1, <2>2
<1>22. OnePath(rows')
  <2> SUFFICES ASSUME NEW x \in DOMAIN rows', NEW y \in DOMAIN rows', rows'[x].path = rows'[y].path PROVE x = y
    BY DEF OnePath
  <2>1. \A z \in DOMAIN rows : rows'[z].path = rows[z].path /\ rows'[z].path \in DOMAIN disk
    BY <1>1, <1>15 DEF InPlace, RowOnDisk
  <2>2. \A t \in Tr : rows'[copy[t]].path = P(t) /\ P(t) \notin DOMAIN disk
    BY <1>10, <1>16
  <2> QED
    BY <1>1, <1>11, <1>18, <2>1, <2>2 DEF OnePath
<1>23. FoldersThere(disk')
  <2> SUFFICES ASSUME NEW q \in DOMAIN disk', NEW s \in Seq(PathSteps), s # <<>>, s # q, Local!AtOrBelow(s, q)
               PROVE  s \in DOMAIN disk' /\ disk'[s] = "dir"
    BY DEF FoldersThere
  <2>1. CASE q \in DOMAIN disk
    BY <1>1, <1>17, <2>1 DEF FoldersThere
  <2>2. ASSUME NEW t \in Tr, q = P(t) PROVE s \in DOMAIN disk' /\ disk'[s] = "dir"
    <3>1. /\ q \in Seq(PathSteps) /\ Local!AtOrBelow(next, q) /\ Local!Moved(q, next, p) = rows[t].path
          /\ rows[t].path \in Seq(PathSteps) /\ rows[t].path \in DOMAIN disk
      BY <1>10, <2>2
    <3>2. Local!AtOrBelow(s, next) \/ Local!AtOrBelow(next, s)
      BY <1>5, <3>1, AtOrBelowOrder
    <3>3. CASE Local!AtOrBelow(s, next) /\ s # next
      BY <1>6, <1>17, <3>3
    \* The copy of a folder between the entry and this one.
    <3>4. CASE Local!AtOrBelow(next, s)
      <4> DEFINE y == Local!Moved(s, next, p)
      <4>1. /\ y \in Seq(PathSteps) /\ Local!AtOrBelow(p, y) /\ Local!Moved(y, p, next) = s
            /\ Local!AtOrBelow(y, rows[t].path)
        BY <1>3, <1>5, <3>1, <3>4, MovedFacts
      <4> HIDE DEF y
      <4>2. y # rows[t].path
        BY <2>2, <4>1 DEF P
      <4>3. y # <<>> /\ y[1] = p[1]
        BY <1>3, <4>1, FirstStep
      <4>4. y \in DOMAIN disk /\ disk[y] = "dir"
        BY <1>1, <3>1, <4>1, <4>2, <4>3 DEF FoldersThere
      <4>5. PICK x \in DOMAIN rows : rows[x].path = y
        <5>1. ~Rowless(y, disk[y], tokens)
          BY <1>3, <4>3, <4>4 DEF Rowless, Hidden, TrashApart
        <5> QED
          BY <1>1, <4>4, <5>1 DEF Rowed
      <4>6. x \in Tr /\ P(x) = s
        BY <1>9, <4>1, <4>5 DEF P
      <4>7. rows[x].folder
        <5>1. x \in Ids
          BY <1>1, RowTyped
        <5>2. disk[y] = (IF rows[x].folder THEN "dir" ELSE x)
          BY <1>1, <4>5 DEF InPlace, RowOnDisk
        <5> QED
          BY <4>4, <5>1, <5>2 DEF TrashApart
      <4> QED
        BY <1>17, <4>6, <4>7
    <3> QED
      BY <3>2, <3>3, <3>4, <1>5, AtOrBelowOrder
  <2> QED
    BY <1>17, <2>1, <2>2
<1>24. Rowed(rows', disk', tokens')
  <2> SUFFICES ASSUME NEW q \in DOMAIN disk', ~\E x \in DOMAIN rows' : rows'[x].path = q
               PROVE  Rowless(q, disk'[q], tokens)
    BY <1>2 DEF Rowed
  <2>1. q \in DOMAIN disk /\ disk'[q] = disk[q]
    BY <1>16, <1>17
  <2>2. ~\E x \in DOMAIN rows : rows[x].path = q
    BY <1>15
  <2> QED
    BY <1>1, <2>1, <2>2 DEF Rowed
\* The trash is as it was, and the copies are where something already was, or
\* where nothing in the trash was.
<1>25. \A y \in DOMAIN rows' : rows'[y].trashed => y \in DOMAIN rows /\ rows'[y] = rows[y]
  BY <1>15, <1>16, <1>18
<1>26. Apart(rows', disk')
  <2> SUFFICES ASSUME NEW q \in DOMAIN disk', NEW y \in DOMAIN rows', rows'[y].trashed
               PROVE  q[1] # rows'[y].storage[1]
    BY DEF Apart
  <2>1. y \in DOMAIN rows /\ rows'[y] = rows[y] /\ rows[y].trashed
    BY <1>25
  <2>2. CASE q \in DOMAIN disk
    BY <1>1, <2>1, <2>2 DEF Apart
  <2>3. ASSUME NEW t \in Tr, q = P(t) PROVE q[1] # rows'[y].storage[1]
    BY <1>7, <1>10, <2>1, <2>3
  <2> QED
    BY <1>17, <2>2, <2>3
<1>27. OneTree(rows')
  BY <1>1, <1>25 DEF OneTree
<1>28. FilesInv(rows', disk', fresh', tokens')
  BY <1>19, <1>20, <1>21, <1>22, <1>23, <1>24, <1>26, <1>27 DEF FilesInv
<1> QED
  BY <1>28 DEF LocalInv

\* The project begins with one file.
LEMMA FilesInit ==
  ASSUME TrashApart, Local!Init
  PROVE  LocalInv
<1> DEFINE first == <<MainName>>
<1>1. /\ rows = [x \in {Main} |-> Local!Row(first, first, FALSE)] /\ disk = [q \in {first} |-> Main]
      /\ fresh = Ids \ {Main} /\ tokens = 0
  BY DEF Local!Init
<1>2. /\ first \in Seq(Names) /\ first # <<>> /\ Len(first) = 1 /\ first[1] = MainName
      /\ MainName \in Names /\ Main \in Ids /\ Main # "dir"
  BY DEF TrashApart
<1>3. first \in Seq(PathSteps) /\ <<>> \in Seq(Names)
  <2>1. <<MainName>> \in Seq(Names) /\ Seq(Names) \subseteq Seq(PathSteps)
    BY <1>2, LocalPaths
  <2>2. <<>> \in Seq(Names)
    OBVIOUS
  <2> QED
    BY <2>1, <2>2 DEF first
<1> HIDE DEF first
<1>4. /\ DOMAIN rows = {Main} /\ rows[Main] = Local!Row(first, first, FALSE)
      /\ DOMAIN disk = {first} /\ disk[first] = Main
  BY <1>1
<1>5. /\ rows[Main].path = first /\ rows[Main].storage = first /\ rows[Main].folder = FALSE
      /\ rows[Main].trashed = FALSE
  BY <1>4 DEF Local!Row
<1>6. Local!Row(first, first, FALSE) \in LocalRow
  BY <1>2, <1>3 DEF Local!Row, LocalRow
<1>7. DiskTypes(disk)
  BY <1>1, <1>2, <1>3 DEF DiskTypes
<1>8. LocalTypes(rows, disk, fresh, tokens)
  BY <1>1, <1>2, <1>6, <1>7 DEF LocalTypes
<1>9. RowsPlaced(rows, tokens) /\ InPlace(rows, disk) /\ OnePath(rows) /\ OneTree(rows) /\ Apart(rows, disk)
  BY <1>2, <1>4, <1>5 DEF RowsPlaced, InPlace, RowOnDisk, OnePath, OneTree, Apart
<1>10. FoldersThere(disk)
  <2> SUFFICES ASSUME NEW s \in Seq(PathSteps), s # <<>>, s # first, Local!AtOrBelow(s, first)
               PROVE  FALSE
    BY <1>4 DEF FoldersThere
  <2>1. Len(s) <= Len(first) /\ \A i \in 1..Len(s) : s[i] = first[i]
    BY <1>3, AtOrBelowIs
  <2>2. Len(s) = Len(first)
    BY <1>2, <2>1
  <2> QED
    BY <1>3, <2>1, <2>2, SameSteps
<1>11. Rowed(rows, disk, tokens)
  BY <1>4, <1>5 DEF Rowed
<1> QED
  BY <1>8, <1>9, <1>10, <1>11 DEF LocalInv, FilesInv

\* Every request keeps the rows and the disk in step.
LEMMA FilesStep ==
  ASSUME TrashApart, LocalInv, [Local!Next]_Local!localVars
  PROVE  LocalInv'
<1>1. CASE UNCHANGED <<rows, disk, fresh, tokens>>
  BY <1>1 DEF LocalInv
<1>2. CASE \E parent \in Local!Parents, name \in Names :
             \/ \E id \in fresh : Local!CreateFile(parent, name, id) \/ Local!CreateFolder(parent, name, id)
             \/ Local!Upload(parent, name)
             \/ \E id \in DOMAIN rows : Local!Move(id, parent, name)
  BY <1>1, <1>2, FilesCreate, FilesUpload, FilesMove
<1>3. CASE \E id \in DOMAIN rows :
             \/ Local!Trash(id) \/ Local!Restore(id) \/ Local!Delete(id) \/ Local!Purge(id)
             \/ \E name \in Names, copy \in [Local!Tree(id) -> fresh] : Local!Duplicate(id, name, copy)
  <2>1. PICK id \in DOMAIN rows :
             \/ Local!Trash(id) \/ Local!Restore(id) \/ Local!Delete(id) \/ Local!Purge(id)
             \/ \E name \in Names, copy \in [Local!Tree(id) -> fresh] : Local!Duplicate(id, name, copy)
    BY <1>3
  <2>2. Local!Delete(id) \/ Local!Purge(id) => Local!DeleteEntry(id)
    BY DEF Local!Delete, Local!Purge
  <2> QED
    BY <2>1, <2>2, FilesTrash, FilesRestore, FilesDelete, FilesDuplicate
<1>4. CASE \E name \in Names : Local!WriteOrphan(name)
  BY <1>4, FilesOrphan
<1>5. CASE \E p \in DOMAIN disk : Local!SyncEntry(p)
  BY <1>5, FilesSync
<1>6. CASE UNCHANGED Local!localVars
  BY <1>1, <1>6 DEF Local!localVars
<1> QED
  BY <1>2, <1>3, <1>4, <1>5, <1>6 DEF Local!Next

-----------------------------------------------------------------------------
\* No two rows have the same storage id, so that a request that looks a row up
\* by its storage id gets the one it means.
OneHolder == \A x, y \in DOMAIN rows : rows[x].storage = rows[y].storage => x = y

LEMMA RowsAreFound ==
  ASSUME TrashApart, LocalInv
  PROVE  OneHolder /\ FilesReadable /\ ContentKept
<1>1. InPlace(rows, disk) /\ FilesInv(rows, disk, fresh, tokens)
  BY DEF LocalInv, FilesInv
<1>2. OneHolder
  BY <1>1, OneStorage DEF OneHolder
<1>3. FilesReadable
  <2> SUFFICES ASSUME NEW x \in DOMAIN rows, NEW h \in DOMAIN rows, rows[h].storage = rows[x].storage
               PROVE  /\ Local!OnDisk(rows[h].path)
                      /\ disk[rows[h].path] = (IF rows[x].folder THEN "dir" ELSE x)
    BY DEF FilesReadable, Local!FilesReadable, Local!Holders
  <2>1. h = x
    BY <1>2 DEF OneHolder
  <2> QED
    BY <1>1, <2>1 DEF InPlace, RowOnDisk, Local!OnDisk
<1>4. ContentKept
  BY <1>1 DEF InPlace, RowOnDisk, ContentKept, Local!ContentKept, Local!FilesOf
<1> QED
  BY <1>2, <1>3, <1>4
================================================================================
