-------------------------------- MODULE Sharing --------------------------------
(***************************************************************************)
(* Who is in a project: its owner and its member rows, and the four ways   *)
(* in (an invitation, a share link, a request for access, a transfer of    *)
(* the ownership).  A request of the server reads, waits for the database  *)
(* or a job, and writes what it decided before: each action is the part of *)
(* a handler between two such waits.                                       *)
(*                                                                         *)
(* Roles below the owner's are one, "member": who may ask for what is not  *)
(* modelled, an owner who may ask for everything is always there.          *)
(***************************************************************************)
EXTENDS Naturals, FiniteSets

CONSTANTS
  Users,
  FirstOwner,    \* who made the project
  Handlers,      \* bound: requests under way at a time
  MaxUses,       \* max_uses of the link
  PlanLimit,     \* collaboratorsPerProject: members and pending invitations
  NoUser,
  Unsettled      \* may someone be added, or the ownership move twice, while it moves, and may it
                 \* go to someone who is not a member?

VARIABLES
  owner,      \* projects.owner_user_id
  member,     \* project_members: user -> "none", "member" or "owner"
  invite,     \* project_invitations: user -> "pending", or "none" (none, or closed)
  request,    \* project_access_requests: user -> "pending", or "none" (none, or decided)
  link,       \* project_share_links: its state and use_count
  handler,    \* the requests under way
  joins       \* members that requests with the link have added

sharingVars == <<owner, member, invite, request, link, handler, joins>>

Idle == [step |-> "idle", user |-> NoUser, by |-> NoUser]
TakeBy(h, s, u, o) == handler[h] = Idle /\ handler' = [handler EXCEPT ![h] = [step |-> s, user |-> u, by |-> o]]
Take(h, s, u) == TakeBy(h, s, u, NoUser)
Done(h) == handler' = [handler EXCEPT ![h] = Idle]
At(h, s) == handler[h].step = s
About(h) == handler[h].user

Init ==
  /\ owner = FirstOwner
  /\ member = [u \in Users |-> IF u = FirstOwner THEN "owner" ELSE "none"]
  /\ invite = [u \in Users |-> "none"]
  /\ request = [u \in Users |-> "none"]
  /\ link = [state |-> "none", uses |-> 0]
  /\ handler = [h \in Handlers |-> Idle]
  /\ joins = 0

-----------------------------------------------------------------------------
(* addProjectMember, and the upsert of an answer: whatever role was there.   *)
AddMember(u) == member' = [member EXCEPT ![u] = "member"]

(* assertCanInviteCollaborator.                                              *)
Counted == Cardinality({u \in Users : member[u] # "none"}) + Cardinality({u \in Users : invite[u] = "pending"})
CanInvite == Counted < PlanLimit

(* Nothing is under way that could still add this user.                      *)
Settled(u) ==
  /\ invite[u] # "pending" /\ request[u] # "pending"
  /\ \A h \in Handlers : About(h) = u => handler[h].step \in {"patch", "remove", "transfer"}

-----------------------------------------------------------------------------
(* Share links.                                                              *)
CreateLink ==
  /\ link.state = "none" /\ link' = [link EXCEPT !.state = "active"]
  /\ UNCHANGED <<owner, member, invite, request, handler, joins>>

RevokeLink ==
  /\ link.state = "active" /\ link' = [link EXCEPT !.state = "revoked"]
  /\ UNCHANGED <<owner, member, invite, request, handler, joins>>

(* The link is read, then the role of the user, then the plan is asked: a    *)
(* refusal of any of them ends the request.                                  *)
Join(h, u) ==
  /\ link.state = "active" /\ link.uses < MaxUses
  /\ member[u] = "none" /\ CanInvite
  /\ Take(h, "join", u)
  /\ UNCHANGED <<owner, member, invite, request, link, joins>>

JoinAdd(h) ==
  /\ At(h, "join")
  /\ AddMember(About(h)) /\ joins' = joins + 1
  /\ handler' = [handler EXCEPT ![h].step = "count"]
  /\ UNCHANGED <<owner, invite, request, link>>

(* incrementShareLinkUse adds in the database, to what is there by then.     *)
IncrementUse == [link EXCEPT !.uses = @ + 1]

JoinCount(h) ==
  /\ At(h, "count") /\ link' = IncrementUse /\ Done(h)
  /\ UNCHANGED <<owner, member, invite, request, joins>>

-----------------------------------------------------------------------------
\* Mutant: an invitation does not ask the plan.
InviteBeyondPlan(h, u) ==
  /\ member[u] = "none"
  /\ Take(h, "invite", u)
  /\ UNCHANGED <<owner, member, invite, request, link, joins>>

(* Invitations: one row per address, which a new invitation makes pending    *)
(* again.                                                                    *)
Invite(h, u) ==
  /\ member[u] = "none" /\ CanInvite
  /\ Take(h, "invite", u)
  /\ UNCHANGED <<owner, member, invite, request, link, joins>>

InviteWrite(h) ==
  /\ At(h, "invite")
  /\ invite' = [invite EXCEPT ![About(h)] = "pending"] /\ Done(h)
  /\ UNCHANGED <<owner, member, request, link, joins>>

(* An insert for an address that has got a row meanwhile is refused by the   *)
(* database.                                                                 *)
InviteFails(h) ==
  /\ At(h, "invite") /\ Done(h)
  /\ UNCHANGED <<owner, member, invite, request, link, joins>>

RevokeInvite(u) ==
  /\ invite[u] = "pending" /\ invite' = [invite EXCEPT ![u] = "none"]
  /\ UNCHANGED <<owner, member, request, link, handler, joins>>

(* An answer reads that the invitation is pending; the transaction that      *)
(* closes it and adds the member does not ask again.                         *)
Respond(h, u) ==
  /\ invite[u] = "pending"
  /\ Take(h, "respond", u)
  /\ UNCHANGED <<owner, member, invite, request, link, joins>>

RespondCommit(h, accept) ==
  /\ At(h, "respond")
  /\ invite' = [invite EXCEPT ![About(h)] = "none"]
  /\ IF accept THEN AddMember(About(h)) ELSE UNCHANGED member
  /\ Done(h)
  /\ UNCHANGED <<owner, request, link, joins>>

-----------------------------------------------------------------------------
(* Requests for access.                                                      *)
RequestAccess(u) ==
  /\ member[u] = "none" /\ request' = [request EXCEPT ![u] = "pending"]
  /\ UNCHANGED <<owner, member, invite, link, handler, joins>>

(* A decision is written before the plan is asked; with Unsettled also for a *)
(* request that was decided before (of which users is not remembered).       *)
Decide(h, u, approved) ==
  /\ request[u] = "pending" \/ Unsettled
  /\ request' = [request EXCEPT ![u] = "none"]
  /\ IF approved /\ CanInvite THEN Take(h, "approve", u) ELSE handler[h] = Idle /\ UNCHANGED handler
  /\ UNCHANGED <<owner, member, invite, link, joins>>

Approve(h) ==
  /\ At(h, "approve")
  /\ AddMember(About(h)) /\ Done(h)
  /\ UNCHANGED <<owner, invite, request, link, joins>>

-----------------------------------------------------------------------------
\* Mutant: the statement does not ask for the role again.
AnyRole(u) == TRUE

(* The owner changes the role of a member, or removes one, which waits for   *)
(* a job of the drive first.  The role was read before; the statement asks   *)
(* again that the row is not the owner's.                                    *)
NotOwner(u) == member[u] # "owner"

Change(h, u, what) ==
  /\ member[u] = "member" /\ Take(h, what, u)
  /\ UNCHANGED <<owner, member, invite, request, link, joins>>

UpdateRole(h) ==
  /\ At(h, "patch") /\ Done(h)
  /\ IF NotOwner(About(h)) /\ member[About(h)] # "none" THEN AddMember(About(h)) ELSE UNCHANGED member
  /\ UNCHANGED <<owner, invite, request, link, joins>>

RemoveMember(h) ==
  /\ At(h, "remove") /\ Done(h)
  /\ member' = IF NotOwner(About(h)) THEN [member EXCEPT ![About(h)] = "none"] ELSE member
  /\ UNCHANGED <<owner, invite, request, link, joins>>

(* The job of the drive fails, and the member stays.                         *)
RemoveFails(h) ==
  /\ At(h, "remove") /\ Done(h)
  /\ UNCHANGED <<owner, member, invite, request, link, joins>>

-----------------------------------------------------------------------------
(* transferProjectOwnership: one transaction of three statements.  The page  *)
(* offers it for members only; the route takes any user.                     *)
Transfer(h, u) ==
  /\ Unsettled \/ (member[u] = "member" /\ \A g \in Handlers : ~At(g, "transfer"))
  /\ TakeBy(h, "transfer", u, owner)
  /\ UNCHANGED <<owner, member, invite, request, link, joins>>

TransferCommit(h) ==
  LET to == About(h)
      from == handler[h].by
      promoted == [member EXCEPT ![to] = "owner"]
  IN  /\ At(h, "transfer") /\ (Unsettled \/ Settled(to))
      /\ owner' = IF owner = from THEN to ELSE owner
      /\ member' = IF promoted[from] = "owner" THEN [promoted EXCEPT ![from] = "member"] ELSE promoted
      /\ Done(h)
      /\ UNCHANGED <<invite, request, link, joins>>

Next ==
  \/ CreateLink \/ RevokeLink
  \/ \E u \in Users : RevokeInvite(u) \/ RequestAccess(u)
  \/ \E h \in Handlers :
       \/ \E u \in Users :
            \/ Join(h, u) \/ Invite(h, u) \/ Respond(h, u) \/ Transfer(h, u)
            \/ \E approved \in BOOLEAN : Decide(h, u, approved)
            \/ \E what \in {"patch", "remove"} : Change(h, u, what)
       \/ TransferCommit(h)
       \/ JoinAdd(h) \/ JoinCount(h) \/ InviteWrite(h) \/ InviteFails(h) \/ Approve(h)
       \/ \E accept \in BOOLEAN : RespondCommit(h, accept)
       \/ UpdateRole(h) \/ RemoveMember(h) \/ RemoveFails(h)

Spec == Init /\ [][Next]_sharingVars

-----------------------------------------------------------------------------
(* The project has one owner row, and it is the owner of the project: a role *)
(* change or a removal that was decided before the ownership moved does not  *)
(* take it away.                                                             *)
OneOwner == {u \in Users : member[u] = "owner"} = {owner}

(* Requests that overlap can exceed the limits of the plan and of the link,  *)
(* each by one; the excess does not add up over time, whatever is revoked,   *)
(* answered or removed in between.  Of the link it is the members that it    *)
(* has added which count, not what its use_count says.                       *)
WithinPlan ==
  /\ Counted <= PlanLimit + Cardinality(Handlers) - 1
  /\ joins <= MaxUses + Cardinality(Handlers) - 1
=============================================================================
