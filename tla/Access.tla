------------------------------- MODULE Access -------------------------------
(***************************************************************************)
(* The members of a campaign: invitations, their acceptance, and the       *)
(* revocation of memberships (team, accept_invitation).  The permission of *)
(* who invites or revokes is read before the campaign's row is locked, and *)
(* not again; two managers may revoke each other.  An acceptance locks the *)
(* invitation only.  Roles are those that may manage members and the rest; *)
(* expiry and the password of a new account are reasons for a refusal.     *)
(***************************************************************************)
EXTENDS Desk, Sequences

CONSTANTS
  Users, Founders, \* the founders are members from the start
  Invitations

VARIABLES
  standing,   \* Membership.status, "absent" before the insert
  role,       \* Membership.role
  invitation, \* the row of Invitation, None before the insert
  waiting,    \* what each request was let through to do, before the lock
  entering,   \* the invitation that each acceptance holds
  entries     \* history: the invitations each user has entered with

accessRows == <<standing, role, invitation, entries>>
accessVars == <<accessRows, waiting, entering, job>>

Roles == {"manager", "member"}
InvitationRows == [user : Users, role : Roles, accepted : BOOLEAN]

AccessJobs == [action : {"invite"}, by : Users, object : Invitations, user : Users, role : Roles]
                \cup [action : {"revoke"}, by : Users, user : Users]

ASSUME AccessAssumption ==
  /\ Founders \subseteq Users
  /\ None \notin AccessJobs \cup InvitationRows \cup Invitations

AccessInit ==
  /\ standing = [u \in Users |-> IF u \in Founders THEN "active" ELSE "absent"]
  /\ role = [u \in Users |-> IF u \in Founders THEN "manager" ELSE "member"]
  /\ invitation = [i \in Invitations |-> None]
  /\ entries = [u \in Users |-> <<>>]
  /\ waiting = [q \in Requests |-> None]
  /\ entering = [q \in Requests |-> None]
  /\ DeskInit

-----------------------------------------------------------------------------
(* The page is opened with the permission to manage members. *)
OpenTeam(q, j) ==
  /\ waiting[q] = None /\ job[q] = None
  /\ standing[j.by] = "active" /\ role[j.by] = "manager"
  /\ waiting' = [waiting EXCEPT ![q] = j]
  /\ UNCHANGED <<accessRows, entering, job>>

TeamAllowed(j) ==
  \/ j.action = "invite" /\ invitation[j.object] = None
  \/ j.action = "revoke" /\ j.user # j.by /\ standing[j.user] # "absent"

LockTeam(q) ==
  /\ waiting[q] # None /\ TeamAllowed(waiting[q])
  /\ Begin(q, waiting[q])
  /\ waiting' = [waiting EXCEPT ![q] = None]
  /\ UNCHANGED <<accessRows, entering>>

RefuseTeam(q) ==
  /\ waiting[q] # None
  /\ waiting' = [waiting EXCEPT ![q] = None]
  /\ UNCHANGED <<accessRows, entering, job>>

Invite(q) ==
  /\ Doing(q, {"invite"})
  /\ invitation' = [invitation EXCEPT ![job[q].object] =
       [user |-> job[q].user, role |-> job[q].role, accepted |-> FALSE]]
  /\ End(q) /\ UNCHANGED <<standing, role, entries, waiting, entering>>

(* Writes the status only, of a row that was not locked when it was read. *)
Revoke(q) ==
  /\ Doing(q, {"revoke"})
  /\ standing' = [standing EXCEPT ![job[q].user] = "revoked"]
  /\ End(q) /\ UNCHANGED <<role, invitation, entries, waiting, entering>>

UsableUnlocked(i) == invitation[i] # None /\ ~invitation[i].accepted

(* Nobody else holds the invitation, and it was not accepted. *)
Usable(i) ==
  /\ invitation[i] # None /\ ~invitation[i].accepted
  /\ \A q \in Requests : entering[q] # i

ReadInvitation(q, i) ==
  /\ entering[q] = None /\ Usable(i)
  /\ entering' = [entering EXCEPT ![q] = i]
  /\ UNCHANGED <<accessRows, waiting, job>>

(* Whatever membership the user had, it becomes active, with the new role. *)
AcceptInvitation(q) ==
  LET i == entering[q]
      u == invitation[i].user
  IN  /\ i # None
      /\ standing' = [standing EXCEPT ![u] = "active"]
      /\ role' = [role EXCEPT ![u] = invitation[i].role]
      /\ invitation' = [invitation EXCEPT ![i].accepted = TRUE]
      /\ entries' = [entries EXCEPT ![u] = Append(@, i)]
      /\ entering' = [entering EXCEPT ![q] = None]
      /\ UNCHANGED <<waiting, job>>

AcceptFails(q) ==
  /\ entering[q] # None
  /\ entering' = [entering EXCEPT ![q] = None]
  /\ UNCHANGED <<accessRows, waiting, job>>

TeamRollback(q) == End(q) /\ UNCHANGED <<accessRows, waiting, entering>>

AccessNext ==
  \E q \in Requests :
    \/ \E j \in AccessJobs : OpenTeam(q, j)
    \/ LockTeam(q) \/ RefuseTeam(q) \/ Invite(q) \/ Revoke(q) \/ TeamRollback(q)
    \/ \E i \in Invitations : ReadInvitation(q, i)
    \/ AcceptInvitation(q) \/ AcceptFails(q)

AccessSpec == AccessInit /\ [][AccessNext]_accessVars

-----------------------------------------------------------------------------
AccessTypeOK ==
  /\ standing \in [Users -> {"absent", "active", "revoked"}]
  /\ role \in [Users -> Roles]
  /\ invitation \in [Invitations -> InvitationRows \cup {None}]
  /\ waiting \in [Requests -> AccessJobs \cup {None}]
  /\ entering \in [Requests -> Invitations \cup {None}]
  /\ job \in [Requests -> AccessJobs \cup {None}]

(* Every entry into the campaign used up an invitation of its own, issued   *)
(* to that user: nobody who was revoked comes back with an invitation he    *)
(* has used, also when it is accepted twice at the same time; and the role  *)
(* is the one of the last entry.                                            *)
InvitationOnce ==
  \A u \in Users :
    LET used == entries[u]
    IN  /\ \A m, n \in DOMAIN used : used[m] = used[n] => m = n
        /\ \A n \in DOMAIN used : invitation[used[n]].user = u /\ invitation[used[n]].accepted
        /\ used # <<>> => role[u] = invitation[used[Len(used)]].role
        /\ standing[u] = "absent" => used = <<>>
=============================================================================
