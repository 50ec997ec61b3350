----------------------------- MODULE Membership -----------------------------
(***************************************************************************)
(* The members of one workspace and the invitations to it                  *)
(* (builder/workspace_views.py), and the platform staff who edit the same  *)
(* rows (builder/platform_admin_views.py).                                 *)
(*                                                                         *)
(* Accepting and declining run in a transaction that holds the lock of the *)
(* invitation.  The endpoints of the managers and of the staff open none:  *)
(* a request looks at a role, then reads a row, and later writes, and      *)
(* other requests fall in between.                                         *)
(***************************************************************************)
EXTENDS Integers, FiniteSets

CONSTANTS Users,     \* people, each with one e-mail address
          Owner,     \* Workspace.owner; the workspace is their personal one
          Superusers, \* users with is_superuser
          Invites,   \* WorkspaceInvitation rows
          Threads,   \* web processes
          None,      \* no row
          MaxRows,   \* bound: membership rows ever created
          MaxEdits   \* bound: requests of platform staff

ASSUME MembershipAssumption ==
  /\ Owner \in Users
  /\ Superusers \subseteq Users
  /\ None \notin Nat \cup Invites \cup Users
  /\ IsFiniteSet(Users) /\ IsFiniteSet(Invites) /\ IsFiniteSet(Threads)
  /\ MaxRows \in Nat \ {0} /\ MaxEdits \in Nat

\* "admin" stands for the roles that manage members, "editor" for the others.
Roles  == {"owner", "admin", "editor"}

(* Mutant: an invitation and a change of role may make an owner. *)
Below_All == Roles

\* What an invitation and a change of role can grant.
Below == Roles \ {"owner"}

Standing == {"active", "suspended"}

VARIABLES
  registered,  \* users with an account
  member,      \* WorkspaceMembership of each user: its key, role and status
  rows,        \* how many memberships were created; the key of the latest
  invite,      \* WorkspaceInvitation rows
  req,         \* what each web process is doing for a manager or the staff
  edits,       \* bounded counter
  admitted,    \* history: users who have been members
  uses         \* history: memberships created by accepting each invitation

vars == <<registered, member, rows, invite, req, edits, admitted, uses>>

NoMember == [id |-> 0, role |-> "editor", status |-> "none"]
NoInvite == [email |-> None, role |-> "editor", status |-> "none", overdue |-> FALSE]

\* A request: the step it is at, who asked, for whom, which role and status,
\* the key of the membership and the invitation it has read.
Idle == [at |-> "idle", by |-> None, on |-> None, role |-> "editor", status |-> "keep",
         row |-> 0, inv |-> None]

Init ==
  /\ registered = {Owner}
  /\ member = [u \in Users |->
                 IF u = Owner THEN [id |-> 1, role |-> "owner", status |-> "active"] ELSE NoMember]
  /\ rows = 1
  /\ invite = [i \in Invites |-> NoInvite]
  /\ req = [t \in Threads |-> Idle]
  /\ edits = 0
  /\ admitted = {Owner}
  /\ uses = [i \in Invites |-> 0]

-----------------------------------------------------------------------------
IsMember(u) == member[u].status # "none"

\* get_queryset and _require_member_management: the owner of the workspace,
\* or an active membership whose role manages members, or of a superuser.
MayManage(u) ==
  \/ u = Owner
  \/ /\ member[u].status = "active"
     /\ member[u].role \in {"owner", "admin"} \/ u \in Superusers

\* get_or_create of the membership of u, when there is none.
Create(u, r, s) ==
  /\ rows < MaxRows
  /\ rows' = rows + 1
  /\ member' = [member EXCEPT ![u] = [id |-> rows + 1, role |-> r, status |-> s]]
  /\ admitted' = admitted \cup {u}

Pending(i) == invite[i].status = "pending"
Live(e)    == {i \in Invites : Pending(i) /\ invite[i].email = e /\ ~invite[i].overdue}

Done(t) == req' = [req EXCEPT ![t] = Idle]
Goes(t, step) == req' = [req EXCEPT ![t].at = step]

-----------------------------------------------------------------------------
(* The managers' endpoints.  Each begins with the check of the role; who    *)
(* asks is compared later by those that change a role or remove a member.   *)

Ask(t, u, op) ==
  /\ req[t] = Idle
  /\ u \in registered /\ MayManage(u)
  /\ req' = [req EXCEPT ![t] = [Idle EXCEPT !.at = op,
                                           !.by = IF op \in {"role", "remove"} THEN u ELSE None]]
  /\ UNCHANGED <<registered, member, rows, invite, edits, admitted, uses>>

\* invite: is there a user with the address?
LookForUser(t, e, r) ==
  /\ req[t].at = "invite"
  /\ req' = [req EXCEPT ![t] = [Idle EXCEPT !.at = IF e \in registered THEN "add" ELSE "look",
                                            !.on = e, !.role = r]]
  /\ UNCHANGED <<registered, member, rows, invite, edits, admitted, uses>>

\* ... a user becomes a member at once; one who is already is refused.
AddMember(t) ==
  LET u == req[t].on IN
  /\ req[t].at = "add"
  /\ IF IsMember(u)
     THEN Done(t) /\ UNCHANGED <<member, rows, admitted>>
     ELSE /\ Create(u, req[t].role, "active")
          /\ req' = [req EXCEPT ![t] = [Idle EXCEPT !.at = "settle", !.on = u]]
  /\ UNCHANGED <<registered, invite, edits, uses>>

\* ... and what was sent to the address before counts as accepted.
SettleInvites(t) ==
  /\ req[t].at = "settle"
  /\ invite' = [i \in Invites |->
                  IF Pending(i) /\ invite[i].email = req[t].on
                  THEN [invite[i] EXCEPT !.status = "accepted"] ELSE invite[i]]
  /\ Done(t)
  /\ UNCHANGED <<registered, member, rows, edits, admitted, uses>>

(* Mutant: an invitation is looked for among those with the same role. *)
LookForInvite_SameRole(t) ==
  LET live == {i \in Live(req[t].on) : invite[i].role = req[t].role} IN
  /\ req[t].at = "look"
  /\ \/ live = {} /\ Goes(t, "create")
     \/ \E i \in live : req' = [req EXCEPT ![t].at = "renew", ![t].inv = i]
  /\ UNCHANGED <<registered, member, rows, invite, edits, admitted, uses>>

\* ... nobody has the address: is there an invitation that can be used?  The
\* newest is taken; the model lets it be any.
LookForInvite(t) ==
  LET live == Live(req[t].on) IN
  /\ req[t].at = "look"
  /\ \/ live = {} /\ Goes(t, "create")
     \/ \E i \in live : req' = [req EXCEPT ![t].at = "renew", ![t].inv = i]
  /\ UNCHANGED <<registered, member, rows, invite, edits, admitted, uses>>

\* ... save(role, expires_at) of the invitation read, whatever it is by now.
Renew(t) ==
  LET i == req[t].inv IN
  /\ req[t].at = "renew"
  /\ invite' = [invite EXCEPT ![i].role = req[t].role, ![i].overdue = FALSE]
  /\ Done(t)
  /\ UNCHANGED <<registered, member, rows, edits, admitted, uses>>

CreateInvite(t) ==
  /\ req[t].at = "create"
  /\ \E i \in Invites :
       /\ invite[i].status = "none"
       /\ invite' = [invite EXCEPT ![i] =
            [email |-> req[t].on, role |-> req[t].role, status |-> "pending", overdue |-> FALSE]]
  /\ Done(t)
  /\ UNCHANGED <<registered, member, rows, edits, admitted, uses>>

\* change_role and remove_member read the membership and look at it: it is
\* not one's own, and not an owner's.
MayTouch(t, u) == IsMember(u) /\ u # req[t].by /\ member[u].role # "owner"

ReadToChange(t, u, r) ==
  /\ req[t].at = "role" /\ MayTouch(t, u)
  /\ req' = [req EXCEPT ![t] =
                [Idle EXCEPT !.at = "save", !.on = u, !.row = member[u].id, !.role = r]]
  /\ UNCHANGED <<registered, member, rows, invite, edits, admitted, uses>>

ReadToRemove(t, u) ==
  /\ req[t].at = "remove" /\ MayTouch(t, u)
  /\ req' = [req EXCEPT ![t] = [Idle EXCEPT !.at = "delete", !.on = u, !.row = member[u].id]]
  /\ UNCHANGED <<registered, member, rows, invite, edits, admitted, uses>>

\* A check failed, or there is no such row: 400 or 404.
Refuse(t) ==
  /\ req[t].at \in {"role", "remove", "cancel"}
  /\ Done(t)
  /\ UNCHANGED <<registered, member, rows, invite, edits, admitted, uses>>

(* Mutant: the role is saved to the user's row, made anew when it is gone. *)
SaveRole_Upsert(t) ==
  LET u == req[t].on IN
  /\ req[t].at = "save"
  /\ member' = [member EXCEPT ![u] = [id |-> req[t].row, role |-> req[t].role, status |-> "active"]]
  /\ Done(t)
  /\ UNCHANGED <<registered, rows, invite, edits, admitted, uses>>

\* save(update_fields) changes the row with that key or raises.
SaveRole(t) ==
  LET u == req[t].on IN
  /\ req[t].at = "save"
  /\ member' = IF member[u].id = req[t].row
               THEN [member EXCEPT ![u].role = req[t].role] ELSE member
  /\ Done(t)
  /\ UNCHANGED <<registered, rows, invite, edits, admitted, uses>>

DeleteMember(t) ==
  LET u == req[t].on IN
  /\ req[t].at = "delete"
  /\ member' = IF member[u].id = req[t].row THEN [member EXCEPT ![u] = NoMember] ELSE member
  /\ Done(t)
  /\ UNCHANGED <<registered, rows, invite, edits, admitted, uses>>

\* cancel_invitation reads a pending invitation ...
ReadPending(t, i) ==
  /\ req[t].at = "cancel"
  /\ Pending(i)
  /\ req' = [req EXCEPT ![t] = [Idle EXCEPT !.at = "expire", !.inv = i]]
  /\ UNCHANGED <<registered, member, rows, invite, edits, admitted, uses>>

\* ... and writes its status.
CancelInvite(t) ==
  /\ req[t].at = "expire"
  /\ invite' = [invite EXCEPT ![req[t].inv].status = "expired"]
  /\ Done(t)
  /\ UNCHANGED <<registered, member, rows, edits, admitted, uses>>

-----------------------------------------------------------------------------
(* The invited, under the lock of the invitation.                           *)

(* Mutant: only a user who was a member already uses the invitation up. *)
Accept_KeepsPending(u, i) ==
  /\ u \in registered /\ Pending(i) /\ ~invite[i].overdue /\ invite[i].email = u
  /\ IF IsMember(u)
     THEN /\ invite' = [invite EXCEPT ![i].status = "accepted"]
          /\ UNCHANGED <<member, rows, admitted, uses>>
     ELSE /\ Create(u, invite[i].role, "active")
          /\ uses' = [uses EXCEPT ![i] = @ + 1]
          /\ UNCHANGED invite
  /\ UNCHANGED <<registered, req, edits>>

(* Mutant: a membership that exists takes the invitation's role and is active. *)
Accept_Upsert(u, i) ==
  /\ u \in registered /\ Pending(i) /\ ~invite[i].overdue /\ invite[i].email = u
  /\ invite' = [invite EXCEPT ![i].status = "accepted"]
  /\ IF IsMember(u)
     THEN /\ member' = [member EXCEPT ![u].role = invite[i].role, ![u].status = "active"]
          /\ UNCHANGED <<rows, admitted, uses>>
     ELSE Create(u, invite[i].role, "active") /\ uses' = [uses EXCEPT ![i] = @ + 1]
  /\ UNCHANGED <<registered, req, edits>>

\* A membership that exists, suspended or not, is left as it is.
Accept(u, i) ==
  /\ u \in registered /\ Pending(i) /\ ~invite[i].overdue /\ invite[i].email = u
  /\ invite' = [invite EXCEPT ![i].status = "accepted"]
  /\ IF IsMember(u)
     THEN UNCHANGED <<member, rows, admitted, uses>>
     ELSE Create(u, invite[i].role, "active") /\ uses' = [uses EXCEPT ![i] = @ + 1]
  /\ UNCHANGED <<registered, req, edits>>

\* Whoever has the token may decline.
Decline(i) ==
  /\ Pending(i) /\ ~invite[i].overdue
  /\ invite' = [invite EXCEPT ![i].status = "declined"]
  /\ UNCHANGED <<registered, member, rows, req, edits, admitted, uses>>

\* Accepting or declining too late marks the invitation.
MarkExpired(i) ==
  /\ Pending(i) /\ invite[i].overdue
  /\ invite' = [invite EXCEPT ![i].status = "expired"]
  /\ UNCHANGED <<registered, member, rows, req, edits, admitted, uses>>

\* Seven days pass.
PassWeek(i) ==
  /\ Pending(i) /\ ~invite[i].overdue
  /\ invite' = [invite EXCEPT ![i].overdue = TRUE]
  /\ UNCHANGED <<registered, member, rows, req, edits, admitted, uses>>

\* AuthRegisterView takes no notice of invitations.
Register(u) ==
  /\ u \notin registered
  /\ registered' = registered \cup {u}
  /\ UNCHANGED <<member, rows, invite, req, edits, admitted, uses>>

-----------------------------------------------------------------------------
\* get_or_create_personal_workspace, when the owner makes a site.
EnsureOwner ==
  /\ ~IsMember(Owner)
  /\ Create(Owner, "owner", "active")
  /\ UNCHANGED <<registered, invite, req, edits, uses>>

\* resolve_workspace_for_site_creation, when the request names the workspace.
\* For anyone but a superuser the check of the permission fails, since it
\* looks for the members of a site that has no key yet.
JoinOnSite(u) ==
  /\ u \in registered \cap Superusers
  /\ ~IsMember(u)
  /\ Create(u, IF u = Owner THEN "owner" ELSE "editor", "active")
  /\ UNCHANGED <<registered, invite, req, edits, uses>>

-----------------------------------------------------------------------------
(* Platform staff: any role and status for anybody; owners are not deleted. *)
Edit == edits < MaxEdits /\ edits' = edits + 1

\* POST: get_or_create makes the row.
StaffCreate(u, r, s) ==
  /\ Edit
  /\ u \in registered
  /\ ~IsMember(u) /\ Create(u, r, s)
  /\ UNCHANGED <<registered, invite, req, uses>>

\* POST finds the row, or PATCH reads it.  A PATCH saves what it is given, a
\* POST that is given no status the one it has read.
StaffRead(t, u, r, s) ==
  /\ Edit
  /\ req[t] = Idle /\ IsMember(u)
  /\ r # "keep" \/ s # "keep"
  /\ req' = [req EXCEPT ![t] = [Idle EXCEPT !.at = "staff", !.on = u, !.row = member[u].id,
                                           !.role = r, !.status = s]]
  /\ UNCHANGED <<registered, member, rows, invite, admitted, uses>>

\* save(update_fields) changes the row with that key or raises.
StaffSave(t) ==
  LET q == req[t]
      given(old, new) == IF new = "keep" THEN old ELSE new
  IN
  /\ q.at = "staff"
  /\ member' = IF member[q.on].id = q.row
               THEN [member EXCEPT ![q.on].role = given(@, q.role),
                                   ![q.on].status = given(@, q.status)]
               ELSE member
  /\ Done(t)
  /\ UNCHANGED <<registered, rows, invite, edits, admitted, uses>>

\* DELETE reads the row and looks at its role; DeleteMember follows.
StaffReadToDelete(t, u) ==
  /\ Edit
  /\ req[t] = Idle /\ IsMember(u) /\ member[u].role # "owner"
  /\ req' = [req EXCEPT ![t] = [Idle EXCEPT !.at = "delete", !.on = u, !.row = member[u].id]]
  /\ UNCHANGED <<registered, member, rows, invite, admitted, uses>>

Staff ==
  \E u \in Users :
    \/ \E r \in Roles, s \in Standing : StaffCreate(u, r, s)
    \/ \E t \in Threads :
         \/ \E r \in Roles \cup {"keep"}, s \in Standing \cup {"keep"} : StaffRead(t, u, r, s)
         \/ StaffReadToDelete(t, u)

-----------------------------------------------------------------------------
Manage(t) ==
  \/ \E u \in Users, op \in {"invite", "role", "remove", "cancel"} : Ask(t, u, op)
  \/ \E e \in Users, r \in Below : LookForUser(t, e, r) \/ ReadToChange(t, e, r)
  \/ \E u \in Users : ReadToRemove(t, u)
  \/ AddMember(t) \/ SettleInvites(t)
  \/ LookForInvite(t) \/ Renew(t) \/ CreateInvite(t)
  \/ Refuse(t) \/ SaveRole(t) \/ DeleteMember(t) \/ StaffSave(t)
  \/ \E i \in Invites : ReadPending(t, i)
  \/ CancelInvite(t)

Invited ==
  \E i \in Invites : \/ \E u \in Users : Accept(u, i)
                     \/ Decline(i) \/ MarkExpired(i) \/ PassWeek(i)

Next ==
  \/ \E t \in Threads : Manage(t)
  \/ Invited
  \/ \E u \in Users : Register(u)
  \/ EnsureOwner
  \/ \E u \in Users : JoinOnSite(u)
  \/ Staff

Spec == Init /\ [][Next]_vars

-----------------------------------------------------------------------------
Member  == [id : 0..MaxRows, role : Roles, status : {"none", "active", "suspended"}]
Invite  == [email : Users \cup {None}, role : {"admin", "editor"}, overdue : BOOLEAN,
            status : {"none", "pending", "accepted", "declined", "expired"}]
Request == [at : {"idle", "invite", "add", "settle", "look", "renew", "create",
                  "role", "save", "remove", "delete", "cancel", "expire", "staff"},
            by : Users \cup {None}, on : Users \cup {None}, role : Roles \cup {"keep"},
            status : Standing \cup {"keep"}, row : 0..MaxRows, inv : Invites \cup {None}]

MemberTypeOK ==
  /\ registered \subseteq Users
  /\ member \in [Users -> Member]
  /\ rows \in 1..MaxRows
  /\ invite \in [Invites -> Invite]
  /\ req \in [Threads -> Request]
  /\ edits \in 0..MaxEdits
  /\ admitted \subseteq Users
  /\ uses \in [Invites -> Nat]

\* Requests that are about to give address e a usable invitation.
Creating(e) == {t \in Threads : req[t].at = "create" /\ req[t].on = e}
Renewed(e)  == {req[t].inv : t \in {x \in Threads : req[x].at = "renew" /\ req[x].on = e}}

\* The look for a usable invitation and the insert of a new one are two
\* statements: requests that race can leave an address with several usable
\* tokens, but never with more than there are web processes, however often
\* it is invited and invitations expire, are cancelled or renewed.
TokensBounded ==
  \A e \in Users :
    Cardinality(Live(e) \cup Renewed(e)) + Cardinality(Creating(e)) <= Cardinality(Threads)

\* A token makes at most one membership, although the member may be removed
\* and the token sent again, cancelled or renewed meanwhile; and an invitation
\* is shown as accepted only if the one it was sent to has been a member, also
\* when a request that added them settles it.
UsedOnceByInvited ==
  \A i \in Invites :
    /\ uses[i] <= 1
    /\ invite[i].status = "accepted" => invite[i].email \in admitted

\* A membership that was removed does not come back through a request that had
\* read it: whoever is a member again, by an invitation, as a known user, by
\* the staff or with a site of their own, has a row with a key of its own.
RemovedStaysRemoved ==
  [][\A u \in Users : ~IsMember(u) /\ member'[u].status # "none" =>
       member'[u].id = rows' /\ rows' = rows + 1]_<<member, rows>>

\* Only platform staff lift a suspension, by a request for that very row that
\* was given the status active or had read it: neither a new invitation nor a
\* change of role makes a suspended membership active.
SuspensionHolds ==
  [][\A u \in Users :
       member[u].status = "suspended" /\ member'[u].id = member[u].id =>
         \/ member'[u].status = "suspended"
         \/ \E t \in Threads : /\ req[t].at = "staff" /\ req'[t] = Idle
                               /\ req[t].row = member[u].id
                               /\ req[t].status = "active"]_<<member, req>>
=============================================================================
