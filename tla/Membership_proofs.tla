------------------------- MODULE Membership_proofs --------------------------
(***************************************************************************)
(* The members of a workspace and their invitations, for any users,        *)
(* invitations and web processes.  What bounds the usable tokens of an     *)
(* address, and what keeps a removed or suspended member so, is not in the *)
(* rows alone: it is what each request has in hand between two statements. *)
(***************************************************************************)
EXTENDS Membership, FiniteSetTheorems, TLAPS

(* What a request has read stays true of the rows it is about to write: an *)
(* invitation to be renewed is one to that address, and who is settled has *)
(* been made a member.                                                     *)
InHand ==
  \A t \in Threads :
    /\ req[t].at \in {"add", "settle", "look", "renew", "create"} => req[t].on \in Users
    /\ req[t].at \in {"invite", "add", "look", "renew", "create", "role", "save"} =>
         req[t].role \in Below
    /\ req[t].at = "staff" => req[t].on \in Users /\ req[t].row > 0
    /\ req[t].at = "settle" => req[t].on \in admitted
    /\ req[t].at = "renew" =>
         /\ req[t].inv \in Invites
         /\ invite[req[t].inv].email = req[t].on
         /\ invite[req[t].inv].status # "none"

(* A membership, and nothing else, has the key of an insert made so far.   *)
Keyed ==
  \A u \in Users : /\ IsMember(u) => u \in admitted /\ member[u].id \in 1..rows
                   /\ ~IsMember(u) => member[u].id = 0

(* An invitation that made a membership is not pending, and never was again. *)
Spent == \A i \in Invites : uses[i] > 0 => invite[i].status \notin {"none", "pending"}

Rows == MemberTypeOK /\ InHand /\ Keyed /\ Spent /\ UsedOnceByInvited

MemberInv == Rows /\ TokensBounded

(* The tokens of one address, and the requests that renew one of them.     *)
Tokens(e) == Live(e) \cup Renewed(e)
Renewing(e) == {t \in Threads : req[t].at = "renew" /\ req[t].on = e}

LEMMA RenewedFinite ==
  ASSUME NEW e
  PROVE  /\ IsFiniteSet(Renewing(e)) /\ IsFiniteSet(Renewed(e))
         /\ Cardinality(Renewed(e)) <= Cardinality(Renewing(e))
         /\ Cardinality(Renewed(e)) \in Nat /\ Cardinality(Renewing(e)) \in Nat
<1> DEFINE f == [x \in Renewing(e) |-> req[x].inv]
<1>1. IsFiniteSet(Renewing(e))
  BY MembershipAssumption, FS_Subset DEF MembershipAssumption, Renewing
<1>2. f \in Surjection(Renewing(e), Renewed(e))
  BY DEF Surjection, Renewed, Renewing
<1> HIDE DEF f
<1> QED BY <1>1, <1>2, FS_Surjection, FS_CardinalityType

LEMMA TokensFinite ==
  ASSUME NEW e
  PROVE  /\ IsFiniteSet(Tokens(e)) /\ IsFiniteSet(Creating(e))
         /\ Cardinality(Tokens(e)) \in Nat /\ Cardinality(Creating(e)) \in Nat
<1>1. IsFiniteSet(Live(e)) /\ IsFiniteSet(Creating(e)) /\ IsFiniteSet(Renewed(e))
  BY RenewedFinite, MembershipAssumption, FS_Subset DEF MembershipAssumption, Live, Creating
<1> QED BY <1>1, FS_Union, FS_CardinalityType DEF Tokens

(* What an address has and is about to get only ever shrinks, ...          *)
LEMMA BoundKept ==
  ASSUME NEW e \in Users, TokensBounded,
         Live(e)' \cup Renewed(e)' \subseteq Tokens(e), Creating(e)' \subseteq Creating(e)
  PROVE  Cardinality(Live(e)' \cup Renewed(e)') + Cardinality(Creating(e)')
           <= Cardinality(Threads)
<1>1. Cardinality(Tokens(e)) + Cardinality(Creating(e)) <= Cardinality(Threads)
  BY DEF TokensBounded, Tokens
<1>2. /\ IsFiniteSet(Live(e)' \cup Renewed(e)') /\ IsFiniteSet(Creating(e)')
      /\ Cardinality(Live(e)' \cup Renewed(e)') <= Cardinality(Tokens(e))
      /\ Cardinality(Creating(e)') <= Cardinality(Creating(e))
  BY TokensFinite, FS_Subset
<1>3. Cardinality(Live(e)' \cup Renewed(e)') \in Nat /\ Cardinality(Creating(e)') \in Nat
  BY <1>2, FS_CardinalityType
<1>4. Cardinality(Threads) \in Nat
  BY MembershipAssumption, FS_CardinalityType DEF MembershipAssumption
<1> QED BY <1>1, <1>2, <1>3, <1>4, TokensFinite

(* ... but for a request that found none to renew, when each request makes *)
(* or renews at most one ...                                               *)
LEMMA BoundLook ==
  ASSUME NEW e \in Users, NEW t \in Threads, req[t].at = "look",
         Live(e)' = {}, Renewed(e)' = Renewed(e), Creating(e)' = Creating(e) \cup {t}
  PROVE  Cardinality(Live(e)' \cup Renewed(e)') + Cardinality(Creating(e)')
           <= Cardinality(Threads)
<1> DEFINE C == Creating(e) \cup {t}
<1>1. /\ C \subseteq Threads /\ Renewing(e) \subseteq Threads /\ C \cap Renewing(e) = {}
  BY DEF Creating, Renewing
<1>2. IsFiniteSet(Threads) /\ IsFiniteSet(C) /\ IsFiniteSet(C \cup Renewing(e))
  BY <1>1, MembershipAssumption, FS_Subset DEF MembershipAssumption
<1>3. Cardinality(C \cup Renewing(e)) <= Cardinality(Threads)
  BY <1>1, <1>2, FS_Subset
<1>4. Cardinality(C \cup Renewing(e)) = Cardinality(C) + Cardinality(Renewing(e))
  <2> HIDE DEF C
  <2>1. Cardinality(C \cap Renewing(e)) = 0
    BY <1>1, FS_EmptySet
  <2>2. Cardinality(C) \in Nat /\ Cardinality(Renewing(e)) \in Nat
    BY <1>2, RenewedFinite, FS_CardinalityType
  <2>3. Cardinality(C \cup Renewing(e))
          = Cardinality(C) + Cardinality(Renewing(e)) - Cardinality(C \cap Renewing(e))
    BY <1>2, RenewedFinite, FS_Union
  <2> QED BY <2>1, <2>2, <2>3
<1>5. Cardinality(Live(e)' \cup Renewed(e)') = Cardinality(Renewed(e))
  OBVIOUS
<1>6. Cardinality(C) \in Nat /\ Cardinality(Threads) \in Nat
  BY <1>2, FS_CardinalityType
<1> HIDE DEF C
<1>7. Cardinality(Creating(e)') = Cardinality(C)
  BY DEF C
<1> QED BY <1>3, <1>4, <1>5, <1>6, <1>7, RenewedFinite

(* ... and the insert, which makes one token of one request.               *)
LEMMA BoundInsert ==
  ASSUME NEW e \in Users, TokensBounded, NEW t \in Creating(e), NEW i,
         Live(e)' \cup Renewed(e)' \subseteq Tokens(e) \cup {i},
         Creating(e)' = Creating(e) \ {t}
  PROVE  Cardinality(Live(e)' \cup Renewed(e)') + Cardinality(Creating(e)')
           <= Cardinality(Threads)
<1>1. Cardinality(Tokens(e)) + Cardinality(Creating(e)) <= Cardinality(Threads)
  BY DEF TokensBounded, Tokens
<1>2. IsFiniteSet(Tokens(e) \cup {i}) /\ Cardinality(Tokens(e) \cup {i}) <= Cardinality(Tokens(e)) + 1
  <2>1. /\ IsFiniteSet(Tokens(e) \cup {i})
        /\ Cardinality(Tokens(e) \cup {i})
             = IF i \in Tokens(e) THEN Cardinality(Tokens(e)) ELSE Cardinality(Tokens(e)) + 1
    BY TokensFinite, FS_AddElement
  <2> QED BY <2>1, TokensFinite
<1>3. /\ IsFiniteSet(Live(e)' \cup Renewed(e)')
      /\ Cardinality(Live(e)' \cup Renewed(e)') <= Cardinality(Tokens(e) \cup {i})
  BY <1>2, FS_Subset
<1>4. Cardinality(Creating(e)') = Cardinality(Creating(e)) - 1
  BY TokensFinite, FS_RemoveElement
<1>5. /\ Cardinality(Live(e)' \cup Renewed(e)') \in Nat
      /\ Cardinality(Tokens(e) \cup {i}) \in Nat /\ Cardinality(Threads) \in Nat
  BY <1>2, <1>3, MembershipAssumption, FS_CardinalityType DEF MembershipAssumption
<1> QED BY <1>1, <1>2, <1>3, <1>4, <1>5, TokensFinite

LEMMA InitInv == Init => MemberInv
<1> SUFFICES ASSUME Init PROVE MemberInv
  OBVIOUS
<1>1. Rows
  BY MembershipAssumption DEF MembershipAssumption, Init, Rows, MemberTypeOK, InHand, Keyed, Spent,
     UsedOnceByInvited, Member, Invite, Request, Idle, NoMember, NoInvite, Roles, IsMember
<1>2. TokensBounded
  <2> SUFFICES ASSUME NEW e \in Users
               PROVE  Cardinality(Live(e) \cup Renewed(e)) + Cardinality(Creating(e))
                        <= Cardinality(Threads)
    BY DEF TokensBounded
  <2>1. Live(e) \cup Renewed(e) = {} /\ Creating(e) = {}
    BY DEF Init, Live, Pending, NoInvite, Renewed, Creating, Idle
  <2>2. Cardinality(Threads) \in Nat
    BY MembershipAssumption, FS_CardinalityType DEF MembershipAssumption
  <2> QED BY <2>1, <2>2, FS_EmptySet
<1> QED BY <1>1, <1>2 DEF MemberInv

-----------------------------------------------------------------------------
(* No step but these three adds to what an address has or is about to get. *)
LEMMA Shrinks ==
  ASSUME TokensBounded,
         \A i \in Invites : Pending(i)' /\ ~invite'[i].overdue =>
           Pending(i) /\ ~invite[i].overdue /\ invite'[i].email = invite[i].email,
         \A t \in Threads : req'[t].at \in {"renew", "create"} => req'[t] = req[t]
  PROVE  TokensBounded'
<1> SUFFICES ASSUME NEW e \in Users
             PROVE  Cardinality(Live(e)' \cup Renewed(e)') + Cardinality(Creating(e)')
                      <= Cardinality(Threads)
  BY DEF TokensBounded
<1>1. Live(e)' \subseteq Live(e)
  BY DEF Live
<1>2. Renewed(e)' \subseteq Renewed(e) /\ Creating(e)' \subseteq Creating(e)
  BY DEF Renewed, Creating
<1> QED BY <1>1, <1>2, BoundKept DEF Tokens

(* The steps of a request that only read.                                  *)
LEMMA ReadStep ==
  ASSUME Rows, NEW t \in Threads,
         UNCHANGED <<registered, member, rows, invite, admitted, uses>>, edits' \in 0..MaxEdits,
         NEW q \in Request, req' = [req EXCEPT ![t] = q],
         q.at \in {"add", "look", "renew", "create"} => q.on \in Users,
         q.at \in {"invite", "add", "look", "renew", "create", "role", "save"} => q.role \in Below,
         q.at = "staff" => q.on \in Users /\ q.row > 0,
         q.at # "settle",
         q.at = "renew" =>
           /\ q.inv \in Invites
           /\ invite[q.inv].email = q.on /\ invite[q.inv].status # "none"
  PROVE  Rows'
<1>1. MemberTypeOK' /\ Keyed' /\ Spent' /\ UsedOnceByInvited'
  BY DEF Rows, MemberTypeOK, Keyed, IsMember, Spent, UsedOnceByInvited
<1>2. InHand'
  BY DEF Rows, InHand, MemberTypeOK
<1> QED BY <1>1, <1>2 DEF Rows

LEMMA IdleType == Idle \in Request /\ Idle.at = "idle"
BY MembershipAssumption DEF MembershipAssumption, Idle, Request, Roles, Standing

\* The staff's requests that read a row.
StaffReads(t, u) ==
  \/ \E r \in Roles \cup {"keep"}, s \in Standing \cup {"keep"} : StaffRead(t, u, r, s)
  \/ StaffReadToDelete(t, u)

LEMMA ReadingStep ==
  ASSUME MemberInv, NEW t \in Threads,
         \/ \E u \in Users, op \in {"invite", "role", "remove", "cancel"} : Ask(t, u, op)
         \/ \E u \in Users, r \in Below : LookForUser(t, u, r) \/ ReadToChange(t, u, r)
         \/ \E u \in Users : ReadToRemove(t, u)
         \/ Refuse(t)
         \/ \E i \in Invites : ReadPending(t, i)
         \/ \E u \in Users : StaffReads(t, u)
  PROVE  MemberInv' /\ UNCHANGED <<member, rows>>
<1> USE DEF MemberInv
<1>0. /\ Idle \in Request /\ Idle.at = "idle" /\ req \in [Threads -> Request] /\ member \in [Users -> Member]
      /\ Below = {"admin", "editor"} /\ Roles = {"owner", "admin", "editor"}
      /\ Standing = {"active", "suspended"}
      /\ edits \in 0..MaxEdits /\ MaxEdits \in Nat /\ Idle.role = "editor"
      /\ \A u \in Users : IsMember(u) => member[u].id > 0
  BY MembershipAssumption, IdleType
     DEF MembershipAssumption, Rows, MemberTypeOK, Below, Roles, Standing, Idle, Keyed, Member
<1>1. ASSUME NEW q \in Request, req' = [req EXCEPT ![t] = q],
             q.at \in {"idle", "invite", "role", "remove", "cancel", "add", "look", "save", "delete",
                      "expire", "staff"},
             q.at \in {"add", "look", "staff"} => q.on \in Users,
             q.at \in {"invite", "add", "look", "role", "save"} => q.role \in Below,
             q.at = "staff" => q.row > 0,
             UNCHANGED <<registered, member, rows, invite, admitted, uses>>, edits' \in 0..MaxEdits
      PROVE  MemberInv' /\ UNCHANGED <<member, rows>>
  <2>1. Rows'
    BY <1>1, ReadStep
  <2>2. TokensBounded'
    BY <1>0, <1>1, Shrinks DEF Pending
  <2> QED BY <1>1, <2>1, <2>2
<1> HIDE DEF MemberInv
<1>2. ASSUME NEW u \in Users, NEW op \in {"invite", "role", "remove", "cancel"}, Ask(t, u, op)
      PROVE  MemberInv' /\ UNCHANGED <<member, rows>>
  <2> DEFINE q == [Idle EXCEPT !.at = op, !.by = IF op \in {"role", "remove"} THEN u ELSE None]
  <2>1. q \in Request /\ q.at = op /\ q.role = "editor"
    BY <1>0 DEF Idle, Request
  <2>2. req' = [req EXCEPT ![t] = q]
    BY <1>2 DEF Ask
  <2>3. UNCHANGED <<registered, member, rows, invite, edits, admitted, uses>>
    BY <1>2 DEF Ask
  <2> HIDE DEF q
  <2> QED BY <1>0, <1>1, <2>1, <2>2, <2>3
<1>3. ASSUME NEW u \in Users, NEW r \in Below, LookForUser(t, u, r)
      PROVE  MemberInv' /\ UNCHANGED <<member, rows>>
  <2> DEFINE q == [Idle EXCEPT !.at = IF u \in registered THEN "add" ELSE "look",
                               !.on = u, !.role = r]
  <2>1. q \in Request /\ q.at \in {"add", "look"} /\ q.on = u /\ q.role = r
    BY <1>0 DEF Idle, Request
  <2>2. req' = [req EXCEPT ![t] = q]
    BY <1>3 DEF LookForUser
  <2>3. UNCHANGED <<registered, member, rows, invite, edits, admitted, uses>>
    BY <1>3 DEF LookForUser
  <2> HIDE DEF q
  <2> QED BY <1>0, <1>1, <2>1, <2>2, <2>3
<1>4. ASSUME NEW u \in Users, NEW r \in Below, ReadToChange(t, u, r)
      PROVE  MemberInv' /\ UNCHANGED <<member, rows>>
  <2> DEFINE q == [Idle EXCEPT !.at = "save", !.on = u, !.row = member[u].id, !.role = r]
  <2>1. q \in Request /\ q.at = "save" /\ q.role = r
    BY <1>0 DEF Idle, Request, Member
  <2>2. req' = [req EXCEPT ![t] = q]
    BY <1>4 DEF ReadToChange
  <2>3. UNCHANGED <<registered, member, rows, invite, edits, admitted, uses>>
    BY <1>4 DEF ReadToChange
  <2> HIDE DEF q
  <2> QED BY <1>0, <1>1, <2>1, <2>2, <2>3
<1>5. ASSUME NEW u \in Users, ReadToRemove(t, u) \/ StaffReadToDelete(t, u)
      PROVE  MemberInv' /\ UNCHANGED <<member, rows>>
  <2> DEFINE q == [Idle EXCEPT !.at = "delete", !.on = u, !.row = member[u].id]
  <2>1. q \in Request /\ q.at = "delete"
    BY <1>0 DEF Idle, Request, Member
  <2>2. req' = [req EXCEPT ![t] = q]
    BY <1>5 DEF ReadToRemove, StaffReadToDelete
  <2>3. UNCHANGED <<registered, member, rows, invite, admitted, uses>> /\ edits' \in 0..MaxEdits
    <3>1. CASE ReadToRemove(t, u)
      BY <1>0, <3>1 DEF ReadToRemove
    <3>2. CASE StaffReadToDelete(t, u)
      BY <1>0, <3>2 DEF StaffReadToDelete, Edit
    <3> QED BY <1>5, <3>1, <3>2
  <2> HIDE DEF q
  <2> QED BY <1>0, <1>1, <2>1, <2>2, <2>3
<1>6. CASE Refuse(t)
  <2>1. req' = [req EXCEPT ![t] = Idle]
    BY <1>6 DEF Refuse, Done
  <2>2. UNCHANGED <<registered, member, rows, invite, edits, admitted, uses>>
    BY <1>6 DEF Refuse
  <2> QED BY <1>0, <1>1, <2>1, <2>2
<1>7. ASSUME NEW i \in Invites, ReadPending(t, i)
      PROVE  MemberInv' /\ UNCHANGED <<member, rows>>
  <2> DEFINE q == [Idle EXCEPT !.at = "expire", !.inv = i]
  <2>1. q \in Request /\ q.at = "expire"
    BY <1>0 DEF Idle, Request
  <2>2. req' = [req EXCEPT ![t] = q]
    BY <1>7 DEF ReadPending
  <2>3. UNCHANGED <<registered, member, rows, invite, edits, admitted, uses>>
    BY <1>7 DEF ReadPending
  <2> HIDE DEF q
  <2> QED BY <1>0, <1>1, <2>1, <2>2, <2>3
<1>8. ASSUME NEW u \in Users, NEW r \in Roles \cup {"keep"}, NEW s \in Standing \cup {"keep"},
             StaffRead(t, u, r, s)
      PROVE  MemberInv' /\ UNCHANGED <<member, rows>>
  <2> DEFINE q == [Idle EXCEPT !.at = "staff", !.on = u, !.row = member[u].id, !.role = r,
                               !.status = s]
  <2>1. q \in Request /\ q.at = "staff" /\ q.on = u /\ q.row = member[u].id
    BY <1>0 DEF Idle, Request, Member
  <2>2. req' = [req EXCEPT ![t] = q] /\ IsMember(u)
    BY <1>8 DEF StaffRead
  <2>3. UNCHANGED <<registered, member, rows, invite, admitted, uses>> /\ edits' \in 0..MaxEdits
    BY <1>0, <1>8 DEF StaffRead, Edit
  <2> HIDE DEF q
  <2> QED BY <1>0, <1>1, <2>1, <2>2, <2>3
<1> QED BY <1>2, <1>3, <1>4, <1>5, <1>6, <1>7, <1>8 DEF StaffReads

LEMMA LookStep ==
  ASSUME MemberInv, NEW t \in Threads, LookForInvite(t)
  PROVE  MemberInv'
<1> DEFINE a == req[t].on
<1>0. /\ req \in [Threads -> Request] /\ invite \in [Invites -> Invite]
      /\ a \in Users /\ req[t].at = "look" /\ req[t].role \in Below /\ edits \in 0..MaxEdits
  BY DEF MemberInv, Rows, MemberTypeOK, InHand, LookForInvite
<1>1. CASE Live(a) = {} /\ Goes(t, "create")
  <2>1. Rows'
    <3> DEFINE q == [req[t] EXCEPT !.at = "create"]
    <3>1. /\ q \in Request /\ q.at = "create" /\ q.on = a /\ q.role = req[t].role
          /\ req' = [req EXCEPT ![t] = q]
      BY <1>0, <1>1 DEF Goes, Request
    <3> HIDE DEF q
    <3> QED BY <1>0, <3>1, ReadStep DEF MemberInv, LookForInvite
  <2>2. TokensBounded'
    <3> SUFFICES ASSUME NEW e \in Users
                 PROVE  Cardinality(Live(e)' \cup Renewed(e)') + Cardinality(Creating(e)')
                          <= Cardinality(Threads)
      BY DEF TokensBounded
    <3>1. Live(e)' = Live(e)
      BY DEF Live, Pending, LookForInvite
    <3>2. Renewed(e)' = Renewed(e)
      BY <1>0, <1>1 DEF Renewed, Goes
    <3>3. CASE e = a
      <4>1. Creating(e)' = Creating(e) \cup {t}
        BY <1>0, <1>1, <3>3 DEF Creating, Goes
      <4> QED BY <1>0, <1>1, <3>1, <3>2, <3>3, <4>1, BoundLook
    <3>4. CASE e # a
      <4>1. Creating(e)' = Creating(e)
        BY <1>0, <1>1, <3>4 DEF Creating, Goes
      <4> QED BY <3>1, <3>2, <4>1, BoundKept DEF Tokens, MemberInv
    <3> QED BY <3>3, <3>4
  <2> QED BY <2>1, <2>2 DEF MemberInv
<1>2. ASSUME NEW i \in Live(a), req' = [req EXCEPT ![t].at = "renew", ![t].inv = i]
      PROVE  MemberInv'
  <2>0. i \in Invites /\ invite[i].status = "pending" /\ invite[i].email = a
    BY DEF Live, Pending
  <2>1. Rows'
    <3> DEFINE q == [req[t] EXCEPT !.at = "renew", !.inv = i]
    <3>1. /\ q \in Request /\ q.at = "renew" /\ q.on = a /\ q.inv = i /\ q.role = req[t].role
          /\ req' = [req EXCEPT ![t] = q]
      BY <1>0, <1>2, <2>0 DEF Request
    <3> HIDE DEF q
    <3> QED BY <1>0, <2>0, <3>1, ReadStep DEF MemberInv, LookForInvite
  <2>2. TokensBounded'
    <3> SUFFICES ASSUME NEW e \in Users
                 PROVE  Cardinality(Live(e)' \cup Renewed(e)') + Cardinality(Creating(e)')
                          <= Cardinality(Threads)
      BY DEF TokensBounded
    <3>1. Live(e)' = Live(e)
      BY DEF Live, Pending, LookForInvite
    <3>2. Creating(e)' \subseteq Creating(e)
      BY <1>0, <1>2 DEF Creating
    <3>3. Renewed(e)' \subseteq Tokens(e)
      <4>1. \A x \in Threads : req'[x].at = "renew" /\ req'[x].on = e =>
              \/ req[x].at = "renew" /\ req[x].on = e /\ req'[x].inv = req[x].inv
              \/ e = a /\ req'[x].inv = i
        BY <1>0, <1>2
      <4> QED BY <4>1, <1>2 DEF Renewed, Tokens
    <3> QED BY <3>1, <3>2, <3>3, BoundKept DEF Tokens, MemberInv
  <2> QED BY <2>1, <2>2 DEF MemberInv
<1> QED BY <1>1, <1>2 DEF LookForInvite

-----------------------------------------------------------------------------
(* A step that writes invitations keeps an address that was sent to, and   *)
(* never makes one pending again; it spends at most the one it accepts.    *)
LEMMA InviteStep ==
  ASSUME Rows, UNCHANGED <<registered, member, rows, edits, admitted, uses>>,
         invite' \in [Invites -> Invite],
         \A i \in Invites :
           /\ invite'[i].status \in {"none", "pending"} => invite[i].status \in {"none", "pending"}
           /\ invite[i].status # "none" =>
                invite'[i].status # "none" /\ invite'[i].email = invite[i].email
           /\ invite'[i].status = "accepted" =>
                invite[i].status = "accepted" \/ invite'[i].email \in admitted,
         \A t \in Threads : req'[t] = req[t] \/ req'[t] = Idle,
         req' \in [Threads -> Request]
  PROVE  Rows'
<1>1. MemberTypeOK'
  BY DEF Rows, MemberTypeOK
<1>2. InHand'
  BY IdleType DEF Rows, InHand
<1>3. Keyed'
  BY DEF Rows, Keyed, IsMember
<1>4. Spent'
  BY DEF Rows, Spent
<1>5. UsedOnceByInvited'
  BY DEF Rows, UsedOnceByInvited, MemberTypeOK
<1> QED BY <1>1, <1>2, <1>3, <1>4, <1>5 DEF Rows

LEMMA DoneType ==
  ASSUME Rows, NEW t \in Threads, Done(t)
  PROVE  /\ req' \in [Threads -> Request]
         /\ req'[t] = Idle /\ \A x \in Threads \ {t} : req'[x] = req[x]
BY IdleType DEF Rows, MemberTypeOK, Done

(* The invitation is marked or an answer to it is written.                 *)
LEMMA MarkStep ==
  ASSUME MemberInv,
         \/ \E t \in Threads : SettleInvites(t) \/ CancelInvite(t)
         \/ \E i \in Invites : Decline(i) \/ MarkExpired(i) \/ PassWeek(i)
  PROVE  MemberInv'
<1>0. Rows /\ TokensBounded /\ invite \in [Invites -> Invite] /\ req \in [Threads -> Request]
  BY DEF MemberInv, Rows, MemberTypeOK
<1>1. UNCHANGED <<registered, member, rows, edits, admitted, uses>>
  BY DEF SettleInvites, CancelInvite, Decline, MarkExpired, PassWeek
<1>2. /\ req' \in [Threads -> Request]
      /\ \A t \in Threads : req'[t] = req[t] \/ req'[t] = Idle
  <2>1. CASE \E t \in Threads : Done(t)
    BY <1>0, <2>1, DoneType
  <2>2. CASE req' = req
    BY <1>0, <2>2
  <2> QED BY <2>1, <2>2 DEF SettleInvites, CancelInvite, Decline, MarkExpired, PassWeek
<1>3. /\ invite' \in [Invites -> Invite]
      /\ \A i \in Invites :
           /\ invite'[i].status \in {"none", "pending"} =>
                invite[i].status = invite'[i].status /\ (invite[i].overdue => invite'[i].overdue)
           /\ invite'[i].email = invite[i].email
           /\ invite'[i].status = "none" => invite[i].status = "none"
           /\ invite'[i].status = "accepted" =>
                invite[i].status = "accepted" \/ invite'[i].email \in admitted
  <2>1. ASSUME NEW t \in Threads, SettleInvites(t) PROVE <1>3!:
    BY <1>0, <2>1 DEF SettleInvites, Invite, Pending, Rows, InHand
  <2>2. ASSUME NEW t \in Threads, CancelInvite(t) PROVE <1>3!:
    BY <1>0, <2>2 DEF CancelInvite, Invite
  <2>3. ASSUME NEW i \in Invites, Decline(i) PROVE <1>3!:
    BY <1>0, <2>3 DEF Decline, Invite, Pending
  <2>4. ASSUME NEW i \in Invites, MarkExpired(i) PROVE <1>3!:
    BY <1>0, <2>4 DEF MarkExpired, Invite, Pending
  <2>5. ASSUME NEW i \in Invites, PassWeek(i) PROVE <1>3!:
    BY <1>0, <2>5 DEF PassWeek, Invite, Pending
  <2> QED BY <2>1, <2>2, <2>3, <2>4, <2>5
<1>4. Rows'
  BY <1>0, <1>1, <1>2, <1>3, InviteStep
<1>5. TokensBounded'
  BY <1>0, <1>2, <1>3, IdleType, Shrinks DEF Pending
<1> QED BY <1>4, <1>5 DEF MemberInv

LEMMA RenewStep ==
  ASSUME MemberInv, NEW t \in Threads, Renew(t)
  PROVE  MemberInv'
<1> DEFINE i == req[t].inv
<1>0. /\ Rows /\ TokensBounded /\ invite \in [Invites -> Invite] /\ req \in [Threads -> Request]
      /\ req[t].at = "renew" /\ i \in Invites /\ req[t].role \in Below
      /\ invite[i].email = req[t].on /\ invite[i].status # "none"
  BY DEF MemberInv, Rows, MemberTypeOK, InHand, Renew
<1>1. /\ req' \in [Threads -> Request]
      /\ req'[t] = Idle /\ \A x \in Threads \ {t} : req'[x] = req[x]
  BY <1>0, DoneType DEF Renew
<1>2. /\ invite' \in [Invites -> Invite]
      /\ \A j \in Invites : /\ invite'[j].status = invite[j].status
                            /\ invite'[j].email = invite[j].email
                            /\ j # i => invite'[j] = invite[j]
  BY <1>0 DEF Renew, Invite, Request, Below, Roles
<1>3. Rows'
  <2>1. UNCHANGED <<registered, member, rows, edits, admitted, uses>>
    BY DEF Renew
  <2> QED BY <1>0, <1>1, <1>2, <2>1, InviteStep
<1>4. TokensBounded'
  <2> SUFFICES ASSUME NEW e \in Users
               PROVE  Cardinality(Live(e)' \cup Renewed(e)') + Cardinality(Creating(e)')
                        <= Cardinality(Threads)
    BY DEF TokensBounded
  <2>1. Live(e)' \subseteq Live(e) \cup (IF e = req[t].on THEN {i} ELSE {})
    BY <1>0, <1>2 DEF Live, Pending
  <2>2. e = req[t].on => i \in Renewed(e)
    BY <1>0 DEF Renewed
  <2>3. Renewed(e)' \subseteq Renewed(e) /\ Creating(e)' \subseteq Creating(e)
    BY <1>0, <1>1, IdleType DEF Renewed, Creating
  <2> QED BY <1>0, <2>1, <2>2, <2>3, BoundKept DEF Tokens
<1> QED BY <1>3, <1>4 DEF MemberInv

LEMMA InsertStep ==
  ASSUME MemberInv, NEW t \in Threads, CreateInvite(t)
  PROVE  MemberInv'
<1>0. /\ Rows /\ TokensBounded /\ invite \in [Invites -> Invite] /\ req \in [Threads -> Request]
      /\ req[t].at = "create" /\ req[t].on \in Users /\ req[t].role \in Below
  BY DEF MemberInv, Rows, MemberTypeOK, InHand, CreateInvite
<1>1. /\ req' \in [Threads -> Request]
      /\ req'[t] = Idle /\ \A x \in Threads \ {t} : req'[x] = req[x]
  BY <1>0, DoneType DEF CreateInvite
<1>2. PICK i \in Invites :
        /\ invite[i].status = "none"
        /\ invite' = [invite EXCEPT ![i] =
             [email |-> req[t].on, role |-> req[t].role, status |-> "pending", overdue |-> FALSE]]
  BY DEF CreateInvite
<1>3. Rows'
  <2>1. UNCHANGED <<registered, member, rows, edits, admitted, uses>>
    BY DEF CreateInvite
  <2>2. invite' \in [Invites -> Invite]
    BY <1>0, <1>2 DEF Invite, Request, Below, Roles
  <2> QED BY <1>0, <1>1, <1>2, <2>1, <2>2, InviteStep
<1>4. TokensBounded'
  <2> SUFFICES ASSUME NEW e \in Users
               PROVE  Cardinality(Live(e)' \cup Renewed(e)') + Cardinality(Creating(e)')
                        <= Cardinality(Threads)
    BY DEF TokensBounded
  <2>1. Live(e)' \subseteq Live(e) \cup (IF e = req[t].on THEN {i} ELSE {})
    BY <1>0, <1>2 DEF Live, Pending
  <2>2. Renewed(e)' \subseteq Renewed(e)
    BY <1>0, <1>1, IdleType DEF Renewed
  <2>3. CASE e = req[t].on
    <3>1. t \in Creating(e) /\ Creating(e)' = Creating(e) \ {t}
      BY <1>0, <1>1, <2>3, IdleType DEF Creating
    <3> QED BY <1>0, <2>1, <2>2, <3>1, BoundInsert DEF Tokens
  <2>4. CASE e # req[t].on
    <3>1. Creating(e)' \subseteq Creating(e)
      BY <1>0, <1>1, IdleType DEF Creating
    <3> QED BY <1>0, <2>1, <2>2, <2>4, <3>1, BoundKept DEF Tokens
  <2> QED BY <2>3, <2>4
<1> QED BY <1>3, <1>4 DEF MemberInv

-----------------------------------------------------------------------------
(* What a step may do to the memberships: insert one, with the next key,   *)
(* remove one, or change its role and its status.                          *)
Inserted(u, r, s) ==
  /\ rows' = rows + 1 /\ rows' \in 1..MaxRows
  /\ member' = [member EXCEPT ![u] = [id |-> rows + 1, role |-> r, status |-> s]]
  /\ admitted' = admitted \cup {u}

Altered ==
  /\ UNCHANGED <<rows, admitted>>
  /\ member' \in [Users -> Member]
  /\ \A u \in Users : \/ member'[u].id = member[u].id /\ (IsMember(u)' <=> IsMember(u))
                      \/ member'[u] = NoMember

MembersMove ==
  \/ Altered
  \/ UNCHANGED <<member, rows>>
  \/ \E u \in Users, r \in Roles, s \in {"active", "suspended"} : ~IsMember(u) /\ Inserted(u, r, s)

LEMMA CreateInserts ==
  ASSUME Rows, NEW u, NEW r, NEW s, Create(u, r, s)
  PROVE  Inserted(u, r, s)
BY MembershipAssumption DEF MembershipAssumption, Rows, MemberTypeOK, Create, Inserted

LEMMA MemberStep ==
  ASSUME MemberInv, UNCHANGED invite,
         \/ Altered
         \/ \E u \in Users, r \in Roles, s \in {"active", "suspended"} : Inserted(u, r, s),
         registered' \subseteq Users, edits' \in 0..MaxEdits, UNCHANGED uses,
         req' \in [Threads -> Request],
         \A t \in Threads : \/ req'[t] = req[t] \/ req'[t] = Idle
                            \/ req'[t].at = "settle" /\ req'[t].on \in admitted'
  PROVE  MemberInv'
<1>0. Rows /\ TokensBounded /\ member \in [Users -> Member] /\ rows \in 1..MaxRows
  BY DEF MemberInv, Rows, MemberTypeOK
<1>1. /\ member' \in [Users -> Member] /\ rows' \in 1..MaxRows
      /\ admitted' \subseteq Users /\ admitted \subseteq admitted'
  BY <1>0, MembershipAssumption
     DEF MembershipAssumption, Rows, MemberTypeOK, Altered, Inserted, Member
<1>2. MemberTypeOK'
  BY <1>0, <1>1 DEF Rows, MemberTypeOK
<1>3. InHand'
  BY <1>0, <1>1, IdleType DEF Rows, InHand
<1>4. Keyed'
  <2>1. CASE Altered
    BY <1>0, <2>1 DEF Altered, Rows, Keyed, IsMember, NoMember
  <2>2. ASSUME NEW u \in Users, NEW r \in Roles, NEW s \in {"active", "suspended"},
               Inserted(u, r, s)
        PROVE  Keyed'
    BY <1>0, <2>2 DEF Inserted, Rows, Keyed, IsMember
  <2> QED BY <2>1, <2>2
<1>5. Spent' /\ UsedOnceByInvited'
  BY <1>0, <1>1 DEF Rows, Spent, UsedOnceByInvited
<1>6. TokensBounded'
  BY <1>0, IdleType, Shrinks DEF Pending
<1> QED BY <1>2, <1>3, <1>4, <1>5, <1>6 DEF MemberInv, Rows

(* A request or the platform staff changes a membership.                   *)
LEMMA ChangeStep ==
  ASSUME MemberInv,
         \/ \E t \in Threads : SaveRole(t) \/ DeleteMember(t)
         \/ \E t \in Threads : StaffSave(t)
         \/ \E u \in Users : Register(u)
  PROVE  MemberInv' /\ Altered
<1>0. /\ Rows /\ member \in [Users -> Member] /\ req \in [Threads -> Request]
      /\ registered \subseteq Users /\ edits \in 0..MaxEdits /\ MaxEdits \in Nat
      /\ MaxRows \in Nat
  BY MembershipAssumption DEF MembershipAssumption, MemberInv, Rows, MemberTypeOK
<1>1. NoMember \in Member
  BY <1>0 DEF NoMember, Member, Roles
<1>2. Altered
  <2>1. ASSUME NEW t \in Threads, SaveRole(t) PROVE Altered
    <3>1. req[t].role \in Roles /\ UNCHANGED <<rows, admitted>>
      BY <1>0, <2>1 DEF SaveRole, Rows, InHand, Below
    <3>2. \/ member' = member
          \/ member' = [member EXCEPT ![req[t].on].role = req[t].role]
      BY <2>1 DEF SaveRole
    <3>3. /\ member' \in [Users -> Member]
          /\ \A u \in Users : member'[u].id = member[u].id /\ member'[u].status = member[u].status
      BY <1>0, <3>1, <3>2 DEF Member
    <3> QED BY <3>1, <3>3 DEF Altered, IsMember
  <2>2. ASSUME NEW t \in Threads, DeleteMember(t) PROVE Altered
    BY <1>0, <1>1, <2>2 DEF DeleteMember, Altered, IsMember
  <2>3. ASSUME NEW u \in Users, Register(u) PROVE Altered
    BY <1>0, <2>3 DEF Register, Altered, IsMember
  <2>4. ASSUME NEW t \in Threads, StaffSave(t) PROVE Altered
    <3> DEFINE q == req[t]
               r == IF q.role = "keep" THEN member[q.on].role ELSE q.role
               s == IF q.status = "keep" THEN member[q.on].status ELSE q.status
    <3>1. /\ q.at = "staff" /\ q \in Request /\ UNCHANGED <<rows, admitted>>
          /\ member' = IF member[q.on].id = q.row
                       THEN [member EXCEPT ![q.on].role = r, ![q.on].status = s]
                       ELSE member
      BY <1>0, <2>4 DEF StaffSave
    <3>2. q.at = "staff" => q.on \in Users /\ q.row > 0
      BY <1>0 DEF Rows, InHand
    <3>3. CASE member[q.on].id = q.row
      <4>1. q.on \in Users /\ member[q.on] \in Member /\ IsMember(q.on)
        BY <1>0, <3>1, <3>2, <3>3 DEF Rows, Keyed, IsMember
      <4>2. r \in Roles /\ s \in {"active", "suspended"}
        BY <3>1, <4>1 DEF Member, Request, IsMember, Standing
      <4> HIDE DEF q, r, s
      <4>3. member' = [member EXCEPT ![q.on].role = r, ![q.on].status = s]
        BY <3>1, <3>3
      <4>4. /\ member' \in [Users -> Member]
            /\ \A u \in Users : u # q.on => member'[u] = member[u]
            /\ member'[q.on].id = member[q.on].id /\ member'[q.on].status = s
        BY <1>0, <4>1, <4>2, <4>3 DEF Member
      <4> QED BY <1>0, <3>1, <4>1, <4>2, <4>4 DEF Altered, IsMember
    <3>4. CASE member[q.on].id # q.row
      BY <1>0, <3>1, <3>4 DEF Altered, IsMember
    <3> QED BY <3>3, <3>4
  <2> QED BY <2>1, <2>2, <2>3, <2>4
<1>3. /\ UNCHANGED <<invite, uses>> /\ registered' \subseteq Users /\ edits' \in 0..MaxEdits
      /\ req' = req \/ \E t \in Threads : Done(t)
  <2>1. ASSUME NEW t \in Threads, SaveRole(t) \/ DeleteMember(t) \/ StaffSave(t) PROVE <1>3!:
    BY <1>0, <2>1 DEF SaveRole, DeleteMember, StaffSave
  <2>2. ASSUME NEW u \in Users, Register(u) PROVE <1>3!:
    BY <1>0, <2>2 DEF Register
  <2> QED BY <2>1, <2>2
<1>4. /\ req' \in [Threads -> Request]
      /\ \A t \in Threads : req'[t] = req[t] \/ req'[t] = Idle
  BY <1>0, <1>3, DoneType
<1> QED BY <1>2, <1>3, <1>4, MemberStep

(* A membership is made without an invitation.                             *)
LEMMA JoinStep ==
  ASSUME MemberInv,
         \/ \E t \in Threads : AddMember(t)
         \/ EnsureOwner
         \/ \E u \in Users : JoinOnSite(u)
         \/ \E u \in Users, r \in Roles, s \in Standing : StaffCreate(u, r, s)
  PROVE  MemberInv' /\ MembersMove
<1>0. /\ Rows /\ member \in [Users -> Member] /\ req \in [Threads -> Request]
      /\ registered \subseteq Users /\ edits \in 0..MaxEdits /\ MaxEdits \in Nat
  BY MembershipAssumption DEF MembershipAssumption, MemberInv, Rows, MemberTypeOK
<1>1. ASSUME NEW t \in Threads, AddMember(t)
      PROVE  MemberInv' /\ MembersMove
  <2> DEFINE u == req[t].on
  <2>1. u \in Users /\ req[t].role \in Roles
    BY <1>0, <1>1 DEF Rows, InHand, AddMember, Below
  <2>2. CASE IsMember(u)
    <3>1. Done(t) /\ UNCHANGED <<registered, member, rows, invite, edits, admitted, uses>>
      BY <1>1, <2>2 DEF AddMember
    <3>2. /\ req' \in [Threads -> Request]
          /\ \A x \in Threads : req'[x] = req[x] \/ req'[x] = Idle
      BY <1>0, <3>1, DoneType
    <3>3. Altered
      BY <1>0, <3>1 DEF Altered, IsMember
    <3> QED BY <1>0, <3>1, <3>2, <3>3, MemberStep DEF MembersMove
  <2>3. CASE ~IsMember(u)
    <3>1. Inserted(u, req[t].role, "active")
      BY <1>0, <1>1, <2>3, CreateInserts DEF AddMember
    <3>2. req' = [req EXCEPT ![t] = [Idle EXCEPT !.at = "settle", !.on = u]]
      BY <1>1, <2>3 DEF AddMember
    <3>3. /\ req' \in [Threads -> Request]
          /\ \A x \in Threads : \/ req'[x] = req[x]
                                \/ req'[x].at = "settle" /\ req'[x].on \in admitted'
      BY <1>0, <2>1, <3>1, <3>2, IdleType DEF Idle, Request, Inserted
    <3>4. UNCHANGED <<registered, invite, edits, uses>>
      BY <1>1 DEF AddMember
    <3> HIDE DEF u
    <3> QED BY <1>0, <2>1, <2>3, <3>1, <3>3, <3>4, MemberStep DEF MembersMove
  <2> QED BY <2>2, <2>3
<1>2. ASSUME NEW u \in Users, NEW r \in Roles, NEW s \in {"active", "suspended"},
             ~IsMember(u), Create(u, r, s), UNCHANGED <<registered, invite, req, uses>>,
             edits' \in 0..MaxEdits
      PROVE  MemberInv' /\ MembersMove
  BY <1>0, <1>2, CreateInserts, MemberStep DEF MembersMove
<1>3. CASE EnsureOwner
  <2>1. Owner \in Users /\ "owner" \in Roles
    BY MembershipAssumption DEF MembershipAssumption, Roles
  <2> QED BY <1>0, <1>2, <1>3, <2>1 DEF EnsureOwner
<1>4. ASSUME NEW u \in Users, NEW r \in Roles, NEW s \in {"active", "suspended"},
             StaffCreate(u, r, s)
      PROVE  MemberInv' /\ MembersMove
  BY <1>0, <1>2, <1>4 DEF StaffCreate, Edit
<1>5. ASSUME NEW u \in Users, JoinOnSite(u) PROVE MemberInv' /\ MembersMove
  <2>1. (IF u = Owner THEN "owner" ELSE "editor") \in Roles
    BY DEF Roles
  <2> QED BY <1>0, <1>2, <1>5, <2>1 DEF JoinOnSite
<1> QED BY <1>1, <1>3, <1>4, <1>5 DEF Standing

(* An invitation is accepted; the row is locked while it is.               *)
LEMMA AcceptStep ==
  ASSUME MemberInv, NEW u \in Users, NEW i \in Invites, Accept(u, i)
  PROVE  MemberInv' /\ MembersMove
<1>0. /\ Rows /\ TokensBounded /\ invite \in [Invites -> Invite] /\ req \in [Threads -> Request]
      /\ uses \in [Invites -> Nat] /\ member \in [Users -> Member] /\ rows \in 1..MaxRows
      /\ admitted \subseteq Users
  BY DEF MemberInv, Rows, MemberTypeOK
<1>1. /\ invite' = [invite EXCEPT ![i].status = "accepted"]
      /\ invite[i].status = "pending" /\ invite[i].email = u /\ uses[i] = 0
      /\ UNCHANGED <<registered, req, edits>>
  BY <1>0 DEF Accept, Pending, Rows, Spent
<1>2. \/ IsMember(u) /\ UNCHANGED <<member, rows, admitted, uses>>
      \/ /\ ~IsMember(u) /\ uses' = [uses EXCEPT ![i] = @ + 1]
         /\ \E r \in Roles : Inserted(u, r, "active")
  <2>1. invite[i].role \in Roles
    BY <1>0 DEF Invite, Roles
  <2> QED BY <1>0, <2>1, CreateInserts DEF Accept
<1>3. /\ member' \in [Users -> Member] /\ rows' \in 1..MaxRows
      /\ admitted' \subseteq Users /\ admitted \subseteq admitted' /\ u \in admitted'
  BY <1>0, <1>2, MembershipAssumption DEF MembershipAssumption, Inserted, Member, Rows, Keyed
<1>4. /\ invite' \in [Invites -> Invite] /\ invite'[i].status = "accepted"
      /\ \A j \in Invites : /\ invite'[j].email = invite[j].email
                            /\ j # i => invite'[j] = invite[j]
  BY <1>0, <1>1 DEF Invite
<1>5. uses' \in [Invites -> Nat] /\ \A j \in Invites : uses'[j] = uses[j] \/ (j = i /\ uses'[j] = 1)
  <2>1. uses' = uses \/ uses' = [uses EXCEPT ![i] = 1]
    BY <1>1, <1>2
  <2> QED BY <1>0, <2>1
<1>6. MemberTypeOK'
  BY <1>0, <1>1, <1>3, <1>4, <1>5 DEF Rows, MemberTypeOK
<1>7. InHand'
  BY <1>0, <1>1, <1>3, <1>4 DEF Rows, InHand
<1>8. Keyed'
  BY <1>0, <1>2 DEF Inserted, Rows, Keyed, IsMember
<1>9. Spent' /\ UsedOnceByInvited'
  BY <1>0, <1>1, <1>3, <1>4, <1>5 DEF Rows, Spent, UsedOnceByInvited
<1>10. TokensBounded'
  BY <1>0, <1>1, <1>4, Shrinks DEF Pending
<1> QED BY <1>2, <1>6, <1>7, <1>8, <1>9, <1>10 DEF MemberInv, Rows, MembersMove

-----------------------------------------------------------------------------
(* Every step keeps the invariant and moves the memberships as above.      *)
LEMMA StepInv == ASSUME MemberInv, [Next]_vars PROVE MemberInv' /\ MembersMove
<1>1. ASSUME NEW t \in Threads, Manage(t) PROVE MemberInv' /\ MembersMove
  <2>1. CASE \/ \E u \in Users, op \in {"invite", "role", "remove", "cancel"} : Ask(t, u, op)
             \/ \E u \in Users, r \in Below : LookForUser(t, u, r) \/ ReadToChange(t, u, r)
             \/ \E u \in Users : ReadToRemove(t, u)
             \/ Refuse(t)
             \/ \E i \in Invites : ReadPending(t, i)
    BY <2>1, ReadingStep DEF MembersMove
  <2>2. CASE AddMember(t)
    BY <2>2, JoinStep
  <2>3. CASE SettleInvites(t) \/ CancelInvite(t)
    BY <2>3, MarkStep DEF MembersMove, SettleInvites, CancelInvite
  <2>4. CASE LookForInvite(t)
    BY <2>4, LookStep DEF MembersMove, LookForInvite
  <2>5. CASE Renew(t)
    BY <2>5, RenewStep DEF MembersMove, Renew
  <2>6. CASE CreateInvite(t)
    BY <2>6, InsertStep DEF MembersMove, CreateInvite
  <2>7. CASE SaveRole(t) \/ DeleteMember(t) \/ StaffSave(t)
    BY <2>7, ChangeStep DEF MembersMove
  <2> QED BY <1>1, <2>1, <2>2, <2>3, <2>4, <2>5, <2>6, <2>7 DEF Manage
<1>2. CASE Invited
  <2>1. ASSUME NEW i \in Invites, NEW u \in Users, Accept(u, i) PROVE MemberInv' /\ MembersMove
    BY <2>1, AcceptStep
  <2>2. ASSUME NEW i \in Invites, Decline(i) \/ MarkExpired(i) \/ PassWeek(i)
        PROVE  MemberInv' /\ MembersMove
    BY <2>2, MarkStep DEF MembersMove, Decline, MarkExpired, PassWeek
  <2> QED BY <1>2, <2>1, <2>2 DEF Invited
<1>3. ASSUME NEW u \in Users, Register(u) PROVE MemberInv' /\ MembersMove
  BY <1>3, ChangeStep DEF MembersMove
<1>4. CASE EnsureOwner \/ \E u \in Users : JoinOnSite(u)
  BY <1>4, JoinStep
<1>5. CASE Staff
  <2>1. ASSUME NEW u \in Users, NEW r \in Roles, NEW s \in Standing, StaffCreate(u, r, s)
        PROVE  MemberInv' /\ MembersMove
    BY <2>1, JoinStep
  <2>2. ASSUME NEW u \in Users, NEW t \in Threads, StaffReads(t, u)
        PROVE  MemberInv' /\ MembersMove
    BY <2>2, ReadingStep DEF MembersMove
  <2> QED BY <1>5, <2>1, <2>2 DEF Staff, StaffReads
<1>6. CASE UNCHANGED vars
  BY <1>6 DEF vars, MemberInv, Rows, MemberTypeOK, InHand, Keyed, Spent, UsedOnceByInvited,
     TokensBounded, Live, Pending, Renewed, Creating, IsMember, MembersMove
<1> QED BY <1>1, <1>2, <1>3, <1>4, <1>5, <1>6 DEF Next

LEMMA MemberInvariance == Spec => []MemberInv
BY InitInv, StepInv, PTL DEF Spec

-----------------------------------------------------------------------------
(* The rows and the requests keep their types; no more memberships are     *)
(* inserted than MaxRows allows.                                           *)
THEOREM MemberTyping == Spec => []MemberTypeOK
BY MemberInvariance, PTL DEF MemberInv, Rows

(* However often an address is invited and its invitations expire, are     *)
(* cancelled or renewed, it never has more usable tokens than there are    *)
(* web processes (WorkspaceViewSet.invite).                                *)
THEOREM FewTokens == Spec => []TokensBounded
BY MemberInvariance, PTL DEF MemberInv

(* A token makes at most one membership, and an invitation is only shown   *)
(* as accepted if the one it was sent to has been a member                 *)
(* (WorkspaceInvitationAcceptView, WorkspaceViewSet.invite).               *)
THEOREM TokensUsedOnce == Spec => []UsedOnceByInvited
BY MemberInvariance, PTL DEF MemberInv, Rows

(* A membership that was removed comes back only as a new row, never       *)
(* through a request that had read the old one (change_role).              *)
THEOREM RemovalHolds == Spec => RemovedStaysRemoved
<1>1. ASSUME MemberInv, [Next]_vars
      PROVE  [\A u \in Users : ~IsMember(u) /\ member'[u].status # "none" =>
                member'[u].id = rows' /\ rows' = rows + 1]_<<member, rows>>
  <2> SUFFICES ASSUME NEW u \in Users, ~IsMember(u), member'[u].status # "none",
                      ~UNCHANGED <<member, rows>>
               PROVE  member'[u].id = rows' /\ rows' = rows + 1
    OBVIOUS
  <2>0. member \in [Users -> Member]
    BY <1>1 DEF MemberInv, Rows, MemberTypeOK
  <2>1. MembersMove
    BY <1>1, StepInv
  <2>2. ~Altered
    BY DEF Altered, IsMember, NoMember
  <2>3. PICK v \in Users, r \in Roles, s \in {"active", "suspended"} : Inserted(v, r, s)
    BY <2>1, <2>2 DEF MembersMove
  <2> QED BY <2>0, <2>3 DEF Inserted, IsMember
<1> QED BY <1>1, MemberInvariance, PTL DEF Spec, RemovedStaysRemoved

(* Only platform staff lift a suspension, by a request for that row which  *)
(* says active or had read it so: no manager's request and no invitation   *)
(* does (WorkspaceViewSet.change_role, AcceptInvitationView,               *)
(* PlatformAdminWorkspaceMembershipView).                                  *)
THEOREM SuspensionStays == Spec => SuspensionHolds
<1> DEFINE Stays == \A u \in Users :
             member[u].status = "suspended" /\ member'[u].id = member[u].id =>
               \/ member'[u].status = "suspended"
               \/ \E t \in Threads : /\ req[t].at = "staff" /\ req'[t] = Idle
                                     /\ req[t].row = member[u].id
                                     /\ req[t].status = "active"
<1>1. ASSUME MemberInv, [Next]_vars PROVE Stays
  <2>0. /\ member \in [Users -> Member] /\ rows \in Nat /\ edits \in Nat
        /\ req \in [Threads -> Request]
        /\ \A u \in Users : member[u].status = "suspended" => member[u].id \in 1..rows
    BY <1>1, MembershipAssumption
       DEF MembershipAssumption, MemberInv, Rows, MemberTypeOK, Keyed, IsMember
  <2>1. ASSUME NEW v, NEW r, NEW s, ~IsMember(v), Create(v, r, s) PROVE Stays
    BY <2>0, <2>1 DEF Create, IsMember
  <2>2. CASE UNCHANGED member
    BY <2>2
  <2>3. ASSUME NEW t \in Threads, SaveRole(t) PROVE Stays
    <3>1. member' = member \/ member' = [member EXCEPT ![req[t].on].role = req[t].role]
      BY <2>3 DEF SaveRole
    <3> QED BY <2>0, <3>1 DEF Member
  <2>4. ASSUME NEW t \in Threads, DeleteMember(t) PROVE Stays
    <3>1. member' = member \/ member' = [member EXCEPT ![req[t].on] = NoMember]
      BY <2>4 DEF DeleteMember
    <3> QED BY <2>0, <3>1 DEF NoMember
  <2>5. ASSUME NEW t \in Threads, StaffSave(t) PROVE Stays
    <3> DEFINE q == req[t]
               r == IF q.role = "keep" THEN member[q.on].role ELSE q.role
               s == IF q.status = "keep" THEN member[q.on].status ELSE q.status
    <3>1. /\ q.at = "staff" /\ q \in Request /\ req'[t] = Idle
          /\ member' = IF member[q.on].id = q.row
                       THEN [member EXCEPT ![q.on].role = r, ![q.on].status = s]
                       ELSE member
      BY <2>0, <2>5 DEF StaffSave, Done
    <3>2. q.status \in {"active", "suspended", "keep"}
      BY <3>1 DEF Request, Standing
    <3>3. s = "suspended" \/ (s = "active" /\ q.status = "active") \/ s = member[q.on].status
      BY <3>2
    <3>4. \A u \in Users : u # q.on => member'[u] = member[u]
      BY <2>0, <3>1
    <3>5. q.on \in Users /\ member[q.on].id = q.row => member'[q.on].status = s
      BY <2>0, <3>1 DEF Member
    <3>6. member[q.on].id # q.row => member' = member
      BY <3>1
    <3> HIDE DEF s, r
    <3> QED BY <3>1, <3>3, <3>4, <3>5, <3>6
  <2>6. ASSUME NEW t \in Threads, Manage(t) PROVE Stays
    BY <2>1, <2>2, <2>3, <2>4, <2>5, <2>6
       DEF Manage, Ask, LookForUser, ReadToChange, ReadToRemove, AddMember, SettleInvites,
           LookForInvite, Renew, CreateInvite, Refuse, ReadPending, CancelInvite
  <2>7. CASE Invited
    BY <2>1, <2>2, <2>7 DEF Invited, Accept, Decline, MarkExpired, PassWeek
  <2>8. CASE Staff
    BY <2>1, <2>2, <2>8 DEF Staff, StaffCreate, StaffRead, StaffReadToDelete
  <2> HIDE DEF Stays
  <2> QED BY <1>1, <2>1, <2>2, <2>6, <2>7, <2>8 DEF Next, Register, EnsureOwner, JoinOnSite, vars
<1>2. MemberInv /\ [Next]_vars => [Stays]_<<member, req>>
  BY <1>1
<1> QED BY <1>2, MemberInvariance, PTL DEF Spec, SuspensionHolds
=============================================================================
