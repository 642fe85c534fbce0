------------------------------ MODULE TenantProofs ------------------------------
(***************************************************************************)
(* Proofs about Organizations and Projects, for any accounts, invitations, *)
(* keys, customers, payments and any number of calls in flight.            *)
(***************************************************************************)
EXTENDS Organizations, Projects, FiniteSetTheorems, TLAPS

(* Before an organization exists nothing has happened to anybody, and      *)
(* unless it is live it has neither members nor invitations.               *)
StageInv ==
    /\ organization = "absent" =>
           /\ everOwner = {}
           /\ \A i \in Invitations : joins[i] = 0
           /\ \A a \in Accounts : removals[a] = 0
    /\ organization # "live" =>
           /\ \A a \in Accounts : members[a] = NONE
           /\ \A i \in Invitations : invitations[i] = NONE

(* Nobody has joined by an invitation that is pending or unwritten, and    *)
(* one that makes an owner was written by somebody who has been one.       *)
InvitationInv(i) ==
    /\ organization = "live" /\ invitations[i] = NONE => joins[i] = 0
    /\ invitations[i] # NONE =>
           /\ invitations[i].status = "pending" => joins[i] = 0
           /\ invitations[i].role = "owner" => invitations[i].inviter \in everOwner

(* What an acceptance has read of its invitation stays true: the email and *)
(* the role of a row are written once.                                     *)
Reread(r) ==
    \/ organization = "deleted"
    \/ /\ invitations[r.invitation] # NONE
       /\ invitations[r.invitation].email = r.actor
       /\ invitations[r.invitation].role = r.seen.role

(* A call carries the fields its operation needs; it was let in as an      *)
(* owner only if the caller has been one, and goes on to grant that role   *)
(* only if it was.                                                         *)
CallInv(c) ==
    call[c] # Idle =>
        /\ call[c].op \in {"updateMember", "createInvitation"} => call[c].role \in Roles
        /\ call[c].op \in {"cancelInvitation", "acceptInvitation"} =>
               call[c].invitation \in Invitations
        /\ call[c].as = "owner" => call[c].actor \in everOwner
        /\ call[c].op \in {"updateMember", "createInvitation"} /\ call[c].step # "guarded"
               /\ call[c].role = "owner" => call[c].as = "owner"
        /\ call[c].op = "acceptInvitation" /\ call[c].step # "guarded" =>
               call[c].seen \in Invitation /\ Reread(call[c])

Joined(a) == {i \in Invitations : joins[i] > 0 /\ invitations[i].email = a}

FewJoined == organization = "live" => \A a \in Accounts : IsFiniteSet(Joined(a))

TablesInv ==
    /\ StageInv
    /\ \A i \in Invitations : InvitationInv(i)
    /\ Owners \subseteq everOwner
    /\ FewJoined /\ TrailTellsMembership

OrgInv == OrgTypeOK /\ TablesInv /\ \A c \in OrgCalls : CallInv(c)

ReadStep(c) ==
    \/ OrgStart(c) \/ FindTarget(c) \/ assertOwnerRemains(c) \/ CheckInvitee(c)
    \/ FindInvitation(c) \/ Fails(c)

--------------------------------------------------------------------------------
(* Nothing but the founder's organization to come.                         *)
LEMMA OrgInvInit == OrgInit => OrgInv
  BY OrgAssumption
  DEF OrgInit, OrgInv, TablesInv, OrgTypeOK, StageInv, InvitationInv, Owners, CallInv, FewJoined,
      TrailTellsMembership

(* A call in flight is a record of the types its fields have.              *)
LEMMA CallFields ==
  ASSUME OrgTypeOK, NEW c \in OrgCalls, call[c] # Idle
  PROVE  /\ call[c] \in OrgCall
         /\ call[c].step \in {"guarded", "checked", "counted"}
         /\ call[c].op \in Operations
         /\ call[c].actor \in Accounts /\ call[c].user \in Accounts
         /\ call[c].as \in Roles \cup {NONE} /\ call[c].role \in Roles \cup {NONE}
         /\ call[c].invitation \in Invitations \cup {NONE}
         /\ call[c].seen \in Member \cup Invitation \cup {NONE}
  BY DEF OrgTypeOK, OrgCall

(* A call that is somewhere in its handler is not idle.                    *)
LEMMA InFlight ==
  ASSUME NEW c \in OrgCalls, call[c].step \in {"guarded", "checked", "counted"}
  PROVE  call[c] # Idle
  BY DEF Idle

(* Rows have the fields of their tables.                                   *)
LEMMA MemberFields ==
  ASSUME OrgTypeOK, NEW a \in Accounts, members[a] # NONE
  PROVE  members[a] \in Member /\ members[a].role \in Roles /\ members[a].row \in Nat
  BY DEF OrgTypeOK, Member

(* Rows have the fields of their tables.                                   *)
LEMMA InvitationFields ==
  ASSUME OrgTypeOK, NEW i \in Invitations, invitations[i] # NONE
  PROVE  /\ invitations[i] \in Invitation
         /\ invitations[i].email \in Accounts /\ invitations[i].inviter \in Accounts
         /\ invitations[i].role \in Roles
         /\ invitations[i].status \in {"pending", "accepted", "canceled"}
  BY DEF OrgTypeOK, Invitation

--------------------------------------------------------------------------------
(* A request is a call at the beginning of its handler.                    *)
LEMMA RequestType ==
  ASSUME NEW op \in Operations, NEW a \in Accounts, NEW as \in Roles \cup {NONE},
         NEW u \in Accounts, NEW newRole \in Roles \cup {NONE},
         NEW i \in Invitations \cup {NONE}
  PROVE  Request(op, a, as, u, newRole, i) \in OrgCall
  BY DEF Request, OrgCall

(* A call that the guard or the session lets in knows what it needs.       *)
LEMMA StartStep ==
  ASSUME OrgInv, NEW c \in OrgCalls, OrgStart(c)
  PROVE  /\ UNCHANGED orgTables /\ started' \in 0 .. MaxOrgCalls
         /\ call' \in [OrgCalls -> OrgCall \cup {Idle}]
         /\ \A d \in OrgCalls \ {c} : call'[d] = call[d]
         /\ CallInv(c)'
<1> USE DEF OrgInv
<1>1. ASSUME NEW op \in Operations, NEW a \in Accounts, NEW u \in Accounts,
             NEW newRole \in Roles \cup {NONE}, NEW i \in Invitations \cup {NONE},
             NEW as \in Roles \cup {NONE},
             as = "owner" => a \in everOwner,
             op \in {"updateMember", "createInvitation"} => newRole \in Roles,
             op \in {"cancelInvitation", "acceptInvitation"} => i \in Invitations,
             BeginChange(c, Request(op, a, as, u, newRole, i))
      PROVE  /\ UNCHANGED orgTables /\ started' \in 0 .. MaxOrgCalls
             /\ call' \in [OrgCalls -> OrgCall \cup {Idle}]
             /\ \A d \in OrgCalls \ {c} : call'[d] = call[d]
             /\ CallInv(c)'
  <2> DEFINE q == Request(op, a, as, u, newRole, i)
  <2>1. q \in OrgCall
    BY <1>1, RequestType
  <2>2. call' = [call EXCEPT ![c] = q]
    BY <1>1 DEF BeginChange
  <2>3. started' \in 0 .. MaxOrgCalls /\ UNCHANGED orgTables
    BY <1>1, OrgAssumption DEF BeginChange, OrgTypeOK
  <2>4. /\ q.step = "guarded" /\ q.op = op /\ q.actor = a /\ q.as = as
        /\ q.role = newRole /\ q.invitation = i
    BY DEF Request
  <2>5. call'[c] = q /\ call' \in [OrgCalls -> OrgCall \cup {Idle}]
        /\ \A d \in OrgCalls \ {c} : call'[d] = call[d]
    <3> HIDE DEF q
    <3> QED
      BY <2>1, <2>2 DEF OrgTypeOK
  <2> HIDE DEF q
  <2>6. CallInv(c)'
    BY <1>1, <2>3, <2>4, <2>5 DEF CallInv, orgTables
  <2> QED
    BY <2>3, <2>5, <2>6
<1>2. PICK a \in Accounts, u \in Accounts :
        \/ \E newRole \in Granted : \E op \in {"updateMember", "createInvitation"} :
              CanActivate(c, op, a, u, newRole, NONE)
        \/ CanActivate(c, "removeMember", a, u, NONE, NONE)
        \/ u = a /\ CanActivate(c, "delete", a, a, NONE, NONE)
        \/ u = a /\ \E i \in Invitations : CanActivate(c, "cancelInvitation", a, a, NONE, i)
        \/ u = a /\ \E i \in Invitations : BeginAccept(c, a, i)
  BY DEF OrgStart
<1>3. ASSUME NEW op \in Operations, NEW v \in Accounts, NEW newRole \in Roles \cup {NONE},
             NEW i \in Invitations \cup {NONE},
             op \in {"updateMember", "createInvitation"} => newRole \in Roles,
             op \in {"cancelInvitation", "acceptInvitation"} => i \in Invitations,
             CanActivate(c, op, a, v, newRole, i)
      PROVE  /\ UNCHANGED orgTables /\ started' \in 0 .. MaxOrgCalls
             /\ call' \in [OrgCalls -> OrgCall \cup {Idle}]
             /\ \A d \in OrgCalls \ {c} : call'[d] = call[d]
             /\ CallInv(c)'
  <2>1. /\ members[a] # NONE
        /\ BeginChange(c, Request(op, a, members[a].role, v, newRole, i))
    BY <1>3 DEF CanActivate
  <2>2. members[a].role \in Roles
    BY <2>1, MemberFields
  <2>3. members[a].role = "owner" => a \in everOwner
    BY <2>1 DEF Owners, TablesInv
  <2> QED
    BY <1>1, <1>3, <2>1, <2>2, <2>3
<1>4. ASSUME NEW newRole \in Granted, NEW op \in {"updateMember", "createInvitation"},
             CanActivate(c, op, a, u, newRole, NONE)
      PROVE  newRole \in Roles /\ op \in Operations
  BY OrgAssumption DEF Operations
<1>5. {"removeMember", "delete", "cancelInvitation", "acceptInvitation"} \subseteq Operations
  BY DEF Operations
<1>6. CASE \E newRole \in Granted : \E op \in {"updateMember", "createInvitation"} :
              CanActivate(c, op, a, u, newRole, NONE)
  BY <1>3, <1>4, <1>6
<1>7. CASE CanActivate(c, "removeMember", a, u, NONE, NONE)
  BY <1>3, <1>5, <1>7
<1>8. CASE CanActivate(c, "delete", a, a, NONE, NONE)
  BY <1>3, <1>5, <1>8
<1>9. CASE \E i \in Invitations : CanActivate(c, "cancelInvitation", a, a, NONE, i)
  BY <1>3, <1>5, <1>9
<1>10. CASE \E i \in Invitations : BeginAccept(c, a, i)
  <2>1. PICK i \in Invitations : BeginChange(c, Request("acceptInvitation", a, NONE, a, NONE, i))
    BY <1>10 DEF BeginAccept
  <2>2. NONE # "owner"
    BY OrgAssumption DEF Roles
  <2> QED
    BY <1>1, <1>5, <2>1, <2>2
<1> QED
  BY <1>2, <1>6, <1>7, <1>8, <1>9, <1>10

(* A refused call is idle, and the others do not notice.                   *)
LEMMA RefuseStep ==
  ASSUME OrgInv, NEW c \in OrgCalls, Refuse(c)
  PROVE  /\ UNCHANGED orgTables /\ started' \in 0 .. MaxOrgCalls
         /\ call' \in [OrgCalls -> OrgCall \cup {Idle}]
         /\ \A d \in OrgCalls \ {c} : call'[d] = call[d]
         /\ CallInv(c)'
  BY DEF OrgInv, OrgTypeOK, Refuse, CallInv

(* A call that goes on keeps all it was asked with.                        *)
LEMMA ProceedStep ==
  ASSUME OrgInv, NEW c \in OrgCalls, call[c] # Idle,
         NEW step \in {"checked", "counted"}, NEW x \in Member \cup Invitation \cup {NONE},
         Proceed(c, step, x),
         call[c].op \in {"updateMember", "createInvitation"} /\ call[c].role = "owner"
             => call[c].as = "owner",
         call[c].op = "acceptInvitation" =>
             /\ x \in Invitation
             /\ \/ organization = "deleted"
                \/ /\ invitations[call[c].invitation] # NONE
                   /\ invitations[call[c].invitation].email = call[c].actor
                   /\ invitations[call[c].invitation].role = x.role
  PROVE  /\ UNCHANGED orgTables /\ started' \in 0 .. MaxOrgCalls
         /\ call' \in [OrgCalls -> OrgCall \cup {Idle}]
         /\ \A d \in OrgCalls \ {c} : call'[d] = call[d]
         /\ CallInv(c)'
<1> USE DEF OrgInv
<1> DEFINE q == [call[c] EXCEPT !.step = step, !.seen = x]
<1>1. call[c] \in OrgCall
  BY CallFields
<1>2. q \in OrgCall
  BY <1>1 DEF OrgCall
<1>3. /\ q.step = step /\ q.op = call[c].op /\ q.actor = call[c].actor /\ q.as = call[c].as
      /\ q.role = call[c].role /\ q.invitation = call[c].invitation /\ q.seen = x
  BY <1>1 DEF OrgCall
<1>4. call' = [call EXCEPT ![c] = q] /\ UNCHANGED <<orgTables, started>>
  BY DEF Proceed, OrgTypeOK
<1> HIDE DEF q
<1>5. call'[c] = q /\ call' \in [OrgCalls -> OrgCall \cup {Idle}]
      /\ \A d \in OrgCalls \ {c} : call'[d] = call[d]
  BY <1>2, <1>4 DEF OrgTypeOK
<1>6. CallInv(c)'
  BY <1>3, <1>4, <1>5 DEF CallInv, Reread, orgTables
<1> QED
  BY <1>4, <1>5, <1>6 DEF OrgTypeOK

(* A read writes nothing, and what the call takes from it holds.           *)
LEMMA ReadStepEffect ==
  ASSUME OrgInv, NEW c \in OrgCalls, ReadStep(c)
  PROVE  /\ UNCHANGED orgTables /\ started' \in 0 .. MaxOrgCalls
         /\ call' \in [OrgCalls -> OrgCall \cup {Idle}]
         /\ \A d \in OrgCalls \ {c} : call'[d] = call[d]
         /\ CallInv(c)'
<1> USE DEF OrgInv
<1>1. CASE OrgStart(c)
  BY <1>1, StartStep
<1>2. CASE Refuse(c)
  BY <1>2, RefuseStep
<1>3. CASE FindTarget(c) /\ ~ Refuse(c)
  <2> DEFINE r == call[c]
             target == members[r.user]
             step == IF Dethrones(r, target) THEN "checked" ELSE "counted"
  <2>1. /\ r.step = "guarded" /\ r.op \in {"updateMember", "removeMember"}
        /\ target # NONE /\ r.op = "updateMember" => MayAssign(r, target)
        /\ Proceed(c, step, target)
    BY <1>3 DEF FindTarget
  <2>2. r # Idle
    BY <2>1, InFlight
  <2>3. target \in Member
    BY <1>3, <2>2, CallFields, MemberFields DEF FindTarget
  <2>4. r.op = "updateMember" /\ r.role = "owner" => r.as = "owner"
    BY <1>3, <2>1 DEF MayAssign, FindTarget
  <2>5. step \in {"checked", "counted"}
    OBVIOUS
  <2> HIDE DEF step
  <2> QED
    BY <2>5, <2>1, <2>2, <2>3, <2>4, ProceedStep
<1>4. CASE assertOwnerRemains(c) /\ ~ Refuse(c)
  <2>1. call[c].step = "checked" /\ Proceed(c, "counted", call[c].seen)
    BY <1>4 DEF assertOwnerRemains
  <2>2. call[c] # Idle
    BY <2>1, InFlight
  <2>3. call[c].seen \in Member \cup Invitation \cup {NONE}
    BY <2>2, CallFields
  <2>4. CallInv(c)
    OBVIOUS
  <2> QED
    BY <2>1, <2>2, <2>3, <2>4, ProceedStep DEF CallInv, Reread
<1>5. CASE CheckInvitee(c) /\ ~ Refuse(c)
  <2>1. /\ call[c].step = "guarded" /\ call[c].op = "createInvitation"
        /\ call[c].role = "owner" => call[c].as = "owner"
        /\ Proceed(c, "counted", NONE)
    BY <1>5 DEF CheckInvitee
  <2> QED
    BY <2>1, InFlight, ProceedStep
<1>6. CASE FindInvitation(c) /\ ~ Refuse(c)
  <2> DEFINE r == call[c]
             seen == invitations[r.invitation]
  <2>1. /\ r.step = "guarded" /\ r.op \in {"cancelInvitation", "acceptInvitation"}
        /\ seen # NONE
        /\ r.op = "acceptInvitation" => seen.email = r.actor
        /\ Proceed(c, "counted", seen)
    BY <1>6 DEF FindInvitation
  <2>2. r # Idle
    BY <2>1, InFlight
  <2>3. r.invitation \in Invitations
    BY <2>1, <2>2 DEF CallInv
  <2>4. seen \in Invitation
    BY <2>1, <2>3, InvitationFields
  <2> QED
    BY <2>1, <2>2, <2>4, ProceedStep
<1>7. CASE Fails(c)
  BY <1>7, <1>2 DEF Fails
<1> QED
  BY <1>1, <1>2, <1>3, <1>4, <1>5, <1>6, <1>7 DEF ReadStep

--------------------------------------------------------------------------------
(* What the other calls have read is not taken back: owners stay owners of *)
(* the past, and a row of an invitation keeps whom it is for and as what.  *)
KeepsFaith ==
    /\ everOwner \subseteq everOwner'
    /\ organization = "deleted" => organization' = "deleted"
    /\ \A i \in Invitations :
           invitations[i] # NONE =>
               \/ organization' = "deleted"
               \/ /\ invitations'[i] # NONE
                  /\ invitations'[i].email = invitations[i].email
                  /\ invitations'[i].role = invitations[i].role

(* So a call that does nothing knows what it knew.                         *)
LEMMA CallKept ==
  ASSUME OrgTypeOK, NEW c \in OrgCalls, CallInv(c), KeepsFaith, call'[c] = call[c]
  PROVE  CallInv(c)'
<1>1. CASE call[c] = Idle
  BY <1>1 DEF CallInv
<1>2. CASE call[c] # Idle /\ call[c].op = "acceptInvitation" /\ call[c].step # "guarded"
  <2>1. call[c].invitation \in Invitations
    BY <1>2 DEF CallInv
  <2>2. Reread(call[c])'
    BY <1>2, <2>1 DEF CallInv, Reread, KeepsFaith
  <2> QED
    BY <1>2, <2>2 DEF CallInv, KeepsFaith
<1>3. CASE call[c] # Idle /\ ~ (call[c].op = "acceptInvitation" /\ call[c].step # "guarded")
  BY <1>3 DEF CallInv, KeepsFaith
<1> QED
  BY <1>1, <1>2, <1>3

(* A call that has committed is idle, and the others do not notice.        *)
LEMMA DoneStep ==
  ASSUME OrgInv, NEW c \in OrgCalls, Done(c)
  PROVE  /\ started' \in 0 .. MaxOrgCalls
         /\ call' \in [OrgCalls -> OrgCall \cup {Idle}]
         /\ \A d \in OrgCalls \ {c} : call'[d] = call[d]
         /\ CallInv(c)'
  BY DEF OrgInv, OrgTypeOK, Done, CallInv

(* The books balance: one account's membership, removals and joinings.     *)
Balanced(a) ==
    (IF members[a] = NONE THEN 0 ELSE 1) + removals[a]
        = (IF a = Founder THEN 1 ELSE 0) + Cardinality(Joined(a))

(* The founder is in without an invitation.                                *)
LEMMA CreateOrganizationEffect ==
  ASSUME OrgInv, CreateOrganization
  PROVE  OrgTypeOK' /\ TablesInv' /\ KeepsFaith
<1> USE DEF OrgInv
<1> DEFINE row == [role |-> "owner", row |-> 0]
<1>1. row \in Member /\ row.role = "owner" /\ row # NONE
  BY NoneIsNoRow DEF Member, Roles
<1>2. /\ organization = "absent" /\ organization' = "live"
      /\ members' = [members EXCEPT ![Founder] = row] /\ everOwner' = {Founder}
      /\ invitations' = invitations /\ joins' = joins /\ removals' = removals
      /\ call' = call /\ started' = started
  BY DEF CreateOrganization
<1> HIDE DEF row
<1>3. OrgTypeOK'
  BY <1>1, <1>2, OrgAssumption DEF OrgTypeOK
<1>4. /\ everOwner = {}
      /\ \A i \in Invitations : joins[i] = 0 /\ invitations[i] = NONE
      /\ \A a \in Accounts : removals[a] = 0 /\ members[a] = NONE
  BY <1>2 DEF TablesInv, StageInv
<1>5. members' \in [Accounts -> Member \cup {NONE}] /\ members'[Founder] = row
      /\ \A a \in Accounts \ {Founder} : members'[a] = NONE
  BY <1>2, <1>3, <1>4, OrgAssumption DEF OrgTypeOK
<1>6. StageInv' /\ \A i \in Invitations : InvitationInv(i)'
  BY <1>2, <1>4 DEF StageInv, InvitationInv
<1>7. (Owners \subseteq everOwner)'
  BY <1>2, <1>5 DEF Owners
<1>8. \A a \in Accounts : Joined(a)' = {}
  BY <1>2, <1>4 DEF Joined
<1>9. FewJoined'
  BY <1>8, FS_EmptySet DEF FewJoined
<1>10. ASSUME NEW a \in Accounts PROVE Balanced(a)'
  <2>1. Cardinality(Joined(a)') = 0
    BY <1>8, FS_EmptySet
  <2>2. removals'[a] = 0
    BY <1>2, <1>4
  <2> QED
    BY <1>1, <1>5, <2>1, <2>2 DEF Balanced
<1>11. TrailTellsMembership'
  BY <1>10 DEF TrailTellsMembership, Balanced, Joined
<1>12. KeepsFaith
  BY <1>2, <1>4 DEF KeepsFaith
<1> QED
  BY <1>3, <1>6, <1>7, <1>9, <1>11, <1>12 DEF TablesInv

(* A change of role needs an owner to make an owner, and moves nobody in   *)
(* or out.                                                                 *)
LEMMA UpdateMemberEffect ==
  ASSUME OrgInv, NEW c \in OrgCalls, updateMember(c)
  PROVE  OrgTypeOK' /\ TablesInv' /\ KeepsFaith
<1> USE DEF OrgInv
<1> DEFINE r == call[c]
           row == [members[r.user] EXCEPT !.role = r.role]
<1>1. /\ r.step = "counted" /\ r.op = "updateMember" /\ members[r.user] # NONE
      /\ members' = [members EXCEPT ![r.user] = row]
      /\ everOwner' = everOwner \cup (IF r.role = "owner" THEN {r.user} ELSE {})
      /\ organization' = organization /\ invitations' = invitations
      /\ joins' = joins /\ removals' = removals /\ Done(c)
  BY DEF updateMember, Committing, SameRow
<1>2. r # Idle
  BY <1>1, InFlight
<1>3. r.user \in Accounts /\ r.role \in Roles
  BY <1>1, <1>2, CallFields DEF CallInv
<1>4. row \in Member /\ row.role = r.role /\ row # NONE
  <2>1. members[r.user] \in Member
    BY <1>1, <1>3, MemberFields
  <2> QED
    BY <1>3, <2>1, NoneIsNoRow DEF Member
<1> HIDE DEF row, r
<1>5. /\ members' \in [Accounts -> Member \cup {NONE}] /\ members'[r.user] = row
      /\ \A a \in Accounts \ {r.user} : members'[a] = members[a]
  BY <1>1, <1>3, <1>4 DEF OrgTypeOK
<1>6. OrgTypeOK'
  BY <1>1, <1>3, <1>5, DoneStep DEF OrgTypeOK
<1>7. organization = "live"
  BY <1>1, <1>3 DEF TablesInv, StageInv
<1>8. StageInv' /\ \A i \in Invitations : InvitationInv(i)'
  BY <1>1, <1>7 DEF TablesInv, StageInv, InvitationInv
<1>9. (Owners \subseteq everOwner)'
  BY <1>1, <1>3, <1>4, <1>5 DEF TablesInv, Owners
<1>10. FewJoined' /\ TrailTellsMembership'
  BY <1>1, <1>3, <1>4, <1>5 DEF TablesInv, FewJoined, Joined, TrailTellsMembership
<1>11. KeepsFaith
  BY <1>1 DEF KeepsFaith
<1> QED
  BY <1>6, <1>8, <1>9, <1>10, <1>11 DEF TablesInv

(* A removal takes a member out and writes the entry that says so.         *)
LEMMA RemoveMemberEffect ==
  ASSUME OrgInv, NEW c \in OrgCalls, removeMember(c)
  PROVE  OrgTypeOK' /\ TablesInv' /\ KeepsFaith
<1> USE DEF OrgInv
<1> DEFINE u == call[c].user
<1>1. /\ call[c].step = "counted" /\ members[u] # NONE
      /\ members' = [members EXCEPT ![u] = NONE]
      /\ removals' = [removals EXCEPT ![u] = @ + 1]
      /\ organization' = organization /\ invitations' = invitations
      /\ joins' = joins /\ everOwner' = everOwner /\ Done(c)
  BY DEF removeMember, Committing, SameRow
<1>2. u \in Accounts
  BY <1>1, InFlight, CallFields
<1> HIDE DEF u
<1>3. /\ members' \in [Accounts -> Member \cup {NONE}] /\ members'[u] = NONE
      /\ removals' \in [Accounts -> Nat] /\ removals'[u] = removals[u] + 1
      /\ \A a \in Accounts \ {u} : members'[a] = members[a] /\ removals'[a] = removals[a]
  BY <1>1, <1>2 DEF OrgTypeOK
<1>4. OrgTypeOK'
  BY <1>1, <1>3, DoneStep DEF OrgTypeOK
<1>5. organization = "live"
  BY <1>1, <1>2 DEF TablesInv, StageInv
<1>6. StageInv' /\ \A i \in Invitations : InvitationInv(i)'
  BY <1>1, <1>5 DEF TablesInv, StageInv, InvitationInv
<1>7. (Owners \subseteq everOwner)'
  BY <1>1, <1>2, <1>3 DEF TablesInv, Owners
<1>8. \A a \in Accounts : Joined(a)' = Joined(a)
  BY <1>1 DEF Joined
<1>9. FewJoined'
  BY <1>1, <1>8 DEF TablesInv, FewJoined
<1>10. ASSUME NEW a \in Accounts PROVE Balanced(a)'
  <2>1. Balanced(a) /\ Cardinality(Joined(a)') = Cardinality(Joined(a))
    BY <1>5, <1>8 DEF TablesInv, TrailTellsMembership, Balanced, Joined
  <2>2. Cardinality(Joined(a)) \in Nat
    BY <1>5, FS_CardinalityType DEF TablesInv, FewJoined
  <2>3. removals[a] \in Nat
    BY DEF OrgTypeOK
  <2> QED
    BY <1>1, <1>3, <2>1, <2>2, <2>3 DEF Balanced
<1>11. TrailTellsMembership'
  BY <1>10 DEF TrailTellsMembership, Balanced, Joined
<1>12. KeepsFaith
  BY <1>1 DEF KeepsFaith
<1> QED
  BY <1>4, <1>6, <1>7, <1>9, <1>11, <1>12 DEF TablesInv

(* An invitation that makes an owner has an owner for its inviter, and an  *)
(* unwritten row has never let anybody in.                                 *)
LEMMA CreateInvitationEffect ==
  ASSUME OrgInv, NEW c \in OrgCalls, createInvitation(c)
  PROVE  OrgTypeOK' /\ TablesInv' /\ KeepsFaith
<1> USE DEF OrgInv
<1> DEFINE r == call[c]
           row == [email |-> r.user, role |-> r.role, status |-> "pending", inviter |-> r.actor]
<1>1. PICK i \in Invitations :
        /\ invitations[i] = NONE
        /\ invitations' = [invitations EXCEPT ![i] = row]
  BY DEF createInvitation
<1>2. /\ r.step = "counted" /\ r.op = "createInvitation" /\ organization = "live"
      /\ organization' = organization /\ members' = members /\ removals' = removals
      /\ joins' = joins /\ everOwner' = everOwner /\ Done(c)
  BY DEF createInvitation, Committing
<1>3. r # Idle
  BY <1>2, InFlight
<1>4. /\ r.user \in Accounts /\ r.actor \in Accounts /\ r.role \in Roles
      /\ r.role = "owner" => r.actor \in everOwner
  BY <1>2, <1>3, CallFields DEF CallInv
<1>5. row \in Invitation /\ row.role = r.role /\ row.inviter = r.actor /\ row # NONE
  BY <1>4, NoneIsNoRow DEF Invitation
<1> HIDE DEF row, r
<1>6. /\ invitations' \in [Invitations -> Invitation \cup {NONE}] /\ invitations'[i] = row
      /\ \A j \in Invitations \ {i} : invitations'[j] = invitations[j]
  BY <1>1, <1>5 DEF OrgTypeOK
<1>7. OrgTypeOK'
  BY <1>2, <1>6, DoneStep DEF OrgTypeOK
<1>8. StageInv'
  BY <1>2 DEF TablesInv, StageInv
<1>9. joins[i] = 0
  BY <1>1, <1>2 DEF TablesInv, InvitationInv
<1>10. InvitationInv(i)'
  BY <1>2, <1>4, <1>5, <1>6, <1>9 DEF InvitationInv
<1>11. \A j \in Invitations \ {i} : InvitationInv(j)'
  BY <1>2, <1>6 DEF TablesInv, InvitationInv
<1>12. (Owners \subseteq everOwner)'
  BY <1>2 DEF TablesInv, Owners
<1>13. \A a \in Accounts : Joined(a)' = Joined(a)
  BY <1>2, <1>6, <1>9 DEF Joined
<1>14. FewJoined' /\ TrailTellsMembership'
  <2>1. \A a \in Accounts : IsFiniteSet(Joined(a)) /\ Balanced(a)
    BY <1>2 DEF TablesInv, FewJoined, TrailTellsMembership, Balanced, Joined
  <2>2. \A a \in Accounts : IsFiniteSet(Joined(a)') /\ Balanced(a)'
    BY <1>2, <1>13, <2>1 DEF Balanced
  <2> QED
    BY <2>2 DEF FewJoined, TrailTellsMembership, Balanced, Joined
<1>15. KeepsFaith
  BY <1>1, <1>2, <1>6 DEF KeepsFaith
<1> QED
  BY <1>7, <1>8, <1>10, <1>11, <1>12, <1>14, <1>15 DEF TablesInv

(* A cancelled invitation is no longer pending; who joined by it stays in. *)
LEMMA CancelInvitationEffect ==
  ASSUME OrgInv, NEW c \in OrgCalls, cancelInvitation(c)
  PROVE  OrgTypeOK' /\ TablesInv' /\ KeepsFaith
<1> USE DEF OrgInv
<1>2. PICK i \in Invitations : i = call[c].invitation
  BY InFlight DEF CallInv, cancelInvitation, Committing
<1> DEFINE row == [invitations[i] EXCEPT !.status = "canceled"]
<1>1. /\ call[c].step = "counted" /\ call[c].op = "cancelInvitation" /\ invitations[i] # NONE
      /\ invitations' = [invitations EXCEPT ![i] = row]
      /\ organization' = organization /\ members' = members /\ removals' = removals
      /\ joins' = joins /\ everOwner' = everOwner /\ Done(c)
  BY <1>2 DEF cancelInvitation, Committing
<1>3. invitations[i] \in Invitation
  BY <1>1, <1>2, InvitationFields
<1>4. /\ row \in Invitation /\ row # NONE /\ row.status = "canceled"
      /\ row.email = invitations[i].email /\ row.role = invitations[i].role
      /\ row.inviter = invitations[i].inviter
  BY <1>3, NoneIsNoRow DEF Invitation
<1> HIDE DEF row
<1>5. /\ invitations' \in [Invitations -> Invitation \cup {NONE}] /\ invitations'[i] = row
      /\ \A j \in Invitations \ {i} : invitations'[j] = invitations[j]
  BY <1>1, <1>2, <1>4 DEF OrgTypeOK
<1>6. OrgTypeOK'
  BY <1>1, <1>5, DoneStep DEF OrgTypeOK
<1>7. organization = "live"
  BY <1>1, <1>2 DEF TablesInv, StageInv
<1>8. StageInv'
  BY <1>1, <1>7 DEF TablesInv, StageInv
<1>9. InvitationInv(i)'
  BY <1>1, <1>2, <1>4, <1>5 DEF TablesInv, InvitationInv
<1>10. \A j \in Invitations \ {i} : InvitationInv(j)'
  BY <1>1, <1>5 DEF TablesInv, InvitationInv
<1>11. (Owners \subseteq everOwner)'
  BY <1>1 DEF TablesInv, Owners
<1>12. \A a \in Accounts : Joined(a)' = Joined(a)
  BY <1>1, <1>2, <1>4, <1>5 DEF Joined
<1>13. FewJoined' /\ TrailTellsMembership'
  <2>1. \A a \in Accounts : IsFiniteSet(Joined(a)) /\ Balanced(a)
    BY <1>7 DEF TablesInv, FewJoined, TrailTellsMembership, Balanced, Joined
  <2>2. \A a \in Accounts : IsFiniteSet(Joined(a)') /\ Balanced(a)'
    BY <1>1, <1>12, <2>1 DEF Balanced
  <2> QED
    BY <2>2 DEF FewJoined, TrailTellsMembership, Balanced, Joined
<1>14. KeepsFaith
  BY <1>1, <1>2, <1>4, <1>5 DEF KeepsFaith
<1> QED
  BY <1>2, <1>6, <1>8, <1>9, <1>10, <1>11, <1>13, <1>14 DEF TablesInv

(* An acceptance uses up an invitation nobody has used, and the new member *)
(* is an owner only by the word of one.                                    *)
LEMMA AcceptInvitationEffect ==
  ASSUME OrgInv, NEW c \in OrgCalls, acceptInvitation(c)
  PROVE  OrgTypeOK' /\ TablesInv' /\ KeepsFaith
<1> USE DEF OrgInv
<1>1. /\ call[c].step = "counted" /\ call[c].op = "acceptInvitation"
      /\ call[c] # Idle
  BY InFlight DEF acceptInvitation, Committing
<1>2. PICK i \in Invitations : i = call[c].invitation
  BY <1>1 DEF CallInv
<1>3. PICK u \in Accounts : u = call[c].actor
  BY <1>1, CallFields
<1> DEFINE seen == call[c].seen
           row == [invitations[i] EXCEPT !.status = "accepted"]
           joined == [role |-> seen.role, row |-> removals[u] + 1]
<1>4. /\ invitations[i] # NONE /\ invitations[i].status = "pending" /\ members[u] = NONE
      /\ invitations' = [invitations EXCEPT ![i] = row]
      /\ members' = [members EXCEPT ![u] = joined]
      /\ joins' = [joins EXCEPT ![i] = @ + 1]
      /\ everOwner' = everOwner \cup (IF seen.role = "owner" THEN {u} ELSE {})
      /\ organization' = organization /\ removals' = removals /\ Done(c)
  BY <1>2, <1>3 DEF acceptInvitation, Acceptable
<1>5. organization = "live"
  BY <1>4 DEF TablesInv, StageInv
<1>6. /\ invitations[i] \in Invitation
      /\ invitations[i].email = u /\ invitations[i].role = seen.role
  BY <1>1, <1>2, <1>3, <1>4, <1>5, InvitationFields DEF CallInv, Reread
<1>7. /\ row \in Invitation /\ row # NONE /\ row.status = "accepted"
      /\ row.email = u /\ row.role = invitations[i].role
      /\ row.inviter = invitations[i].inviter
  BY <1>6, NoneIsNoRow DEF Invitation
<1>8. seen.role \in Roles
  BY <1>6 DEF Invitation
<1>9. joined \in Member /\ joined # NONE /\ joined.role = seen.role
  BY <1>8, NoneIsNoRow DEF Member, OrgTypeOK
<1> HIDE DEF row, joined, seen
<1>10. /\ invitations' \in [Invitations -> Invitation \cup {NONE}] /\ invitations'[i] = row
       /\ \A j \in Invitations \ {i} : invitations'[j] = invitations[j]
  BY <1>4, <1>7 DEF OrgTypeOK
<1>11. /\ members' \in [Accounts -> Member \cup {NONE}] /\ members'[u] = joined
       /\ \A a \in Accounts \ {u} : members'[a] = members[a]
  BY <1>4, <1>9 DEF OrgTypeOK
<1>12. joins[i] = 0
  BY <1>4 DEF TablesInv, InvitationInv
<1>13. /\ joins' \in [Invitations -> Nat] /\ joins'[i] = 1
       /\ \A j \in Invitations \ {i} : joins'[j] = joins[j]
  BY <1>4, <1>12 DEF OrgTypeOK
<1>14. OrgTypeOK'
  BY <1>4, <1>10, <1>11, <1>13, DoneStep DEF OrgTypeOK
<1>15. StageInv'
  BY <1>4, <1>5 DEF StageInv
<1>16. InvitationInv(i)'
  BY <1>4, <1>7, <1>10 DEF TablesInv, InvitationInv
<1>17. \A j \in Invitations \ {i} : InvitationInv(j)'
  BY <1>4, <1>10, <1>13 DEF TablesInv, InvitationInv
<1>18. (Owners \subseteq everOwner)'
  BY <1>4, <1>9, <1>11 DEF TablesInv, Owners
<1>19. Joined(u)' = Joined(u) \cup {i} /\ i \notin Joined(u)
  BY <1>7, <1>10, <1>12, <1>13 DEF Joined
<1>20. \A a \in Accounts \ {u} : Joined(a)' = Joined(a)
  BY <1>6, <1>7, <1>10, <1>12, <1>13 DEF Joined
<1>21. \A a \in Accounts : IsFiniteSet(Joined(a)) /\ Balanced(a)
  BY <1>5 DEF TablesInv, FewJoined, TrailTellsMembership, Balanced, Joined
<1>22. /\ IsFiniteSet(Joined(u)')
       /\ Cardinality(Joined(u)') = Cardinality(Joined(u)) + 1
       /\ Cardinality(Joined(u)) \in Nat
  BY <1>19, <1>21, FS_AddElement, FS_CardinalityType
<1>23. Balanced(u)'
  <2>1. removals'[u] = removals[u] /\ removals[u] \in Nat
    BY <1>4 DEF OrgTypeOK
  <2> QED
    BY <1>4, <1>9, <1>11, <1>21, <1>22, <2>1 DEF Balanced
<1>24. \A a \in Accounts \ {u} : IsFiniteSet(Joined(a)') /\ Balanced(a)'
  BY <1>4, <1>11, <1>20, <1>21 DEF Balanced
<1>25. FewJoined' /\ TrailTellsMembership'
  BY <1>22, <1>23, <1>24 DEF FewJoined, TrailTellsMembership, Balanced, Joined
<1>26. KeepsFaith
  BY <1>4, <1>6, <1>7, <1>10 DEF KeepsFaith
<1> QED
  BY <1>14, <1>15, <1>16, <1>17, <1>18, <1>25, <1>26 DEF TablesInv

(* A deleted organization has nobody and nothing left.                     *)
LEMMA DeleteOrganizationEffect ==
  ASSUME OrgInv, NEW c \in OrgCalls, DeleteOrganization(c)
  PROVE  OrgTypeOK' /\ TablesInv' /\ KeepsFaith
<1> USE DEF OrgInv
<1>1. /\ organization' = "deleted" /\ members' = [a \in Accounts |-> NONE]
      /\ invitations' = [i \in Invitations |-> NONE]
      /\ joins' = joins /\ removals' = removals /\ everOwner' = everOwner /\ Done(c)
  BY DEF DeleteOrganization
<1>2. OrgTypeOK'
  BY <1>1, DoneStep DEF OrgTypeOK
<1>3. TablesInv'
  BY <1>1 DEF TablesInv, StageInv, InvitationInv, Owners, FewJoined, TrailTellsMembership
<1>4. KeepsFaith
  BY <1>1 DEF KeepsFaith
<1> QED
  BY <1>2, <1>3, <1>4

--------------------------------------------------------------------------------
(* Every step keeps the invariant.                                         *)
LEMMA OrgInvStep == OrgInv /\ [OrgNext]_orgVars => OrgInv'
<1> SUFFICES ASSUME OrgInv, [OrgNext]_orgVars PROVE OrgInv'
  OBVIOUS
<1>1. CASE CreateOrganization
  <2>1. \A c \in OrgCalls : call'[c] = call[c]
    BY <1>1 DEF CreateOrganization
  <2> QED
    BY <1>1, <2>1, CreateOrganizationEffect, CallKept DEF OrgInv
<1>2. ASSUME NEW c \in OrgCalls, ReadStep(c) PROVE OrgInv'
  <2>1. /\ UNCHANGED orgTables /\ started' \in 0 .. MaxOrgCalls
        /\ call' \in [OrgCalls -> OrgCall \cup {Idle}]
        /\ \A d \in OrgCalls \ {c} : call'[d] = call[d]
        /\ CallInv(c)'
    BY <1>2, ReadStepEffect
  <2>2. OrgTypeOK'
    BY <2>1 DEF OrgInv, OrgTypeOK, orgTables
  <2>3. TablesInv'
    BY <2>1 DEF OrgInv, TablesInv, orgTables, StageInv, InvitationInv, Owners, FewJoined,
                Joined, TrailTellsMembership
  <2>4. KeepsFaith
    BY <2>1 DEF KeepsFaith, orgTables
  <2> QED
    BY <2>1, <2>2, <2>3, <2>4, CallKept DEF OrgInv
<1>3. ASSUME NEW c \in OrgCalls, OrgCommit(c) PROVE OrgInv'
  <2>1. Done(c)
    BY <1>3 DEF OrgCommit, updateMember, removeMember, createInvitation, cancelInvitation,
                acceptInvitation, DeleteOrganization
  <2>2. OrgTypeOK' /\ TablesInv' /\ KeepsFaith
    BY <1>3, UpdateMemberEffect, RemoveMemberEffect, CreateInvitationEffect,
       CancelInvitationEffect, AcceptInvitationEffect, DeleteOrganizationEffect DEF OrgCommit
  <2>3. CallInv(c)' /\ \A d \in OrgCalls \ {c} : call'[d] = call[d]
    BY <2>1, DoneStep
  <2> QED
    BY <2>2, <2>3, CallKept DEF OrgInv
<1>4. CASE UNCHANGED orgVars
  BY <1>4 DEF OrgInv, OrgTypeOK, orgVars, orgTables, TablesInv, StageInv, InvitationInv,
              Owners, FewJoined, Joined, TrailTellsMembership, CallInv, Reread
<1> QED
  BY <1>1, <1>2, <1>3, <1>4 DEF OrgNext, ReadStep

(* The tables and the calls of an organization keep their types.           *)
THEOREM OrgTypesOk == OrgSpec => []OrgTypeOK
<1>1. OrgInv => OrgTypeOK
  BY DEF OrgInv
<1> QED
  BY <1>1, OrgInvInit, OrgInvStep, PTL DEF OrgSpec

(* However calls overtake each other, every account's membership is the    *)
(* joinings less the removals that the trail tells of.                     *)
THEOREM TrailIsTrue == OrgSpec => []TrailTellsMembership
<1>1. OrgInv => TrailTellsMembership
  BY DEF OrgInv, TablesInv
<1> QED
  BY <1>1, OrgInvInit, OrgInvStep, PTL DEF OrgSpec

--------------------------------------------------------------------------------
(* Only an acceptance of a pending, unused invitation counts as a joining. *)
LEMMA JoinStep ==
  ASSUME OrgInv, [OrgNext]_orgVars, NEW i \in Invitations, joins'[i] # joins[i]
  PROVE  joins[i] = 0 /\ invitations[i].status = "pending"
<1>1. PICK c \in OrgCalls : acceptInvitation(c)
  <2>1. ~ CreateOrganization /\ ~ UNCHANGED orgVars
    BY DEF CreateOrganization, orgVars, orgTables
  <2>2. PICK c \in OrgCalls : ReadStep(c) \/ OrgCommit(c)
    BY <2>1 DEF OrgNext, ReadStep
  <2>3. ~ ReadStep(c)
    BY ReadStepEffect DEF orgTables
  <2> QED
    BY <2>2, <2>3 DEF OrgCommit, updateMember, removeMember, createInvitation,
                      cancelInvitation, DeleteOrganization
<1>2. /\ joins' = [joins EXCEPT ![call[c].invitation] = @ + 1]
      /\ Acceptable(call[c].invitation)
  BY <1>1 DEF acceptInvitation
<1>3. i = call[c].invitation
  BY <1>2 DEF OrgInv, OrgTypeOK
<1> QED
  BY <1>2, <1>3 DEF OrgInv, TablesInv, InvitationInv, Acceptable

(* An invitation makes a member once, however its acceptances, removals    *)
(* and cancellations interleave.                                           *)
THEOREM InvitationsAreUsedOnce == OrgSpec => InvitationUsedOnce
<1>1. OrgInv /\ [OrgNext]_orgVars =>
        [\A i \in Invitations : joins'[i] # joins[i] =>
            joins[i] = 0 /\ invitations[i].status = "pending"]_orgVars
  BY JoinStep
<1> QED
  BY <1>1, OrgInvInit, OrgInvStep, PTL DEF OrgSpec, InvitationUsedOnce

(* A step that makes an owner is the founding, or it ends a call whose     *)
(* grantor has been an owner.                                              *)
LEMMA OwnerStep ==
  ASSUME OrgInv, [OrgNext]_orgVars, NEW a \in Owners' \ Owners
  PROVE  \/ organization = "absent"
         \/ \E c \in OrgCalls : /\ call[c] # Idle /\ call'[c] = Idle
                                /\ Grantor(call[c]) \in everOwner
<1> USE DEF OrgInv
<1>1. CASE CreateOrganization
  BY <1>1 DEF CreateOrganization
<1>2. ASSUME members' = members PROVE FALSE
  BY <1>2 DEF Owners
<1>3. ASSUME NEW c \in OrgCalls, OrgCommit(c) PROVE call[c] # Idle /\ call'[c] = Idle
  <2>1. Done(c)
    BY <1>3 DEF OrgCommit, updateMember, removeMember, createInvitation, cancelInvitation,
                acceptInvitation, DeleteOrganization
  <2>2. call[c].step \in {"guarded", "checked", "counted"}
    BY <1>3 DEF OrgCommit, updateMember, removeMember, createInvitation, cancelInvitation,
                acceptInvitation, DeleteOrganization, Committing
  <2> QED
    BY <2>1, <2>2, InFlight DEF Done, OrgTypeOK
<1>4. ASSUME NEW c \in OrgCalls, updateMember(c) PROVE Grantor(call[c]) \in everOwner
  <2>1. /\ call[c].op = "updateMember" /\ call[c].step = "counted"
        /\ members' = [members EXCEPT ![call[c].user].role = call[c].role]
    BY <1>4 DEF updateMember, Committing
  <2>2. call[c] # Idle
    BY <2>1, InFlight
  <2>3. call[c].role = "owner"
    BY <2>1 DEF Owners, OrgTypeOK
  <2> QED
    BY <2>1, <2>2, <2>3 DEF CallInv, Grantor
<1>5. ASSUME NEW c \in OrgCalls, removeMember(c) PROVE FALSE
  BY <1>5 DEF removeMember, Owners, OrgTypeOK
<1>6. ASSUME NEW c \in OrgCalls, acceptInvitation(c) PROVE Grantor(call[c]) \in everOwner
  <2>1. /\ call[c].op = "acceptInvitation" /\ call[c].step = "counted"
        /\ members[call[c].actor] = NONE /\ invitations[call[c].invitation] # NONE
        /\ members' = [members EXCEPT ![call[c].actor] =
              [role |-> call[c].seen.role, row |-> removals[call[c].actor] + 1]]
    BY <1>6 DEF acceptInvitation, Committing, Acceptable
  <2>2. call[c] # Idle
    BY <2>1, InFlight
  <2>3. call[c].seen.role = "owner"
    BY <2>1 DEF Owners, OrgTypeOK
  <2>4. organization = "live"
    BY <2>1, <2>2 DEF TablesInv, StageInv, CallInv
  <2>5. /\ call[c].invitation \in Invitations
        /\ invitations[call[c].invitation].role = "owner"
    BY <2>1, <2>2, <2>3, <2>4 DEF CallInv, Reread
  <2> QED
    BY <2>1, <2>5 DEF TablesInv, InvitationInv, Grantor
<1>7. ASSUME NEW c \in OrgCalls, DeleteOrganization(c) PROVE FALSE
  BY <1>7 DEF DeleteOrganization, Owners
<1>8. ASSUME NEW c \in OrgCalls, createInvitation(c) \/ cancelInvitation(c) PROVE FALSE
  BY <1>8, <1>2 DEF createInvitation, cancelInvitation
<1>9. ASSUME NEW c \in OrgCalls, ReadStep(c) PROVE FALSE
  BY <1>9, <1>2, ReadStepEffect DEF orgTables
<1>10. ~ UNCHANGED orgVars
  BY <1>2 DEF orgVars, orgTables
<1> QED
  BY <1>1, <1>3, <1>4, <1>5, <1>6, <1>7, <1>8, <1>9, <1>10 DEF OrgNext, ReadStep, OrgCommit

(* Nobody becomes an owner without an owner's act, whatever has changed    *)
(* since the guard read the role that a call was let in with.              *)
THEOREM OwnersComeFromOwners == OrgSpec => OwnerRoleOnlyFromOwners
<1>1. OrgInv /\ [OrgNext]_orgVars =>
        [\A a \in Owners' \ Owners :
            \/ organization = "absent"
            \/ \E c \in OrgCalls : /\ call[c] # Idle /\ call'[c] = Idle
                                   /\ Grantor(call[c]) \in everOwner]_orgVars
  BY OwnerStep
<1> QED
  BY <1>1, OrgInvInit, OrgInvStep, PTL DEF OrgSpec, OwnerRoleOnlyFromOwners

--------------------------------------------------------------------------------
(* Projects *)

(* An id that a customer has, or had, is never given to another one.       *)
Minted(u) == entries[u]["created"] > 0

(* A call carries what its operation needs; a payment about to be inserted *)
(* names an id that was a customer's of its environment, and if there is a *)
(* customer of that id now, it is that one.                                *)
ProjectCallInv(c) ==
    pcall[c] # NoCall =>
        /\ pcall[c].op \in {"createCustomer", "updateCustomer"} => pcall[c].email \in Emails
        /\ pcall[c].op \in {"updateCustomer", "deleteCustomer", "createPayment"} =>
               pcall[c].target \in CustomerIds
        /\ pcall[c].op = "revokeKey" => pcall[c].target \in KeyIds
        /\ pcall[c].step = "read" => pcall[c].op = "deleteCustomer"
        /\ pcall[c].op = "createPayment" /\ pcall[c].step = "ready" =>
               /\ Minted(pcall[c].target)
               /\ customers[pcall[c].target] # NONE =>
                      customers[pcall[c].target].environment = pcall[c].environment

(* A payment's customer is there, in the environment of the payment.       *)
Kept(p) ==
    paymentRows[p] # NONE =>
        /\ customers[paymentRows[p].customer] # NONE
        /\ customers[paymentRows[p].customer].environment = paymentRows[p].environment

(* A deleted project has no row of any kind.                               *)
Emptied ==
    project = "deleted" =>
        /\ \A p \in PaymentIds : paymentRows[p] = NONE
        /\ \A u \in CustomerIds : customers[u] = NONE
        /\ \A k \in KeyIds : keys[k] = NONE

RowsInv ==
    /\ \A u \in CustomerIds : customers[u] # NONE => Minted(u)
    /\ \A p \in PaymentIds : Kept(p)
    /\ Emptied

ProjectInv == ProjectTypeOK /\ RowsInv /\ \A c \in ProjectCalls : ProjectCallInv(c)

(* What the tables of a project keep while calls are in flight: an id that *)
(* was given stays given, and no customer takes it over or moves.          *)
KeepsIds ==
    /\ \A u \in CustomerIds : entries'[u]["created"] >= entries[u]["created"]
    /\ \A u \in CustomerIds :
           Minted(u) /\ customers'[u] # NONE =>
               /\ customers[u] # NONE
               /\ customers'[u].environment = customers[u].environment

(* The steps that read, and those that write the tables.                   *)
Reads(c) ==
    \/ ProjectStart(c) \/ findScopedCustomer(c) \/ CountPayments(c) \/ FindKey(c)
    \/ FindCustomer(c) \/ RollsBack(c)

Writes(c) ==
    \/ createKey(c) \/ revokeKey(c) \/ createCustomer(c) \/ updateCustomer(c)
    \/ deleteCustomer(c) \/ createPayment(c) \/ deleteProject(c)

(* No rows, no entries, no calls.                                          *)
LEMMA ProjectInvInit == ProjectInit => ProjectInv
  BY ProjectAssumption
  DEF ProjectInit, ProjectInv, ProjectTypeOK, RowsInv, Kept, Emptied, Minted,
      ProjectCallInv, Actions

(* A call in flight is a record of the types its fields have.              *)
LEMMA ProjectCallFields ==
  ASSUME ProjectTypeOK, NEW c \in ProjectCalls, pcall[c] # NoCall
  PROVE  /\ pcall[c] \in ProjectCall
         /\ pcall[c].environment \in Environments
         /\ pcall[c].seen \in KeyRow \cup CustomerRow \cup {NONE}
  BY DEF ProjectTypeOK, ProjectCall

(* A call that is somewhere in its handler is in flight.                   *)
LEMMA ProjectInFlight ==
  ASSUME NEW c \in ProjectCalls, pcall[c].step \in {"granted", "read", "ready"}
  PROVE  pcall[c] # NoCall
  BY DEF NoCall

(* Customers have the fields of their table.                               *)
LEMMA CustomerFields ==
  ASSUME ProjectTypeOK, NEW u \in CustomerIds, customers[u] # NONE
  PROVE  /\ customers[u] \in CustomerRow
         /\ customers[u].environment \in Environments /\ customers[u].email \in Emails
  BY DEF ProjectTypeOK, CustomerRow

(* A call that ends leaves the others as they are.                         *)
LEMMA EndStep ==
  ASSUME ProjectInv, NEW c \in ProjectCalls, EndCall(c)
  PROVE  /\ pstarted' \in 0 .. MaxProjectCalls
         /\ pcall' \in [ProjectCalls -> ProjectCall \cup {NoCall}]
         /\ \A d \in ProjectCalls \ {c} : pcall'[d] = pcall[d]
         /\ ProjectCallInv(c)'
  BY DEF ProjectInv, ProjectTypeOK, EndCall, ProjectCallInv

(* A call that is let in carries what it was asked with.                   *)
LEMMA AuthorizeStep ==
  ASSUME ProjectInv, NEW c \in ProjectCalls,
         NEW op \in CustomerOps \cup SessionOnly \cup {"createPayment"},
         NEW key \in KeyIds \cup {NONE}, NEW env \in Environments,
         NEW target \in KeyIds \cup CustomerIds \cup {NONE}, NEW email \in Emails \cup {NONE},
         op \in {"createCustomer", "updateCustomer"} => email \in Emails,
         op \in {"updateCustomer", "deleteCustomer", "createPayment"} => target \in CustomerIds,
         op = "revokeKey" => target \in KeyIds,
         Authorize(c, op, key, env, target, email)
  PROVE  /\ UNCHANGED projectTables /\ pstarted' \in 0 .. MaxProjectCalls
         /\ pcall' \in [ProjectCalls -> ProjectCall \cup {NoCall}]
         /\ \A d \in ProjectCalls \ {c} : pcall'[d] = pcall[d]
         /\ ProjectCallInv(c)'
<1> USE DEF ProjectInv
<1> DEFINE q == [step |-> "granted", op |-> op, key |-> key, target |-> target,
                 environment |-> env, email |-> email, seen |-> NONE]
<1>1. q \in ProjectCall
  BY DEF ProjectCall
<1>2. q.step = "granted" /\ q.op = op /\ q.target = target /\ q.email = email
  OBVIOUS
<1>3. pcall' = [pcall EXCEPT ![c] = q] /\ UNCHANGED projectTables
      /\ pstarted' = pstarted + 1 /\ pstarted < MaxProjectCalls
  BY DEF Authorize
<1> HIDE DEF q
<1>4. /\ pcall' \in [ProjectCalls -> ProjectCall \cup {NoCall}] /\ pcall'[c] = q
      /\ \A d \in ProjectCalls \ {c} : pcall'[d] = pcall[d]
  BY <1>1, <1>3 DEF ProjectTypeOK
<1>5. pstarted' \in 0 .. MaxProjectCalls
  BY <1>3, ProjectAssumption DEF ProjectTypeOK
<1>6. ProjectCallInv(c)'
  BY <1>2, <1>4 DEF ProjectCallInv
<1> QED
  BY <1>3, <1>4, <1>5, <1>6

(* Every request is let in that way.                                       *)
LEMMA ProjectStartStep ==
  ASSUME ProjectInv, NEW c \in ProjectCalls, ProjectStart(c)
  PROVE  /\ UNCHANGED projectTables /\ pstarted' \in 0 .. MaxProjectCalls
         /\ pcall' \in [ProjectCalls -> ProjectCall \cup {NoCall}]
         /\ \A d \in ProjectCalls \ {c} : pcall'[d] = pcall[d]
         /\ ProjectCallInv(c)'
<1>1. PICK key \in KeyIds \cup {NONE}, env \in Environments :
        \/ Authorize(c, "createKey", key, env, NONE, NONE)
        \/ \E k \in KeyIds : Authorize(c, "revokeKey", key, env, k, NONE)
        \/ Authorize(c, "deleteProject", key, env, NONE, NONE)
        \/ \E email \in Emails : Authorize(c, "createCustomer", key, env, NONE, email)
        \/ \E u \in CustomerIds :
              \/ \E email \in Emails : Authorize(c, "updateCustomer", key, env, u, email)
              \/ \E op \in {"deleteCustomer", "createPayment"} : Authorize(c, op, key, env, u, NONE)
  BY DEF ProjectStart
<1> USE DEF CustomerOps, SessionOnly, KeyOps
<1>2. CASE Authorize(c, "createKey", key, env, NONE, NONE)
  BY <1>2, AuthorizeStep
<1>3. CASE \E k \in KeyIds : Authorize(c, "revokeKey", key, env, k, NONE)
  BY <1>3, AuthorizeStep
<1>4. CASE Authorize(c, "deleteProject", key, env, NONE, NONE)
  BY <1>4, AuthorizeStep
<1>5. CASE \E email \in Emails : Authorize(c, "createCustomer", key, env, NONE, email)
  BY <1>5, AuthorizeStep
<1>6. CASE \E u \in CustomerIds, email \in Emails : Authorize(c, "updateCustomer", key, env, u, email)
  BY <1>6, AuthorizeStep
<1>7. CASE \E u \in CustomerIds, op \in {"deleteCustomer", "createPayment"} :
              Authorize(c, op, key, env, u, NONE)
  BY <1>7, AuthorizeStep
<1> QED
  BY <1>1, <1>2, <1>3, <1>4, <1>5, <1>6, <1>7

(* A call that goes on keeps what it was asked with.                       *)
LEMMA GoOnStep ==
  ASSUME ProjectInv, NEW c \in ProjectCalls, pcall[c] # NoCall,
         NEW step \in {"read", "ready"}, NEW x \in KeyRow \cup CustomerRow \cup {NONE},
         GoOn(c, step, x),
         step = "read" => pcall[c].op = "deleteCustomer",
         pcall[c].op = "createPayment" /\ step = "ready" =>
             /\ Minted(pcall[c].target)
             /\ customers[pcall[c].target] # NONE =>
                    customers[pcall[c].target].environment = pcall[c].environment
  PROVE  /\ UNCHANGED projectTables /\ pstarted' \in 0 .. MaxProjectCalls
         /\ pcall' \in [ProjectCalls -> ProjectCall \cup {NoCall}]
         /\ \A d \in ProjectCalls \ {c} : pcall'[d] = pcall[d]
         /\ ProjectCallInv(c)'
<1> USE DEF ProjectInv
<1> DEFINE q == [pcall[c] EXCEPT !.step = step, !.seen = x]
<1>1. pcall[c] \in ProjectCall
  BY ProjectCallFields
<1>2. q \in ProjectCall
  BY <1>1 DEF ProjectCall
<1>3. /\ q.step = step /\ q.op = pcall[c].op /\ q.target = pcall[c].target
      /\ q.email = pcall[c].email /\ q.environment = pcall[c].environment
  BY <1>1 DEF ProjectCall
<1>4. pcall' = [pcall EXCEPT ![c] = q] /\ UNCHANGED <<projectTables, pstarted>>
  BY DEF GoOn, ProjectTypeOK
<1> HIDE DEF q
<1>5. /\ pcall' \in [ProjectCalls -> ProjectCall \cup {NoCall}] /\ pcall'[c] = q
      /\ \A d \in ProjectCalls \ {c} : pcall'[d] = pcall[d]
  BY <1>2, <1>4 DEF ProjectTypeOK
<1>6. ProjectCallInv(c)'
  BY <1>3, <1>4, <1>5 DEF ProjectCallInv, Minted, projectTables
<1> QED
  BY <1>4, <1>5, <1>6 DEF ProjectTypeOK

(* A read writes nothing, and what the call takes from it holds.           *)
LEMMA ReadsEffect ==
  ASSUME ProjectInv, NEW c \in ProjectCalls, Reads(c)
  PROVE  /\ UNCHANGED projectTables /\ pstarted' \in 0 .. MaxProjectCalls
         /\ pcall' \in [ProjectCalls -> ProjectCall \cup {NoCall}]
         /\ \A d \in ProjectCalls \ {c} : pcall'[d] = pcall[d]
         /\ ProjectCallInv(c)'
<1> USE DEF ProjectInv
<1>1. CASE ProjectStart(c)
  BY <1>1, ProjectStartStep
<1>2. CASE Give(c)
  BY <1>2, EndStep DEF Give
<1>3. CASE findScopedCustomer(c) /\ ~ Give(c)
  <2> DEFINE row == customers[pcall[c].target]
             step == IF pcall[c].op = "deleteCustomer" THEN "read" ELSE "ready"
  <2>1. /\ pcall[c].step = "granted" /\ pcall[c].op \in {"updateCustomer", "deleteCustomer"}
        /\ row # NONE /\ GoOn(c, step, row)
    BY <1>3 DEF findScopedCustomer, Asked, Scoped
  <2>2. pcall[c] # NoCall
    BY <2>1, ProjectInFlight
  <2>3. row \in CustomerRow
    BY <2>1, <2>2, CustomerFields DEF ProjectCallInv
  <2> QED
    BY <2>1, <2>2, <2>3, GoOnStep
<1>4. CASE CountPayments(c) /\ ~ Give(c)
  <2>1. pcall[c].step = "read" /\ GoOn(c, "ready", pcall[c].seen)
    BY <1>4 DEF CountPayments
  <2>2. pcall[c] # NoCall
    BY <2>1, ProjectInFlight
  <2>3. pcall[c].op = "deleteCustomer"
    BY <2>1, <2>2 DEF ProjectCallInv
  <2>4. pcall[c].seen \in KeyRow \cup CustomerRow \cup {NONE}
    BY <2>2, ProjectCallFields
  <2> QED
    BY <2>1, <2>2, <2>3, <2>4, GoOnStep
<1>5. CASE FindKey(c) /\ ~ Give(c)
  <2> DEFINE row == keys[pcall[c].target]
  <2>1. /\ pcall[c].step = "granted" /\ pcall[c].op = "revokeKey"
        /\ row # NONE /\ GoOn(c, "ready", row)
    BY <1>5 DEF FindKey, Asked
  <2>2. pcall[c] # NoCall
    BY <2>1, ProjectInFlight
  <2>3. row \in KeyRow
    BY <2>1, <2>2 DEF ProjectCallInv, ProjectTypeOK
  <2> QED
    BY <2>1, <2>2, <2>3, GoOnStep
<1>6. CASE FindCustomer(c) /\ ~ Give(c)
  <2> DEFINE row == customers[pcall[c].target]
  <2>1. /\ pcall[c].step = "granted" /\ pcall[c].op = "createPayment"
        /\ row # NONE /\ row.environment = pcall[c].environment /\ GoOn(c, "ready", row)
    BY <1>6 DEF FindCustomer, Asked, Payable
  <2>2. pcall[c] # NoCall
    BY <2>1, ProjectInFlight
  <2>3. pcall[c].target \in CustomerIds /\ row \in CustomerRow
    BY <2>1, <2>2, CustomerFields DEF ProjectCallInv
  <2>4. Minted(pcall[c].target)
    BY <2>1, <2>3 DEF RowsInv
  <2> QED
    BY <2>1, <2>2, <2>3, <2>4, GoOnStep
<1>7. CASE RollsBack(c)
  BY <1>2, <1>7 DEF RollsBack
<1> QED
  BY <1>1, <1>2, <1>3, <1>4, <1>5, <1>6, <1>7 DEF Reads

(* A call that does nothing knows what it knew.                            *)
LEMMA ProjectCallKept ==
  ASSUME ProjectTypeOK, ProjectTypeOK', NEW c \in ProjectCalls, ProjectCallInv(c), KeepsIds,
         pcall'[c] = pcall[c]
  PROVE  ProjectCallInv(c)'
<1>1. CASE pcall[c] # NoCall /\ pcall[c].op = "createPayment" /\ pcall[c].step = "ready"
  <2>1. PICK u \in CustomerIds : u = pcall[c].target
    BY <1>1 DEF ProjectCallInv
  <2>2. Minted(u) /\ (customers[u] # NONE => customers[u].environment = pcall[c].environment)
    BY <1>1, <2>1 DEF ProjectCallInv
  <2>3. entries[u]["created"] \in Nat /\ entries'[u]["created"] \in Nat
    BY DEF ProjectTypeOK, Actions
  <2>4. entries'[u]["created"] > 0
    BY <2>2, <2>3 DEF Minted, KeepsIds
  <2>5. customers'[u] # NONE => customers'[u].environment = pcall[c].environment
    BY <2>2 DEF KeepsIds
  <2> QED
    BY <1>1, <2>1, <2>4, <2>5 DEF ProjectCallInv, Minted
<1>2. CASE ~ (pcall[c] # NoCall /\ pcall[c].op = "createPayment" /\ pcall[c].step = "ready")
  BY <1>2 DEF ProjectCallInv
<1> QED
  BY <1>1, <1>2

(* An audit entry is one more of its kind.                                 *)
LEMMA EntryStep ==
  ASSUME ProjectTypeOK, NEW x \in KeyIds \cup CustomerIds, NEW action \in Actions,
         Entry(x, action)
  PROVE  /\ entries' \in [KeyIds \cup CustomerIds -> [Actions -> Nat]]
         /\ \A u \in KeyIds \cup CustomerIds : entries'[u]["created"] >= entries[u]["created"]
         /\ action = "created" => entries'[x]["created"] > 0
         /\ \A u \in CustomerIds : Minted(u) => Minted(u)'
<1>1. \A u \in KeyIds \cup CustomerIds : entries[u] \in [Actions -> Nat]
  BY DEF ProjectTypeOK
<1> DEFINE e == [entries[x] EXCEPT ![action] = @ + 1]
<1>2. e \in [Actions -> Nat] /\ e[action] = entries[x][action] + 1
      /\ \A a \in Actions : e[a] >= entries[x][a]
  BY <1>1
<1>3. entries' = [entries EXCEPT ![x] = e]
  BY DEF Entry, ProjectTypeOK
<1> HIDE DEF e
<1>4. /\ entries' \in [KeyIds \cup CustomerIds -> [Actions -> Nat]] /\ entries'[x] = e
      /\ \A u \in (KeyIds \cup CustomerIds) \ {x} : entries'[u] = entries[u]
  BY <1>2, <1>3 DEF ProjectTypeOK
<1>5. "created" \in Actions
  BY DEF Actions
<1>6. \A u \in KeyIds \cup CustomerIds : entries'[u]["created"] >= entries[u]["created"]
  BY <1>1, <1>2, <1>4, <1>5
<1>7. entries[x][action] \in Nat
  BY <1>1
<1>8. action = "created" => entries'[x]["created"] > 0
  BY <1>2, <1>4, <1>7
<1>9. \A u \in CustomerIds : Minted(u) => Minted(u)'
  <2> TAKE u \in CustomerIds
  <2>1. entries[u]["created"] \in Nat /\ entries'[u]["created"] \in Nat
    BY <1>1, <1>4, <1>5
  <2> QED
    BY <1>6, <2>1 DEF Minted
<1> QED
  BY <1>4, <1>6, <1>8, <1>9

(* Keys have nothing to do with payments.                                  *)
LEMMA KeyEffect ==
  ASSUME ProjectInv, NEW c \in ProjectCalls, createKey(c) \/ revokeKey(c)
  PROVE  ProjectTypeOK' /\ RowsInv' /\ KeepsIds
<1> USE DEF ProjectInv
<1>1. PICK k \in KeyIds, row \in KeyRow, action \in {"created", "revoked"} :
        keys' = [keys EXCEPT ![k] = row] /\ Entry(k, action)
  <2>1. CASE createKey(c)
    <3>1. pcall[c].environment \in Environments
      BY <2>1, ProjectInFlight, ProjectCallFields DEF createKey, Asked
    <3>2. [environment |-> pcall[c].environment, revoked |-> FALSE] \in KeyRow
      BY <3>1 DEF KeyRow
    <3> QED
      BY <2>1, <3>2 DEF createKey
  <2>2. CASE revokeKey(c)
    <3> DEFINE k == pcall[c].target
    <3>1. k \in KeyIds
      BY <2>2, ProjectInFlight DEF revokeKey, Ready, ProjectCallInv
    <3>2. keys[k] \in KeyRow
      BY <2>2, <3>1 DEF revokeKey, ProjectTypeOK
    <3>3. [keys[k] EXCEPT !.revoked = TRUE] \in KeyRow
      BY <3>2 DEF KeyRow
    <3>4. keys' = [keys EXCEPT ![k] = [keys[k] EXCEPT !.revoked = TRUE]] /\ Entry(k, "revoked")
      BY <2>2 DEF revokeKey, ProjectTypeOK
    <3> HIDE DEF k
    <3> QED
      BY <3>1, <3>3, <3>4
  <2> QED
    BY <2>1, <2>2
<1>2. project = "live"
  <2>1. CASE createKey(c)
    BY <2>1 DEF createKey, ProjectExists
  <2>2. CASE revokeKey(c)
    <3>1. pcall[c].target \in KeyIds /\ keys[pcall[c].target] # NONE
      BY <2>2, ProjectInFlight DEF revokeKey, Ready, ProjectCallInv
    <3> QED
      BY <3>1 DEF RowsInv, Emptied, ProjectTypeOK
  <2> QED
    BY <2>1, <2>2
<1>3. /\ customers' = customers /\ paymentRows' = paymentRows /\ project' = project
      /\ EndCall(c)
  BY DEF createKey, revokeKey
<1>4. keys' \in [KeyIds -> KeyRow \cup {NONE}]
  BY <1>1 DEF ProjectTypeOK
<1>5. action \in Actions
  BY DEF Actions
<1>6. ProjectTypeOK'
  BY <1>1, <1>3, <1>4, <1>5, EndStep, EntryStep DEF ProjectTypeOK
<1>7. RowsInv'
  BY <1>1, <1>2, <1>3, <1>5, EntryStep DEF RowsInv, Kept, Emptied
<1>8. KeepsIds
  BY <1>1, <1>3, <1>5, EntryStep DEF KeepsIds
<1> QED
  BY <1>6, <1>7, <1>8

(* A new customer takes an id that no customer has ever had.               *)
LEMMA CreateCustomerEffect ==
  ASSUME ProjectInv, NEW c \in ProjectCalls, createCustomer(c)
  PROVE  ProjectTypeOK' /\ RowsInv' /\ KeepsIds
<1> USE DEF ProjectInv
<1> DEFINE r == pcall[c]
           row == [environment |-> r.environment, email |-> r.email]
<1>1. PICK u \in CustomerIds :
        /\ customers[u] = NONE /\ entries[u]["created"] = 0
        /\ customers' = [customers EXCEPT ![u] = row] /\ Entry(u, "created")
  BY DEF createCustomer
<1>2. /\ r.step = "granted" /\ r.op = "createCustomer" /\ project = "live"
      /\ project' = project /\ keys' = keys /\ paymentRows' = paymentRows /\ EndCall(c)
  BY DEF createCustomer, Asked, ProjectExists
<1>3. row \in CustomerRow
  BY <1>2, ProjectInFlight, ProjectCallFields DEF ProjectCallInv, CustomerRow
<1> HIDE DEF row, r
<1>4. /\ customers' \in [CustomerIds -> CustomerRow \cup {NONE}] /\ customers'[u] = row
      /\ \A v \in CustomerIds \ {u} : customers'[v] = customers[v]
  BY <1>1, <1>3 DEF ProjectTypeOK
<1>5. "created" \in Actions
  BY DEF Actions
<1>6. /\ entries' \in [KeyIds \cup CustomerIds -> [Actions -> Nat]]
      /\ \A v \in CustomerIds : entries'[v]["created"] >= entries[v]["created"]
      /\ entries'[u]["created"] > 0
      /\ \A v \in CustomerIds : Minted(v) => Minted(v)'
  BY <1>1, <1>5, EntryStep
<1>7. ProjectTypeOK'
  BY <1>2, <1>4, <1>6, EndStep DEF ProjectTypeOK
<1>8. \A v \in CustomerIds : customers'[v] # NONE => Minted(v)'
  BY <1>4, <1>6 DEF RowsInv, Minted
<1>9. ASSUME NEW p \in PaymentIds PROVE Kept(p)'
  <2>1. CASE paymentRows[p] # NONE
    <3>1. PICK v \in CustomerIds : v = paymentRows[p].customer
      BY <2>1 DEF ProjectTypeOK, PaymentRow
    <3>2. v # u
      BY <1>1, <2>1, <3>1 DEF RowsInv, Kept
    <3> QED
      BY <1>2, <1>4, <2>1, <3>1, <3>2 DEF RowsInv, Kept
  <2>2. CASE paymentRows[p] = NONE
    BY <1>2, <2>2 DEF Kept
  <2> QED
    BY <2>1, <2>2
<1>10. Emptied'
  BY <1>2 DEF Emptied
<1>11. KeepsIds
  BY <1>1, <1>4, <1>6 DEF KeepsIds, Minted
<1> QED
  BY <1>7, <1>8, <1>9, <1>10, <1>11 DEF RowsInv

(* An update leaves a customer where it lives.                             *)
LEMMA UpdateCustomerEffect ==
  ASSUME ProjectInv, NEW c \in ProjectCalls, updateCustomer(c)
  PROVE  ProjectTypeOK' /\ RowsInv' /\ KeepsIds
<1> USE DEF ProjectInv
<1>1. PICK u \in CustomerIds : u = pcall[c].target
  BY ProjectInFlight DEF updateCustomer, Ready, ProjectCallInv
<1>2. pcall[c].email \in Emails
  BY ProjectInFlight DEF updateCustomer, Ready, ProjectCallInv
<1> DEFINE row == [customers[u] EXCEPT !.email = pcall[c].email]
<1>3. /\ customers[u] # NONE /\ customers' = [customers EXCEPT ![u] = row]
      /\ Entry(u, "updated") /\ project' = project /\ keys' = keys
      /\ paymentRows' = paymentRows /\ EndCall(c)
  BY <1>1 DEF updateCustomer
<1>4. row \in CustomerRow /\ row.environment = customers[u].environment
  <2>1. customers[u] \in CustomerRow
    BY <1>3, CustomerFields
  <2> QED
    BY <1>2, <2>1 DEF CustomerRow
<1> HIDE DEF row
<1>5. /\ customers' \in [CustomerIds -> CustomerRow \cup {NONE}] /\ customers'[u] = row
      /\ \A v \in CustomerIds \ {u} : customers'[v] = customers[v]
  BY <1>3, <1>4 DEF ProjectTypeOK
<1>6. /\ entries' \in [KeyIds \cup CustomerIds -> [Actions -> Nat]]
      /\ \A v \in CustomerIds : entries'[v]["created"] >= entries[v]["created"]
      /\ \A v \in CustomerIds : Minted(v) => Minted(v)'
  <2>1. "updated" \in Actions
    BY DEF Actions
  <2> QED
    BY <1>3, <2>1, EntryStep
<1>7. ProjectTypeOK'
  BY <1>3, <1>5, <1>6, EndStep DEF ProjectTypeOK
<1>8. \A v \in CustomerIds : customers'[v] # NONE => Minted(v)'
  BY <1>3, <1>5, <1>6 DEF RowsInv
<1>9. row # NONE
  BY <1>4, NoneIsNoProjectRow
<1>10. ASSUME NEW p \in PaymentIds PROVE Kept(p)'
  BY <1>3, <1>4, <1>5, <1>9 DEF RowsInv, Kept, ProjectTypeOK, PaymentRow
<1>11. Emptied'
  BY <1>3 DEF RowsInv, Emptied, ProjectTypeOK
<1>12. KeepsIds
  BY <1>3, <1>4, <1>5, <1>6 DEF KeepsIds
<1> QED
  BY <1>7, <1>8, <1>10, <1>11, <1>12 DEF RowsInv

(* A customer with payments is not deleted.                                *)
LEMMA DeleteCustomerEffect ==
  ASSUME ProjectInv, NEW c \in ProjectCalls, deleteCustomer(c)
  PROVE  ProjectTypeOK' /\ RowsInv' /\ KeepsIds
<1> USE DEF ProjectInv
<1>1. PICK u \in CustomerIds : u = pcall[c].target
  BY ProjectInFlight DEF deleteCustomer, Ready, ProjectCallInv
<1>2. /\ ~ Restricts(u) /\ customers' = [customers EXCEPT ![u] = NONE]
      /\ Entry(u, "deleted") /\ project' = project /\ keys' = keys
      /\ paymentRows' = paymentRows /\ EndCall(c)
  BY <1>1 DEF deleteCustomer
<1>3. /\ customers' \in [CustomerIds -> CustomerRow \cup {NONE}] /\ customers'[u] = NONE
      /\ \A v \in CustomerIds \ {u} : customers'[v] = customers[v]
  BY <1>2 DEF ProjectTypeOK
<1>4. /\ entries' \in [KeyIds \cup CustomerIds -> [Actions -> Nat]]
      /\ \A v \in CustomerIds : entries'[v]["created"] >= entries[v]["created"]
      /\ \A v \in CustomerIds : Minted(v) => Minted(v)'
  <2>1. "deleted" \in Actions
    BY DEF Actions
  <2> QED
    BY <1>2, <2>1, EntryStep
<1>5. ProjectTypeOK'
  BY <1>2, <1>3, <1>4, EndStep DEF ProjectTypeOK
<1>6. \A v \in CustomerIds : customers'[v] # NONE => Minted(v)'
  BY <1>3, <1>4 DEF RowsInv
<1>7. ASSUME NEW p \in PaymentIds PROVE Kept(p)'
  BY <1>2, <1>3 DEF RowsInv, Kept, ProjectTypeOK, PaymentRow, Restricts
<1>8. Emptied'
  BY <1>2, <1>3 DEF RowsInv, Emptied
<1>9. KeepsIds
  BY <1>3, <1>4 DEF KeepsIds
<1> QED
  BY <1>5, <1>6, <1>7, <1>8, <1>9 DEF RowsInv

(* The payment that is inserted names a customer that is there, and the    *)
(* one that the call has read.                                             *)
LEMMA CreatePaymentEffect ==
  ASSUME ProjectInv, NEW c \in ProjectCalls, createPayment(c)
  PROVE  ProjectTypeOK' /\ RowsInv' /\ KeepsIds
<1> USE DEF ProjectInv
<1> DEFINE r == pcall[c]
           row == [environment |-> r.environment, customer |-> r.target]
<1>1. PICK p \in PaymentIds : paymentRows' = [paymentRows EXCEPT ![p] = row]
  BY DEF createPayment
<1>2. /\ r.step = "ready" /\ r.op = "createPayment" /\ customers[r.target] # NONE
      /\ project' = project /\ keys' = keys /\ customers' = customers /\ entries' = entries
      /\ EndCall(c)
  BY DEF createPayment, Ready
<1>3. /\ r.target \in CustomerIds /\ r.environment \in Environments
      /\ customers[r.target].environment = r.environment
  BY <1>2, ProjectInFlight, ProjectCallFields DEF ProjectCallInv
<1>4. row \in PaymentRow /\ row.customer = r.target /\ row.environment = r.environment
  BY <1>3 DEF PaymentRow
<1>5. project = "live"
  BY <1>2, <1>3 DEF RowsInv, Emptied, ProjectTypeOK
<1> HIDE DEF row, r
<1>6. /\ paymentRows' \in [PaymentIds -> PaymentRow \cup {NONE}] /\ paymentRows'[p] = row
      /\ \A q \in PaymentIds \ {p} : paymentRows'[q] = paymentRows[q]
  BY <1>1, <1>4 DEF ProjectTypeOK
<1>7. ProjectTypeOK'
  BY <1>2, <1>6, EndStep DEF ProjectTypeOK
<1>8. \A v \in CustomerIds : customers'[v] # NONE => Minted(v)'
  BY <1>2 DEF RowsInv, Minted
<1>9. Kept(p)'
  BY <1>2, <1>3, <1>4, <1>6 DEF Kept
<1>10. \A q \in PaymentIds \ {p} : Kept(q)'
  BY <1>2, <1>6 DEF RowsInv, Kept
<1>11. Emptied'
  BY <1>2, <1>5 DEF Emptied
<1>12. KeepsIds
  BY <1>2 DEF KeepsIds, ProjectTypeOK, Actions
<1> QED
  BY <1>7, <1>8, <1>9, <1>10, <1>11, <1>12 DEF RowsInv

(* A deleted project has no payments that could miss a customer.           *)
LEMMA DeleteProjectEffect ==
  ASSUME ProjectInv, NEW c \in ProjectCalls, deleteProject(c)
  PROVE  ProjectTypeOK' /\ RowsInv' /\ KeepsIds
<1> USE DEF ProjectInv
<1>1. /\ project' = "deleted" /\ keys' = [k \in KeyIds |-> NONE]
      /\ customers' = [u \in CustomerIds |-> NONE]
      /\ paymentRows' = [p \in PaymentIds |-> NONE] /\ entries' = entries /\ EndCall(c)
  BY DEF deleteProject
<1>2. ProjectTypeOK'
  BY <1>1, EndStep DEF ProjectTypeOK
<1>3. RowsInv'
  BY <1>1 DEF RowsInv, Kept, Emptied
<1>4. KeepsIds
  BY <1>1 DEF KeepsIds, ProjectTypeOK, Actions
<1> QED
  BY <1>2, <1>3, <1>4

(* Every step keeps the invariant.                                         *)
LEMMA ProjectInvStep == ProjectInv /\ [ProjectNext]_projectVars => ProjectInv'
<1> SUFFICES ASSUME ProjectInv, [ProjectNext]_projectVars PROVE ProjectInv'
  OBVIOUS
<1>1. ASSUME NEW c \in ProjectCalls, Reads(c) PROVE ProjectInv'
  <2>1. /\ UNCHANGED projectTables /\ pstarted' \in 0 .. MaxProjectCalls
        /\ pcall' \in [ProjectCalls -> ProjectCall \cup {NoCall}]
        /\ \A d \in ProjectCalls \ {c} : pcall'[d] = pcall[d]
        /\ ProjectCallInv(c)'
    BY <1>1, ReadsEffect
  <2>2. ProjectTypeOK'
    BY <2>1 DEF ProjectInv, ProjectTypeOK, projectTables
  <2>3. RowsInv'
    BY <2>1 DEF ProjectInv, RowsInv, projectTables, Kept, Emptied, Minted
  <2>4. KeepsIds
    BY <2>1 DEF KeepsIds, projectTables, ProjectInv, ProjectTypeOK, Actions
  <2> QED
    BY <2>1, <2>2, <2>3, <2>4, ProjectCallKept DEF ProjectInv
<1>2. ASSUME NEW c \in ProjectCalls, Writes(c) PROVE ProjectInv'
  <2>1. EndCall(c)
    BY <1>2 DEF Writes, createKey, revokeKey, createCustomer, updateCustomer, deleteCustomer,
                createPayment, deleteProject
  <2>2. ProjectTypeOK' /\ RowsInv' /\ KeepsIds
    BY <1>2, KeyEffect, CreateCustomerEffect, UpdateCustomerEffect, DeleteCustomerEffect,
       CreatePaymentEffect, DeleteProjectEffect DEF Writes
  <2>3. ProjectCallInv(c)' /\ \A d \in ProjectCalls \ {c} : pcall'[d] = pcall[d]
    BY <2>1, EndStep
  <2> QED
    BY <2>2, <2>3, ProjectCallKept DEF ProjectInv
<1>3. CASE UNCHANGED projectVars
  BY <1>3 DEF ProjectInv, ProjectTypeOK, projectVars, projectTables, RowsInv, Kept, Emptied,
              Minted, ProjectCallInv
<1> QED
  BY <1>1, <1>2, <1>3 DEF ProjectNext, ProjectStep, Reads, Writes

(* The tables and the calls of a project keep their types.                 *)
THEOREM ProjectTypesOk == ProjectSpec => []ProjectTypeOK
<1>1. ProjectInv => ProjectTypeOK
  BY DEF ProjectInv
<1> QED
  BY <1>1, ProjectInvInit, ProjectInvStep, PTL DEF ProjectSpec

(* No interleaving of inserts, updates and deletions parts a payment from  *)
(* its customer, and nothing outlives its project.                         *)
THEOREM PaymentsKeepCustomers == ProjectSpec => []PaymentKeepsCustomer
<1>1. ProjectInv => PaymentKeepsCustomer
  BY DEF ProjectInv, RowsInv, Kept, Emptied, PaymentKeepsCustomer
<1> QED
  BY <1>1, ProjectInvInit, ProjectInvStep, PTL DEF ProjectSpec
================================================================================
