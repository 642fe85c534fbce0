----------------------------- MODULE Organizations -----------------------------
(***************************************************************************)
(* OrganizationsService behind OrgRbacGuard (apps/api/src/organizations):  *)
(* members, roles and invitations of one organization.  Tenants share no   *)
(* rows, so one organization shows what any of them can go through.        *)
(*                                                                         *)
(* A call reads the caller's membership in the guard, then the target row, *)
(* then counts the owners, and only then opens the transaction that writes *)
(* the change and its audit entry.  Each of the four is a step of its own; *)
(* the transaction is one step, because its first statement locks the row  *)
(* or the index entry that all its competitors need.                       *)
(***************************************************************************)
EXTENDS Naturals, FiniteSets, Absence

CONSTANTS Accounts,    \* registered users; an account stands for its email too
          Founder,     \* the account that creates the organization
          Granted,     \* the roles that calls ask for
          OrgCalls,    \* calls in flight at one time
          Invitations, \* invitation ids
          MaxOrgCalls  \* bound of the model: calls started

Roles == {"owner", "admin", "member", "viewer"}

ASSUME OrgAssumption ==
    /\ Founder \in Accounts /\ Granted \subseteq Roles /\ MaxOrgCalls \in Nat
    /\ NONE \notin Accounts \cup Roles

VARIABLES organization, \* "absent", "live" or "deleted"
          members,      \* organization_members: role and row id of each account
          invitations,  \* invitations rows
          call,         \* what each call in flight has read so far
          started,      \* calls started
          joins,        \* history: member.joined entries of each invitation
          removals,     \* history: member.removed entries of each account
          everOwner     \* history: the accounts that have held the owner role

orgTables == <<organization, members, invitations, joins, removals, everOwner>>
orgVars == <<orgTables, call, started>>

Member == [role : Roles, row : Nat]
Invitation == [email : Accounts, role : Roles, status : {"pending", "accepted", "canceled"},
               inviter : Accounts]
Operations == {"updateMember", "removeMember", "createInvitation", "cancelInvitation",
               "acceptInvitation", "delete"}
Idle == [step |-> "idle"]
OrgCall == [step : {"guarded", "checked", "counted"}, op : Operations, actor : Accounts,
            as : Roles \cup {NONE}, user : Accounts, role : Roles \cup {NONE},
            invitation : Invitations \cup {NONE}, seen : Member \cup Invitation \cup {NONE}]

ASSUME NoneIsNoRow == NONE \notin Member \cup Invitation

(* The type invariant of the tables; a call is idle or carries its reads.  *)
OrgTypeOK ==
    /\ organization \in {"absent", "live", "deleted"}
    /\ members \in [Accounts -> Member \cup {NONE}]
    /\ invitations \in [Invitations -> Invitation \cup {NONE}]
    /\ started \in 0 .. MaxOrgCalls
    /\ call \in [OrgCalls -> OrgCall \cup {Idle}]
    /\ joins \in [Invitations -> Nat] /\ removals \in [Accounts -> Nat]
    /\ everOwner \subseteq Accounts

OrgInit ==
    /\ organization = "absent"
    /\ members = [a \in Accounts |-> NONE]
    /\ invitations = [i \in Invitations |-> NONE]
    /\ call = [c \in OrgCalls |-> Idle] /\ started = 0
    /\ joins = [i \in Invitations |-> 0]
    /\ removals = [a \in Accounts |-> 0]
    /\ everOwner = {}

--------------------------------------------------------------------------------
(* Roles *)

Can(role, capability) ==
    CASE capability = "organizations.delete" -> role = "owner"
      [] capability \in {"members.update", "members.remove",
                         "invitations.create", "invitations.cancel"} -> role \in {"owner", "admin"}
      [] OTHER -> TRUE

Rank(role) == CASE role = "owner" -> 4 [] role = "admin" -> 3
                [] role = "member" -> 2 [] role = "viewer" -> 1

IsDownward(from, to) == Rank(to) < Rank(from)

CapabilityOf(op) ==
    CASE op = "updateMember" -> "members.update"
      [] op = "removeMember" -> "members.remove"
      [] op = "createInvitation" -> "invitations.create"
      [] op = "cancelInvitation" -> "invitations.cancel"
      [] op = "delete" -> "organizations.delete"

PendingFor(i, a) ==
    invitations[i] # NONE /\ invitations[i].email = a /\ invitations[i].status = "pending"

Owners == {a \in Accounts : members[a] # NONE /\ members[a].role = "owner"}

--------------------------------------------------------------------------------
(* The guard *)

CreateOrganization ==
    /\ organization = "absent"
    /\ organization' = "live"
    /\ members' = [members EXCEPT ![Founder] = [role |-> "owner", row |-> 0]]
    /\ everOwner' = {Founder}
    /\ UNCHANGED <<invitations, joins, removals, call, started>>

BeginChange(c, request) ==
    /\ call[c] = Idle /\ started < MaxOrgCalls
    /\ started' = started + 1
    /\ call' = [call EXCEPT ![c] = request]
    /\ UNCHANGED orgTables

Request(op, a, role, u, newRole, i) ==
    [step |-> "guarded", op |-> op, actor |-> a, as |-> role,
     user |-> u, role |-> newRole, invitation |-> i, seen |-> NONE]

(* OrgRbacGuard: the caller's role is read once and handed to the handler. *)
(* Acting on one's own membership bypasses the matrix.                     *)
CanActivate(c, op, a, u, newRole, i) ==
    /\ members[a] # NONE
    /\ \/ Can(members[a].role, CapabilityOf(op))
       \/ op \in {"updateMember", "removeMember"} /\ a = u
    /\ BeginChange(c, Request(op, a, members[a].role, u, newRole, i))

(* Accepting needs a session only.                                         *)
BeginAccept(c, a, i) == BeginChange(c, Request("acceptInvitation", a, NONE, a, NONE, i))

Refuse(c) ==
    /\ call' = [call EXCEPT ![c] = Idle]
    /\ UNCHANGED <<orgTables, started>>

(* A call that has read x goes on.                                         *)
Proceed(c, step, x) ==
    /\ call' = [call EXCEPT ![c].step = step, ![c].seen = x]
    /\ UNCHANGED <<orgTables, started>>

--------------------------------------------------------------------------------
(* The reads of the handlers and the refusals that follow from them *)

(* Mutant: nothing is asked of who grants the owner role.                  *)
MayAssignAny(r, target) == r.actor # r.user => Can(r.as, "members.update")

(* The target restrictions of updateMember, and of a change of one's own.  *)
MayAssign(r, target) ==
    /\ r.role = "owner" => r.as = "owner"
    /\ IF r.actor # r.user
       THEN Can(r.as, "members.update") /\ (target.role = "owner" => r.as = "owner")
       ELSE r.as \in {"owner", "admin"} \/ IsDownward(r.as, r.role)

MayRemove(r, target) ==
    r.actor # r.user => Can(r.as, "members.remove") /\ (target.role = "owner" => r.as = "owner")

(* Does the change take an owner away?                                     *)
Dethrones(r, target) ==
    target.role = "owner" /\ (r.op = "removeMember" \/ r.role # "owner")

FindTarget(c) ==
    LET r == call[c]
        target == members[r.user]
    IN
    /\ r.step = "guarded" /\ r.op \in {"updateMember", "removeMember"}
    /\ IF target # NONE /\ (IF r.op = "updateMember" THEN MayAssign(r, target) ELSE MayRemove(r, target))
       THEN Proceed(c, IF Dethrones(r, target) THEN "checked" ELSE "counted", target)
       ELSE Refuse(c)

assertOwnerRemains(c) ==
    /\ call[c].step = "checked"
    /\ IF Cardinality(Owners) <= 1 THEN Refuse(c) ELSE Proceed(c, "counted", call[c].seen)

(* createInvitation looks for a member, then for a pending invitation; the *)
(* index has the last word on the latter, so one read stands for both.     *)
CheckInvitee(c) ==
    LET r == call[c] IN
    /\ r.step = "guarded" /\ r.op = "createInvitation"
    /\ IF /\ Can(r.as, "invitations.create")
          /\ r.role = "owner" => r.as = "owner"
          /\ members[r.user] = NONE
          /\ ~ \E i \in Invitations : PendingFor(i, r.user)
       THEN Proceed(c, "counted", NONE)
       ELSE Refuse(c)

FindInvitation(c) ==
    LET r == call[c]
        seen == invitations[r.invitation]
    IN
    /\ r.step = "guarded" /\ r.op \in {"cancelInvitation", "acceptInvitation"}
    /\ IF /\ seen # NONE /\ seen.status = "pending"
          /\ r.op = "acceptInvitation" => seen.email = r.actor /\ members[r.actor] = NONE
       THEN Proceed(c, "counted", seen)
       ELSE Refuse(c)

--------------------------------------------------------------------------------
(* The transactions: a change and its audit entry *)

Committing(c, op) == call[c].step = "counted" /\ call[c].op = op

Done(c) == call' = [call EXCEPT ![c] = Idle] /\ UNCHANGED started

(* The row is addressed by its id: a membership that was removed and       *)
(* joined again in the meantime is another row, and the update fails.      *)
SameRow(r) == members[r.user] # NONE /\ members[r.user].row = r.seen.row

updateMember(c) ==
    LET r == call[c] IN
    /\ Committing(c, "updateMember") /\ SameRow(r)
    /\ members' = [members EXCEPT ![r.user].role = r.role]
    /\ everOwner' = everOwner \cup (IF r.role = "owner" THEN {r.user} ELSE {})
    /\ UNCHANGED <<organization, invitations, joins, removals>> /\ Done(c)

(* Mutant: the entry is recorded after the transaction, best effort.       *)
removeMemberUnaudited(c) ==
    LET r == call[c] IN
    /\ Committing(c, "removeMember") /\ SameRow(r)
    /\ members' = [members EXCEPT ![r.user] = NONE]
    /\ UNCHANGED <<organization, invitations, joins, removals, everOwner>> /\ Done(c)

removeMember(c) ==
    LET r == call[c] IN
    /\ Committing(c, "removeMember") /\ SameRow(r)
    /\ members' = [members EXCEPT ![r.user] = NONE]
    /\ removals' = [removals EXCEPT ![r.user] = @ + 1]
    /\ UNCHANGED <<organization, invitations, joins, everOwner>> /\ Done(c)

(* The partial unique index admits one pending invitation per email.       *)
createInvitation(c) ==
    LET r == call[c] IN
    /\ Committing(c, "createInvitation") /\ organization = "live"
    /\ ~ \E i \in Invitations : PendingFor(i, r.user)
    /\ \E i \in Invitations :
          /\ invitations[i] = NONE
          /\ invitations' = [invitations EXCEPT ![i] =
                [email |-> r.user, role |-> r.role, status |-> "pending", inviter |-> r.actor]]
    /\ UNCHANGED <<organization, members, joins, removals, everOwner>> /\ Done(c)

(* The update is by id alone: it does not ask for the status it saw.       *)
cancelInvitation(c) ==
    LET i == call[c].invitation IN
    /\ Committing(c, "cancelInvitation") /\ invitations[i] # NONE
    /\ invitations' = [invitations EXCEPT ![i].status = "canceled"]
    /\ UNCHANGED <<organization, members, joins, removals, everOwner>> /\ Done(c)

(* Mutant: accepting does not ask for it either.                           *)
AcceptableRow(i) == invitations[i] # NONE

Acceptable(i) == invitations[i] # NONE /\ invitations[i].status = "pending"

acceptInvitation(c) ==
    LET r == call[c]
        i == r.invitation
    IN
    /\ Committing(c, "acceptInvitation") /\ Acceptable(i)
    /\ members[r.actor] = NONE
    /\ invitations' = [invitations EXCEPT ![i].status = "accepted"]
    /\ members' = [members EXCEPT ![r.actor] = [role |-> r.seen.role, row |-> removals[r.actor] + 1]]
    /\ joins' = [joins EXCEPT ![i] = @ + 1]
    /\ everOwner' = everOwner \cup (IF r.seen.role = "owner" THEN {r.actor} ELSE {})
    /\ UNCHANGED <<organization, removals>> /\ Done(c)

(* The foreign keys cascade to members and invitations.                    *)
DeleteOrganization(c) ==
    /\ call[c].step = "guarded" /\ call[c].op = "delete" /\ organization = "live"
    /\ organization' = "deleted"
    /\ members' = [a \in Accounts |-> NONE]
    /\ invitations' = [i \in Invitations |-> NONE]
    /\ UNCHANGED <<joins, removals, everOwner>> /\ Done(c)

(* The row has gone, the index or the status refuses, or the database does *)
(* not answer: the transaction rolls back and the caller gets an error.    *)
Fails(c) == call[c] # Idle /\ Refuse(c)

--------------------------------------------------------------------------------
OrgStart(c) ==
    \E a, u \in Accounts :
        \/ \E newRole \in Granted : \E op \in {"updateMember", "createInvitation"} :
              CanActivate(c, op, a, u, newRole, NONE)
        \/ CanActivate(c, "removeMember", a, u, NONE, NONE)
        \/ u = a /\ CanActivate(c, "delete", a, a, NONE, NONE)
        \/ u = a /\ \E i \in Invitations : CanActivate(c, "cancelInvitation", a, a, NONE, i)
        \/ u = a /\ \E i \in Invitations : BeginAccept(c, a, i)

OrgCommit(c) ==
    \/ updateMember(c) \/ removeMember(c) \/ createInvitation(c) \/ cancelInvitation(c)
    \/ acceptInvitation(c) \/ DeleteOrganization(c)

OrgNext ==
    \/ CreateOrganization
    \/ \E c \in OrgCalls :
          \/ OrgStart(c) \/ FindTarget(c) \/ assertOwnerRemains(c) \/ CheckInvitee(c)
          \/ FindInvitation(c) \/ OrgCommit(c) \/ Fails(c)

OrgSpec == OrgInit /\ [][OrgNext]_orgVars

--------------------------------------------------------------------------------
(* Properties *)

Grantor(r) ==
    IF r.op = "acceptInvitation" THEN invitations[r.invitation].inviter ELSE r.actor

(* Nobody becomes an owner without the act of somebody who has been one:   *)
(* no sequence of legal calls and invitations of admins leads there,       *)
(* however stale the role that each call was let in with.                  *)
OwnerRoleOnlyFromOwners ==
    [][\A a \in Owners' \ Owners :
          \/ organization = "absent"
          \/ \E c \in OrgCalls : /\ call[c] # Idle /\ call'[c] = Idle
                                 /\ Grantor(call[c]) \in everOwner]_orgVars

(* The trail tells who is a member: every joining and every removal has    *)
(* its one entry, and the founder needs none to be in.                     *)
TrailTellsMembership ==
    organization = "live" =>
        \A a \in Accounts :
            (IF members[a] = NONE THEN 0 ELSE 1) + removals[a]
                = (IF a = Founder THEN 1 ELSE 0)
                  + Cardinality({i \in Invitations : joins[i] > 0 /\ invitations[i].email = a})

(* An invitation makes a member once: not twice for two concurrent         *)
(* acceptances, not again after the member has been removed, and never     *)
(* after it was cancelled.                                                 *)
InvitationUsedOnce ==
    [][\A i \in Invitations : joins'[i] # joins[i] =>
          joins[i] = 0 /\ invitations[i].status = "pending"]_orgVars

(* "A demotion/removal is only allowed while at least one owner member     *)
(* remains": a live organization always has an owner.                      *)
OwnerRemains == organization = "live" => Owners # {}
================================================================================
