------------------------------- MODULE RosterPage -------------------------------
(***************************************************************************)
(* The page of one organization in the dashboard (apps/web, organizations/ *)
(* [organizationId]) and the page that accepts an invitation.  The reader  *)
(* sees a roster of some moment, presses what the roster offers, and the   *)
(* answer comes later; meanwhile others change the organization.           *)
(*                                                                         *)
(* What happens inside a call of the server is the subject of              *)
(* Organizations, whose rules are used here; a call is one step of it.     *)
(***************************************************************************)
EXTENDS Organizations, Sequences

CONSTANT MaxRosterActs   \* bound of the model: presses, changes by others, renewed tokens

ASSUME RosterAssumption == MaxRosterActs \in Nat

ASSUME NoneIsNoAnswer == NONE \notin {"ok", "missing", "forbidden", "conflict"}

VARIABLES reader,    \* user: who is signed in
          frame,     \* loading, organization, notFound and the route
          roster,    \* members: the role of each row on display
          board,     \* invitations: the status of each
          sent,      \* calls in flight
          holds,     \* server: the roles in the organization
          asked,     \* server: its invitations
          rosterActs

rosterServer == <<holds, asked>>
rosterVars == <<reader, frame, roster, board, sent, rosterServer, rosterActs>>

Changes == {"updateMember", "removeMember", "createInvitation", "cancelInvitation", "delete"}
AskedRow == [email : Accounts, role : Roles, status : {"pending", "accepted", "canceled"}]
View == [Accounts -> Roles \cup {NONE}]
Statuses == [Invitations -> {"pending", "accepted", "canceled", NONE}]

Frame == [route : {"invitation", "accepting", "accepted", "organization", "organizations"},
          loading : BOOLEAN, known : BOOLEAN, missing : BOOLEAN]

Held == Roles \cup {NONE}

LoadCall == [op : {"load"}, organization : {NONE, "found", "missing"}, roster : View \cup {NONE},
             board : Statuses \cup {NONE}, by : 0 .. MaxRosterActs]

ChangeCall == [op : Changes, user : Accounts, role : Held, invitation : Invitations \cup {NONE},
               saw : Roles \X Held, met : (Held \X Held) \cup {NONE},
               answer : {NONE, "ok", "missing", "forbidden", "conflict"}, by : 0 .. MaxRosterActs]

RefreshCall == [op : {"refresh"}, board : Statuses \cup {NONE}, by : 0 .. MaxRosterActs]

RosterTypeOK ==
    /\ reader \in Accounts /\ roster \in View /\ board \in Statuses /\ holds \in View
    /\ asked \in [Invitations -> AskedRow \cup {NONE}] /\ frame \in Frame
    /\ sent \subseteq LoadCall \cup ChangeCall \cup RefreshCall
    /\ rosterActs \in 0 .. MaxRosterActs

\* A load: what it has read so far of the organization, the roster and the invitations.
Load == [op |-> "load", organization |-> NONE, roster |-> NONE, board |-> NONE, by |-> rosterActs]

Opened == [route |-> "organization", loading |-> TRUE, known |-> FALSE, missing |-> FALSE]

\* The reader is in the organization, or an invitation is waiting for an account that is not.
RosterInit ==
    /\ reader \in Accounts /\ rosterActs = 0
    /\ holds \in {h \in View : h[Founder] = "owner"}
    /\ asked \in {[i \in Invitations |-> IF i = first THEN waiting ELSE NONE] :
                     first \in Invitations,
                     waiting \in {[email |-> a, role |-> "admin", status |-> "pending"] :
                                     a \in {b \in Accounts : holds[b] = NONE}} \cup {NONE}}
    /\ roster = [a \in Accounts |-> NONE] /\ board = [i \in Invitations |-> NONE]
    /\ frame = IF holds[reader] = NONE THEN [Opened EXCEPT !.route = "invitation"] ELSE Opened
    /\ sent = IF holds[reader] = NONE THEN {} ELSE {Load}

--------------------------------------------------------------------------------
(* What the page offers *)

ROLE_ORDER == <<"owner", "admin", "member", "viewer">>

lowerOf(role) == {ROLE_ORDER[n] : n \in {m \in 1 .. 4 : \E k \in 1 .. m - 1 : ROLE_ORDER[k] = role}}

\* Mutant: an admin is offered every role.
roleOptionsForAdmins(actor, target, isSelf) ==
    CASE actor \in {"owner", "admin"} -> Roles
      [] OTHER -> IF isSelf THEN lowerOf(actor) ELSE {}

\* The options of the role selector of a row.
roleOptions(actor, target, isSelf) ==
    CASE actor = "owner" -> Roles
      [] actor = "admin" -> IF ~isSelf /\ target = "owner" THEN {} ELSE Roles \ {"owner"}
      [] OTHER -> IF isSelf THEN lowerOf(actor) ELSE {}

managerMayRemove(actor, target, isSelf) ==
    isSelf \/ actor = "owner" \/ (actor = "admin" /\ target # "owner")

canManageInvitations(actor) == actor \in {"owner", "admin"}

inviteRoles(actor) == {r \in Roles : r # "owner" \/ actor = "owner"}

actorRole == IF roster[reader] = NONE THEN "viewer" ELSE roster[reader]

\* Is the change on offer to this role, for a row of that one?
Offered(op, actor, target, isSelf, role) ==
    \/ op = "updateMember" /\ role \in roleOptions(actor, target, isSelf)
    \/ op = "removeMember" /\ managerMayRemove(actor, target, isSelf)
    \/ op = "createInvitation" /\ canManageInvitations(actor) /\ role \in inviteRoles(actor)
    \/ op = "cancelInvitation" /\ canManageInvitations(actor)
    \/ op = "delete" /\ actor = "owner"

--------------------------------------------------------------------------------
(* The server *)

\* Its own rules for the same question: 403 otherwise.
Permitted(op, actor, target, isSelf, role) ==
    LET u == IF isSelf THEN "self" ELSE "other"
        r == [op |-> op, actor |-> "self", as |-> actor, user |-> u, role |-> role]
    IN
    /\ Can(actor, CapabilityOf(op)) \/ (op \in {"updateMember", "removeMember"} /\ isSelf)
    /\ op = "updateMember" => MayAssign(r, [role |-> target])
    /\ op = "removeMember" => MayRemove(r, [role |-> target])
    /\ op = "createInvitation" => (role = "owner" => actor = "owner")

Bereaves(op, u, role) ==
    holds[u] = "owner" /\ {a \in Accounts : holds[a] = "owner"} = {u}
    /\ (op = "removeMember" \/ (op = "updateMember" /\ role # "owner"))

Waiting(u) == \E i \in Invitations : asked[i] # NONE /\ asked[i].email = u /\ asked[i].status = "pending"

\* The answer to a change that a asks for.
Verdict(a, op, u, role, i) ==
    CASE holds[a] = NONE -> "missing"
      [] op \in {"updateMember", "removeMember"} /\ holds[u] = NONE ->
            IF Can(holds[a], CapabilityOf(op)) \/ a = u THEN "missing" ELSE "forbidden"
      [] op \in {"createInvitation", "cancelInvitation", "delete"} /\ ~Permitted(op, holds[a], NONE, FALSE, role)
            -> "forbidden"
      [] op \in {"updateMember", "removeMember"} /\ ~Permitted(op, holds[a], holds[u], a = u, role)
            -> "forbidden"
      [] Bereaves(op, u, role) -> "conflict"
      [] op = "createInvitation" /\ (holds[u] # NONE \/ Waiting(u) \/ \A j \in Invitations : asked[j] # NONE)
            -> "conflict"
      [] op = "cancelInvitation" /\ (asked[i] = NONE \/ asked[i].status # "pending") -> "conflict"
      [] OTHER -> "ok"

\* What an accepted change does to the tables.
Apply(op, u, role, i) ==
    CASE op = "updateMember" -> holds' = [holds EXCEPT ![u] = role] /\ UNCHANGED asked
      [] op = "removeMember" -> holds' = [holds EXCEPT ![u] = NONE] /\ UNCHANGED asked
      [] op = "createInvitation" ->
            /\ \E j \in Invitations : asked[j] = NONE /\ asked' = [asked EXCEPT ![j] =
                  [email |-> u, role |-> role, status |-> "pending"]]
            /\ UNCHANGED holds
      [] op = "cancelInvitation" -> asked' = [asked EXCEPT ![i].status = "canceled"] /\ UNCHANGED holds
      [] op = "delete" -> /\ holds' = [a \in Accounts |-> NONE]
                          /\ asked' = [j \in Invitations |-> NONE]

Joins(a, i) ==
    /\ asked[i] # NONE /\ asked[i].email = a /\ asked[i].status = "pending" /\ holds[a] = NONE
    /\ holds' = [holds EXCEPT ![a] = asked[i].role]
    /\ asked' = [asked EXCEPT ![i].status = "accepted"]

Act == rosterActs < MaxRosterActs /\ rosterActs' = rosterActs + 1

ByRight(a, op, u, role) == Verdict(a, op, u, role, NONE) = "ok" /\ Apply(op, u, role, NONE)

\* Other members act by their own right, and invited accounts join.
Elsewhere ==
    /\ Act /\ UNCHANGED <<reader, frame, roster, board, sent>>
    /\ \E a \in Accounts \ {reader} :
          \/ \E i \in Invitations : Joins(a, i)
          \/ \E u \in Accounts, role \in Roles : ByRight(a, "updateMember", u, role)
          \/ \E u \in Accounts : ByRight(a, "removeMember", u, NONE)
          \/ ByRight(a, "delete", a, NONE)

--------------------------------------------------------------------------------
(* The reader *)

OnDisplay == frame.route = "organization" /\ ~frame.loading /\ frame.known /\ ~frame.missing

Change(op, u, role, i) ==
    [op |-> op, user |-> u, role |-> role, invitation |-> i,
     saw |-> <<actorRole, roster[u]>>, met |-> NONE, answer |-> NONE, by |-> rosterActs]

Busy(op) == \E c \in sent : c.op = op

Pressed(c) ==
    /\ OnDisplay /\ Act /\ sent' = sent \cup {c}
    /\ UNCHANGED <<reader, frame, roster, board, rosterServer>>

onChangeRole ==
    \E u \in Accounts, role \in Roles :
        /\ roster[u] # NONE /\ role # roster[u]
        /\ Offered("updateMember", actorRole, roster[u], u = reader, role)
        /\ Pressed(Change("updateMember", u, role, NONE))

onRemoveMember ==
    \E u \in Accounts :
        /\ roster[u] # NONE /\ Offered("removeMember", actorRole, roster[u], u = reader, NONE)
        /\ Pressed(Change("removeMember", u, NONE, NONE))

onInvite ==
    \E u \in Accounts, role \in Roles :
        /\ ~Busy("createInvitation") /\ ~Busy("refresh")
        /\ Offered("createInvitation", actorRole, NONE, FALSE, role)
        /\ Pressed(Change("createInvitation", u, role, NONE))

onCancelInvitation ==
    \E i \in Invitations :
        /\ board[i] = "pending" /\ Offered("cancelInvitation", actorRole, NONE, FALSE, NONE)
        /\ Pressed(Change("cancelInvitation", reader, NONE, i))

onDeleteOrganization ==
    /\ ~Busy("delete") /\ Offered("delete", actorRole, NONE, FALSE, NONE)
    /\ Pressed(Change("delete", reader, NONE, NONE))

\* The token is renewed: the effect runs again, and no load is called off.
reload ==
    /\ frame.route = "organization" /\ Act
    /\ frame' = [frame EXCEPT !.loading = TRUE] /\ sent' = sent \cup {Load}
    /\ UNCHANGED <<reader, roster, board, rosterServer>>

--------------------------------------------------------------------------------
(* Calls at the server and their answers at the page *)

Replace(c, d) ==
    /\ c \in sent /\ sent' = (sent \ {c}) \cup {d}
    /\ UNCHANGED <<reader, frame, roster, board, rosterActs>>

Serve(c) ==
    LET verdict == Verdict(reader, c.op, c.user, c.role, c.invitation) IN
    /\ c.op \in Changes /\ c.answer = NONE
    /\ Replace(c, [c EXCEPT !.answer = verdict, !.met = <<holds[reader], holds[c.user]>>])
    /\ IF verdict = "ok" THEN Apply(c.op, c.user, c.role, c.invitation) ELSE UNCHANGED rosterServer

StatusesNow == [i \in Invitations |-> IF asked[i] = NONE THEN NONE ELSE asked[i].status]

\* The organization first, then roster and invitations side by side.  Invitations that are
\* refused read as none.
Read(l) ==
    /\ l.op = "load" /\ UNCHANGED rosterServer
    /\ \/ /\ l.organization = NONE
          /\ Replace(l, [l EXCEPT !.organization = IF holds[reader] = NONE THEN "missing" ELSE "found"])
       \/ /\ l.organization = "found" /\ l.roster = NONE
          /\ Replace(l, IF holds[reader] = NONE THEN [l EXCEPT !.organization = "missing"]
                                                ELSE [l EXCEPT !.roster = holds])
       \/ /\ l.organization = "found" /\ l.board = NONE
          /\ Replace(l, [l EXCEPT !.board = IF holds[reader] \in {"owner", "admin"} THEN StatusesNow
                                            ELSE [i \in Invitations |-> NONE]])

Gone(l) == l.op = "load" /\ l.organization = "missing"

Complete(l) == l.op = "load" /\ l.organization = "found" /\ l.roster # NONE /\ l.board # NONE

Landed(l) ==
    /\ l \in sent /\ sent' = sent \ {l}
    /\ \/ /\ Complete(l)
          /\ roster' = l.roster /\ board' = l.board
          /\ frame' = [frame EXCEPT !.loading = FALSE, !.known = TRUE, !.missing = FALSE]
       \/ /\ Gone(l) /\ frame' = [frame EXCEPT !.loading = FALSE, !.missing = TRUE]
          /\ UNCHANGED <<roster, board>>
       \/ /\ l.op = "load" /\ frame' = [frame EXCEPT !.loading = FALSE]     \* it failed
          /\ UNCHANGED <<roster, board>>
    /\ UNCHANGED <<reader, rosterServer, rosterActs>>

Leaves(c) == c.op = "delete" \/ (c.op = "removeMember" /\ c.user = reader)

\* The rows are changed by the answer, not by the press; a refusal, a failure or a lost
\* answer sets an alert.
ChangeAnswered(c) ==
    /\ c \in sent /\ c.op \in Changes
    /\ \/ /\ c.answer = "ok"
          /\ roster' = CASE c.op = "updateMember" /\ roster[c.user] # NONE -> [roster EXCEPT ![c.user] = c.role]
                         [] c.op = "removeMember" -> [roster EXCEPT ![c.user] = NONE]
                         [] OTHER -> roster
          /\ board' = IF c.op = "cancelInvitation" /\ board[c.invitation] # NONE
                      THEN [board EXCEPT ![c.invitation] = "canceled"] ELSE board
          /\ frame' = IF Leaves(c) THEN [frame EXCEPT !.route = "organizations"] ELSE frame
          /\ sent' = (sent \ {c}) \cup IF c.op = "createInvitation"
                                       THEN {[op |-> "refresh", board |-> NONE, by |-> c.by]} ELSE {}
       \/ c.answer # NONE /\ sent' = sent \ {c} /\ UNCHANGED <<roster, board, frame>>
    /\ UNCHANGED <<reader, rosterServer, rosterActs>>

\* onInvite reads the invitations again.
Refresh(c) ==
    /\ c.op = "refresh"
    /\ \/ /\ c.board = NONE /\ Replace(c, [c EXCEPT !.board = StatusesNow])
       \/ /\ c \in sent /\ sent' = sent \ {c} /\ board' = IF c.board = NONE THEN board ELSE c.board
          /\ UNCHANGED <<reader, frame, roster, rosterActs>>
    /\ UNCHANGED rosterServer

--------------------------------------------------------------------------------
(* The invitation page *)

onAccept ==
    /\ frame.route = "invitation" /\ Act /\ frame' = [frame EXCEPT !.route = "accepting"]
    /\ UNCHANGED <<reader, roster, board, sent, rosterServer>>

\* Accepted, or refused: then the button is there again, with the reason.
AcceptAnswered ==
    /\ frame.route = "accepting"
    /\ \/ /\ \E i \in Invitations : Joins(reader, i)
          /\ frame' = [frame EXCEPT !.route = "accepted"]
       \/ /\ frame' = [frame EXCEPT !.route = "invitation"] /\ UNCHANGED rosterServer
    /\ UNCHANGED <<reader, roster, board, sent, rosterActs>>

OpenOrganization ==
    /\ frame.route = "accepted" /\ frame' = Opened /\ sent' = {Load}
    /\ UNCHANGED <<reader, roster, board, rosterServer, rosterActs>>

RosterNext ==
    \/ onChangeRole \/ onRemoveMember \/ onInvite \/ onCancelInvitation \/ onDeleteOrganization
    \/ reload \/ onAccept \/ AcceptAnswered \/ OpenOrganization \/ Elsewhere
    \/ \E c \in sent : Serve(c) \/ Read(c) \/ Landed(c) \/ ChangeAnswered(c) \/ Refresh(c)

RosterSpec == RosterInit /\ [][RosterNext]_rosterVars

--------------------------------------------------------------------------------
(* Properties *)

(* "Presentation-side mirror of the role matrix": the server says 403 to   *)
(* what the page offered only when the reader's or the target's row had    *)
(* changed between the roster on display and the call.                     *)
RefusedOnlyWhenStale ==
    \A c \in sent : c.op \in Changes /\ c.answer = "forbidden" => c.saw # c.met
================================================================================
