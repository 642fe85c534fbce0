------------------------------- MODULE ListPages -------------------------------
(***************************************************************************)
(* The overview, the organizations and the projects page of the dashboard  *)
(* (apps/web).  Their effect loads the lists side by side, then the        *)
(* reader's role in every organization, and only then shows them; it runs  *)
(* again for a renewed token and after a create, and calls the load before *)
(* off.                                                                    *)
(*                                                                         *)
(* A tenant stands for an organization and for the project it may have.    *)
(***************************************************************************)
EXTENDS Naturals, Absence

CONSTANTS ListViews,    \* of overview, organizations and projects
          Tenants,
          MaxListActs   \* bound of the model: effects, presses and changes by others

ASSUME ListAssumption == MaxListActs \in Nat /\ NONE \notin {"ok"}

VARIABLES listView,
          rights,       \* server: the reader's role in each organization, NONE for a stranger
          owned,        \* server: the organizations that have a project
          listRows,     \* organizations (with caller_role) and projects on display
          offers,       \* projects: the organizations of the create form
          picked,       \* projects: organizationId
          waits,        \* loading
          failed,       \* error
          loads,        \* loads in flight
          creating,     \* the create call in flight, NONE
          made,         \* history: answered creations that still exist
          listActs

listServer == <<rights, owned>>
listShown == <<listRows, offers, picked, waits, failed>>
listPageVars == <<listView, listServer, listShown, loads, creating, made, listActs>>

RolesShown == {"owner", "viewer"}

Standing == [Tenants -> RolesShown \cup {NONE}]

ListLoad == [by : 0 .. MaxListActs, live : BOOLEAN, organizations : (SUBSET Tenants) \cup {NONE},
             projects : (SUBSET Tenants) \cup {NONE}, roles : Standing]

ListTypeOK ==
    /\ rights \in Standing /\ owned \subseteq Tenants
    /\ listRows \in [organizations : Standing, projects : SUBSET Tenants]
    /\ offers \subseteq Tenants /\ picked \in Tenants \cup {NONE} /\ made \subseteq Tenants
    /\ waits \in BOOLEAN /\ failed \in BOOLEAN /\ loads \subseteq ListLoad /\ listActs \in 0 .. MaxListActs
    /\ creating \in [tenant : Tenants \cup {NONE}, answer : {NONE, "ok", "refused"}] \cup {NONE}

\* What the effect asks for: every page the organizations, two of them the projects.
FreshLoad == [by |-> listActs, live |-> TRUE, organizations |-> NONE,
              projects |-> IF listView = "organizations" THEN {} ELSE NONE,
              roles |-> [t \in Tenants |-> NONE]]

\* Mutant: the effect has no clean-up.
CalledOffNever == loads

\* The clean-up of the effect before sets its flag.
CalledOff == {[l EXCEPT !.live = FALSE] : l \in loads}

Effect ==
    /\ loads' = CalledOff \cup {FreshLoad} /\ waits' = TRUE /\ failed' = FALSE

ListInit ==
    /\ listActs = 0 /\ listView \in ListViews
    /\ rights \in [Tenants -> {"owner", NONE}] /\ owned = {}
    /\ listRows = [organizations |-> [t \in Tenants |-> NONE], projects |-> {}]
    /\ offers = {} /\ picked = NONE /\ creating = NONE /\ made = {}
    /\ waits = TRUE /\ failed = FALSE /\ loads = {FreshLoad}

ListAct == listActs < MaxListActs /\ listActs' = listActs + 1

Renewed ==
    /\ ListAct /\ Effect
    /\ UNCHANGED <<listView, listServer, listRows, offers, picked, creating, made>>

\* The reader is made an owner or a viewer, joins or is removed; a project is deleted.
ChangedElsewhere ==
    /\ ListAct
    /\ \E t \in Tenants :
          \/ /\ \E role \in RolesShown \cup {NONE} : rights' = [rights EXCEPT ![t] = role]
             /\ made' = IF rights'[t] = NONE THEN made \ {t} ELSE made
             /\ UNCHANGED owned
          \/ /\ t \in owned /\ owned' = owned \ {t} /\ UNCHANGED rights
             /\ made' = IF listView = "projects" THEN made \ {t} ELSE made
    /\ UNCHANGED <<listView, listShown, loads, creating>>

--------------------------------------------------------------------------------
(* A load *)

Mine == {t \in Tenants : rights[t] # NONE}

ReadInto(l, next) ==
    /\ loads' = (loads \ {l}) \cup {next}
    /\ UNCHANGED <<listView, listServer, listShown, creating, made, listActs>>

ReadOrganizations(l) ==
    l.organizations = NONE /\ ReadInto(l, [l EXCEPT !.organizations = Mine])

ReadProjects(l) ==
    l.projects = NONE /\ ReadInto(l, [l EXCEPT !.projects = owned \cap Mine])

ListsRead(l) == l.organizations # NONE /\ l.projects # NONE

\* A roster that cannot be read, or that no longer has the reader, makes a viewer.
ReadRole(l, t) ==
    /\ ListsRead(l) /\ t \in l.organizations /\ l.roles[t] = NONE
    /\ \E role \in {"viewer", IF rights[t] = NONE THEN "viewer" ELSE rights[t]} :
          ReadInto(l, [l EXCEPT !.roles[t] = role])

Creatable(l) == {t \in l.organizations : l.roles[t] = "owner"}

Lands(l) ==
    /\ ListsRead(l) /\ \A t \in l.organizations : l.roles[t] # NONE
    /\ IF l.live
       THEN /\ listRows' = [organizations |-> l.roles, projects |-> l.projects]
            /\ waits' = FALSE
            /\ IF listView = "projects"
               THEN /\ offers' = Creatable(l)
                    /\ \/ picked # NONE /\ picked' = picked
                       \/ picked = NONE /\ Creatable(l) = {} /\ picked' = NONE
                       \/ picked = NONE /\ picked' \in Creatable(l)
               ELSE UNCHANGED <<offers, picked>>
            /\ UNCHANGED failed
       ELSE UNCHANGED listShown
    /\ loads' = loads \ {l}
    /\ UNCHANGED <<listView, listServer, creating, made, listActs>>

\* One of the lists is not answered.
LoadFails(l) ==
    /\ ~ListsRead(l) /\ loads' = loads \ {l}
    /\ IF l.live THEN failed' = TRUE /\ waits' = FALSE ELSE UNCHANGED <<failed, waits>>
    /\ UNCHANGED <<listView, listServer, listRows, offers, picked, creating, made, listActs>>

--------------------------------------------------------------------------------
(* The create forms *)

\* The form of the organizations page is always there, that of the projects page needs an offer.
CanSubmit ==
    /\ creating = NONE
    /\ \/ listView = "organizations"
       \/ listView = "projects" /\ ~waits /\ ~failed /\ offers # {} /\ picked # NONE

onPick ==
    /\ listView = "projects" /\ ~waits /\ ~failed /\ \E t \in offers \ {picked} : picked' = t
    /\ UNCHANGED <<listView, listServer, listRows, offers, waits, failed, loads, creating, made, listActs>>

onCreateTenant ==
    /\ CanSubmit /\ ListAct
    /\ creating' = [tenant |-> IF listView = "projects" THEN picked ELSE NONE, answer |-> NONE]
    /\ UNCHANGED <<listView, listServer, listShown, loads, made>>

\* A new organization is its creator's own; a project needs the role at this moment.
CreateServed ==
    /\ creating # NONE /\ creating.answer = NONE
    /\ \/ /\ listView = "organizations"
          /\ \E t \in Tenants : /\ rights[t] = NONE /\ rights' = [rights EXCEPT ![t] = "owner"]
                                /\ creating' = [tenant |-> t, answer |-> "ok"]
          /\ UNCHANGED owned
       \/ /\ listView = "projects" /\ UNCHANGED rights
          /\ IF rights[creating.tenant] = "owner"
             THEN owned' = owned \cup {creating.tenant} /\ creating' = [creating EXCEPT !.answer = "ok"]
             ELSE UNCHANGED owned /\ creating' = [creating EXCEPT !.answer = "refused"]
    /\ UNCHANGED <<listView, listShown, loads, made, listActs>>

StillThere(t) == rights[t] # NONE /\ (listView = "projects" => t \in owned)

\* The answer: refreshKey moves and the effect runs again.  A failure only sets createError.
CreateAnswered ==
    /\ creating # NONE /\ creating' = NONE
    /\ IF creating.answer = "ok"
       THEN /\ Effect
            /\ made' = made \cup {t \in {creating.tenant} : StillThere(t)}
       ELSE UNCHANGED <<loads, waits, failed, made>>
    /\ UNCHANGED <<listView, listServer, listRows, offers, picked, listActs>>

ListNext ==
    \/ Renewed \/ ChangedElsewhere \/ onPick \/ onCreateTenant \/ CreateServed \/ CreateAnswered
    \/ \E l \in loads :
          \/ ReadOrganizations(l) \/ ReadProjects(l) \/ Lands(l) \/ LoadFails(l)
          \/ \E t \in Tenants : ReadRole(l, t)

ListSpec == ListInit /\ [][ListNext]_listPageVars

--------------------------------------------------------------------------------
(* Properties *)

(* Once a page has stopped loading without an error, everything that was   *)
(* created on it and still exists is listed, whatever loads that were      *)
(* asked for before the creation still come in.                            *)
CreatedIsListed ==
    ~waits /\ ~failed =>
        \A t \in made : IF listView = "projects" THEN t \in listRows.projects
                                                 ELSE listRows.organizations[t] # NONE
================================================================================
