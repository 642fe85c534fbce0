------------------------------- MODULE LogPages -------------------------------
(***************************************************************************)
(* The two log pages of the dashboard (apps/web, .../logs/requests and     *)
(* .../logs/audit): a cursor-paginated table that lives through route      *)
(* changes, filter changes and token renewals while answers are in flight. *)
(*                                                                         *)
(* A state is what React has committed: an effect that a commit triggers   *)
(* is part of the step, with its clean-up (cancelled = true).  An answer   *)
(* is a step of its own and finds the closure that asked for it.  A page   *)
(* of a list is its number; next_cursor is the number of the page after    *)
(* it, NONE on the last one, and has_more says the same.                   *)
(***************************************************************************)
EXTENDS Naturals, Sequences, Absence

CONSTANTS Routes,          \* project ids
          OrganizationOf,  \* the owner of each project
          LogEnvironments, \* values of the environment control, NONE for all
          RequestIds,      \* values of the request-ID lookup, NONE for none
          LastPage,        \* pages of every list
          MaxLogActs       \* bound of the model: acts of the operator

ASSUME LogAssumption ==
    /\ LastPage \in Nat \ {0} /\ MaxLogActs \in Nat
    /\ DOMAIN OrganizationOf = Routes /\ NONE \in LogEnvironments /\ NONE \in RequestIds

ASSUME NoneIsNoPage == NONE \notin Nat

VARIABLES surface,   \* which of the two pages is open
          route,     \* projectId of the route
          view,      \* projectView
          filter,    \* environmentFilter and requestIdFilter
          rows,      \* records (entries): the pages shown, each with the list it is of
          cursor,    \* nextCursor
          listLoading, listError,
          loadedFor,
          listGeneration,
          callsOut,     \* calls in flight
          stale,     \* history: the last page one asked for by a live effect failed
          logActs    \* acts of the operator so far

listVars == <<rows, cursor, listLoading, listError, loadedFor>>
logVars == <<surface, route, view, filter, listVars, listGeneration, callsOut, stale, logActs>>

Lists == [of : Routes \cup {OrganizationOf[p] : p \in Routes},
          environment : LogEnvironments, request_id : RequestIds]
Anything == [environment |-> NONE, request_id |-> NONE]

LogCall == [what : {"project", "first", "more"}, project : Routes, list : Lists \cup {NONE},
            page : 1 .. LastPage \cup {NONE}, generation : Nat, live : BOOLEAN]

LogTypeOK ==
    /\ surface \in {"requests", "audit"} /\ route \in Routes /\ loadedFor \in Routes \cup {NONE}
    /\ filter \in [environment : LogEnvironments, request_id : RequestIds]
    /\ listLoading \in BOOLEAN /\ listError \in BOOLEAN /\ stale \in BOOLEAN
    /\ listGeneration \in Nat /\ logActs \in 0 .. MaxLogActs
    /\ view \in [project : Routes, status : {"loading", "ready", "notFound", "error"}]
    /\ rows \in Seq([of : Lists, page : 1 .. LastPage])
    /\ cursor \in 2 .. LastPage \cup {NONE}
    /\ callsOut \subseteq LogCall
    /\ \A c \in callsOut : /\ c.generation <= listGeneration
                           /\ c.what # "project" => c.list \in Lists /\ c.page \in 1 .. LastPage

(***************************************************************************)
(* What the closures of the present render see.                            *)
(***************************************************************************)

projectReady == view = [project |-> route, status |-> "ready"]

ListUnder(owner, f) == [of |-> owner, environment |-> f.environment, request_id |-> f.request_id]

query == ListUnder(route, filter)

auditQuery == ListUnder(OrganizationOf[route], Anything)

ListOf(page) == IF page = "audit" THEN auditQuery ELSE query

Shown == projectReady /\ loadedFor = route

LoadMoreShown == Shown /\ cursor # NONE

AuditLoadMoreShown == surface = "audit" /\ Shown /\ cursor # NONE

(***************************************************************************)
(* Effects.  Clean-up marks the calls of the effects that go.              *)
(***************************************************************************)

Cancelled(calls, kinds) ==
    {IF c.what \in kinds THEN [c EXCEPT !.live = FALSE] ELSE c : c \in calls}

Call(kind, project, list, page, generation) ==
    [what |-> kind, project |-> project, list |-> list, page |-> page, generation |-> generation, live |-> TRUE]

ResolveProject(project) ==
    /\ view' = [project |-> project, status |-> "loading"]
    /\ listGeneration' = listGeneration + 1
    /\ callsOut' = Cancelled(callsOut, {"project", "first"})
                  \cup {Call("project", project, NONE, NONE, listGeneration')}

FirstPage(calls, list) ==
    /\ listLoading' = TRUE /\ listError' = FALSE
    /\ listGeneration' = listGeneration + 1
    /\ callsOut' = Cancelled(calls, {"first"}) \cup {Call("first", route, list, 1, listGeneration')}

Acting == logActs < MaxLogActs /\ logActs' = logActs + 1

(***************************************************************************)
(* The operator.                                                           *)
(***************************************************************************)

LogInit ==
    /\ surface \in {"requests", "audit"} /\ route \in Routes /\ filter = Anything
    /\ view = [project |-> route, status |-> "loading"]
    /\ rows = <<>> /\ cursor = NONE /\ listLoading = TRUE /\ listError = FALSE /\ loadedFor = NONE
    /\ listGeneration = 1 /\ stale = FALSE /\ logActs = 0
    /\ callsOut = {Call("project", route, NONE, NONE, 1)}

\* A client-side route change re-uses the component.
Navigate ==
    \E p \in Routes \ {route} :
        /\ Acting /\ route' = p /\ ResolveProject(p)
        /\ UNCHANGED <<surface, filter, listVars, stale>>

\* accessToken changes under the page.  Both effects run: the list effect still
\* sees a ready project and asks, and is cleaned up by the render that follows.
TokenRenewed ==
    /\ Acting /\ ResolveProject(route)
    /\ \/ projectReady /\ listLoading' = TRUE /\ listError' = FALSE
       \/ ~projectReady /\ UNCHANGED <<listLoading, listError>>
    /\ UNCHANGED <<surface, route, filter, rows, cursor, loadedFor, stale>>

\* The environment control, Find and Clear.  Find is disabled while a list loads.
ChangeFilter ==
    /\ surface = "requests" /\ Shown /\ Acting
    /\ \/ \E e \in LogEnvironments : filter' = [filter EXCEPT !.environment = e]
       \/ \E i \in RequestIds \ {NONE} : ~listLoading /\ filter' = [filter EXCEPT !.request_id = i]
       \/ filter.request_id # NONE /\ filter' = [filter EXCEPT !.request_id = NONE]
    /\ filter' # filter
    /\ FirstPage(callsOut, ListUnder(route, filter'))
    /\ UNCHANGED <<surface, route, view, rows, cursor, loadedFor, stale>>

AskMore(list) ==
    /\ ~listLoading /\ Acting
    /\ listLoading' = TRUE /\ listError' = FALSE
    /\ callsOut' = callsOut \cup {Call("more", route, list, cursor, listGeneration)}
    /\ UNCHANGED <<surface, route, view, filter, rows, cursor, loadedFor, listGeneration, stale>>

onLoadMore == surface = "requests" /\ LoadMoreShown /\ AskMore(query)

auditLoadMore == AuditLoadMoreShown /\ AskMore(auditQuery)

\* Copying shares the alert of the list: success clears it, failure sets it.
onCopyRequestId ==
    /\ Shown /\ rows # <<>> /\ Acting
    /\ listError' \in BOOLEAN
    /\ UNCHANGED <<surface, route, view, filter, rows, cursor, listLoading, loadedFor,
                   listGeneration, callsOut, stale>>

(***************************************************************************)
(* Answers.                                                                *)
(***************************************************************************)

NextCursor(page) == IF page < LastPage THEN page + 1 ELSE NONE

ProjectAnswered(c) ==
    /\ c.what = "project"
    /\ \/ /\ c.live
          /\ \E status \in {"ready", "notFound", "error"} :
                /\ view' = [project |-> c.project, status |-> status]
                /\ IF status = "ready" THEN FirstPage(callsOut \ {c}, ListOf(surface))
                   ELSE callsOut' = callsOut \ {c} /\ UNCHANGED <<listLoading, listError, listGeneration>>
       \/ /\ ~c.live
          /\ callsOut' = callsOut \ {c} /\ UNCHANGED <<view, listLoading, listError, listGeneration>>
    /\ UNCHANGED <<surface, route, filter, rows, cursor, loadedFor, stale, logActs>>

\* Page one replaces the table.  A failure keeps rows and cursor, and resolves the view.
FirstAnswered(c) ==
    /\ c.what = "first" /\ callsOut' = callsOut \ {c}
    /\ \/ /\ c.live /\ listLoading' = FALSE /\ loadedFor' = c.project
          /\ \/ /\ rows' = <<[of |-> c.list, page |-> 1]>> /\ cursor' = NextCursor(1)
                /\ stale' = FALSE /\ UNCHANGED <<view, listError>>
             \/ /\ view' = [project |-> c.project, status |-> "notFound"]
                /\ stale' = TRUE /\ UNCHANGED <<rows, cursor, listError>>
             \/ /\ listError' = TRUE /\ stale' = TRUE /\ UNCHANGED <<view, rows, cursor>>
       \/ ~c.live /\ UNCHANGED <<view, listVars, stale>>
    /\ UNCHANGED <<surface, route, filter, listGeneration, logActs>>

\* Mutant: an answer to Load more is not checked against the generation.
MoreAlways(c) ==
    /\ c.what = "more" /\ callsOut' = callsOut \ {c} /\ listLoading' = FALSE
    /\ \/ /\ rows' = Append(rows, [of |-> c.list, page |-> c.page])
          /\ cursor' = NextCursor(c.page) /\ UNCHANGED listError
       \/ listError' = TRUE /\ UNCHANGED <<rows, cursor>>
    /\ UNCHANGED <<surface, route, view, filter, loadedFor, listGeneration, stale, logActs>>

MoreAnswered(c) ==
    /\ c.what = "more" /\ callsOut' = callsOut \ {c}
    /\ \/ /\ c.generation = listGeneration /\ listLoading' = FALSE
          /\ \/ /\ rows' = Append(rows, [of |-> c.list, page |-> c.page])
                /\ cursor' = NextCursor(c.page) /\ UNCHANGED listError
             \/ listError' = TRUE /\ UNCHANGED <<rows, cursor>>
       \/ c.generation # listGeneration /\ UNCHANGED <<rows, cursor, listLoading, listError>>
    /\ UNCHANGED <<surface, route, view, filter, loadedFor, listGeneration, stale, logActs>>

LogNext ==
    \/ Navigate \/ TokenRenewed \/ ChangeFilter \/ onLoadMore \/ auditLoadMore \/ onCopyRequestId
    \/ \E c \in callsOut : ProjectAnswered(c) \/ FirstAnswered(c) \/ MoreAnswered(c)

LogSpec == LogInit /\ [][LogNext]_logVars

(***************************************************************************)
(* Properties.                                                             *)
(***************************************************************************)

\* Once a list has loaded, the table is its first pages, in order and without a gap, of the
\* addressed project (organization) under the selected filter, whatever answers of earlier
\* routes, filters and tokens came in between.
TableIsOneList ==
    Shown /\ ~listLoading /\ ~stale =>
        /\ rows = [n \in 1 .. Len(rows) |-> [of |-> ListOf(surface), page |-> n]]
        /\ cursor = NextCursor(Len(rows))

\* "rows held from another project (a client-side route change re-uses the component) are
\* never displayed (§7)".
NoForeignRows ==
    Shown => \A n \in 1 .. Len(rows) : rows[n].of.of = ListOf(surface).of
===============================================================================
