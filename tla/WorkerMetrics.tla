------------------------------ MODULE WorkerMetrics ------------------------------
(***************************************************************************)
(* The worker's exposition: WorkerHttpListener, which answers scrapes on a *)
(* port of its own, and the two age gauges of WorkerMetricsService         *)
(* (apps/api/src/metrics), which one pass over the database fills while    *)
(* scrapes overlap, deliveries settle and the database fails.              *)
(*                                                                         *)
(* An age is the instant it counts from, so that time may stand still.     *)
(***************************************************************************)
EXTENDS Naturals, FiniteSets, Absence

CONSTANTS Scrapes,
          Backlogged,    \* endpoints
          ProjectOfEnd,  \* [Backlogged -> projects]
          MAX_PENDING_PROJECTS,
          MaxTurns       \* bound of the model: passes and changes of the backlog

ASSUME MetricsAssumption ==
    /\ {MAX_PENDING_PROJECTS, MaxTurns} \subseteq Nat
    /\ DOMAIN ProjectOfEnd = Backlogged /\ NONE \notin Nat

VARIABLES listener,      \* "down", "up" or "closing"
          oldestPending, \* createdAt of the oldest pending delivery of each endpoint, NONE
          known,         \* the endpoints that exist
          passes,        \* passes under way
          inflight,      \* oldestPendingCollect: the pass that is shared, NONE
          age,           \* oldestPendingAge: the pass that wrote it, and the instant, or NONE for 0
          ages,          \* oldestPendingByProject: the same of each project, NONE without a series
          scrape,        \* what each scrape waits for and has
          turns

metricsStore == <<passes, inflight, age, ages>>
metricsVars == <<listener, oldestPending, known, metricsStore, scrape, turns>>

Tenanted == {ProjectOfEnd[e] : e \in Backlogged}
Written == [pass : 0 .. MaxTurns, since : 0 .. MaxTurns \cup {NONE}]

PendingRow == [endpoint : Backlogged, since : 0 .. MaxTurns]
Pass == [number : 1 .. MaxTurns, step : {"group", "projects"}, rows : SUBSET PendingRow]
Scraping == [state : {"none", "waiting", "answered"},
             agePass : 1 .. MaxTurns \cup {NONE}, age : Written \cup {NONE},
             agesPass : 1 .. MaxTurns \cup {NONE}, ages : [Tenanted -> Written \cup {NONE}] \cup {NONE}]

ASSUME NoneIsNoReading == NONE \notin Written \cup [Tenanted -> Written \cup {NONE}]

MetricsTypeOK ==
    /\ listener \in {"down", "up", "closing"} /\ turns \in 0 .. MaxTurns
    /\ oldestPending \in [Backlogged -> 0 .. MaxTurns \cup {NONE}] /\ known \subseteq Backlogged
    /\ age \in Written /\ ages \in [Tenanted -> Written \cup {NONE}]
    /\ passes \subseteq Pass /\ scrape \in [Scrapes -> Scraping]
    /\ inflight = NONE \/ \E p \in passes : p.number = inflight

Waiting == [state |-> "waiting", agePass |-> NONE, age |-> NONE, agesPass |-> NONE, ages |-> NONE]
NotWaiting == [Waiting EXCEPT !.state = "none"]

MetricsInit ==
    /\ listener = "down" /\ turns = 0 /\ known = Backlogged
    /\ oldestPending \in [Backlogged -> {0, NONE}]
    /\ passes = {} /\ inflight = NONE /\ age = [pass |-> 0, since |-> NONE]
    /\ ages = [p \in Tenanted |-> NONE]
    /\ scrape = [s \in Scrapes |-> NotWaiting]

MetricsTurn == turns < MaxTurns /\ turns' = turns + 1

--------------------------------------------------------------------------------
(* The listener *)

\* A lost port race is logged, and the worker goes on without a listener.
start ==
    /\ listener = "down" /\ listener' = "up"
    /\ UNCHANGED <<oldestPending, known, metricsStore, scrape, turns>>

\* No scrape is accepted any more; those under way are answered.
stop ==
    /\ listener = "up" /\ listener' = "closing"
    /\ UNCHANGED <<oldestPending, known, metricsStore, scrape, turns>>

Stopped ==
    /\ listener = "closing" /\ \A s \in Scrapes : scrape[s].state # "waiting"
    /\ listener' = "down"
    /\ UNCHANGED <<oldestPending, known, metricsStore, scrape, turns>>

isScrapeAuthorized(presented, token) == token = NONE \/ presented = token

\* The reply to a request, "render" when the exposition is to be built.
handle(r) ==
    CASE r.path = "live" -> IF r.method \in {"GET", "HEAD"} THEN "200" ELSE "405"
      [] r.path = "metrics" -> IF ~r.enabled THEN "404"
                               ELSE IF r.method \notin {"GET", "HEAD"} THEN "405"
                               ELSE IF ~isScrapeAuthorized(r.presented, r.token) THEN "401"
                               ELSE "render"
      [] OTHER -> "404"

Arriving == [path : {"live", "metrics"}, method : {"GET", "POST"}, enabled : BOOLEAN,
             presented : {NONE, "t"}, token : {NONE, "t"}]

--------------------------------------------------------------------------------
(* A scrape: every gauge collects at once, and awaits its own collect *)

NewPass == [number |-> turns', step |-> "group", rows |-> {}]

\* Mutant: every gauge starts a pass of its own.
CollectEach(s) ==
    /\ MetricsTurn /\ passes' = passes \cup {NewPass, [NewPass EXCEPT !.number = turns]}
    /\ inflight' = NONE
    /\ scrape' = [scrape EXCEPT ![s] = [Waiting EXCEPT !.agePass = turns, !.agesPass = turns']]

\* The first gauge starts the pass unless one is in flight, and the other awaits the same.
collectOldestPendingOnce(s) ==
    /\ IF inflight = NONE
       THEN MetricsTurn /\ passes' = passes \cup {NewPass} /\ inflight' = turns'
       ELSE UNCHANGED <<passes, inflight, turns>>
    /\ scrape' = [scrape EXCEPT ![s] = [Waiting EXCEPT !.agePass = inflight', !.agesPass = inflight']]

Scrape(s) ==
    /\ listener = "up" /\ scrape[s].state # "waiting"
    /\ \E r \in Arriving : handle(r) = "render"
    /\ collectOldestPendingOnce(s)
    /\ UNCHANGED <<listener, oldestPending, known, age, ages>>

--------------------------------------------------------------------------------
(* The pass *)

Backed(e) == oldestPending[e] # NONE

OldestOf(rows) == CHOOSE r \in rows : \A q \in rows : r.since <= q.since

\* The gauges that await the pass go on at once, before any other callback: each takes its own
\* values, and a scrape that has both is answered.
Took(s, number, a, series) ==
    LET x == [scrape[s] EXCEPT !.age = IF scrape[s].agePass = number THEN a ELSE @,
                               !.ages = IF scrape[s].agesPass = number THEN series ELSE @]
    IN [x EXCEPT !.state = IF @ = "waiting" /\ x.age # NONE /\ x.ages # NONE THEN "answered" ELSE @]

FinishPass(p) ==
    /\ passes' = passes \ {p}
    /\ inflight' = IF inflight = p.number THEN NONE ELSE inflight
    /\ scrape' = [s \in Scrapes |-> Took(s, p.number, age', ages')]

Continue(p, rows) ==
    /\ passes' = (passes \ {p}) \cup {[p EXCEPT !.step = "projects", !.rows = rows]}
    /\ UNCHANGED <<inflight, scrape>>

\* One row for each endpoint, the oldest first; one more than fits withholds the series.
GroupPending(p) ==
    LET rows == {[endpoint |-> e, since |-> oldestPending[e]] : e \in {x \in Backlogged : Backed(x)}} IN
    /\ p.step = "group"
    /\ ages' = [q \in Tenanted |-> NONE]
    /\ age' = [pass |-> p.number, since |-> IF rows = {} THEN NONE ELSE OldestOf(rows).since]
    /\ IF rows = {} \/ Cardinality(rows) > MAX_PENDING_PROJECTS THEN FinishPass(p) ELSE Continue(p, rows)
    /\ UNCHANGED <<listener, oldestPending, known, turns>>

\* The projects of the endpoints that still exist; the oldest row of a project counts.
ResolveProjects(p) ==
    LET RowsOf(q) == {r \in p.rows : r.endpoint \in known /\ ProjectOfEnd[r.endpoint] = q} IN
    /\ p.step = "projects"
    /\ ages' = [q \in Tenanted |-> IF RowsOf(q) = {} THEN ages[q]
                                   ELSE [pass |-> p.number, since |-> OldestOf(RowsOf(q)).since]]
    /\ UNCHANGED age /\ FinishPass(p)
    /\ UNCHANGED <<listener, oldestPending, known, turns>>

\* Either read fails: the aggregate is zero, the series stay as they are.
CollectFails(p) ==
    /\ age' = [pass |-> p.number, since |-> NONE] /\ UNCHANGED ages /\ FinishPass(p)
    /\ UNCHANGED <<listener, oldestPending, known, turns>>

--------------------------------------------------------------------------------
(* The backlog *)

\* A delivery is booked where none is pending; all that are pending are settled; an endpoint is
\* deleted with its deliveries.
BacklogMoves ==
    /\ MetricsTurn
    /\ \E e \in Backlogged :
          \/ /\ e \in known /\ ~Backed(e) /\ oldestPending' = [oldestPending EXCEPT ![e] = turns']
             /\ UNCHANGED known
          \/ Backed(e) /\ oldestPending' = [oldestPending EXCEPT ![e] = NONE] /\ UNCHANGED known
          \/ e \in known /\ known' = known \ {e} /\ oldestPending' = [oldestPending EXCEPT ![e] = NONE]
    /\ UNCHANGED <<listener, metricsStore, scrape>>

MetricsNext ==
    \/ start \/ stop \/ Stopped \/ BacklogMoves
    \/ \E s \in Scrapes : Scrape(s)
    \/ \E p \in passes : GroupPending(p) \/ ResolveProjects(p) \/ CollectFails(p)

MetricsSpec == MetricsInit /\ [][MetricsNext]_metricsVars

--------------------------------------------------------------------------------
(* Properties *)

Series(x) == {x.ages[q] : q \in Tenanted} \ {NONE}

(* An answered scrape tells of one moment: when it shows an age, every     *)
(* series beside it comes from the same pass and none is older, however    *)
(* scrapes overlap, and two scrapes never answer from halves of a pass.    *)
ExpositionOfOneMoment ==
    \A s \in Scrapes :
        scrape[s].state = "answered" /\ scrape[s].age.since # NONE =>
            \A x \in Series(scrape[s]) : /\ x.pass = scrape[s].age.pass
                                         /\ x.since >= scrape[s].age.since
================================================================================
