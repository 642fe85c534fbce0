------------------------------ MODULE RequestLog ------------------------------
(***************************************************************************)
(* A request seen from outside its handler: the guards that attach scope   *)
(* to it, the HTTP metrics, the request log written after the response,    *)
(* its retention pass, and a reader who walks the log page by page.        *)
(*                                                                         *)
(* The client may go away at any step.  A row's id is drawn when the       *)
(* response finishes and the INSERT commits whenever it does, so rows may  *)
(* appear out of id order.                                                 *)
(***************************************************************************)
EXTENDS Naturals, FiniteSets, Absence

CONSTANTS HttpCalls, Users, ApiKeys,
          LogProjects,
          ProjectOfKey,
          HandlerStatuses, \* of the 2xx, 4xx and 5xx a handler answers, those an instance uses
          PageLimit,      \* limit of the reader
          LogBatch,       \* CLEANUP_BATCH
          LogPasses,      \* CLEANUP_MAX_PAGES
          LogRetention,
          MaxLogTime,     \* bound of the model: clock
          MaxAccessTurns  \* bound of the model: changes of membership, keys and projects

ASSUME RequestLogAssumption ==
    /\ ProjectOfKey \in [ApiKeys -> LogProjects]
    /\ {PageLimit, LogBatch, LogPasses} \subseteq Nat \ {0}
    /\ {LogRetention, MaxLogTime, MaxAccessTurns} \subseteq Nat
    /\ IsFiniteSet(HttpCalls) /\ NONE \notin LogProjects \cup ApiKeys \cup Nat

VARIABLES http,        \* the requests
          membersOf, validKeys, liveProjects,   \* what the guards read
          inFlight,    \* brinnpay_http_requests_in_flight
          observed,    \* how often each request was counted in brinnpay_http_requests_total
          logWriteFailures,
          logRows,     \* request_logs
          lastId,      \* the last id drawn, and the writes attempted
          retentionPass, walk, logTime, accessTurns,
          entitled     \* history: projects each caller could open at some time since the request came

accessVars == <<membersOf, validKeys, liveProjects, accessTurns>>
metricVars == <<inFlight, observed>>
storeVars == <<logWriteFailures, logRows, lastId>>
httpVars == <<http, accessVars, metricVars, storeVars, retentionPass, walk, logTime, entitled>>

Unsent == [step |-> "unsent"]
Finished == [step |-> "done"]
Rejections == {401, 403, 404}
StatusCodes == {0} \cup HandlerStatuses \cup Rejections

Underway(r) == http[r] \notin {Unsent, Finished}

LogRow == [id : Nat, of : HttpCalls, project : LogProjects \cup {NONE},
           status : StatusCodes, created : Nat]

HttpCall ==
    [step : {"authenticating", "scoping", "resolving", "handling", "replying", "writing"},
     caller : Users \cup ApiKeys, target : LogProjects \cup {NONE}, found : BOOLEAN,
     authUser : Users \cup {NONE}, apiKey : ApiKeys \cup {NONE}, project : LogProjects \cup {NONE},
     status : StatusCodes, recorded : BOOLEAN, closed : BOOLEAN,
     record : LogRow \cup {NONE}]

RequestLogTypeOK ==
    /\ http \in [HttpCalls -> {Unsent, Finished} \cup HttpCall]
    /\ membersOf \subseteq Users \X LogProjects /\ validKeys \subseteq ApiKeys
    /\ liveProjects \subseteq LogProjects
    /\ inFlight = Cardinality({r \in HttpCalls : Underway(r) /\ ~http[r].recorded})
    /\ observed \in [HttpCalls -> 0 .. 1]
    /\ logRows \subseteq LogRow /\ IsFiniteSet(logRows) /\ \A row \in logRows : row.id \in 1 .. lastId
    /\ lastId \in Nat /\ logWriteFailures \in 0 .. lastId
    /\ logTime \in 0 .. MaxLogTime /\ accessTurns \in 0 .. MaxAccessTurns
    /\ entitled \in [HttpCalls -> SUBSET LogProjects]

Openable(caller) ==
    {p \in liveProjects : \/ caller \in Users /\ <<caller, p>> \in membersOf
                          \/ caller \in validKeys /\ ProjectOfKey[caller] = p}

\* Stated last in an action: it looks at the tables the action leaves behind.
Entitle ==
    entitled' = [r \in HttpCalls |->
        IF Underway(r) THEN entitled[r] \cup Openable(http[r].caller)' ELSE entitled[r]]

At(r, step) == http[r].step = step

Go(r, step) == http' = [http EXCEPT ![r].step = step]

Respond(r, status) == http' = [http EXCEPT ![r] = [@ EXCEPT !.step = "replying", !.status = status]]

RequestLogInit ==
    /\ http = [r \in HttpCalls |-> Unsent] /\ membersOf \in SUBSET (Users \X LogProjects)
    /\ validKeys = ApiKeys /\ liveProjects = LogProjects /\ accessTurns = 0
    /\ inFlight = 0 /\ observed = [r \in HttpCalls |-> 0]
    /\ logWriteFailures = 0 /\ logRows = {} /\ lastId = 0
    /\ retentionPass = NONE /\ walk = NONE /\ logTime = 0 /\ entitled = [r \in HttpCalls |-> {}]

(***************************************************************************)
(* Ingress and guards.                                                     *)
(***************************************************************************)

\* Probes, assets and preflights are neither measured nor recorded, and are left out.
Receive(r) ==
    /\ http[r] = Unsent
    /\ \E caller \in Users \cup ApiKeys, target \in LogProjects \cup {NONE} :
          http' = [http EXCEPT ![r] =
              [step |-> "authenticating", caller |-> caller, target |-> target, found |-> FALSE,
               authUser |-> NONE, apiKey |-> NONE, project |-> NONE,
               status |-> 0, recorded |-> FALSE, closed |-> FALSE, record |-> NONE]]
    /\ inFlight' = inFlight + 1
    /\ entitled' = [entitled EXCEPT ![r] = Openable(http'[r].caller)]
    /\ UNCHANGED <<accessVars, observed, storeVars, retentionPass, walk, logTime>>

Aside == UNCHANGED <<accessVars, metricVars, storeVars, retentionPass, walk, logTime, entitled>>

ApiKeyAuth(r) ==
    /\ At(r, "authenticating") /\ http[r].caller \in ApiKeys
    /\ IF http[r].caller \in validKeys
       THEN http' = [http EXCEPT ![r].step = "scoping", ![r].apiKey = http[r].caller] ELSE Respond(r, 401)
    /\ Aside

SessionAuth(r) ==
    /\ At(r, "authenticating") /\ http[r].caller \in Users
    /\ \/ http' = [http EXCEPT ![r].step = IF http[r].target = NONE THEN "handling" ELSE "resolving",
                               ![r].authUser = http[r].caller]
       \/ Respond(r, 401)
    /\ Aside

\* The key is the authority: the path must name its project, and nothing is attached.
authorizeApiKeyMode(r) ==
    /\ At(r, "scoping")
    /\ IF http[r].target = ProjectOfKey[http[r].apiKey] THEN Go(r, "handling") ELSE Respond(r, 404)
    /\ Aside

\* Mutant: the project is attached as soon as it is found.
AttachWhenFound(r) ==
    /\ At(r, "resolving") /\ ~http[r].found
    /\ IF http[r].target \in liveProjects
       THEN http' = [http EXCEPT ![r].found = TRUE, ![r].project = http[r].target] ELSE Respond(r, 404)
    /\ Aside

resolveSessionProject(r) ==
    /\ At(r, "resolving") /\ ~http[r].found
    /\ IF http[r].target \in liveProjects THEN http' = [http EXCEPT ![r].found = TRUE] ELSE Respond(r, 404)
    /\ Aside

\* The project is attached once the membership is known, so that a refusal of the capability
\* is logged with its scope and a refusal of a stranger without.
authorizeSessionMode(r) ==
    /\ At(r, "resolving") /\ http[r].found
    /\ IF <<http[r].caller, http[r].target>> \in membersOf
       THEN \/ http' = [http EXCEPT ![r].step = "handling", ![r].project = http[r].target]
            \/ http' = [http EXCEPT ![r] = [@ EXCEPT !.step = "replying", !.status = 403,
                                                     !.project = http[r].target]]
       ELSE Respond(r, 404)
    /\ Aside

Handle(r) == At(r, "handling") /\ (\E status \in HandlerStatuses : Respond(r, status)) /\ Aside

(***************************************************************************)
(* The end of a response: the metrics listen to finish and to close, the   *)
(* request log to finish only.                                             *)
(***************************************************************************)

Observe(r) ==
    IF http[r].recorded THEN UNCHANGED metricVars
    ELSE inFlight' = inFlight - 1 /\ observed' = [observed EXCEPT ![r] = @ + 1]

resolveRequestLogScope(r) ==
    IF http[r].project # NONE THEN http[r].project
    ELSE IF http[r].apiKey # NONE THEN ProjectOfKey[http[r].apiKey] ELSE NONE

Finish(r) ==
    /\ At(r, "replying") /\ ~http[r].closed /\ Observe(r)
    /\ lastId' = lastId + 1
    /\ http' = [http EXCEPT ![r].step = "writing", ![r].recorded = TRUE,
                            ![r].record = [id |-> lastId + 1, of |-> r, project |-> resolveRequestLogScope(r),
                                           status |-> http[r].status, created |-> logTime]]
    /\ UNCHANGED <<accessVars, logWriteFailures, logRows, retentionPass, walk, logTime, entitled>>

\* The client goes away, or the connection ends after the response.
Close(r) ==
    /\ Underway(r) /\ ~http[r].closed /\ Observe(r)
    /\ http' = [http EXCEPT ![r].closed = TRUE, ![r].recorded = TRUE]
    /\ UNCHANGED <<accessVars, storeVars, retentionPass, walk, logTime, entitled>>

\* Best effort: a failure is counted and the record dropped.  A foreign key that no longer
\* holds is one.
write(r) ==
    /\ At(r, "writing") /\ http' = [http EXCEPT ![r] = Finished]
    /\ \/ /\ http[r].record.project \in liveProjects \cup {NONE}
          /\ logRows' = logRows \cup {http[r].record} /\ UNCHANGED logWriteFailures
       \/ logWriteFailures' = logWriteFailures + 1 /\ UNCHANGED logRows
    /\ UNCHANGED <<accessVars, metricVars, lastId, retentionPass, walk, logTime, entitled>>

(***************************************************************************)
(* Retention: pages of ids, each read and then deleted.                    *)
(***************************************************************************)

Oldest(rows, n) ==
    {ids \in SUBSET rows : /\ Cardinality(ids) = IF Cardinality(rows) < n THEN Cardinality(rows) ELSE n
                           /\ \A x \in ids, y \in rows \ ids : x.created <= y.created}

Expired(cutoff) == {row \in logRows : row.created + LogRetention < cutoff}

SelectExpired(cutoff, page) ==
    \E ids \in Oldest(Expired(cutoff), LogBatch) :
        retentionPass' = IF ids = {} THEN NONE ELSE [cutoff |-> cutoff, page |-> page, ids |-> ids]

cleanupExpired ==
    /\ retentionPass = NONE /\ Expired(logTime) # {} /\ SelectExpired(logTime, 1)
    /\ UNCHANGED <<http, accessVars, metricVars, storeVars, walk, logTime, entitled>>

DeletePage ==
    /\ retentionPass # NONE /\ logRows' = logRows \ retentionPass.ids
    /\ retentionPass' = IF Cardinality(retentionPass.ids) < LogBatch \/ retentionPass.page = LogPasses
                        THEN NONE ELSE [retentionPass EXCEPT !.page = @ + 1, !.ids = {}]
    /\ walk' = IF walk = NONE THEN NONE ELSE [walk EXCEPT !.owed = @ \ retentionPass.ids]
    /\ UNCHANGED <<http, accessVars, metricVars, logWriteFailures, lastId, logTime, entitled>>

NextExpiredPage ==
    /\ retentionPass # NONE /\ retentionPass.ids = {} /\ SelectExpired(retentionPass.cutoff, retentionPass.page)
    /\ UNCHANGED <<http, accessVars, metricVars, storeVars, walk, logTime, entitled>>

PassFails ==
    /\ retentionPass # NONE /\ retentionPass' = NONE
    /\ UNCHANGED <<http, accessVars, metricVars, storeVars, walk, logTime, entitled>>

(***************************************************************************)
(* A reader: list() with the cursor of the page before, until has_more is  *)
(* false.  owed (history) is what was there when it began and still is.    *)
(***************************************************************************)

\* Mutant: a cursor that includes the row it names.
PageFromCursor(project, cursor) ==
    LET matching == {row \in logRows : row.project = project /\ row.id >= cursor}
    IN  {row \in matching : Cardinality({other \in matching : other.id < row.id}) < PageLimit}

PageOf(project, cursor) ==
    LET matching == {row \in logRows : row.project = project /\ row.id > cursor}
    IN  {row \in matching : Cardinality({other \in matching : other.id < row.id}) < PageLimit}

HasMoreAfter(project, cursor) ==
    Cardinality({row \in logRows : row.project = project /\ row.id > cursor}) > PageLimit

LastOf(rows) == CHOOSE id \in {row.id : row \in rows} : \A row \in rows : row.id <= id

Fetch(project, cursor, owed, seen) ==
    LET data == PageOf(project, cursor)
    IN  walk' = [project |-> project, owed |-> owed, seen |-> seen \cup data, doubled |-> seen \cap data # {},
                 cursor |-> IF HasMoreAfter(project, cursor) THEN LastOf(data) ELSE NONE]

StartWalk ==
    /\ walk = NONE
    /\ \E p \in LogProjects : Fetch(p, 0, {row \in logRows : row.project = p}, {})
    /\ UNCHANGED <<http, accessVars, metricVars, storeVars, retentionPass, logTime, entitled>>

NextPage ==
    /\ walk # NONE
    /\ IF walk.cursor = NONE THEN walk' = NONE
       ELSE Fetch(walk.project, walk.cursor, walk.owed, walk.seen)
    /\ UNCHANGED <<http, accessVars, metricVars, storeVars, retentionPass, logTime, entitled>>

(***************************************************************************)
(* The world.                                                              *)
(***************************************************************************)

Turn == accessTurns < MaxAccessTurns /\ accessTurns' = accessTurns + 1

\* A membership begins or ends, or a key is revoked.
MemberTurns ==
    /\ Turn /\ \E m \in Users \X LogProjects : membersOf' = (membersOf \cup {m}) \ (membersOf \cap {m})
    /\ UNCHANGED <<http, validKeys, liveProjects>> /\ Entitle
    /\ UNCHANGED <<metricVars, storeVars, retentionPass, walk, logTime>>

KeyRevoked ==
    /\ Turn /\ \E k \in validKeys : validKeys' = validKeys \ {k}
    /\ UNCHANGED <<http, membersOf, liveProjects>> /\ Entitle
    /\ UNCHANGED <<metricVars, storeVars, retentionPass, walk, logTime>>

\* The rows and the keys of a project go with it.
ProjectDeleted ==
    /\ Turn
    /\ \E p \in liveProjects :
          /\ liveProjects' = liveProjects \ {p}
          /\ validKeys' = {k \in validKeys : ProjectOfKey[k] # p}
          /\ logRows' = {row \in logRows : row.project # p}
          /\ walk' = IF walk = NONE THEN NONE ELSE [walk EXCEPT !.owed = @ \cap logRows']
    /\ UNCHANGED <<http, membersOf>> /\ Entitle
    /\ UNCHANGED <<metricVars, logWriteFailures, lastId, retentionPass, logTime>>

LogTick ==
    /\ logTime < MaxLogTime /\ logTime' = logTime + 1
    /\ UNCHANGED <<http, accessVars, metricVars, storeVars, retentionPass, walk, entitled>>

RequestLogNext ==
    \/ \E r \in HttpCalls :
          \/ Receive(r) \/ ApiKeyAuth(r) \/ SessionAuth(r) \/ authorizeApiKeyMode(r)
          \/ resolveSessionProject(r) \/ authorizeSessionMode(r) \/ Handle(r)
          \/ Finish(r) \/ Close(r) \/ write(r)
    \/ cleanupExpired \/ DeletePage \/ NextExpiredPage \/ PassFails
    \/ StartWalk \/ NextPage \/ MemberTurns \/ KeyRevoked \/ ProjectDeleted \/ LogTick

RequestLogSpec == RequestLogInit /\ [][RequestLogNext]_httpVars

(***************************************************************************)
(* Properties.                                                             *)
(***************************************************************************)

\* "a non-member can never write rows into a foreign tenant's log": a row carries a project
\* only when its caller could open that project at some time while the request ran.
NoRowFromStrangers ==
    \A row \in logRows : row.project # NONE => row.project \in entitled[row.of]

\* A walk that has ended returned every row that was there from its first page to its last,
\* and no row twice, whatever was written, expired or deleted between its pages.
WalkMissesNothing ==
    walk # NONE => /\ ~walk.doubled
                   /\ walk.cursor = NONE => walk.owed \subseteq walk.seen
===============================================================================
