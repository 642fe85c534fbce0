----------------------------- MODULE PlatformProofs -----------------------------
(***************************************************************************)
(* Proofs about the modules of the platform: the request log, the reader   *)
(* of its pages, the rate limiter, the worker's exposition, the validation *)
(* of the images, the configuration, and the load test.                    *)
(***************************************************************************)
EXTENDS RequestLog, RateLimiter, WorkerMetrics, ProductionValidation, Configuration,
        LoadTest,
        FiniteSetTheorems, SequenceTheorems, WellFoundedInduction, TLAPS

(***************************************************************************)
(* The request log.                                                        *)
(***************************************************************************)

\* A row may name a project its caller never could open only once that project is gone, and
\* then the foreign key refuses the row.
Attested(row) == row.project # NONE => row.project \in entitled[row.of] \/ row.project \notin liveProjects

CallInv(r) ==
    /\ http[r] = Unsent => observed[r] = 0
    /\ Underway(r) =>
          /\ Openable(http[r].caller) \subseteq entitled[r]
          /\ http[r].step = "resolving" => http[r].caller \in Users
          /\ http[r].apiKey # NONE => ProjectOfKey[http[r].apiKey] \in entitled[r]
          /\ http[r].project # NONE => http[r].project \in entitled[r] \/ http[r].project \notin liveProjects
          /\ observed[r] = IF http[r].recorded THEN 1 ELSE 0
          /\ http[r].step = "writing" => /\ http[r].recorded /\ http[r].record \in LogRow
                                         /\ http[r].record.of = r /\ http[r].record.id \in 1 .. lastId
                                         /\ Attested(http[r].record)

Pending == {r \in HttpCalls : Underway(r) /\ ~http[r].recorded}
Writing == {r \in HttpCalls : At(r, "writing")}

RowsAttested ==
    \A row \in logRows : http[row.of] = Finished /\ (row.project # NONE => row.project \in entitled[row.of])

KeysOfLiveProjects == \A key \in validKeys : ProjectOfKey[key] \in liveProjects

LogInv ==
    /\ RequestLogTypeOK
    /\ \A r \in HttpCalls : CallInv(r)
    /\ KeysOfLiveProjects
    /\ RowsAttested
    /\ logWriteFailures + Cardinality(Writing) <= lastId

\* A request that a guard, a handler or the end of its response is about is a full record.
LEMMA CallIsRecord ==
    ASSUME RequestLogTypeOK, NEW r \in HttpCalls, NEW s, At(r, s), s \notin {"unsent", "done"}
    PROVE  http[r] \in HttpCall /\ Underway(r)
BY DEF RequestLogTypeOK, At, Underway, Unsent, Finished

\* An underway request is a full record.
LEMMA UnderwayIsRecord ==
    ASSUME RequestLogTypeOK, NEW r \in HttpCalls, Underway(r)
    PROVE  http[r] \in HttpCall
BY DEF RequestLogTypeOK, Underway

\* Full records are underway.
LEMMA RecordIsUnderway ==
    ASSUME NEW h \in HttpCall
    PROVE  h \notin {Unsent, Finished}
<1>1. h.step \in {"authenticating", "scoping", "resolving", "handling", "replying", "writing"} BY DEF HttpCall
<1>2. Unsent.step = "unsent" /\ Finished.step = "done" BY DEF Unsent, Finished
<1> QED BY <1>1, <1>2

\* Replacing the record of one request by another.
LEMMA OneCallChanges ==
    ASSUME RequestLogTypeOK, NEW r \in HttpCalls, NEW h, http' = [http EXCEPT ![r] = h]
    PROVE  /\ http'[r] = h
           /\ \A s \in HttpCalls : s # r => http'[s] = http[s]
           /\ h \in HttpCall \cup {Finished} => http' \in [HttpCalls -> {Unsent, Finished} \cup HttpCall]
<1>1. http \in [HttpCalls -> {Unsent, Finished} \cup HttpCall] BY DEF RequestLogTypeOK
<1> QED BY <1>1

\* The two counted sets are finite.
LEMMA CountedSetsFinite ==
    /\ IsFiniteSet(Pending) /\ Cardinality(Pending) \in Nat
    /\ IsFiniteSet(Writing) /\ Cardinality(Writing) \in Nat
<1>1. Pending \in SUBSET HttpCalls /\ Writing \in SUBSET HttpCalls BY DEF Pending, Writing
<1>2. IsFiniteSet(HttpCalls) BY RequestLogAssumption
<1> QED BY <1>1, <1>2, FS_Subset, FS_CardinalityType

\* The guards and the handler: they move a request on, look at the tables and write none.
LEMMA GuardsKeep ==
    ASSUME LogInv, NEW r \in HttpCalls, http[r] \in HttpCall, NEW h \in HttpCall,
           http' = [http EXCEPT ![r] = h], Aside,
           http[r].step # "writing", h.step # "writing",
           h.caller = http[r].caller, h.recorded = http[r].recorded,
           h.step = "resolving" => h.caller \in Users,
           h.apiKey # NONE => ProjectOfKey[h.apiKey] \in entitled[r],
           h.project # NONE => h.project \in entitled[r] \/ h.project \notin liveProjects
    PROVE  LogInv'
<1> USE DEF Aside, accessVars, metricVars, storeVars
<1>0. RequestLogTypeOK BY DEF LogInv
<1>1. /\ http'[r] = h /\ http' \in [HttpCalls -> {Unsent, Finished} \cup HttpCall]
      /\ \A s \in HttpCalls : s # r => http'[s] = http[s]
  BY <1>0, OneCallChanges
<1>2. h \notin {Unsent, Finished} /\ http[r] \notin {Unsent, Finished} BY RecordIsUnderway
<1>3. Pending' = Pending BY <1>1, <1>2 DEF Pending, Underway
<1>4. Writing' = Writing BY <1>1 DEF Writing, At
<1>5. RequestLogTypeOK' BY <1>0, <1>1, <1>3 DEF RequestLogTypeOK, Pending
<1>6. ASSUME NEW s \in HttpCalls, s # r PROVE CallInv(s)'
  <2>1. http'[s] = http[s] BY <1>1, <1>6
  <2>2. CallInv(s) BY DEF LogInv
  <2> QED BY <2>1, <2>2 DEF CallInv, Underway, Openable, Attested
<1>7. CallInv(r)'
  <2>1. CallInv(r) BY DEF LogInv
  <2>2. Openable(h.caller)' = Openable(http[r].caller) BY DEF Openable
  <2> QED BY <1>1, <1>2, <2>1, <2>2 DEF CallInv, Underway
<1>8. RowsAttested'
  <2>1. \A row \in logRows : row.of \in HttpCalls BY <1>0 DEF RequestLogTypeOK, LogRow
  <2> QED BY <2>1, <1>1, <1>2 DEF LogInv, RowsAttested
<1>9. KeysOfLiveProjects' BY DEF LogInv, KeysOfLiveProjects
<1> QED BY <1>4, <1>5, <1>6, <1>7, <1>8, <1>9 DEF LogInv


\* A request that moves on with another step and status and the same scope.
LEMMA PassingOnKeeps ==
    ASSUME LogInv, NEW r \in HttpCalls, http[r] \in HttpCall, Underway(r), http[r].step # "writing", Aside,
           NEW newStep \in {"handling", "replying"}, NEW newStatus \in StatusCodes,
           http' = [http EXCEPT ![r] = [http[r] EXCEPT !.step = newStep, !.status = newStatus]]
    PROVE  LogInv'
<1> DEFINE h == [http[r] EXCEPT !.step = newStep, !.status = newStatus]
<1>1. http' = [http EXCEPT ![r] = h] OBVIOUS
<1>2. /\ h \in HttpCall /\ h.step = newStep /\ h.caller = http[r].caller
      /\ h.recorded = http[r].recorded /\ h.apiKey = http[r].apiKey /\ h.project = http[r].project
  BY DEF HttpCall
<1>3. CallInv(r) BY DEF LogInv
<1> HIDE DEF h
<1> QED BY <1>1, <1>2, <1>3, GuardsKeep DEF CallInv

\* A guard answers for the handler.
LEMMA RejectionKeeps ==
    ASSUME LogInv, NEW r \in HttpCalls, http[r] \in HttpCall, Underway(r), http[r].step # "writing", Aside,
           Respond(r, 401) \/ Respond(r, 403) \/ Respond(r, 404)
    PROVE  LogInv'
<1>1. PICK newStatus \in StatusCodes : Respond(r, newStatus) BY DEF StatusCodes, Rejections
<1>2. http' = [http EXCEPT ![r] = [http[r] EXCEPT !.step = "replying", !.status = newStatus]] BY <1>1 DEF Respond
<1> QED BY <1>1, <1>2, PassingOnKeeps

\* A valid key speaks for a live project, which its caller can open.
LEMMA ApiKeyAuthKeeps ==
    ASSUME LogInv, NEW r \in HttpCalls, ApiKeyAuth(r)
    PROVE  LogInv'
<1>0. RequestLogTypeOK BY DEF LogInv
<1>1. http[r] \in HttpCall /\ Underway(r) /\ http[r].step = "authenticating"
  BY <1>0, CallIsRecord DEF ApiKeyAuth, At
<1>2. CallInv(r) BY DEF LogInv
<1>3. Aside BY DEF ApiKeyAuth
<1>4. CASE http[r].caller \in validKeys
  <2> DEFINE h == [http[r] EXCEPT !.step = "scoping", !.apiKey = http[r].caller]
  <2>1. http' = [http EXCEPT ![r] = h] BY <1>4 DEF ApiKeyAuth
  <2>2. http[r].caller \in ApiKeys BY DEF ApiKeyAuth
  <2>3. /\ h \in HttpCall /\ h.step = "scoping" /\ h.caller = http[r].caller
        /\ h.recorded = http[r].recorded /\ h.apiKey = http[r].caller /\ h.project = http[r].project
    BY <1>1, <2>2 DEF HttpCall
  <2>4. ProjectOfKey[http[r].caller] \in Openable(http[r].caller)
    BY <1>0, <1>4, <2>2, RequestLogAssumption DEF LogInv, KeysOfLiveProjects, Openable, RequestLogTypeOK
  <2>5. ProjectOfKey[http[r].caller] \in entitled[r] BY <1>1, <1>2, <2>4 DEF CallInv
  <2> HIDE DEF h
  <2> QED BY <1>1, <1>2, <1>3, <2>1, <2>3, <2>5, GuardsKeep DEF CallInv
<1>5. CASE http[r].caller \notin validKeys
  <2>1. Respond(r, 401) BY <1>5 DEF ApiKeyAuth
  <2> QED BY <1>1, <1>3, <2>1, RejectionKeeps
<1> QED BY <1>4, <1>5

\* A session is known or it is not; only a known one goes on to its project.
LEMMA SessionAuthKeeps ==
    ASSUME LogInv, NEW r \in HttpCalls, SessionAuth(r)
    PROVE  LogInv'
<1>0. RequestLogTypeOK BY DEF LogInv
<1>1. http[r] \in HttpCall /\ Underway(r) /\ http[r].step = "authenticating"
  BY <1>0, CallIsRecord DEF SessionAuth, At
<1>2. CallInv(r) BY DEF LogInv
<1>3. Aside /\ http[r].caller \in Users BY DEF SessionAuth
<1>4. CASE http' = [http EXCEPT ![r].step = IF http[r].target = NONE THEN "handling" ELSE "resolving",
                                ![r].authUser = http[r].caller]
  <2> DEFINE newStep == IF http[r].target = NONE THEN "handling" ELSE "resolving"
             h == [http[r] EXCEPT !.step = newStep, !.authUser = http[r].caller]
  <2>1. http' = [http EXCEPT ![r] = h] BY <1>4
  <2>2. newStep \in {"handling", "resolving"} OBVIOUS
  <2> HIDE DEF newStep
  <2>3. /\ h \in HttpCall /\ h.step = newStep /\ h.caller = http[r].caller
        /\ h.recorded = http[r].recorded /\ h.apiKey = http[r].apiKey /\ h.project = http[r].project
    BY <1>1, <1>3, <2>2 DEF HttpCall
  <2> HIDE DEF h
  <2> QED BY <1>1, <1>2, <1>3, <2>1, <2>2, <2>3, GuardsKeep DEF CallInv
<1>5. CASE Respond(r, 401)
  <2> QED BY <1>1, <1>3, <1>5, RejectionKeeps
<1> QED BY <1>4, <1>5 DEF SessionAuth

\* The path names the project of the key, or the answer is that there is none.
LEMMA authorizeApiKeyModeKeeps ==
    ASSUME LogInv, NEW r \in HttpCalls, authorizeApiKeyMode(r)
    PROVE  LogInv'
<1>0. RequestLogTypeOK BY DEF LogInv
<1>1. http[r] \in HttpCall /\ Underway(r) /\ http[r].step = "scoping" /\ Aside
  BY <1>0, CallIsRecord DEF authorizeApiKeyMode, At
<1>4. CASE http[r].target = ProjectOfKey[http[r].apiKey]
  <2>1. [http[r] EXCEPT !.step = "handling"] = [http[r] EXCEPT !.step = "handling", !.status = http[r].status]
    BY <1>1 DEF HttpCall
  <2>2. http' = [http EXCEPT ![r] = [http[r] EXCEPT !.step = "handling"]]
    BY <1>4 DEF authorizeApiKeyMode, Go
  <2>3. http[r].status \in StatusCodes BY <1>1 DEF HttpCall
  <2> QED BY <1>1, <2>1, <2>2, <2>3, PassingOnKeeps
<1>5. CASE http[r].target # ProjectOfKey[http[r].apiKey]
  <2>1. Respond(r, 404) BY <1>5 DEF authorizeApiKeyMode
  <2> QED BY <1>1, <2>1, RejectionKeeps
<1> QED BY <1>4, <1>5

\* The project is looked up, and not attached yet.
LEMMA resolveSessionProjectKeeps ==
    ASSUME LogInv, NEW r \in HttpCalls, resolveSessionProject(r)
    PROVE  LogInv'
<1>0. RequestLogTypeOK BY DEF LogInv
<1>1. http[r] \in HttpCall /\ Underway(r) /\ http[r].step = "resolving" /\ Aside
  BY <1>0, CallIsRecord DEF resolveSessionProject, At
<1>2. CallInv(r) BY DEF LogInv
<1>4. CASE http[r].target \in liveProjects
  <2> DEFINE h == [http[r] EXCEPT !.found = TRUE]
  <2>1. http' = [http EXCEPT ![r] = h] BY <1>4 DEF resolveSessionProject
  <2>3. /\ h \in HttpCall /\ h.step = "resolving" /\ h.caller = http[r].caller
        /\ h.recorded = http[r].recorded /\ h.apiKey = http[r].apiKey /\ h.project = http[r].project
    BY <1>1 DEF HttpCall
  <2> HIDE DEF h
  <2> QED BY <1>1, <1>2, <2>1, <2>3, GuardsKeep DEF CallInv
<1>5. CASE http[r].target \notin liveProjects
  <2>1. Respond(r, 404) BY <1>5 DEF resolveSessionProject
  <2> QED BY <1>1, <2>1, RejectionKeeps
<1> QED BY <1>4, <1>5

\* A member's project is attached: while it lives its caller can open it, and once it is gone
\* no row will name it.
LEMMA authorizeSessionModeKeeps ==
    ASSUME LogInv, NEW r \in HttpCalls, authorizeSessionMode(r)
    PROVE  LogInv'
<1>0. RequestLogTypeOK BY DEF LogInv
<1>1. http[r] \in HttpCall /\ Underway(r) /\ http[r].step = "resolving" /\ Aside
  BY <1>0, CallIsRecord DEF authorizeSessionMode, At
<1>2. CallInv(r) BY DEF LogInv
<1>3. http[r].target \in LogProjects \cup {NONE} /\ http[r].status \in StatusCodes
  BY <1>1 DEF HttpCall
<1>4. ASSUME <<http[r].caller, http[r].target>> \in membersOf,
             NEW newStep \in {"handling", "replying"}, NEW newStatus \in StatusCodes,
             http' = [http EXCEPT ![r] = [http[r] EXCEPT !.step = newStep, !.status = newStatus,
                                                         !.project = http[r].target]]
      PROVE  LogInv'
  <2> DEFINE h == [http[r] EXCEPT !.step = newStep, !.status = newStatus, !.project = http[r].target]
  <2>1. http' = [http EXCEPT ![r] = h] BY <1>4
  <2>3. /\ h \in HttpCall /\ h.step = newStep /\ h.caller = http[r].caller
        /\ h.recorded = http[r].recorded /\ h.apiKey = http[r].apiKey /\ h.project = http[r].target
    BY <1>1, <1>3 DEF HttpCall
  <2>4. http[r].target \in liveProjects => http[r].target \in Openable(http[r].caller)
    BY <1>1, <1>2, <1>4 DEF Openable, CallInv
  <2>5. http[r].target \in entitled[r] \/ http[r].target \notin liveProjects BY <1>1, <1>2, <2>4 DEF CallInv
  <2> HIDE DEF h
  <2> QED BY <1>1, <1>2, <2>1, <2>3, <2>5, GuardsKeep DEF CallInv
<1>5. CASE <<http[r].caller, http[r].target>> \notin membersOf
  <2>1. Respond(r, 404) BY <1>5 DEF authorizeSessionMode
  <2> QED BY <1>1, <2>1, RejectionKeeps
<1>6. CASE <<http[r].caller, http[r].target>> \in membersOf
  <2>1. CASE http' = [http EXCEPT ![r].step = "handling", ![r].project = http[r].target]
    <3>1. [http[r] EXCEPT !.step = "handling", !.project = http[r].target]
             = [http[r] EXCEPT !.step = "handling", !.status = http[r].status, !.project = http[r].target]
      BY <1>1 DEF HttpCall
    <3>2. http' = [http EXCEPT ![r] = [http[r] EXCEPT !.step = "handling", !.project = http[r].target]] BY <2>1
    <3> QED BY <1>3, <1>4, <1>6, <3>1, <3>2
  <2>2. CASE http' = [http EXCEPT ![r] = [http[r] EXCEPT !.step = "replying", !.status = 403,
                                                         !.project = http[r].target]]
    <3>1. 403 \in StatusCodes BY DEF StatusCodes, Rejections
    <3> QED BY <1>4, <1>6, <2>2, <3>1, ZenonT(40)
  <2> QED BY <1>6, <2>1, <2>2 DEF authorizeSessionMode
<1> QED BY <1>5, <1>6

\* The handler answers.
LEMMA HandleKeeps ==
    ASSUME LogInv, NEW r \in HttpCalls, Handle(r)
    PROVE  LogInv'
<1>0. RequestLogTypeOK BY DEF LogInv
<1>1. http[r] \in HttpCall /\ Underway(r) /\ http[r].step = "handling" /\ Aside
  BY <1>0, CallIsRecord DEF Handle, At
<1>2. PICK newStatus \in HandlerStatuses : Respond(r, newStatus) BY DEF Handle
<1>3. http' = [http EXCEPT ![r] = [http[r] EXCEPT !.step = "replying", !.status = newStatus]] BY <1>2 DEF Respond
<1>4. newStatus \in StatusCodes BY DEF StatusCodes
<1> QED BY <1>1, <1>3, <1>4, PassingOnKeeps


\* What one request does to itself leaves the others alone.
LEMMA OtherCallsKeep ==
    ASSUME LogInv, NEW r \in HttpCalls, UNCHANGED accessVars, lastId' \in Nat, lastId' >= lastId,
           \A s \in HttpCalls : s # r => /\ http'[s] = http[s] /\ observed'[s] = observed[s]
                                         /\ entitled'[s] = entitled[s]
    PROVE  \A s \in HttpCalls : s # r => CallInv(s)'
<1> SUFFICES ASSUME NEW s \in HttpCalls, s # r PROVE CallInv(s)' OBVIOUS
<1>1. /\ http'[s] = http[s] /\ observed'[s] = observed[s] /\ entitled'[s] = entitled[s]
      /\ CallInv(s) /\ lastId \in Nat
  BY DEF LogInv, RequestLogTypeOK
<1>2. Openable(http[s].caller)' = Openable(http[s].caller) BY <1>1 DEF Openable, accessVars
<1>3. ASSUME Underway(s), http[s].step = "writing" PROVE Attested(http[s].record)'
  BY <1>1, <1>3 DEF CallInv, Attested, accessVars
<1>4. \A id \in 1 .. lastId : id \in 1 .. lastId' BY <1>1
<1>5. Underway(s)' <=> Underway(s) BY <1>1 DEF Underway
<1>6. CASE ~Underway(s) BY <1>1, <1>5, <1>6 DEF CallInv
<1>7. CASE Underway(s)
  <2>1. http'[s] # Unsent BY <1>1, <1>7 DEF Underway
  <2> QED BY <1>1, <1>2, <1>3, <1>4, <1>5, <1>7, <2>1 DEF CallInv, accessVars
<1> QED BY <1>6, <1>7

\* A response is counted once: the gauge goes down and the counter up with the first listener.
LEMMA ObserveCounts ==
    ASSUME LogInv, NEW r \in HttpCalls, http[r] \in HttpCall, NEW h \in HttpCall, h.recorded,
           http' = [http EXCEPT ![r] = h], Observe(r)
    PROVE  /\ inFlight' = Cardinality(Pending') /\ observed' \in [HttpCalls -> 0 .. 1]
           /\ observed'[r] = 1 /\ \A s \in HttpCalls : s # r => observed'[s] = observed[s]
<1>0. RequestLogTypeOK /\ CallInv(r) BY DEF LogInv
<1>1. http'[r] = h /\ \A s \in HttpCalls : s # r => http'[s] = http[s] BY <1>0, OneCallChanges
<1>2. h \notin {Unsent, Finished} /\ http[r] \notin {Unsent, Finished} BY RecordIsUnderway
<1>3. Pending' = Pending \ {r} BY <1>1 DEF Pending, Underway
<1>4. inFlight = Cardinality(Pending) BY <1>0 DEF RequestLogTypeOK, Pending
<1>5. r \in Pending <=> ~http[r].recorded BY <1>2 DEF Pending, Underway
<1>6. Cardinality(Pending \ {r}) = IF r \in Pending THEN Cardinality(Pending) - 1 ELSE Cardinality(Pending)
  BY CountedSetsFinite, FS_RemoveElement
<1>7. observed \in [HttpCalls -> 0 .. 1] /\ observed[r] = IF http[r].recorded THEN 1 ELSE 0
  BY <1>0, <1>2 DEF RequestLogTypeOK, CallInv, Underway
<1>8. CASE http[r].recorded BY <1>3, <1>4, <1>5, <1>6, <1>7, <1>8 DEF Observe, metricVars
<1>9. CASE ~http[r].recorded
  <2>1. inFlight' = inFlight - 1 /\ observed' = [observed EXCEPT ![r] = @ + 1] BY <1>9 DEF Observe
  <2>2. inFlight' = Cardinality(Pending') BY <1>3, <1>4, <1>5, <1>6, <1>9, <2>1
  <2> QED BY <1>7, <1>9, <2>1, <2>2
<1> QED BY <1>8, <1>9

\* A request arrives, entitled to what its caller can open.
LEMMA ReceiveKeeps ==
    ASSUME LogInv, NEW r \in HttpCalls, Receive(r)
    PROVE  LogInv'
<1> USE DEF accessVars, storeVars
<1>0. RequestLogTypeOK BY DEF LogInv
<1>1. PICK caller \in Users \cup ApiKeys, target \in LogProjects \cup {NONE} :
          http' = [http EXCEPT ![r] =
              [step |-> "authenticating", caller |-> caller, target |-> target, found |-> FALSE,
               authUser |-> NONE, apiKey |-> NONE, project |-> NONE,
               status |-> 0, recorded |-> FALSE, closed |-> FALSE, record |-> NONE]]
  BY DEF Receive
<1> DEFINE h == [step |-> "authenticating", caller |-> caller, target |-> target, found |-> FALSE,
                 authUser |-> NONE, apiKey |-> NONE, project |-> NONE,
                 status |-> 0, recorded |-> FALSE, closed |-> FALSE, record |-> NONE]
<1>2. http' = [http EXCEPT ![r] = h] BY <1>1
<1>3. /\ h \in HttpCall /\ h.step = "authenticating" /\ h.caller = caller /\ h.apiKey = NONE
      /\ h.project = NONE /\ ~h.recorded
  BY DEF HttpCall, StatusCodes
<1> HIDE DEF h
<1>4. /\ http'[r] = h /\ http' \in [HttpCalls -> {Unsent, Finished} \cup HttpCall]
      /\ \A s \in HttpCalls : s # r => http'[s] = http[s]
  BY <1>0, <1>2, <1>3, OneCallChanges
<1>5. h \notin {Unsent, Finished} /\ http[r] = Unsent /\ Unsent # Finished
  BY <1>3, RecordIsUnderway DEF Receive, Unsent, Finished
<1>6. entitled' = [entitled EXCEPT ![r] = Openable(caller)] BY <1>3, <1>4 DEF Receive
<1>7. Openable(caller) \subseteq LogProjects /\ Openable(caller)' = Openable(caller)
  BY <1>0 DEF Openable, RequestLogTypeOK, Receive
<1>8. /\ entitled' \in [HttpCalls -> SUBSET LogProjects] /\ entitled'[r] = Openable(caller)
      /\ \A s \in HttpCalls : s # r => entitled'[s] = entitled[s]
  BY <1>0, <1>6, <1>7 DEF RequestLogTypeOK
<1>9. inFlight' = Cardinality(Pending')
  <2>1. Pending' = Pending \cup {r} /\ r \notin Pending BY <1>3, <1>4, <1>5 DEF Pending, Underway
  <2>2. Cardinality(Pending \cup {r}) = Cardinality(Pending) + 1 BY <2>1, CountedSetsFinite, FS_AddElement
  <2> QED BY <1>0, <2>1, <2>2 DEF Receive, RequestLogTypeOK, Pending
<1>10. Writing' = Writing
  <2>1. ~At(r, "writing") /\ ~At(r, "writing")' BY <1>3, <1>4, <1>5 DEF At, Unsent
  <2> QED BY <2>1, <1>4 DEF Writing, At
<1>11. RequestLogTypeOK'
  BY <1>0, <1>4, <1>8, <1>9 DEF RequestLogTypeOK, Receive, Pending
<1>12. CallInv(r)'
  <2>1. observed'[r] = 0 BY <1>5 DEF LogInv, CallInv, Receive
  <2> QED BY <2>1, <1>3, <1>4, <1>7, <1>8 DEF CallInv
<1>13. \A s \in HttpCalls : s # r => CallInv(s)'
  BY <1>0, <1>4, <1>8, OtherCallsKeep DEF Receive, RequestLogTypeOK
<1>14. RowsAttested'
  <2>1. \A row \in logRows : row.of \in HttpCalls /\ row.of # r
    BY <1>0, <1>5 DEF RequestLogTypeOK, LogRow, LogInv, RowsAttested
  <2> QED BY <2>1, <1>4, <1>8 DEF LogInv, RowsAttested, Receive
<1>15. KeysOfLiveProjects' BY DEF LogInv, KeysOfLiveProjects, Receive
<1> QED BY <1>10, <1>11, <1>12, <1>13, <1>14, <1>15 DEF LogInv, Receive

\* The response is finished: the record takes the scope the guards left.
LEMMA FinishKeeps ==
    ASSUME LogInv, NEW r \in HttpCalls, Finish(r)
    PROVE  LogInv'
<1> USE DEF accessVars
<1>0. RequestLogTypeOK /\ CallInv(r) BY DEF LogInv
<1>1. http[r] \in HttpCall /\ Underway(r) /\ http[r].step = "replying"
  BY <1>0, CallIsRecord DEF Finish, At
<1>r. PICK row : row = [id |-> lastId + 1, of |-> r, project |-> resolveRequestLogScope(r),
                        status |-> http[r].status, created |-> logTime]
  OBVIOUS
<1> DEFINE h == [http[r] EXCEPT !.step = "writing", !.recorded = TRUE, !.record = row]
<1>2. resolveRequestLogScope(r) \in LogProjects \cup {NONE}
  BY <1>1, RequestLogAssumption DEF resolveRequestLogScope, HttpCall
<1>3. row \in LogRow /\ row.id = lastId + 1 /\ row.of = r /\ row.project = resolveRequestLogScope(r)
  BY <1>0, <1>1, <1>2, <1>r DEF LogRow, HttpCall, RequestLogTypeOK
<1>4. http' = [http EXCEPT ![r] = h] BY <1>r DEF Finish
<1>5. /\ h \in HttpCall /\ h.step = "writing" /\ h.recorded /\ h.record = row
      /\ h.caller = http[r].caller /\ h.apiKey = http[r].apiKey /\ h.project = http[r].project
  BY <1>1, <1>3 DEF HttpCall
<1> HIDE DEF h
<1>6. /\ http'[r] = h /\ http' \in [HttpCalls -> {Unsent, Finished} \cup HttpCall]
      /\ \A s \in HttpCalls : s # r => http'[s] = http[s]
  BY <1>0, <1>4, <1>5, OneCallChanges
<1>7. h \notin {Unsent, Finished} /\ http[r] \notin {Unsent, Finished} BY <1>1, <1>5, RecordIsUnderway
<1>8. /\ inFlight' = Cardinality(Pending') /\ observed' \in [HttpCalls -> 0 .. 1]
      /\ observed'[r] = 1 /\ \A s \in HttpCalls : s # r => observed'[s] = observed[s]
  BY <1>1, <1>4, <1>5, ObserveCounts DEF Finish
<1>9. lastId' = lastId + 1 /\ lastId \in Nat BY <1>0 DEF Finish, RequestLogTypeOK
<1>10. logWriteFailures' + Cardinality(Writing') <= lastId'
  <2>1. Writing' = Writing \cup {r} /\ r \notin Writing BY <1>1, <1>5, <1>6 DEF Writing, At
  <2>2. Cardinality(Writing \cup {r}) = Cardinality(Writing) + 1 BY <2>1, CountedSetsFinite, FS_AddElement
  <2> QED BY <1>0, <1>9, <2>1, <2>2, CountedSetsFinite DEF LogInv, Finish, RequestLogTypeOK
<1>11. RequestLogTypeOK'
  <2>1. logWriteFailures' \in 0 .. lastId' BY <1>0, <1>9 DEF RequestLogTypeOK, Finish
  <2>2. \A x \in logRows' : x.id \in 1 .. lastId' BY <1>0, <1>9 DEF RequestLogTypeOK, Finish
  <2> QED BY <1>0, <1>6, <1>8, <1>9, <2>1, <2>2 DEF RequestLogTypeOK, Finish, Pending
<1>12. CallInv(r)'
  <2>2. Openable(http[r].caller)' = Openable(http[r].caller) /\ entitled' = entitled
    BY <1>5, <1>6 DEF Openable, Finish
  <2>3. Attested(row)'
    BY <1>0, <1>1, <1>2, <1>3, <1>7 DEF Attested, resolveRequestLogScope, CallInv, Finish, Underway
  <2>4. row.id \in 1 .. lastId' BY <1>3, <1>9
  <2>5. /\ Openable(http[r].caller) \subseteq entitled[r]
        /\ http[r].apiKey # NONE => ProjectOfKey[http[r].apiKey] \in entitled[r]
        /\ http[r].project # NONE => http[r].project \in entitled[r] \/ http[r].project \notin liveProjects
    BY <1>0, <1>1 DEF CallInv
  <2>6. liveProjects' = liveProjects BY DEF Finish
  <2>7. http'[r] # Unsent /\ http'[r] = h BY <1>6, <1>7
  <2> HIDE DEF accessVars
  <2> QED BY <1>3, <1>5, <1>8, <2>2, <2>3, <2>4, <2>5, <2>6, <2>7 DEF CallInv
<1>13. \A s \in HttpCalls : s # r => CallInv(s)'
  BY <1>6, <1>8, <1>9, OtherCallsKeep DEF Finish
<1>14. RowsAttested'
  <2>1. \A x \in logRows : x.of \in HttpCalls /\ x.of # r
    BY <1>0, <1>7 DEF RequestLogTypeOK, LogRow, LogInv, RowsAttested
  <2> QED BY <2>1, <1>6 DEF LogInv, RowsAttested, Finish
<1>15. KeysOfLiveProjects' BY DEF LogInv, KeysOfLiveProjects, Finish
<1> QED BY <1>10, <1>11, <1>12, <1>13, <1>14, <1>15 DEF LogInv


\* The client goes away: only the metrics notice.
LEMMA CloseKeeps ==
    ASSUME LogInv, NEW r \in HttpCalls, Close(r)
    PROVE  LogInv'
<1> USE DEF accessVars, storeVars
<1>0. RequestLogTypeOK /\ CallInv(r) BY DEF LogInv
<1>1. http[r] \in HttpCall /\ Underway(r) BY <1>0, UnderwayIsRecord DEF Close
<1> DEFINE h == [http[r] EXCEPT !.closed = TRUE, !.recorded = TRUE]
<1>4. http' = [http EXCEPT ![r] = h] BY DEF Close
<1>5. /\ h \in HttpCall /\ h.step = http[r].step /\ h.recorded /\ h.record = http[r].record
      /\ h.caller = http[r].caller /\ h.apiKey = http[r].apiKey /\ h.project = http[r].project
  BY <1>1 DEF HttpCall
<1> HIDE DEF h
<1>6. /\ http'[r] = h /\ http' \in [HttpCalls -> {Unsent, Finished} \cup HttpCall]
      /\ \A s \in HttpCalls : s # r => http'[s] = http[s]
  BY <1>0, <1>4, <1>5, OneCallChanges
<1>7. h \notin {Unsent, Finished} /\ http[r] \notin {Unsent, Finished} BY <1>1, <1>5, RecordIsUnderway
<1>8. /\ inFlight' = Cardinality(Pending') /\ observed' \in [HttpCalls -> 0 .. 1]
      /\ observed'[r] = 1 /\ \A s \in HttpCalls : s # r => observed'[s] = observed[s]
  BY <1>1, <1>4, <1>5, ObserveCounts DEF Close
<1>10. Writing' = Writing BY <1>5, <1>6 DEF Writing, At
<1>11. RequestLogTypeOK' BY <1>0, <1>6, <1>8 DEF RequestLogTypeOK, Close, Pending
<1>12. CallInv(r)'
  <2>1. Openable(http[r].caller)' = Openable(http[r].caller) BY <1>5, <1>6 DEF Openable, Close
  <2>2. http'[r] # Unsent /\ http'[r] = h BY <1>6, <1>7
  <2>3. UNCHANGED <<liveProjects, entitled, lastId>> BY DEF Close
  <2> HIDE DEF accessVars, storeVars
  <2> QED BY <1>0, <1>1, <1>5, <1>8, <2>1, <2>2, <2>3 DEF CallInv, Attested
<1>13. \A s \in HttpCalls : s # r => CallInv(s)'
  BY <1>0, <1>6, <1>8, OtherCallsKeep DEF Close, RequestLogTypeOK
<1>14. RowsAttested'
  <2>1. \A x \in logRows : x.of \in HttpCalls /\ x.of # r
    BY <1>0, <1>7 DEF RequestLogTypeOK, LogRow, LogInv, RowsAttested
  <2> QED BY <2>1, <1>6 DEF LogInv, RowsAttested, Close
<1>15. KeysOfLiveProjects' BY DEF LogInv, KeysOfLiveProjects, Close
<1> QED BY <1>10, <1>11, <1>12, <1>13, <1>14, <1>15 DEF LogInv, Close

\* A row is inserted, with a project only while that project lives, or its loss is counted.
LEMMA writeKeeps ==
    ASSUME LogInv, NEW r \in HttpCalls, write(r)
    PROVE  LogInv'
<1> USE DEF accessVars, metricVars
<1>0. RequestLogTypeOK /\ CallInv(r) BY DEF LogInv
<1>1. http[r] \in HttpCall /\ Underway(r) /\ http[r].step = "writing"
  BY <1>0, CallIsRecord DEF write, At
<1>2. /\ http[r].recorded /\ http[r].record \in LogRow /\ http[r].record.of = r
      /\ http[r].record.id \in 1 .. lastId /\ Attested(http[r].record)
  BY <1>0, <1>1 DEF CallInv
<1>3. /\ http'[r] = Finished /\ http' \in [HttpCalls -> {Unsent, Finished} \cup HttpCall]
      /\ \A s \in HttpCalls : s # r => http'[s] = http[s]
  BY <1>0, OneCallChanges DEF write
<1>4. Finished # Unsent /\ Finished.step = "done" BY DEF Unsent, Finished
<1>5. Pending' = Pending BY <1>2, <1>3 DEF Pending, Underway
<1>6. Writing' = Writing \ {r} /\ r \in Writing BY <1>1, <1>3, <1>4 DEF Writing, At
<1>7. Cardinality(Writing') = Cardinality(Writing) - 1 BY <1>6, CountedSetsFinite, FS_RemoveElement
<1>8. /\ logWriteFailures' \in {logWriteFailures, logWriteFailures + 1}
      /\ logRows' = logRows \/ /\ logRows' = logRows \cup {http[r].record}
                               /\ http[r].record.project \in liveProjects \cup {NONE}
  BY DEF write
<1>9. logWriteFailures' + Cardinality(Writing') <= lastId'
  BY <1>0, <1>7, <1>8, CountedSetsFinite DEF LogInv, RequestLogTypeOK, write
<1>10. Cardinality(Writing') \in Nat
  <2>1. IsFiniteSet(Writing \ {r}) BY CountedSetsFinite, FS_RemoveElement
  <2> QED BY <1>6, <2>1, FS_CardinalityType
<1>11. RequestLogTypeOK'
  <2>1. logWriteFailures' \in 0 .. lastId' BY <1>0, <1>8, <1>9, <1>10 DEF RequestLogTypeOK, write
  <2>2. logRows' \subseteq LogRow /\ IsFiniteSet(logRows') /\ \A row \in logRows' : row.id \in 1 .. lastId'
    BY <1>0, <1>2, <1>8, FS_AddElement DEF RequestLogTypeOK, write
  <2> QED BY <1>0, <1>3, <1>5, <2>1, <2>2 DEF RequestLogTypeOK, write, Pending
<1>12. CallInv(r)' BY <1>3, <1>4 DEF CallInv, Underway
<1>13. \A s \in HttpCalls : s # r => CallInv(s)'
  BY <1>0, <1>3, OtherCallsKeep DEF write, RequestLogTypeOK
<1>14. RowsAttested'
  <2>1. \A row \in logRows : row.of \in HttpCalls BY <1>0 DEF RequestLogTypeOK, LogRow
  <2>2. \A row \in logRows : http'[row.of] = Finished BY <1>3, <2>1 DEF LogInv, RowsAttested
  <2>3. ASSUME http[r].record.project \in liveProjects, http[r].record.project # NONE
        PROVE  http[r].record.project \in entitled[http[r].record.of]
    BY <1>2, <2>3 DEF Attested
  <2> QED BY <1>2, <1>3, <1>8, <2>2, <2>3 DEF LogInv, RowsAttested, write
<1>15. KeysOfLiveProjects' BY DEF LogInv, KeysOfLiveProjects, write
<1> QED BY <1>9, <1>11, <1>12, <1>13, <1>14, <1>15 DEF LogInv

\* A membership begins or ends, a key or a project goes: what a caller can open now is added to
\* what it was entitled to, and what is gone does not come back.
LEMMA AccessTurnsKeep ==
    ASSUME LogInv, UNCHANGED <<http, metricVars, logWriteFailures, lastId, logTime>>, Entitle,
           membersOf' \subseteq Users \X LogProjects, validKeys' \subseteq validKeys,
           liveProjects' \subseteq liveProjects, KeysOfLiveProjects',
           logRows' \subseteq logRows, accessTurns' \in 0 .. MaxAccessTurns
    PROVE  LogInv'
<1> USE DEF metricVars
<1>0. RequestLogTypeOK BY DEF LogInv
<1>1. \A r \in HttpCalls : Openable(http[r].caller)' \subseteq LogProjects
  BY <1>0 DEF Openable, RequestLogTypeOK
<1>2. \A r \in HttpCalls :
          entitled'[r] = IF Underway(r) THEN entitled[r] \cup Openable(http[r].caller)' ELSE entitled[r]
  BY DEF Entitle
<1>3. entitled' \in [HttpCalls -> SUBSET LogProjects]
  <2>1. \A r \in HttpCalls : entitled'[r] \in SUBSET LogProjects BY <1>0, <1>1, <1>2 DEF RequestLogTypeOK
  <2> QED BY <2>1 DEF Entitle
<1>4. Pending' = Pending /\ Writing' = Writing BY DEF Pending, Writing, Underway, At
<1>5. IsFiniteSet(logRows') BY <1>0, FS_Subset DEF RequestLogTypeOK
<1>6. RequestLogTypeOK' BY <1>0, <1>3, <1>4, <1>5 DEF RequestLogTypeOK, Pending
<1>7. ASSUME NEW r \in HttpCalls PROVE CallInv(r)'
  <2>1. CallInv(r) BY DEF LogInv
  <2>2. http'[r] = http[r] /\ observed'[r] = observed[r] /\ lastId' = lastId OBVIOUS
  <2>3. Underway(r) => entitled'[r] = entitled[r] \cup Openable(http[r].caller)' BY <1>2
  <2>4. Underway(r)' <=> Underway(r) BY DEF Underway
  <2> QED BY <2>1, <2>2, <2>3, <2>4 DEF CallInv, Attested
<1>8. RowsAttested'
  <2>1. \A row \in logRows : row.of \in HttpCalls BY <1>0 DEF RequestLogTypeOK, LogRow
  <2>2. \A r \in HttpCalls : entitled[r] \subseteq entitled'[r] BY <1>2
  <2> QED BY <2>1, <2>2 DEF LogInv, RowsAttested
<1> QED BY <1>4, <1>6, <1>7, <1>8 DEF LogInv

\* Retention, the reader and the clock take rows away at most.
LEMMA PassesKeep ==
    ASSUME LogInv, UNCHANGED <<http, accessVars, metricVars, logWriteFailures, lastId, entitled>>,
           logRows' \subseteq logRows, logTime' \in 0 .. MaxLogTime
    PROVE  LogInv'
<1> USE DEF metricVars, accessVars
<1>0. RequestLogTypeOK BY DEF LogInv
<1>1. Pending' = Pending /\ Writing' = Writing BY DEF Pending, Writing, Underway, At
<1>2. IsFiniteSet(logRows') BY <1>0, FS_Subset DEF RequestLogTypeOK
<1>3. RequestLogTypeOK' BY <1>0, <1>1, <1>2 DEF RequestLogTypeOK, Pending
<1>4. ASSUME NEW r \in HttpCalls PROVE CallInv(r)'
  <2>1. CallInv(r) BY DEF LogInv
  <2> QED BY <2>1 DEF CallInv, Attested, Openable, Underway
<1>5. RowsAttested' BY DEF LogInv, RowsAttested
<1>6. KeysOfLiveProjects' BY DEF LogInv, KeysOfLiveProjects
<1> QED BY <1>1, <1>3, <1>4, <1>5, <1>6 DEF LogInv

\* Every step keeps the invariant.
LEMMA LogStep == LogInv /\ [RequestLogNext]_httpVars => LogInv'
<1> SUFFICES ASSUME LogInv, [RequestLogNext]_httpVars PROVE LogInv'
  OBVIOUS
<1>0. RequestLogTypeOK BY DEF LogInv
<1>1. ASSUME NEW r \in HttpCalls,
             \/ Receive(r) \/ ApiKeyAuth(r) \/ SessionAuth(r) \/ authorizeApiKeyMode(r)
             \/ resolveSessionProject(r) \/ authorizeSessionMode(r) \/ Handle(r)
             \/ Finish(r) \/ Close(r) \/ write(r)
      PROVE  LogInv'
  BY <1>1, ReceiveKeeps, ApiKeyAuthKeeps, SessionAuthKeeps, authorizeApiKeyModeKeeps,
     resolveSessionProjectKeeps, authorizeSessionModeKeeps, HandleKeeps, FinishKeeps, CloseKeeps, writeKeeps
<1>2. CASE cleanupExpired \/ NextExpiredPage \/ PassFails \/ StartWalk \/ NextPage
  <2>1. UNCHANGED <<http, accessVars, metricVars, storeVars, logTime, entitled>>
    BY <1>2 DEF cleanupExpired, NextExpiredPage, PassFails, StartWalk, NextPage
  <2> QED BY <1>0, <2>1, PassesKeep DEF RequestLogTypeOK, storeVars
<1>3. CASE DeletePage
  <2>1. logRows' \subseteq logRows BY <1>3 DEF DeletePage
  <2> QED BY <1>0, <1>3, <2>1, PassesKeep DEF DeletePage, RequestLogTypeOK
<1>4. CASE LogTick
  <2>1. logTime' \in 0 .. MaxLogTime BY <1>0, <1>4, RequestLogAssumption DEF LogTick, RequestLogTypeOK
  <2> QED BY <1>4, <2>1, PassesKeep DEF LogTick, storeVars
<1>5. ASSUME Turn PROVE accessTurns' \in 0 .. MaxAccessTurns
  BY <1>0, <1>5, RequestLogAssumption DEF Turn, RequestLogTypeOK
<1>6. CASE MemberTurns
  <2>1. membersOf' \subseteq Users \X LogProjects BY <1>0, <1>6 DEF MemberTurns, RequestLogTypeOK
  <2>2. KeysOfLiveProjects' BY <1>6 DEF MemberTurns, LogInv, KeysOfLiveProjects
  <2> QED BY <1>5, <1>6, <2>1, <2>2, AccessTurnsKeep DEF MemberTurns, storeVars
<1>7. CASE KeyRevoked
  <2>1. PICK k \in validKeys : validKeys' = validKeys \ {k} BY <1>7 DEF KeyRevoked
  <2>2. KeysOfLiveProjects' BY <1>7, <2>1 DEF KeyRevoked, LogInv, KeysOfLiveProjects
  <2>3. membersOf' \subseteq Users \X LogProjects BY <1>0, <1>7 DEF KeyRevoked, RequestLogTypeOK
  <2> QED BY <1>5, <1>7, <2>1, <2>2, <2>3, AccessTurnsKeep DEF KeyRevoked, storeVars
<1>8. CASE ProjectDeleted
  <2>1. PICK p \in liveProjects :
            /\ liveProjects' = liveProjects \ {p}
            /\ validKeys' = {k \in validKeys : ProjectOfKey[k] # p}
            /\ logRows' = {row \in logRows : row.project # p}
    BY <1>8 DEF ProjectDeleted
  <2>2. KeysOfLiveProjects' BY <2>1 DEF LogInv, KeysOfLiveProjects
  <2>3. membersOf' \subseteq Users \X LogProjects BY <1>0, <1>8 DEF ProjectDeleted, RequestLogTypeOK
  <2> QED BY <1>5, <1>8, <2>1, <2>2, <2>3, AccessTurnsKeep DEF ProjectDeleted
<1>9. CASE UNCHANGED httpVars
  BY <1>0, <1>9, PassesKeep DEF httpVars, accessVars, storeVars, RequestLogTypeOK
<1> QED BY <1>1, <1>2, <1>3, <1>4, <1>6, <1>7, <1>8, <1>9 DEF RequestLogNext

\* The invariant holds at the start, where every key is valid and every project lives.
LEMMA LogStart == RequestLogInit => LogInv
<1> SUFFICES ASSUME RequestLogInit PROVE LogInv
  OBVIOUS
<1> USE DEF RequestLogInit
<1>1. \A r \in HttpCalls : http[r] = Unsent /\ ~Underway(r) /\ ~At(r, "writing")
  BY DEF Underway, At, Unsent
<1>2. Pending = {} /\ Writing = {} BY <1>1 DEF Pending, Writing
<1>3. Cardinality({}) = 0 /\ IsFiniteSet({}) BY FS_EmptySet
<1>4. RequestLogTypeOK BY <1>2, <1>3, RequestLogAssumption, SMTT(30) DEF RequestLogTypeOK, Pending
<1>5. \A r \in HttpCalls : CallInv(r) BY <1>1 DEF CallInv
<1>6. KeysOfLiveProjects BY RequestLogAssumption DEF KeysOfLiveProjects
<1>7. RowsAttested BY DEF RowsAttested
<1> QED BY <1>2, <1>3, <1>4, <1>5, <1>6, <1>7 DEF LogInv

\* The invariant of the request log.
LEMMA LogInvariance == RequestLogSpec => []LogInv
BY LogStart, LogStep, PTL DEF RequestLogSpec

\* The tables and the gauge have their types: the gauge of requests in flight is the number of
\* requests that no listener has counted yet, and none is counted twice.
THEOREM LogTypesOk == RequestLogSpec => []RequestLogTypeOK
<1>1. LogInv => RequestLogTypeOK BY DEF LogInv
<1> QED BY <1>1, LogInvariance, PTL

\* "a non-member can never write rows into a foreign tenant's log", for any requests, callers,
\* projects and changes of access.
THEOREM StrangersLeaveNoRow == RequestLogSpec => []NoRowFromStrangers
<1>1. LogInv => NoRowFromStrangers BY DEF LogInv, RowsAttested, NoRowFromStrangers
<1> QED BY <1>1, LogInvariance, PTL


(***************************************************************************)
(* The reader of the request log.                                          *)
(***************************************************************************)

\* Behind the cursor is what the reader has seen; what it is owed and has not seen is ahead.
WalkInv ==
    walk # NONE =>
        /\ ~walk.doubled /\ walk.owed \subseteq logRows
        /\ walk.cursor = NONE => walk.owed \subseteq walk.seen
        /\ walk.cursor # NONE =>
              /\ walk.cursor \in Nat
              /\ \A row \in walk.seen : row.id \in 0 .. walk.cursor
              /\ \A row \in walk.owed : /\ row.project = walk.project
                                        /\ row \in walk.seen \/ row.id > walk.cursor

Matching(project, cursor) == {row \in logRows : row.project = project /\ row.id > cursor}

\* A set of naturals with a bound has a greatest element.
LEMMA GreatestOfBounded ==
    ASSUME NEW S \in SUBSET Nat, S # {}, NEW bound \in Nat, \A n \in S : n <= bound
    PROVE  \E n \in S : \A m \in S : m <= n
<1> DEFINE T == {k \in Nat : \E n \in S : k = bound - n}
<1>0. \A n \in S : bound - n \in Nat OBVIOUS
<1>1. T # {} /\ T \subseteq Nat BY <1>0
<1>2. PICK x \in T : \A y \in T : ~(<<y, x>> \in OpToRel(<, Nat))
  BY <1>1, NatLessThanWellFounded, WFMin
<1>3. \A y \in T : ~(y < x) BY <1>1, <1>2 DEF OpToRel
<1>4. PICK n \in S : x = bound - n OBVIOUS
<1>5. \A m \in S : bound - m \in T OBVIOUS
<1>6. \A m \in S : m <= n BY <1>3, <1>4, <1>5
<1> QED BY <1>6

\* ... and a least one.
LEMMA LeastOfNaturals ==
    ASSUME NEW S \in SUBSET Nat, S # {}
    PROVE  \E n \in S : \A m \in S : n <= m
<1>1. PICK x \in S : \A y \in S : ~(<<y, x>> \in OpToRel(<, Nat))
  BY NatLessThanWellFounded, WFMin
<1>2. \A y \in S : ~(y < x) BY <1>1 DEF OpToRel
<1> QED BY <1>2

\* The rows after a cursor and those of them before a row.
LEMMA MatchingFacts ==
    ASSUME RequestLogTypeOK, NEW project, NEW cursor \in Nat
    PROVE  /\ IsFiniteSet(Matching(project, cursor)) /\ Cardinality(Matching(project, cursor)) \in Nat
           /\ \A row \in Matching(project, cursor) :
                 row \in logRows /\ row.id \in Nat /\ row.id > cursor /\ row.id <= lastId
           /\ PageOf(project, cursor) =
                 {row \in Matching(project, cursor) :
                     Cardinality({other \in Matching(project, cursor) : other.id < row.id}) < PageLimit}
           /\ HasMoreAfter(project, cursor) <=> Cardinality(Matching(project, cursor)) > PageLimit
<1>1. Matching(project, cursor) \in SUBSET logRows /\ IsFiniteSet(logRows)
  BY DEF Matching, RequestLogTypeOK
<1>2. IsFiniteSet(Matching(project, cursor)) /\ Cardinality(Matching(project, cursor)) \in Nat
  BY <1>1, FS_Subset, FS_CardinalityType
<1>3. \A row \in Matching(project, cursor) :
          row \in logRows /\ row.id \in Nat /\ row.id > cursor /\ row.id <= lastId
  BY DEF Matching, RequestLogTypeOK
<1> QED BY <1>2, <1>3 DEF PageOf, HasMoreAfter, Matching

\* The last page holds every row that is left.
LEMMA LastPageIsAll ==
    ASSUME RequestLogTypeOK, NEW project, NEW cursor \in Nat, ~HasMoreAfter(project, cursor)
    PROVE  PageOf(project, cursor) = Matching(project, cursor)
<1> DEFINE M == Matching(project, cursor)
           Before(row) == {other \in M : other.id < row.id}
<1>1. IsFiniteSet(M) /\ Cardinality(M) \in Nat /\ Cardinality(M) <= PageLimit /\ PageLimit \in Nat
  BY MatchingFacts, RequestLogAssumption
<1>2. ASSUME NEW row \in M PROVE Cardinality(Before(row)) < PageLimit
  <2>1. Before(row) \in SUBSET M /\ row \notin Before(row) BY <1>2, MatchingFacts
  <2>2. Before(row) # M BY <1>2, <2>1
  <2> HIDE DEF Before, M
  <2>3. /\ IsFiniteSet(Before(row)) /\ Cardinality(Before(row)) <= Cardinality(M)
        /\ Cardinality(M) = Cardinality(Before(row)) => M = Before(row)
    BY <1>1, <2>1, FS_Subset
  <2>4. Cardinality(Before(row)) \in Nat BY <2>3, FS_CardinalityType
  <2> QED BY <1>1, <2>2, <2>3, <2>4
<1> QED BY <1>2, MatchingFacts

\* A page that is not the last is a prefix: it has a greatest id, and every row up to it is there.
LEMMA PageIsPrefix ==
    ASSUME RequestLogTypeOK, NEW project, NEW cursor \in Nat, HasMoreAfter(project, cursor)
    PROVE  LET data == PageOf(project, cursor)
           IN  /\ LastOf(data) \in Nat /\ LastOf(data) > cursor
               /\ \A row \in data : row.id <= LastOf(data)
               /\ \A row \in Matching(project, cursor) : row.id <= LastOf(data) => row \in data
<1> DEFINE M == Matching(project, cursor)
           Before(row) == {other \in M : other.id < row.id}
           data == PageOf(project, cursor)
           ids == {row.id : row \in data}
<1>1. IsFiniteSet(M) /\ Cardinality(M) \in Nat /\ Cardinality(M) > PageLimit /\ PageLimit \in Nat \ {0}
  BY MatchingFacts, RequestLogAssumption
<1>2. M # {} BY <1>1, FS_EmptySet
<1>3. \A row \in M : row.id \in Nat /\ row.id > cursor /\ row.id <= lastId BY MatchingFacts
<1>4. data = {row \in M : Cardinality(Before(row)) < PageLimit} BY MatchingFacts
<1>5. data # {}
  <2> DEFINE all == {row.id : row \in M}
  <2>1. all \in SUBSET Nat /\ all # {} BY <1>2, <1>3
  <2>2. PICK n \in all : \A m \in all : n <= m BY <2>1, LeastOfNaturals
  <2>3. PICK first \in M : first.id = n OBVIOUS
  <2>4. Before(first) = {} BY <1>3, <2>2, <2>3
  <2>5. Cardinality(Before(first)) < PageLimit BY <1>1, <2>4, FS_EmptySet
  <2> QED BY <1>4, <2>5
<1>6. lastId \in Nat BY DEF RequestLogTypeOK
<1>7. ids \in SUBSET Nat /\ ids # {} /\ \A id \in ids : id <= lastId BY <1>3, <1>4, <1>5
<1>8. \E id \in ids : \A m \in ids : m <= id BY <1>6, <1>7, GreatestOfBounded
<1>9. \E id \in ids : \A row \in data : row.id <= id BY <1>8
<1>10. LastOf(data) \in ids /\ \A row \in data : row.id <= LastOf(data) BY <1>9 DEF LastOf
<1>11. PICK last \in data : last.id = LastOf(data) BY <1>10
<1>12. ASSUME NEW row \in M, row.id <= LastOf(data) PROVE row \in data
  <2>1. last \in M /\ Cardinality(Before(last)) < PageLimit BY <1>4, <1>11
  <2>2. Before(row) \subseteq Before(last) BY <1>3, <1>11, <1>12, <2>1
  <2>3. Before(last) \in SUBSET M OBVIOUS
  <2> HIDE DEF Before, M
  <2>4. IsFiniteSet(Before(last)) /\ Cardinality(Before(last)) \in Nat
    BY <1>1, <2>3, FS_Subset, FS_CardinalityType
  <2>5. IsFiniteSet(Before(row)) /\ Cardinality(Before(row)) <= Cardinality(Before(last))
    BY <2>2, <2>4, FS_Subset
  <2>6. Cardinality(Before(row)) \in Nat BY <2>5, FS_CardinalityType
  <2>7. Cardinality(Before(row)) < PageLimit BY <1>1, <2>1, <2>4, <2>5, <2>6
  <2> QED BY <1>4, <1>12, <2>7 DEF Before
<1>13. LastOf(data) \in Nat /\ LastOf(data) > cursor BY <1>3, <1>4, <1>11
<1> QED BY <1>10, <1>12, <1>13

\* A page keeps the bargain: it repeats nothing, and only the last one leaves nothing ahead.
LEMMA FetchKeeps ==
    ASSUME RequestLogTypeOK, NEW project, NEW cursor \in Nat, NEW owed, owed \subseteq logRows, NEW seen,
           \A row \in seen : row.id \in 0 .. cursor,
           \A row \in owed : row.project = project /\ (row \in seen \/ row.id > cursor),
           Fetch(project, cursor, owed, seen), logRows' = logRows
    PROVE  WalkInv'
<1> DEFINE data == PageOf(project, cursor)
<1>1. \A row \in data : row.id \in Nat /\ row.id > cursor BY MatchingFacts
<1>2. seen \cap data = {} BY <1>1
<1>3. /\ walk'.project = project /\ walk'.owed = owed /\ walk'.seen = seen \cup data
      /\ walk'.doubled = (seen \cap data # {})
      /\ walk'.cursor = IF HasMoreAfter(project, cursor) THEN LastOf(data) ELSE NONE
  BY DEF Fetch
<1>4. \A row \in owed : row \in seen \/ row \in Matching(project, cursor) BY DEF Matching
<1>5. CASE HasMoreAfter(project, cursor)
  <2>1. /\ LastOf(data) \in Nat /\ LastOf(data) > cursor
        /\ \A row \in data : row.id \in 0 .. LastOf(data)
        /\ \A row \in Matching(project, cursor) : row.id <= LastOf(data) => row \in data
    BY <1>1, <1>5, PageIsPrefix
  <2>2. LastOf(data) # NONE BY <2>1, RequestLogAssumption
  <2> HIDE DEF data
  <2>3. walk'.cursor = LastOf(data) BY <1>3, <1>5
  <2>4. \A row \in seen : row.id \in 0 .. LastOf(data) BY <2>1
  <2>5. \A row \in owed : row \in seen \cup data \/ row.id > LastOf(data)
    BY <1>4, <2>1, MatchingFacts
  <2> QED BY <1>2, <1>3, <2>5, <2>1, <2>2, <2>3, <2>4 DEF WalkInv
<1>6. CASE ~HasMoreAfter(project, cursor)
  <2>1. data = Matching(project, cursor) BY <1>6, LastPageIsAll
  <2>2. owed \subseteq seen \cup data BY <1>4, <2>1
  <2> HIDE DEF data
  <2> QED BY <1>2, <1>3, <1>6, <2>2 DEF WalkInv
<1> QED BY <1>5, <1>6

\* Every step keeps the bargain of the walk.
LEMMA WalkStep == LogInv /\ WalkInv /\ [RequestLogNext]_httpVars => WalkInv'
<1> SUFFICES ASSUME LogInv, WalkInv, [RequestLogNext]_httpVars PROVE WalkInv'
  OBVIOUS
<1>0. RequestLogTypeOK BY DEF LogInv
<1>1. ASSUME UNCHANGED walk, logRows \subseteq logRows' PROVE WalkInv'
  BY <1>1 DEF WalkInv
<1>2. ASSUME NEW r \in HttpCalls,
             \/ Receive(r) \/ ApiKeyAuth(r) \/ SessionAuth(r) \/ authorizeApiKeyMode(r)
             \/ resolveSessionProject(r) \/ authorizeSessionMode(r) \/ Handle(r)
             \/ Finish(r) \/ Close(r) \/ write(r)
      PROVE  WalkInv'
  <2>1. UNCHANGED walk
    BY <1>2 DEF Receive, ApiKeyAuth, SessionAuth, authorizeApiKeyMode, resolveSessionProject,
                authorizeSessionMode, Handle, Finish, Close, write, Aside
  <2>2. logRows \subseteq logRows'
    BY <1>2 DEF Receive, ApiKeyAuth, SessionAuth, authorizeApiKeyMode, resolveSessionProject,
                authorizeSessionMode, Handle, Finish, Close, write, Aside, storeVars
  <2> QED BY <1>1, <2>1, <2>2
<1>3. CASE \/ cleanupExpired \/ NextExpiredPage \/ PassFails \/ MemberTurns \/ KeyRevoked \/ LogTick
           \/ UNCHANGED httpVars
  BY <1>1, <1>3 DEF cleanupExpired, NextExpiredPage, PassFails, MemberTurns, KeyRevoked, LogTick, httpVars, storeVars
<1>4. ASSUME NEW gone, logRows' = logRows \ gone,
             walk' = IF walk = NONE THEN NONE ELSE [walk EXCEPT !.owed = @ \ gone]
      PROVE  WalkInv'
  BY <1>4 DEF WalkInv
<1>5. CASE DeletePage BY <1>4, <1>5 DEF DeletePage
<1>6. CASE ProjectDeleted
  <2>1. PICK p \in liveProjects :
            /\ logRows' = {row \in logRows : row.project # p}
            /\ walk' = IF walk = NONE THEN NONE ELSE [walk EXCEPT !.owed = @ \cap logRows']
    BY <1>6 DEF ProjectDeleted
  <2> QED BY <2>1 DEF WalkInv
<1>7. CASE StartWalk
  <2>1. PICK p \in LogProjects : Fetch(p, 0, {row \in logRows : row.project = p}, {})
    BY <1>7 DEF StartWalk
  <2>2. logRows' = logRows BY <1>7 DEF StartWalk, storeVars
  <2>3. \A row \in logRows : row.id > 0 BY <1>0 DEF RequestLogTypeOK
  <2> QED BY <1>0, <2>1, <2>2, <2>3, FetchKeeps
<1>8. CASE NextPage
  <2>1. logRows' = logRows BY <1>8 DEF NextPage, storeVars
  <2>2. CASE walk.cursor = NONE BY <1>8, <2>2 DEF NextPage, WalkInv
  <2>3. CASE walk.cursor # NONE
    <3>1. walk # NONE /\ Fetch(walk.project, walk.cursor, walk.owed, walk.seen) BY <1>8, <2>3 DEF NextPage
    <3> QED BY <1>0, <2>1, <2>3, <3>1, FetchKeeps DEF WalkInv
  <2> QED BY <2>2, <2>3
<1> QED BY <1>2, <1>3, <1>5, <1>6, <1>7, <1>8 DEF RequestLogNext

\* A walk by cursor misses nothing: whatever is written out of order, expired or deleted between
\* two pages, a reader sees every row that was there all along, and none twice.
THEOREM WalksMissNothing == RequestLogSpec => []WalkMissesNothing
<1>1. RequestLogInit => WalkInv BY DEF RequestLogInit, WalkInv
<1>2. WalkInv => WalkMissesNothing BY DEF WalkInv, WalkMissesNothing
<1> QED BY <1>1, <1>2, LogInvariance, WalkStep, PTL DEF RequestLogSpec


(***************************************************************************)
(* The rate limiter.                                                       *)
(***************************************************************************)

\* What a client's own header says does not matter: behind any number of trusted proxies up to
\* the configured one, the request counts under the address of the client that sent it.
LEMMA ClientIsIdentified ==
    ASSUME NEW client \in Clients, NEW proxies \in 0 .. ProxyHops,
           NEW written \in Seq(Clients \cup {Proxy, Junk})
    PROVE  ResolveClientIdentity(IF proxies = 0 THEN client ELSE Proxy, Chain(written, client, proxies)) = client
<1> DEFINE Hop == Clients \cup {Proxy, Junk}
           tail == [i \in 1 .. proxies - 1 |-> Proxy]
           chain == Chain(written, client, proxies)
           place == Len(written) + 1
<1>1. client # Proxy /\ client # Junk /\ Proxy # Junk /\ Proxy \notin Clients /\ ProxyHops \in Nat /\ client # NONE
  BY LimiterAssumption DEF Proxy, Junk
<1>2. CASE proxies = 0 BY <1>1, <1>2 DEF ResolveClientIdentity
<1>3. CASE proxies # 0
  <2>1. proxies \in Nat /\ proxies >= 1 BY <1>1, <1>3
  <2>2. tail \in Seq(Hop) /\ Len(tail) = proxies - 1 BY <2>1
  <2>3. chain = written \o <<client>> \o tail BY <1>3 DEF Chain
  <2> HIDE DEF tail, chain
  <2>4. <<client>> \in Seq(Hop) /\ Len(<<client>>) = 1 OBVIOUS
  <2>5. /\ written \o <<client>> \in Seq(Hop) /\ Len(written \o <<client>>) = place
        /\ (written \o <<client>>)[place] = client
    BY <2>4, ConcatProperties
  <2>6. /\ chain \in Seq(Hop) /\ Len(chain) = Len(written) + proxies
        /\ chain[place] = client
        /\ \A i \in 1 .. proxies - 1 : chain[place + i] = tail[i]
    <3>1. PICK head \in Seq(Hop) : head = written \o <<client>> BY <2>5
    <3>2. chain = head \o tail /\ Len(head) = place /\ head[place] = client BY <2>3, <2>5, <3>1
    <3>3. chain \in Seq(Hop) /\ Len(chain) = Len(head) + Len(tail) BY <2>2, <3>2, ConcatProperties
    <3>4. \A j \in 1 .. Len(head) + Len(tail) :
             chain[j] = IF j <= Len(head) THEN head[j] ELSE tail[j - Len(head)]
      BY <2>2, <3>2, ConcatProperties
    <3>5. Len(written) \in Nat OBVIOUS
    <3>6. ASSUME NEW i \in 1 .. proxies - 1 PROVE chain[place + i] = tail[i]
      <4>1. place + i \in 1 .. Len(head) + Len(tail) /\ ~(place + i <= Len(head)) /\ (place + i) - Len(head) = i
        BY <2>1, <2>2, <3>2, <3>5
      <4> QED BY <3>4, <4>1
    <3>7. place \in 1 .. Len(head) + Len(tail) BY <2>1, <2>2, <3>2, <3>5
    <3> QED BY <2>2, <3>2, <3>3, <3>4, <3>5, <3>6, <3>7
  <2>7. \A i \in 1 .. proxies - 1 : chain[place + i] = Proxy BY <2>6 DEF tail
  <2>8. \A j \in DOMAIN chain : j > place => chain[j] = Proxy
    <3> SUFFICES ASSUME NEW j \in DOMAIN chain, j > place PROVE chain[j] = Proxy OBVIOUS
    <3>1. j \in 1 .. Len(written) + proxies /\ Len(written) \in Nat BY <2>6
    <3>2. j - place \in 1 .. proxies - 1 /\ place + (j - place) = j BY <2>1, <3>1
    <3> QED BY <2>7, <3>2
  <2>9. chain # <<>> /\ place \in DOMAIN chain /\ Len(chain) \in DOMAIN chain /\ Len(chain) >= place
    BY <2>1, <2>6
  <2>10. Last(chain) # Junk
    <3>1. Last(chain) = chain[Len(chain)] BY DEF Last
    <3> QED BY <1>1, <2>6, <2>8, <2>9, <3>1
  <2> DEFINE found == {i \in DOMAIN chain : i + ProxyHops > Len(chain) /\ chain[i] \in Clients}
  <2>11. place \in found BY <1>1, <2>1, <2>6, <2>9
  <2>12. \A i \in found : i <= place /\ i \in Int BY <1>1, <2>6, <2>8, <2>9
  <2> HIDE DEF found
  <2>13. Max(found) = place
    <3>1. place \in Int BY <2>11, <2>12
    <3> QED BY <2>11, <2>12, <3>1 DEF Max
  <2>14. Walk(chain, ProxyHops) = client
    <3>1. Walk(chain, ProxyHops) = IF found = {} THEN NONE ELSE chain[Max(found)] BY DEF Walk, found
    <3> QED BY <2>6, <2>11, <2>13, <3>1
  <2> QED BY <1>1, <1>3, <2>1, <2>9, <2>10, <2>14 DEF ResolveClientIdentity, chain
<1> QED BY <1>2, <1>3


\* Sweeping keeps entries and adds none: numbering the kept places by rank is one to one.
LEMMA SweptIsSmaller ==
    ASSUME NEW entries \in Seq(Fallback)
    PROVE  Swept(entries) \in Seq(Fallback) /\ Len(Swept(entries)) <= Len(entries)
<1> DEFINE kept == {i \in DOMAIN entries : Running(entries[i])}
           Upto(i) == {j \in kept : j <= i}
           Nth(n) == CHOOSE i \in kept : Cardinality(Upto(i)) = n
           rank == [i \in kept |-> Cardinality(Upto(i))]
           size == Cardinality(kept)
<1>1. Len(entries) \in Nat /\ DOMAIN entries = 1 .. Len(entries) OBVIOUS
<1>2. IsFiniteSet(1 .. Len(entries)) /\ Cardinality(1 .. Len(entries)) = Len(entries) BY <1>1, FS_Interval
<1>3. kept \in SUBSET (1 .. Len(entries)) BY <1>1
<1>4. IsFiniteSet(kept) /\ size \in Nat /\ size <= Len(entries) BY <1>2, <1>3, FS_Subset, FS_CardinalityType
<1> HIDE DEF kept
<1>5. ASSUME NEW i \in kept
      PROVE  IsFiniteSet(Upto(i)) /\ Cardinality(Upto(i)) \in 1 .. size
  <2>1. Upto(i) \in SUBSET kept /\ i \in Upto(i) BY <1>3
  <2> HIDE DEF Upto
  <2>2. IsFiniteSet(Upto(i)) /\ Cardinality(Upto(i)) <= size BY <1>4, <2>1, FS_Subset
  <2>3. Cardinality(Upto(i)) \in Nat /\ Cardinality(Upto(i)) # 0 BY <2>1, <2>2, FS_CardinalityType, FS_EmptySet
  <2> QED BY <1>4, <2>2, <2>3
<1>6. ASSUME NEW i \in kept, NEW j \in kept, i < j PROVE Cardinality(Upto(i)) < Cardinality(Upto(j))
  <2>0. \A k \in kept : k \in Int BY <1>1, <1>3
  <2>1. Upto(i) \in SUBSET Upto(j)
    <3> SUFFICES ASSUME NEW k \in kept, k <= i PROVE k <= j OBVIOUS
    <3> QED BY <1>6, <2>0
  <2>2. j \in Upto(j) /\ j \notin Upto(i) BY <1>3, <1>6
  <2> HIDE DEF Upto
  <2>3. IsFiniteSet(Upto(i)) /\ IsFiniteSet(Upto(j)) BY <1>5
  <2>4. /\ Cardinality(Upto(i)) <= Cardinality(Upto(j))
        /\ Cardinality(Upto(j)) = Cardinality(Upto(i)) => Upto(j) = Upto(i)
    BY <2>1, <2>3, FS_Subset
  <2>5. Cardinality(Upto(i)) \in Nat /\ Cardinality(Upto(j)) \in Nat BY <2>3, FS_CardinalityType
  <2> QED BY <2>2, <2>4, <2>5
<1> HIDE DEF Upto
<1>7. rank \in Injection(kept, 1 .. size)
  <2>1. rank \in [kept -> 1 .. size] BY <1>5
  <2>2. ASSUME NEW i \in kept, NEW j \in kept, i # j PROVE rank[i] # rank[j]
    <3>1. i < j \/ j < i BY <1>3, <2>2
    <3>2. Cardinality(Upto(i)) \in Nat /\ Cardinality(Upto(j)) \in Nat BY <1>4, <1>5
    <3> QED BY <1>6, <3>1, <3>2
  <2> HIDE DEF rank
  <2> QED BY <2>1, <2>2 DEF Injection, IsInjective
<1>8. rank \in Surjection(kept, 1 .. size)
  <2>1. IsFiniteSet(1 .. size) /\ Cardinality(1 .. size) = size BY <1>4, FS_Interval
  <2> HIDE DEF rank
  <2> QED BY <1>4, <1>7, <2>1, FS_Injection
<1>9. \A n \in 1 .. size : \E i \in kept : rank[i] = n
  <2> HIDE DEF rank
  <2> QED BY <1>8 DEF Surjection, Range
<1>10. ASSUME NEW n \in 1 .. size PROVE entries[Nth(n)] \in Fallback
  <2>1. \E i \in kept : Cardinality(Upto(i)) = n BY <1>9
  <2>2. Nth(n) \in kept BY <2>1
  <2>3. Nth(n) \in 1 .. Len(entries) BY <1>3, <2>2
  <2> QED BY <2>3
<1>11. Swept(entries) = [n \in 1 .. size |-> entries[Nth(n)]] BY DEF Swept, kept, Upto
<1> HIDE DEF Nth
<1>12. [n \in 1 .. size |-> entries[Nth(n)]] \in Seq(Fallback)
  <2> DEFINE swept == [n \in 1 .. size |-> entries[Nth(n)]]
  <2>1. swept \in [1 .. size -> Fallback] BY <1>10
  <2> QED BY <1>4, <2>1, SeqDef
<1>13. Len(Swept(entries)) = size BY <1>4, <1>11, <1>12, LenProperties
<1> QED BY <1>4, <1>11, <1>12, <1>13

\* An eviction makes room for one entry.
LEMMA EvictedHasRoom ==
    ASSUME NEW p, store[p] \in Seq(Fallback)
    PROVE  Evicted(p) \in Seq(Fallback) /\ Len(Evicted(p)) < Ceiling
<1> DEFINE kept == IF seconds - sweptAt[p] >= SweepInterval THEN Swept(store[p]) ELSE store[p]
<1>1. kept \in Seq(Fallback) BY SweptIsSmaller
<1> HIDE DEF kept
<1>2. Len(kept) \in Nat /\ Ceiling \in Nat \ {0} /\ \A i \in 1 .. Len(kept) : kept[i] \in Fallback
  BY <1>1, LimiterAssumption
<1>3. CASE Len(kept) >= Ceiling
  <2> DEFINE first == Len(kept) - Ceiling + 2
  <2>1. first \in Int /\ \A i \in first .. Len(kept) : kept[i] \in Fallback BY <1>2, <1>3
  <2>2. /\ SubSeq(kept, first, Len(kept)) \in Seq(Fallback)
        /\ Len(SubSeq(kept, first, Len(kept))) =
              IF first <= Len(kept) THEN Len(kept) - first + 1 ELSE 0
    BY <1>2, <2>1, SubSeqProperties
  <2>3. Evicted(p) = SubSeq(kept, first, Len(kept)) BY <1>3 DEF Evicted, kept
  <2> QED BY <1>2, <2>2, <2>3
<1>4. CASE ~(Len(kept) >= Ceiling)
  <2>1. Evicted(p) = kept BY <1>4 DEF Evicted, kept
  <2> QED BY <1>1, <1>2, <1>4, <2>1
<1> QED BY <1>3, <1>4


\* Which attempt of its window a verdict of Redis was, and the draws an attempt holds: those that
\* let it through, and the one it has not read yet.
Drawn(x) == Limit(x.bucket) - x.remaining

Tickets(r) ==
    {<<x.bucket, x.window[2], Drawn(x)>> : x \in LetThrough(r)} \cup
    IF attempt[r].step = "replied" THEN {<<Staged(r), attempt[r].reply.until, attempt[r].reply.count>>} ELSE {}

Ticket == Bucket \X Nat \X (Nat \ {0})

\* The counter has come at least as far as every draw from it.
Issued(t) ==
    /\ redis[t[1]] # NONE /\ t[2] <= redis[t[1]].until
    /\ t[2] = redis[t[1]].until => t[3] <= redis[t[1]].count

\* How far an attempt has come through its guards.
CourseInv(r) ==
    attempt[r] # Unborn =>
        /\ attempt[r].guard <= Len(ScopesForClass(attempt[r].class))
        /\ attempt[r].credential = NONE => attempt[r].guard = 1
        /\ attempt[r].step \in {"guard", "replied"} => Len(attempt[r].counted) = attempt[r].guard - 1
        /\ attempt[r].step = "replied" => attempt[r].reply \in Counter /\ attempt[r].reply.count # 0
        /\ attempt[r].step = "admitted" =>
              /\ Len(attempt[r].counted) = attempt[r].guard
              /\ attempt[r].guard = IF attempt[r].credential = NONE THEN 1
                                    ELSE Len(ScopesForClass(attempt[r].class))
        /\ Len(attempt[r].counted) <= attempt[r].guard
        /\ \A i \in 1 .. Len(attempt[r].counted) :
              attempt[r].counted[i].bucket[2] = ScopesForClass(attempt[r].class)[i]
        /\ \A x \in LetThrough(r) : Drawn(x) \in 1 .. Limit(x.bucket)

LimitInv ==
    /\ LimiterTypeOK
    /\ \A r \in Requests : CourseInv(r)
    /\ \A b \in Bucket : redis[b] # NONE => redis[b].count # 0
    /\ \A r \in Requests : Tickets(r) \subseteq Ticket /\ \A t \in Tickets(r) : Issued(t)
    /\ \A r, s \in Requests : r # s => Tickets(r) \cap Tickets(s) = {}

\* Every class of routes has one or two scopes, and the first one is the address.
LEMMA ScopesOfClasses ==
    ASSUME NEW class \in RouteClasses
    PROVE  /\ ScopesForClass(class) \in Seq(Scopes) /\ Len(ScopesForClass(class)) \in {1, 2}
           /\ ScopesForClass(class)[1] = "ip"
<1>1. class \in RateLimitClasses BY LimiterAssumption
<1>2. CASE class = "auth.session-creation" BY <1>2 DEF ScopesForClass, Scopes
<1>3. CASE class \in {"auth.refresh", "auth.read", "read"} BY <1>3 DEF ScopesForClass, Scopes
<1>4. CASE class \in {"write", "webhook.replay", "webhook.endpoint-create"}
  <2>1. ScopesForClass(class) = <<"ip", "api_key">> BY <1>4 DEF ScopesForClass
  <2> QED BY <2>1 DEF Scopes
<1> QED BY <1>1, <1>2, <1>3, <1>4 DEF RateLimitClasses

\* An attempt that has arrived is a full record.
LEMMA AttemptIsRecord ==
    ASSUME LimiterTypeOK, NEW r \in Requests, attempt[r].step # "none"
    PROVE  attempt[r] \in Attempt /\ attempt[r] # Unborn
BY DEF LimiterTypeOK, Unborn

\* A full record has arrived.
LEMMA RecordHasArrived ==
    ASSUME NEW a \in Attempt
    PROVE  a # Unborn
<1>1. a.step \in {"guard", "replied", "admitted", "rejected", "unauthorized"} BY DEF Attempt
<1>2. Unborn.step = "none" BY DEF Unborn
<1> QED BY <1>1, <1>2

\* What is counted next has a bucket, and its budget is positive.
LEMMA StagedIsBucket ==
    ASSUME NEW r \in Requests, attempt[r] \in Attempt, CourseInv(r)
    PROVE  Staged(r) \in Bucket /\ Staged(r)[2] = ScopesForClass(attempt[r].class)[attempt[r].guard]
<1>1. /\ attempt[r].class \in RouteClasses /\ attempt[r].guard \in {1, 2} /\ attempt[r].identity \in Clients
      /\ attempt[r].credential \in Credentials \cup {NONE} /\ attempt[r] # Unborn
  BY RecordHasArrived DEF Attempt
<1> DEFINE scopes == ScopesForClass(attempt[r].class)
<1>2. attempt[r].guard <= Len(scopes) /\ (attempt[r].credential = NONE => attempt[r].guard = 1)
  BY <1>1 DEF CourseInv
<1>3. scopes \in Seq(Scopes) /\ Len(scopes) \in {1, 2} /\ scopes[1] = "ip" BY <1>1, ScopesOfClasses
<1> HIDE DEF scopes
<1>4. attempt[r].guard \in 1 .. Len(scopes) BY <1>1, <1>2, <1>3
<1>5. scopes[attempt[r].guard] \in Scopes BY <1>3, <1>4
<1>6. Staged(r) = <<attempt[r].class, scopes[attempt[r].guard],
                    IF scopes[attempt[r].guard] = "ip" THEN attempt[r].identity ELSE attempt[r].credential>>
  BY DEF Staged, scopes
<1>7. scopes[attempt[r].guard] = "ip" \/ attempt[r].credential \in Credentials BY <1>1, <1>2, <1>3
<1> QED BY <1>1, <1>5, <1>6, <1>7 DEF Bucket, scopes

\* Budgets are positive.
LEMMA LimitIsPositive ==
    ASSUME NEW b \in Bucket
    PROVE  Limit(b) \in Nat \ {0}
BY LimiterAssumption DEF Bucket, Limit

\* What a counter says of an attempt is a verdict, and an allowed one tells which attempt it was.
LEMMA ConsumptionFacts ==
    ASSUME NEW b \in Bucket, NEW count \in Nat, NEW window \in ({"redis", "none"} \cup Processes) \X Nat
    PROVE  /\ Consumption(b, count, window) \in BucketConsumption
           /\ Consumption(b, count, window).bucket = b /\ Consumption(b, count, window).window = window
           /\ Consumption(b, count, window).allowed <=> count <= Limit(b)
           /\ count <= Limit(b) => Drawn(Consumption(b, count, window)) = count
<1>1. Limit(b) \in Nat BY LimitIsPositive
<1> DEFINE left == IF count < Limit(b) THEN Limit(b) - count ELSE 0
<1>2. left \in Nat /\ (count <= Limit(b) => Limit(b) - left = count) BY <1>1
<1>3. (count <= Limit(b)) \in BOOLEAN BY <1>1
<1> HIDE DEF left
<1>4. Consumption(b, count, window) = [allowed |-> count <= Limit(b), bucket |-> b, window |-> window, remaining |-> left]
  BY DEF Consumption, left
<1> DEFINE c == Consumption(b, count, window)
<1>5. c.bucket = b /\ c.window = window /\ c.allowed = (count <= Limit(b)) /\ c.remaining = left BY <1>4
<1>6. c \in BucketConsumption BY <1>2, <1>3, <1>4 DEF BucketConsumption
<1> HIDE DEF c
<1>7. Drawn(c) = Limit(b) - left BY <1>5 DEF Drawn
<1> QED BY <1>2, <1>5, <1>6, <1>7 DEF c


\* Where one guard has passed, another may follow.
LEMMA NextGuard ==
    ASSUME NEW m \in {1, 2}, NEW n \in {1, 2}, m < n
    PROVE  m + 1 \in {1, 2}
<1>1. m = 1 OBVIOUS
<1> QED BY <1>1

\* An attempt learns of one bucket: it goes on to its next guard, is admitted or is rejected.
LEMMA ConsumedMoves ==
    ASSUME LimiterTypeOK, NEW r \in Requests, attempt[r] \in Attempt, CourseInv(r),
           attempt[r].step \in {"guard", "replied"},
           NEW c \in BucketConsumption, c.bucket = Staged(r),
           c.allowed /\ c.window[1] = "redis" => Drawn(c) \in 1 .. Limit(c.bucket),
           Consumed(r, c)
    PROVE  /\ attempt' \in [Requests -> Attempt \cup {Unborn}]
           /\ \A s \in Requests : s # r => attempt'[s] = attempt[s]
           /\ CourseInv(r)' /\ attempt'[r].step # "replied"
           /\ \A x \in LetThrough(r)' : x \in LetThrough(r) \/ (x = c /\ c.allowed /\ c.window[1] = "redis")
<1> DEFINE scopes == ScopesForClass(attempt[r].class)
           more == attempt[r].guard < Len(scopes) /\ attempt[r].credential # NONE
           newStep == IF ~ c.allowed THEN "rejected" ELSE IF more THEN "guard" ELSE "admitted"
           guard == IF c.allowed /\ more THEN attempt[r].guard + 1 ELSE attempt[r].guard
           reported == IF Tighter(attempt[r], c) THEN c ELSE attempt[r].reported
           counted == Append(attempt[r].counted, c)
           next == [attempt[r] EXCEPT !.step = newStep, !.guard = guard, !.reported = reported, !.counted = counted]
<1>1. /\ attempt[r].class \in RouteClasses /\ attempt[r].guard \in {1, 2}
      /\ attempt[r].counted \in Seq(BucketConsumption) /\ attempt[r].reported \in BucketConsumption \cup {NONE}
      /\ attempt[r].credential \in Credentials \cup {NONE} /\ attempt[r] # Unborn
  BY RecordHasArrived DEF Attempt
<1>2. /\ attempt[r].guard <= Len(scopes) /\ (attempt[r].credential = NONE => attempt[r].guard = 1)
      /\ Len(attempt[r].counted) = attempt[r].guard - 1
      /\ \A i \in 1 .. Len(attempt[r].counted) : attempt[r].counted[i].bucket[2] = scopes[i]
      /\ \A x \in LetThrough(r) : Drawn(x) \in 1 .. Limit(x.bucket)
  BY <1>1 DEF CourseInv
<1>3. scopes \in Seq(Scopes) /\ Len(scopes) \in {1, 2} BY <1>1, ScopesOfClasses
<1>4. Staged(r)[2] = scopes[attempt[r].guard] BY StagedIsBucket
<1>5. attempt' = [attempt EXCEPT ![r] = next] BY DEF Consumed
<1> HIDE DEF scopes
<1>6. /\ newStep \in {"rejected", "guard", "admitted"}
      /\ (newStep = "guard" => more) /\ (newStep = "admitted" => ~more)
      /\ guard \in {1, 2} /\ guard = IF newStep = "guard" THEN attempt[r].guard + 1 ELSE attempt[r].guard
  <2>1. CASE ~ c.allowed BY <1>1, <2>1
  <2>2. CASE c.allowed /\ more
    <3>0. attempt[r].guard \in {1, 2} /\ Len(scopes) \in {1, 2} /\ attempt[r].guard < Len(scopes)
      BY <1>1, <1>3, <2>2
    <3>1. attempt[r].guard + 1 \in {1, 2} BY <3>0, NextGuard
    <3> QED BY <2>2, <3>1
  <2>3. CASE c.allowed /\ ~more BY <1>1, <2>3
  <2> QED BY <2>1, <2>2, <2>3
<1>7. reported \in BucketConsumption \cup {NONE} BY <1>1
<1>8. /\ counted \in Seq(BucketConsumption) /\ Len(counted) = attempt[r].guard /\ counted[attempt[r].guard] = c
      /\ \A i \in 1 .. Len(attempt[r].counted) : counted[i] = attempt[r].counted[i]
  <2>1. /\ counted \in Seq(BucketConsumption) /\ Len(counted) = Len(attempt[r].counted) + 1
        /\ \A i \in 1 .. Len(attempt[r].counted) : counted[i] = attempt[r].counted[i]
        /\ counted[Len(attempt[r].counted) + 1] = c
    BY <1>1, AppendProperties
  <2>2. Len(attempt[r].counted) + 1 = attempt[r].guard BY <1>1, <1>2
  <2> QED BY <2>1, <2>2
<1> HIDE DEF newStep, guard, reported, counted
<1>9. /\ next \in Attempt /\ next.step = newStep /\ next.guard = guard /\ next.counted = counted
      /\ next.class = attempt[r].class /\ next.credential = attempt[r].credential
  BY <1>6, <1>7, <1>8 DEF Attempt
<1> HIDE DEF next
<1>10. /\ attempt' \in [Requests -> Attempt \cup {Unborn}] /\ attempt'[r] = next
       /\ \A s \in Requests : s # r => attempt'[s] = attempt[s]
  BY <1>5, <1>9 DEF LimiterTypeOK
<1>11. \A x \in LetThrough(r)' : x \in LetThrough(r) \/ (x = c /\ c.allowed /\ c.window[1] = "redis")
  <2> SUFFICES ASSUME NEW x, x \in LetThrough(r)'
               PROVE  x \in LetThrough(r) \/ (x = c /\ c.allowed /\ c.window[1] = "redis")
    OBVIOUS
  <2>1. x \in Range(counted) /\ x.allowed /\ x.window[1] = "redis" BY <1>9, <1>10 DEF LetThrough
  <2>2. PICK i \in 1 .. Len(counted) : x = counted[i] BY <1>8, <2>1 DEF Range
  <2>3. CASE i = attempt[r].guard BY <1>8, <2>1, <2>2, <2>3
  <2>4. CASE i # attempt[r].guard
    <3>1. i \in 1 .. Len(attempt[r].counted) BY <1>1, <1>2, <1>8, <2>4
    <3>2. x = attempt[r].counted[i] BY <1>8, <2>2, <3>1
    <3>3. x \in Range(attempt[r].counted) BY <1>1, <3>1, <3>2 DEF Range
    <3>4. LetThrough(r) = {y \in Range(attempt[r].counted) : y.allowed /\ y.window[1] = "redis"}
      BY <1>1 DEF LetThrough
    <3>5. x \in {y \in Range(attempt[r].counted) : y.allowed /\ y.window[1] = "redis"} BY <2>1, <3>3
    <3> QED BY <3>4, <3>5
  <2> QED BY <2>3, <2>4
<1>12. \A x \in LetThrough(r)' : Drawn(x) \in 1 .. Limit(x.bucket) BY <1>2, <1>11
<1>13. \A i \in 1 .. Len(counted) : counted[i].bucket[2] = scopes[i]
  <2> SUFFICES ASSUME NEW i \in 1 .. Len(counted) PROVE counted[i].bucket[2] = scopes[i]
    OBVIOUS
  <2>1. CASE i = attempt[r].guard BY <1>4, <1>8, <2>1
  <2>2. CASE i # attempt[r].guard
    <3>1. i \in 1 .. Len(attempt[r].counted) BY <1>1, <1>2, <1>8, <2>2
    <3> QED BY <1>2, <1>8, <3>1
  <2> QED BY <2>1, <2>2
<1>14. newStep # "replied" /\ attempt'[r].step = newStep BY <1>6, <1>9, <1>10
<1>15. CourseInv(r)'
  <2>1. guard <= Len(scopes) /\ (attempt[r].credential = NONE => guard = 1) BY <1>1, <1>2, <1>3, <1>6
  <2>2. newStep = "guard" => Len(counted) = guard - 1 BY <1>1, <1>6, <1>8
  <2>3. Len(counted) <= guard BY <1>1, <1>6, <1>8
  <2>4. newStep = "admitted" => /\ Len(counted) = guard
                             /\ guard = IF attempt[r].credential = NONE THEN 1 ELSE Len(scopes)
    BY <1>1, <1>2, <1>3, <1>6, <1>8
  <2>5. ScopesForClass(attempt'[r].class) = scopes BY <1>9, <1>10 DEF scopes
  <2>6. \A x \in LetThrough(r)' : Drawn(x)' = Drawn(x) /\ Limit(x.bucket)' = Limit(x.bucket) BY DEF Drawn, Limit
  <2> QED BY <1>9, <1>10, <1>12, <1>13, <1>14, <2>5, <2>1, <2>2, <2>3, <2>4, <2>6 DEF CourseInv
<1> QED BY <1>10, <1>11, <1>14, <1>15


\* What an attempt holds depends on its own record.
LEMMA SameAttempt ==
    ASSUME NEW s \in Requests, attempt'[s] = attempt[s]
    PROVE  Tickets(s)' = Tickets(s) /\ (CourseInv(s) => CourseInv(s)')
BY DEF Tickets, LetThrough, Staged, CourseInv, Drawn, Limit

\* A step of one attempt that draws nothing.
LEMMA NothingDrawn ==
    ASSUME LimitInv, LimiterTypeOK', NEW r \in Requests, redis' = redis,
           \A s \in Requests : s # r => attempt'[s] = attempt[s],
           CourseInv(r)', Tickets(r)' \subseteq Tickets(r)
    PROVE  LimitInv'
<1>1. \A s \in Requests : s # r => Tickets(s)' = Tickets(s) /\ CourseInv(s)'
  BY SameAttempt DEF LimitInv
<1>2. \A s \in Requests : CourseInv(s)' BY <1>1
<1>3. \A s \in Requests : Tickets(s)' \subseteq Tickets(s) BY <1>1
<1>4. \A t : Issued(t)' <=> Issued(t) BY DEF Issued
<1>5. \A s \in Requests : Tickets(s)' \subseteq Ticket /\ \A t \in Tickets(s)' : Issued(t)'
  BY <1>3, <1>4 DEF LimitInv
<1>6. \A s, u \in Requests : s # u => Tickets(s)' \cap Tickets(u)' = {}
  <2> SUFFICES ASSUME NEW s \in Requests, NEW u \in Requests, s # u PROVE Tickets(s)' \cap Tickets(u)' = {}
    OBVIOUS
  <2>1. Tickets(s) \cap Tickets(u) = {} BY DEF LimitInv
  <2> QED BY <1>3, <2>1
<1>7. Ticket' = Ticket BY DEF Ticket
<1>8. (\A b \in Bucket : redis[b] # NONE => redis[b].count # 0)' BY DEF LimitInv
<1> QED BY <1>2, <1>5, <1>6, <1>7, <1>8 DEF LimitInv

\* The verdict of another store, or one that rejects, is no draw of Redis.
LEMMA ConsumedElsewhere ==
    ASSUME LimitInv, NEW r \in Requests, attempt[r] \in Attempt,
           attempt[r].step \in {"guard", "replied"},
           NEW c \in BucketConsumption, c.bucket = Staged(r), ~(c.allowed /\ c.window[1] = "redis"),
           Consumed(r, c),
           UNCHANGED <<seconds, failMode, redis>>, late' \in [Bucket -> Nat],
           redisFaults' \in 0 .. MaxRedisFaults, store' \in [Processes -> Seq(Fallback)],
           \A p \in Processes : Len(store'[p]) <= Ceiling, sweptAt' \in [Processes -> 0 .. MaxSeconds]
    PROVE  LimitInv'
<1>1. LimiterTypeOK /\ CourseInv(r) BY DEF LimitInv
<1>2. /\ attempt' \in [Requests -> Attempt \cup {Unborn}]
      /\ \A s \in Requests : s # r => attempt'[s] = attempt[s]
      /\ CourseInv(r)' /\ attempt'[r].step # "replied"
      /\ \A x \in LetThrough(r)' : x \in LetThrough(r)
  BY <1>1, ConsumedMoves
<1>3. LimiterTypeOK' BY <1>1, <1>2 DEF LimiterTypeOK
<1>4. Tickets(r)' \subseteq Tickets(r)
  <2>1. Tickets(r)' = {<<x.bucket, x.window[2], Drawn(x)>> : x \in LetThrough(r)'}
    BY <1>2 DEF Tickets, Drawn, Limit
  <2>2. {<<x.bucket, x.window[2], Drawn(x)>> : x \in LetThrough(r)} \subseteq Tickets(r) BY DEF Tickets
  <2> QED BY <1>2, <2>1, <2>2
<1> QED BY <1>2, <1>3, <1>4, NothingDrawn

\* An execution of the script draws an attempt nobody else has drawn.
LEMMA IncrementIsFresh ==
    ASSUME LimitInv, NEW b \in Bucket, redis' = [redis EXCEPT ![b] = Incremented(b)]
    PROVE  /\ Incremented(b) \in Counter /\ Incremented(b).count # 0
           /\ redis' \in [Bucket -> Counter \cup {NONE}]
           /\ \A x \in Bucket : redis'[x] # NONE => redis'[x].count # 0
           /\ \A t \in Ticket : Issued(t) => Issued(t)' /\ t # <<b, Incremented(b).until, Incremented(b).count>>
           /\ <<b, Incremented(b).until, Incremented(b).count>> \in Ticket
           /\ redis'[b] = Incremented(b)
<1>0. LimiterTypeOK BY DEF LimitInv
<1>1. redis \in [Bucket -> Counter \cup {NONE}] /\ seconds \in Nat /\ LimitWindow \in Nat \ {0}
  BY <1>0, LimiterAssumption DEF LimiterTypeOK
<1>2. NONE \notin Counter BY NoneIsNoCounter
<1> DEFINE now == Incremented(b)
           before == redis[b]
<1>3. CASE before = NONE \/ before.until <= seconds
  <2>1. now = [count |-> 1, until |-> seconds + LimitWindow] BY <1>3 DEF Incremented
  <2>2. now \in Counter /\ now.count = 1 /\ now.until = seconds + LimitWindow BY <1>1, <2>1 DEF Counter
  <2> HIDE DEF now
  <2>3. redis' \in [Bucket -> Counter \cup {NONE}] /\ redis'[b] = now /\ \A x \in Bucket : x # b => redis'[x] = redis[x]
    BY <1>1, <2>2 DEF now
  <2>4. ASSUME NEW t \in Ticket, Issued(t) PROVE Issued(t)' /\ t # <<b, now.until, now.count>>
    <3>1. t[1] \in Bucket /\ t[2] \in Nat BY <2>4 DEF Ticket
    <3>2. CASE t[1] # b BY <2>3, <2>4, <3>1, <3>2 DEF Issued
    <3>3. CASE t[1] = b
      <4>1. redis[b] # NONE /\ t[2] <= redis[b].until BY <2>4, <3>3 DEF Issued
      <4>2. redis[b] \in Counter BY <1>1, <4>1
      <4>3. redis[b].until \in Nat BY <4>2 DEF Counter
      <4>4. t[2] < now.until BY <1>1, <1>3, <2>2, <3>1, <4>1, <4>3
      <4>5. now.until \in Nat BY <2>2 DEF Counter
      <4>6. t[2] <= now.until /\ t[2] # now.until BY <3>1, <4>4, <4>5
      <4>7. redis'[b] # NONE BY <1>2, <2>2, <2>3
      <4> QED BY <2>3, <3>3, <4>6, <4>7 DEF Issued
    <3> QED BY <3>2, <3>3
  <2>5. <<b, now.until, now.count>> \in Ticket BY <1>1, <2>2 DEF Ticket
  <2> QED BY <2>2, <2>3, <2>4, <2>5 DEF now, LimitInv
<1>4. CASE ~(before = NONE \/ before.until <= seconds)
  <2>0. before \in Counter BY <1>1, <1>4
  <2>1. now = [before EXCEPT !.count = @ + 1] BY <1>4 DEF Incremented
  <2>2. now \in Counter /\ now.count = before.count + 1 /\ now.until = before.until /\ before.count \in Nat /\ before.until \in Nat
    BY <2>0, <2>1 DEF Counter
  <2> HIDE DEF now
  <2>3. redis' \in [Bucket -> Counter \cup {NONE}] /\ redis'[b] = now /\ \A x \in Bucket : x # b => redis'[x] = redis[x]
    BY <1>1, <2>2 DEF now
  <2>4. ASSUME NEW t \in Ticket, Issued(t) PROVE Issued(t)' /\ t # <<b, now.until, now.count>>
    <3>1. t[1] \in Bucket /\ t[2] \in Nat /\ t[3] \in Nat BY <2>4 DEF Ticket
    <3>2. CASE t[1] # b BY <2>3, <2>4, <3>1, <3>2 DEF Issued
    <3>3. CASE t[1] = b
      <4>1. t[2] <= before.until /\ (t[2] = before.until => t[3] <= before.count)
        BY <2>4, <3>3 DEF Issued
      <4>2. t[2] <= now.until /\ (t[2] = now.until => t[3] <= now.count /\ t[3] # now.count)
        BY <2>2, <3>1, <4>1
      <4>7. redis'[b] # NONE BY <1>2, <2>2, <2>3
      <4> QED BY <2>3, <3>3, <4>2, <4>7 DEF Issued
    <3> QED BY <3>2, <3>3
  <2>5. <<b, now.until, now.count>> \in Ticket /\ now.count # 0 BY <2>2 DEF Ticket
  <2> QED BY <2>2, <2>3, <2>4, <2>5 DEF now, LimitInv
<1> QED BY <1>3, <1>4


\* A request arrives and has drawn nothing.
LEMMA ArriveKeeps ==
    ASSUME LimitInv, NEW r \in Requests, NEW p \in Processes, NEW client \in Clients,
           NEW class \in RouteClasses, NEW credential \in Credentials \cup {NONE},
           Arrive(r, p, client, class, credential)
    PROVE  LimitInv'
<1>0. LimiterTypeOK BY DEF LimitInv
<1>1. PICK written \in SeqOf(Clients \cup {Proxy, Junk}, 1), proxies \in 0 .. ProxyHops :
          attempt' = [attempt EXCEPT ![r] =
              [step |-> "guard", process |-> p, class |-> class, credential |-> credential,
               client |-> client, guard |-> 1, reported |-> NONE, counted |-> <<>>, reply |-> NONE,
               identity |-> ResolveClientIdentity(IF proxies = 0 THEN client ELSE Proxy,
                                                  Chain(written, client, proxies))]]
  BY DEF Arrive
<1>2. written \in Seq(Clients \cup {Proxy, Junk})
  <2>1. PICK m \in 0 .. 1 : written \in [1 .. m -> Clients \cup {Proxy, Junk}] BY DEF SeqOf
  <2> QED BY <2>1, SeqDef
<1>3. ResolveClientIdentity(IF proxies = 0 THEN client ELSE Proxy, Chain(written, client, proxies)) = client
  BY <1>2, ClientIsIdentified
<1> DEFINE a == [step |-> "guard", process |-> p, class |-> class, credential |-> credential,
                 client |-> client, guard |-> 1, reported |-> NONE, counted |-> <<>>, reply |-> NONE,
                 identity |-> client]
<1>4. attempt' = [attempt EXCEPT ![r] = a] BY <1>1, <1>3
<1>5. /\ a \in Attempt /\ a.step = "guard" /\ a.class = class /\ a.guard = 1 /\ a.counted = <<>>
      /\ a.credential = credential
  BY DEF Attempt
<1> HIDE DEF a
<1>6. /\ attempt' \in [Requests -> Attempt \cup {Unborn}] /\ attempt'[r] = a
      /\ \A s \in Requests : s # r => attempt'[s] = attempt[s]
  BY <1>0, <1>4, <1>5 DEF LimiterTypeOK
<1>7. LimiterTypeOK' BY <1>0, <1>6 DEF LimiterTypeOK, Arrive
<1>8. Range(a.counted) = {} BY <1>5 DEF Range
<1>9. LetThrough(r)' = {} BY <1>6, <1>8 DEF LetThrough
<1>10. Tickets(r)' = {} BY <1>5, <1>6, <1>9 DEF Tickets
<1>11. CourseInv(r)'
  <2>1. Len(ScopesForClass(class)) \in {1, 2} BY ScopesOfClasses
  <2>2. Len(a.counted) = 0 BY <1>5
  <2>3. 1 <= Len(ScopesForClass(class)) BY <2>1, SMTT(30)
  <2>4. \A i \in 1 .. Len(a.counted) : FALSE BY <2>2
  <2>5. Len(a.counted) = a.guard - 1 /\ Len(a.counted) <= a.guard BY <1>5, <2>2
  <2> QED BY <1>5, <1>6, <1>9, <2>3, <2>4, <2>5 DEF CourseInv
<1> QED BY <1>6, <1>7, <1>10, <1>11, NothingDrawn DEF Arrive

\* The script runs: the counter moves and the attempt holds the draw.
LEMMA EvalKeeps ==
    ASSUME LimitInv, NEW r \in Requests, Eval(r)
    PROVE  LimitInv'
<1>0. LimiterTypeOK /\ CourseInv(r) BY DEF LimitInv
<1>1. attempt[r] \in Attempt /\ attempt[r] # Unborn /\ attempt[r].step = "guard"
  BY <1>0, AttemptIsRecord DEF Eval
<1>2. PICK b \in Bucket : b = Staged(r) BY <1>0, <1>1, StagedIsBucket
<1>3. PICK now : now = Incremented(b) OBVIOUS
<1>4. redis' = [redis EXCEPT ![b] = Incremented(b)] BY <1>2 DEF Eval
<1>5. /\ now \in Counter /\ now.count # 0
      /\ redis' \in [Bucket -> Counter \cup {NONE}]
      /\ \A x \in Bucket : redis'[x] # NONE => redis'[x].count # 0
      /\ \A t \in Ticket : Issued(t) => Issued(t)' /\ t # <<b, now.until, now.count>>
      /\ <<b, now.until, now.count>> \in Ticket
      /\ redis'[b] = now
  BY <1>3, <1>4, IncrementIsFresh
<1> DEFINE a == [attempt[r] EXCEPT !.step = "replied", !.reply = now]
<1>6. attempt' = [attempt EXCEPT ![r] = a] BY <1>2, <1>3 DEF Eval
<1>7. /\ a \in Attempt /\ a.step = "replied" /\ a.reply = now /\ a.counted = attempt[r].counted
      /\ a.guard = attempt[r].guard /\ a.class = attempt[r].class /\ a.credential = attempt[r].credential
      /\ a.identity = attempt[r].identity /\ a # Unborn
  BY <1>1, <1>5, RecordHasArrived DEF Attempt
<1> HIDE DEF a
<1>8. /\ attempt' \in [Requests -> Attempt \cup {Unborn}] /\ attempt'[r] = a
      /\ \A s \in Requests : s # r => attempt'[s] = attempt[s]
  BY <1>0, <1>6, <1>7 DEF LimiterTypeOK
<1>9. LimiterTypeOK' BY <1>0, <1>5, <1>8 DEF LimiterTypeOK, Eval
<1>10. LetThrough(r)' = LetThrough(r) BY <1>1, <1>7, <1>8 DEF LetThrough
<1>11. CourseInv(r)'
  <2>1. \A x \in LetThrough(r) : Drawn(x) \in 1 .. Limit(x.bucket) BY <1>0, <1>1 DEF CourseInv
  <2>2. \A x \in LetThrough(r) : Drawn(x)' = Drawn(x) /\ Limit(x.bucket)' = Limit(x.bucket) BY DEF Drawn, Limit
  <2> QED BY <1>0, <1>1, <1>5, <1>7, <1>8, <1>10, <2>1, <2>2 DEF CourseInv
<1> DEFINE drawn == <<b, now.until, now.count>>
           held == {<<x.bucket, x.window[2], Drawn(x)>> : x \in LetThrough(r)}
<1>12. Tickets(r) = held BY <1>1 DEF Tickets
<1>13. Tickets(r)' = held \cup {drawn}
  <2>1. Staged(r)' = b BY <1>2, <1>7, <1>8 DEF Staged
  <2>2. {<<x.bucket, x.window[2], Drawn(x)>> : x \in LetThrough(r)}' = held BY <1>10 DEF Drawn, Limit
  <2> QED BY <1>7, <1>8, <2>1, <2>2 DEF Tickets
<1> HIDE DEF held
<1>14. \A s \in Requests : s # r => Tickets(s)' = Tickets(s) /\ CourseInv(s)'
  BY <1>8, SameAttempt DEF LimitInv
<1>15. drawn \in Ticket /\ Issued(drawn)'
  <2>1. redis'[b] # NONE BY <1>5, NoneIsNoCounter
  <2>2. now.until \in Nat /\ now.count \in Nat BY <1>5 DEF Counter
  <2> QED BY <1>5, <2>1, <2>2 DEF Issued
<1>16. \A s \in Requests : drawn \notin Tickets(s) BY <1>5 DEF LimitInv
<1> HIDE DEF drawn
<1>17. \A s \in Requests : Tickets(s)' \subseteq Ticket /\ \A t \in Tickets(s)' : Issued(t)'
  <2> SUFFICES ASSUME NEW s \in Requests, NEW t \in Tickets(s)' PROVE t \in Ticket /\ Issued(t)'
    OBVIOUS
  <2>1. t \in Tickets(s) \/ t = drawn BY <1>12, <1>13, <1>14
  <2>2. CASE t \in Tickets(s) BY <1>5, <2>2 DEF LimitInv
  <2> QED BY <1>15, <2>1, <2>2
<1>18. \A s, u \in Requests : s # u => Tickets(s)' \cap Tickets(u)' = {}
  <2> SUFFICES ASSUME NEW s \in Requests, NEW u \in Requests, s # u PROVE Tickets(s)' \cap Tickets(u)' = {}
    OBVIOUS
  <2>1. Tickets(s) \cap Tickets(u) = {} BY DEF LimitInv
  <2> QED BY <1>12, <1>13, <1>14, <1>16, <2>1
<1>19. \A s \in Requests : CourseInv(s)' BY <1>11, <1>14
<1>20. Ticket' = Ticket BY DEF Ticket
<1> QED BY <1>5, <1>9, <1>17, <1>18, <1>19, <1>20 DEF LimitInv

\* A reply hands the draw on: to the verdict that lets the attempt through, or to nobody.
LEMMA ReplyKeeps ==
    ASSUME LimitInv, NEW r \in Requests, Reply(r)
    PROVE  LimitInv'
<1>0. LimiterTypeOK /\ CourseInv(r) BY DEF LimitInv
<1>1. attempt[r] \in Attempt /\ attempt[r] # Unborn /\ attempt[r].step = "replied"
  BY <1>0, AttemptIsRecord DEF Reply
<1>2. attempt[r].reply \in Counter /\ attempt[r].reply.count # 0 BY <1>0, <1>1 DEF CourseInv
<1>3. attempt[r].reply.count \in Nat \ {0} /\ attempt[r].reply.until \in Nat BY <1>2 DEF Counter
<1>4. Staged(r) \in Bucket BY <1>0, <1>1, StagedIsBucket
<1>5. PICK c : c = Consumption(Staged(r), attempt[r].reply.count, <<"redis", attempt[r].reply.until>>)
  OBVIOUS
<1>6. /\ c \in BucketConsumption /\ c.bucket = Staged(r) /\ c.window = <<"redis", attempt[r].reply.until>>
      /\ c.allowed <=> attempt[r].reply.count <= Limit(Staged(r))
      /\ attempt[r].reply.count <= Limit(Staged(r)) => Drawn(c) = attempt[r].reply.count
  BY <1>3, <1>4, <1>5, ConsumptionFacts
<1>7. Consumed(r, c) BY <1>5 DEF Reply
<1>8. UNCHANGED <<seconds, failMode, redis, late, store, sweptAt, redisFaults>> BY DEF Reply
<1>9. CASE ~c.allowed
  BY <1>0, <1>1, <1>6, <1>7, <1>8, <1>9, ConsumedElsewhere DEF LimiterTypeOK
<1>10. CASE c.allowed
  <2>1. Drawn(c) = attempt[r].reply.count /\ Drawn(c) \in 1 .. Limit(c.bucket)
    BY <1>3, <1>4, <1>6, <1>10, LimitIsPositive
  <2>2. /\ attempt' \in [Requests -> Attempt \cup {Unborn}]
        /\ \A s \in Requests : s # r => attempt'[s] = attempt[s]
        /\ CourseInv(r)' /\ attempt'[r].step # "replied"
        /\ \A x \in LetThrough(r)' : x \in LetThrough(r) \/ x = c
    BY <1>0, <1>1, <1>6, <1>7, <2>1, ConsumedMoves
  <2>3. LimiterTypeOK' BY <1>0, <1>8, <2>2 DEF LimiterTypeOK
  <2>4. Tickets(r)' \subseteq Tickets(r)
    <3>1. Tickets(r)' = {<<x.bucket, x.window[2], Drawn(x)>> : x \in LetThrough(r)'}
      BY <2>2 DEF Tickets, Drawn, Limit
    <3>2. {<<x.bucket, x.window[2], Drawn(x)>> : x \in LetThrough(r)} \subseteq Tickets(r) BY DEF Tickets
    <3>3. <<c.bucket, c.window[2], Drawn(c)>> \in Tickets(r) BY <1>1, <1>6, <2>1 DEF Tickets
    <3> QED BY <2>2, <3>1, <3>2, <3>3
  <2> QED BY <1>8, <2>2, <2>3, <2>4, NothingDrawn
<1> QED BY <1>9, <1>10


\* A command nobody waits for runs: the counter moves past every draw.
LEMMA LateEvalKeeps ==
    ASSUME LimitInv, NEW b \in Bucket, LateEval(b)
    PROVE  LimitInv'
<1>0. LimiterTypeOK BY DEF LimitInv
<1>1. redis' = [redis EXCEPT ![b] = Incremented(b)] /\ UNCHANGED attempt BY DEF LateEval
<1>2. /\ redis' \in [Bucket -> Counter \cup {NONE}]
      /\ \A x \in Bucket : redis'[x] # NONE => redis'[x].count # 0
      /\ \A t \in Ticket : Issued(t) => Issued(t)'
  BY <1>1, IncrementIsFresh
<1>3. late' \in [Bucket -> Nat] BY <1>0 DEF LimiterTypeOK, LateEval
<1>4. LimiterTypeOK' BY <1>0, <1>2, <1>3 DEF LimiterTypeOK, LateEval
<1>5. \A s \in Requests : Tickets(s)' = Tickets(s) /\ CourseInv(s)' BY <1>1, SameAttempt DEF LimitInv
<1>6. Ticket' = Ticket BY DEF Ticket
<1>7. \A s \in Requests : Tickets(s)' \subseteq Ticket /\ \A t \in Tickets(s)' : Issued(t)'
  BY <1>2, <1>5 DEF LimitInv
<1> QED BY <1>2, <1>4, <1>5, <1>6, <1>7 DEF LimitInv

\* The fallback counts in the process's own window, in a store that keeps its ceiling.
LEMMA ConsumeInMemoryKeeps ==
    ASSUME LimitInv, NEW r \in Requests, attempt[r] \in Attempt, attempt[r].step \in {"guard", "replied"},
           ConsumeInMemory(r), UNCHANGED <<seconds, failMode, redis>>,
           late' \in [Bucket -> Nat], redisFaults' \in 0 .. MaxRedisFaults
    PROVE  LimitInv'
<1>0. LimiterTypeOK /\ CourseInv(r) BY DEF LimitInv
<1>1. PICK b \in Bucket : b = Staged(r) BY <1>0, StagedIsBucket
<1>2. PICK p \in Processes : p = attempt[r].process BY DEF Attempt
<1>3. store[p] \in Seq(Fallback) /\ Len(store[p]) <= Ceiling /\ Len(store[p]) \in Nat BY <1>0 DEF LimiterTypeOK
<1>4. seconds \in 0 .. MaxSeconds /\ MaxSeconds \in Nat /\ LimitWindow \in Nat /\ Ceiling \in Nat
  BY <1>0, LimiterAssumption, SMTT(30) DEF LimiterTypeOK
<1> DEFINE places == {i \in DOMAIN store[p] : store[p][i].bucket = b}
           i == CHOOSE x \in places : TRUE
           current == IF places # {} /\ Running(store[p][i])
                      THEN [store[p][i] EXCEPT !.count = @ + 1]
                      ELSE [bucket |-> b, count |-> 1, started |-> seconds]
           full == places = {} /\ Len(store[p]) >= Ceiling
           verdict == Consumption(b, current.count, <<p, current.started + LimitWindow>>)
           after == IF places # {} THEN [store[p] EXCEPT ![i] = current]
                    ELSE Append(IF full THEN Evicted(p) ELSE store[p], current)
<1>5. /\ store' = [store EXCEPT ![p] = after]
      /\ sweptAt' = [sweptAt EXCEPT ![p] = IF full /\ seconds - @ >= SweepInterval THEN seconds ELSE @]
      /\ Consumed(r, verdict)
  BY <1>1, <1>2 DEF ConsumeInMemory
<1>6. places \subseteq 1 .. Len(store[p]) BY <1>3
<1>7. places # {} => i \in places OBVIOUS
<1> HIDE DEF places, i
<1>8. places # {} => store[p][i] \in Fallback
  <2> SUFFICES ASSUME places # {} PROVE store[p][i] \in Fallback OBVIOUS
  <2>1. i \in 1 .. Len(store[p]) BY <1>6, <1>7
  <2> QED BY <1>3, <2>1, LenProperties
<1>9. current \in Fallback
  <2>1. CASE places # {} /\ Running(store[p][i])
    <3>1. current = [store[p][i] EXCEPT !.count = @ + 1] BY <2>1
    <3> QED BY <1>8, <2>1, <3>1 DEF Fallback
  <2>2. CASE ~(places # {} /\ Running(store[p][i]))
    <3>1. current = [bucket |-> b, count |-> 1, started |-> seconds] BY <2>2
    <3> QED BY <1>4, <3>1 DEF Fallback
  <2> QED BY <2>1, <2>2
<1> HIDE DEF current
<1>10. current.count \in Nat /\ current.started + LimitWindow \in Nat BY <1>4, <1>9 DEF Fallback
<1>11. /\ verdict \in BucketConsumption /\ verdict.bucket = b
       /\ verdict.window = <<p, current.started + LimitWindow>>
  BY <1>10, ConsumptionFacts
<1>12. verdict.window[1] # "redis" BY <1>11, LimiterAssumption
<1> HIDE DEF verdict
<1>13. after \in Seq(Fallback) /\ Len(after) <= Ceiling
  <2>1. CASE places # {}
    <3>1. i \in 1 .. Len(store[p]) BY <1>6, <1>7, <2>1
    <3>2. after = [store[p] EXCEPT ![i] = current] BY <2>1
    <3> HIDE DEF after
    <3>3. /\ [store[p] EXCEPT ![i] = current] \in Seq(Fallback)
          /\ Len([store[p] EXCEPT ![i] = current]) = Len(store[p])
      BY <1>3, <1>9, <3>1, ExceptSeq
    <3> QED BY <1>3, <3>2, <3>3
  <2>2. CASE places = {}
    <3> DEFINE base == IF full THEN Evicted(p) ELSE store[p]
    <3>1. base \in Seq(Fallback) /\ Len(base) < Ceiling
      <4>1. CASE full BY <1>3, <4>1, EvictedHasRoom
      <4>2. CASE ~full BY <1>3, <1>4, <2>2, <4>2
      <4> QED BY <4>1, <4>2
    <3>2. after = Append(base, current) BY <2>2
    <3> HIDE DEF base, after
    <3>3. after \in Seq(Fallback) /\ Len(after) = Len(base) + 1 BY <1>9, <3>1, <3>2, AppendProperties
    <3>4. Len(base) \in Nat BY <3>1
    <3> QED BY <1>4, <3>1, <3>3, <3>4
  <2> QED BY <2>1, <2>2
<1> HIDE DEF after
<1>14. store' \in [Processes -> Seq(Fallback)] /\ \A x \in Processes : Len(store'[x]) <= Ceiling
  BY <1>0, <1>5, <1>13 DEF LimiterTypeOK
<1>15. sweptAt' \in [Processes -> 0 .. MaxSeconds] BY <1>0, <1>4, <1>5 DEF LimiterTypeOK
<1> QED BY <1>1, <1>5, <1>11, <1>12, <1>14, <1>15, ConsumedElsewhere

\* Redis fails or the time is up: the attempt is refused, or the fallback counts it.
LEMMA DegradedKeeps ==
    ASSUME LimitInv, NEW r \in Requests, Degraded(r)
    PROVE  LimitInv'
<1>0. LimiterTypeOK /\ CourseInv(r) BY DEF LimitInv
<1>1. attempt[r] \in Attempt /\ attempt[r].step \in {"guard", "replied"}
  BY <1>0, AttemptIsRecord DEF Degraded
<1>2. Staged(r) \in Bucket BY <1>0, <1>1, StagedIsBucket
<1>3. redisFaults' \in 0 .. MaxRedisFaults BY <1>0, LimiterAssumption DEF Degraded, LimiterTypeOK
<1>4. late' \in [Bucket -> Nat]
  <2>1. late' = late \/ late' = [late EXCEPT ![Staged(r)] = @ + 1] BY DEF Degraded
  <2> QED BY <1>0, <1>2, <2>1 DEF LimiterTypeOK
<1>5. UNCHANGED <<seconds, failMode, redis>> BY DEF Degraded
<1>6. CASE failMode = "closed"
  <2> DEFINE c == Consumption(Staged(r), Limit(Staged(r)) + 1, <<"none", seconds>>)
  <2>1. Consumed(r, c) /\ UNCHANGED <<store, sweptAt>> BY <1>6 DEF Degraded
  <2>2. Limit(Staged(r)) + 1 \in Nat /\ ~(Limit(Staged(r)) + 1 <= Limit(Staged(r))) /\ seconds \in Nat
    BY <1>0, <1>2, LimitIsPositive, LimiterAssumption DEF LimiterTypeOK
  <2>3. c \in BucketConsumption /\ c.bucket = Staged(r) /\ ~c.allowed BY <1>2, <2>2, ConsumptionFacts
  <2> HIDE DEF c
  <2> QED BY <1>0, <1>1, <1>3, <1>4, <1>5, <2>1, <2>3, ConsumedElsewhere DEF LimiterTypeOK
<1>7. CASE failMode # "closed"
  <2>1. ConsumeInMemory(r) BY <1>7 DEF Degraded
  <2> QED BY <1>1, <1>3, <1>4, <1>5, <2>1, ConsumeInMemoryKeeps
<1> QED BY <1>6, <1>7

\* A key that does not authenticate ends the attempt.
LEMMA UnauthorizedKeeps ==
    ASSUME LimitInv, NEW r \in Requests, Unauthorized(r)
    PROVE  LimitInv'
<1>0. LimiterTypeOK /\ CourseInv(r) BY DEF LimitInv
<1>1. attempt[r] \in Attempt /\ attempt[r] # Unborn /\ attempt[r].step = "guard"
  BY <1>0, AttemptIsRecord DEF Unauthorized
<1> DEFINE a == [attempt[r] EXCEPT !.step = "unauthorized"]
<1>2. attempt' = [attempt EXCEPT ![r] = a] BY DEF Unauthorized
<1>3. /\ a \in Attempt /\ a.step = "unauthorized" /\ a.counted = attempt[r].counted
      /\ a.guard = attempt[r].guard /\ a.class = attempt[r].class /\ a.credential = attempt[r].credential
      /\ a # Unborn
  BY <1>1, RecordHasArrived DEF Attempt
<1> HIDE DEF a
<1>4. /\ attempt' \in [Requests -> Attempt \cup {Unborn}] /\ attempt'[r] = a
      /\ \A s \in Requests : s # r => attempt'[s] = attempt[s]
  BY <1>0, <1>2, <1>3 DEF LimiterTypeOK
<1>5. LimiterTypeOK' BY <1>0, <1>4 DEF LimiterTypeOK, Unauthorized
<1>6. LetThrough(r)' = LetThrough(r) BY <1>1, <1>3, <1>4 DEF LetThrough
<1>7. Tickets(r)' \subseteq Tickets(r)
  <2>1. {<<x.bucket, x.window[2], Drawn(x)>> : x \in LetThrough(r)}'
            = {<<x.bucket, x.window[2], Drawn(x)>> : x \in LetThrough(r)}
    BY <1>6 DEF Drawn, Limit
  <2>2. Tickets(r)' = {<<x.bucket, x.window[2], Drawn(x)>> : x \in LetThrough(r)}'
    BY <1>3, <1>4 DEF Tickets
  <2>3. {<<x.bucket, x.window[2], Drawn(x)>> : x \in LetThrough(r)} \subseteq Tickets(r) BY DEF Tickets
  <2> QED BY <2>1, <2>2, <2>3
<1>8. CourseInv(r)'
  <2>1. \A x \in LetThrough(r) : Drawn(x) \in 1 .. Limit(x.bucket) BY <1>0, <1>1 DEF CourseInv
  <2>2. \A x \in LetThrough(r) : Drawn(x)' = Drawn(x) /\ Limit(x.bucket)' = Limit(x.bucket) BY DEF Drawn, Limit
  <2> QED BY <1>0, <1>1, <1>3, <1>4, <1>6, <2>1, <2>2 DEF CourseInv
<1> QED BY <1>4, <1>5, <1>7, <1>8, NothingDrawn DEF Unauthorized


\* Every step keeps the invariant of the limiter.
LEMMA LimitStep == LimitInv /\ [LimiterNext]_limiterVars => LimitInv'
<1> SUFFICES ASSUME LimitInv, [LimiterNext]_limiterVars PROVE LimitInv'
  OBVIOUS
<1>0. LimiterTypeOK BY DEF LimitInv
<1>1. ASSUME UNCHANGED <<failMode, redis, late, store, sweptAt, attempt, redisFaults>>,
             seconds' \in 0 .. MaxSeconds
      PROVE  LimitInv'
  <2>1. LimiterTypeOK' BY <1>0, <1>1 DEF LimiterTypeOK
  <2>2. \A s \in Requests : Tickets(s)' = Tickets(s) /\ CourseInv(s)' BY <1>1, SameAttempt DEF LimitInv
  <2>3. \A t : Issued(t)' <=> Issued(t) BY <1>1 DEF Issued
  <2>4. Ticket' = Ticket BY DEF Ticket
  <2>5. (\A b \in Bucket : redis[b] # NONE => redis[b].count # 0)' BY <1>1 DEF LimitInv
  <2>6. \A s \in Requests : Tickets(s)' \subseteq Ticket /\ \A t \in Tickets(s)' : Issued(t)'
    BY <2>2, <2>3 DEF LimitInv
  <2> QED BY <2>1, <2>2, <2>4, <2>5, <2>6 DEF LimitInv
<1>2. CASE LimiterTick
  <2>1. seconds' \in 0 .. MaxSeconds BY <1>0, <1>2, LimiterAssumption DEF LimiterTick, LimiterTypeOK
  <2> QED BY <1>1, <1>2, <2>1 DEF LimiterTick
<1>3. CASE UNCHANGED limiterVars BY <1>0, <1>1, <1>3 DEF limiterVars, LimiterTypeOK
<1>4. ASSUME NEW b \in Bucket, LateEval(b) PROVE LimitInv' BY <1>4, LateEvalKeeps
<1>5. ASSUME NEW r \in Requests, NEW p \in Processes, NEW client \in Clients, NEW class \in RouteClasses,
             NEW credential \in Credentials \cup {NONE}, Arrive(r, p, client, class, credential)
      PROVE  LimitInv'
  BY <1>5, ArriveKeeps
<1>6. ASSUME NEW r \in Requests, Eval(r) \/ Reply(r) \/ Degraded(r) \/ Unauthorized(r) PROVE LimitInv'
  BY <1>6, EvalKeeps, ReplyKeeps, DegradedKeeps, UnauthorizedKeeps
<1> QED BY <1>2, <1>3, <1>4, <1>5, <1>6 DEF LimiterNext

\* It holds at the start.
LEMMA LimitStart == LimiterInit => LimitInv
<1> SUFFICES ASSUME LimiterInit PROVE LimitInv
  OBVIOUS
<1> USE DEF LimiterInit
<1>1. LimiterTypeOK
  <2>1. \A p \in Processes : store[p] = <<>> /\ Len(store[p]) <= Ceiling BY LimiterAssumption
  <2>2. store \in [Processes -> Seq(Fallback)] BY <2>1
  <2> QED BY <2>1, <2>2, LimiterAssumption DEF LimiterTypeOK
<1>2. \A r \in Requests : attempt[r] = Unborn /\ attempt[r].step = "none" BY DEF Unborn
<1>3. \A r \in Requests : LetThrough(r) = {} /\ CourseInv(r) BY <1>2 DEF LetThrough, CourseInv
<1>4. \A r \in Requests : Tickets(r) = {} BY <1>2, <1>3 DEF Tickets
<1> QED BY <1>1, <1>3, <1>4 DEF LimitInv

\* The invariant of the limiter.
LEMMA LimitInvariance == LimiterSpec => []LimitInv
BY LimitStart, LimitStep, PTL DEF LimiterSpec

\* The attempts a window lets through hold different draws of it, none beyond the budget.
LEMMA DrawsWithinBudget ==
    ASSUME LimitInv, NEW r \in Requests, NEW c \in LetThrough(r)
    PROVE  Cardinality({s \in Requests : \E x \in LetThrough(s) : x.bucket = c.bucket /\ x.window = c.window})
               <= Limit(c.bucket)
<1> DEFINE S == {s \in Requests : \E x \in LetThrough(s) : x.bucket = c.bucket /\ x.window = c.window}
           Mine(s) == CHOOSE x \in LetThrough(s) : x.bucket = c.bucket /\ x.window = c.window
           draw == [s \in S |-> Drawn(Mine(s))]
           budget == Limit(c.bucket)
<1>1. attempt[r] # Unborn /\ c \in Range(attempt[r].counted) BY DEF LetThrough
<1>2. attempt[r] \in Attempt BY <1>1 DEF LimitInv, LimiterTypeOK
<1>3. c \in BucketConsumption
  <2>1. attempt[r].counted \in Seq(BucketConsumption) BY <1>2 DEF Attempt
  <2> QED BY <1>1, <2>1, RangeOfSeq
<1>4. budget \in Nat \ {0} BY <1>3, LimitIsPositive DEF BucketConsumption
<1>5. ASSUME NEW s \in S
      PROVE  /\ Mine(s) \in LetThrough(s) /\ Mine(s).bucket = c.bucket /\ Mine(s).window = c.window
             /\ Drawn(Mine(s)) \in 1 .. budget
             /\ <<c.bucket, c.window[2], Drawn(Mine(s))>> \in Tickets(s)
  <2>1. Mine(s) \in LetThrough(s) /\ Mine(s).bucket = c.bucket /\ Mine(s).window = c.window BY <1>5
  <2> HIDE DEF Mine
  <2>2. attempt[s] # Unborn BY <2>1 DEF LetThrough
  <2>3. CourseInv(s) BY DEF LimitInv
  <2>4. Drawn(Mine(s)) \in 1 .. budget BY <2>1, <2>2, <2>3 DEF CourseInv
  <2>5. <<c.bucket, c.window[2], Drawn(Mine(s))>> \in Tickets(s) BY <2>1 DEF Tickets
  <2> QED BY <2>1, <2>4, <2>5
<1> HIDE DEF Mine
<1>6. draw \in [S -> 1 .. budget] BY <1>5
<1>7. ASSUME NEW s \in S, NEW u \in S, s # u PROVE draw[s] # draw[u]
  <2>1. Tickets(s) \cap Tickets(u) = {} BY <1>7 DEF LimitInv
  <2>2. <<c.bucket, c.window[2], Drawn(Mine(s))>> \in Tickets(s)
        /\ <<c.bucket, c.window[2], Drawn(Mine(u))>> \in Tickets(u)
    BY <1>5
  <2>3. Drawn(Mine(s)) # Drawn(Mine(u)) BY <2>1, <2>2
  <2> QED BY <2>3
<1> HIDE DEF draw, S
<1>8. draw \in Injection(S, 1 .. budget) BY <1>6, <1>7 DEF Injection, IsInjective
<1>9. IsFiniteSet(1 .. budget) /\ Cardinality(1 .. budget) = budget BY <1>4, FS_Interval
<1>10. Cardinality(S) <= budget BY <1>8, <1>9, FS_Injection
<1> QED BY <1>10 DEF S

\* Who is admitted was counted in every scope of its class, in their order.
LEMMA AdmittedWereCounted ==
    ASSUME LimitInv, NEW r \in Requests, attempt[r].step = "admitted"
    PROVE  LET a == attempt[r]
               n == IF a.credential = NONE THEN 1 ELSE Len(ScopesForClass(a.class))
           IN  [i \in DOMAIN a.counted |-> a.counted[i].bucket[2]] = SubSeq(ScopesForClass(a.class), 1, n)
<1> DEFINE scopes == ScopesForClass(attempt[r].class)
           counted == attempt[r].counted
           n == IF attempt[r].credential = NONE THEN 1 ELSE Len(scopes)
           told == [i \in DOMAIN counted |-> counted[i].bucket[2]]
<1>1. attempt[r] \in Attempt /\ attempt[r] # Unborn /\ CourseInv(r)
  BY AttemptIsRecord DEF LimitInv
<1>2. /\ Len(counted) = n /\ n \in {1, 2} /\ n <= Len(scopes)
      /\ \A i \in 1 .. Len(counted) : counted[i].bucket[2] = scopes[i]
  <2>1. Len(scopes) \in {1, 2} BY <1>1, ScopesOfClasses DEF Attempt
  <2>2. /\ Len(counted) = attempt[r].guard /\ attempt[r].guard = n
        /\ \A i \in 1 .. Len(counted) : counted[i].bucket[2] = scopes[i]
    BY <1>1 DEF CourseInv
  <2> QED BY <2>1, <2>2
<1>3. scopes \in Seq(Scopes) /\ counted \in Seq(BucketConsumption) BY <1>1, ScopesOfClasses DEF Attempt
<1> HIDE DEF scopes, counted, n
<1>4. DOMAIN counted = 1 .. n BY <1>2, <1>3, LenProperties
<1>5. \A i \in 1 .. n : scopes[i] \in Scopes BY <1>2, <1>3
<1>6. /\ SubSeq(scopes, 1, n) \in Seq(Scopes) /\ Len(SubSeq(scopes, 1, n)) = n
      /\ \A i \in 1 .. n : SubSeq(scopes, 1, n)[i] = scopes[i]
  <2>1. 1 \in Int /\ n \in Int BY <1>2
  <2>2. /\ SubSeq(scopes, 1, n) \in Seq(Scopes)
        /\ Len(SubSeq(scopes, 1, n)) = IF 1 <= n THEN n - 1 + 1 ELSE 0
        /\ \A i \in 1 .. n - 1 + 1 : SubSeq(scopes, 1, n)[i] = scopes[1 + i - 1]
    BY <1>5, <2>1, SubSeqProperties
  <2> QED BY <1>2, <2>2
<1>7. told \in Seq(Scopes) /\ Len(told) = n
  <2>1. told = [i \in 1 .. n |-> counted[i].bucket[2]] BY <1>4
  <2>2. told \in [1 .. n -> Scopes] BY <1>2, <1>5, <2>1
  <2> HIDE DEF told
  <2>3. told \in Seq(Scopes) BY <1>2, <2>2, SeqDef
  <2> QED BY <1>2, <2>2, <2>3, LenProperties
<1>8. \A i \in 1 .. Len(told) : told[i] = SubSeq(scopes, 1, n)[i] BY <1>2, <1>4, <1>6, <1>7
<1> HIDE DEF told
<1>9. told = SubSeq(scopes, 1, n) BY <1>6, <1>7, <1>8, SeqEqual
<1> QED BY <1>9 DEF told, counted, scopes, n

\* Counters, attempts and clocks have their types, and the store of no process outgrows its ceiling.
THEOREM LimiterTypesOk == LimiterSpec => []LimiterTypeOK
<1>1. LimitInv => LimiterTypeOK BY DEF LimitInv
<1> QED BY <1>1, LimitInvariance, PTL

\* No window of a counter lets more attempts through than its budget, however many replicas
\* count and however late their commands run, and no attempt is admitted past an uncounted bucket.
THEOREM BudgetIsKept == LimiterSpec => []BudgetKept
<1>1. LimitInv => BudgetKept BY DrawsWithinBudget, AdmittedWereCounted DEF BudgetKept
<1> QED BY <1>1, LimitInvariance, PTL


CountedAsItself == \A r \in Requests : attempt[r] # Unborn => attempt[r].identity = attempt[r].client

\* An attempt counts under the address of its client from its arrival on, whatever the client
\* wrote into X-Forwarded-For and however many of the configured proxies it crossed.
THEOREM HeadersChangeNoIdentity == LimiterSpec => []CountedAsItself
<1>1. LimiterInit => CountedAsItself BY DEF LimiterInit, CountedAsItself
<1>2. LimitInv /\ CountedAsItself /\ [LimiterNext]_limiterVars => CountedAsItself'
  <2> SUFFICES ASSUME LimitInv, CountedAsItself, [LimiterNext]_limiterVars PROVE CountedAsItself'
    OBVIOUS
  <2>0. LimiterTypeOK BY DEF LimitInv
  <2>1. ASSUME UNCHANGED attempt PROVE CountedAsItself' BY <2>1 DEF CountedAsItself
  <2>2. ASSUME NEW r \in Requests, NEW a, attempt' = [attempt EXCEPT ![r] = a], a.identity = a.client
        PROVE  CountedAsItself'
    BY <2>0, <2>2 DEF CountedAsItself, LimiterTypeOK
  <2>3. ASSUME NEW r \in Requests, NEW c, attempt[r].step # "none", Consumed(r, c) PROVE CountedAsItself'
    <3> DEFINE more == attempt[r].guard < Len(ScopesForClass(attempt[r].class)) /\ attempt[r].credential # NONE
               a == [attempt[r] EXCEPT
                        !.step = IF ~ c.allowed THEN "rejected" ELSE IF more THEN "guard" ELSE "admitted",
                        !.guard = IF c.allowed /\ more THEN attempt[r].guard + 1 ELSE attempt[r].guard,
                        !.reported = IF Tighter(attempt[r], c) THEN c ELSE attempt[r].reported,
                        !.counted = Append(attempt[r].counted, c)]
    <3>1. attempt[r] \in Attempt /\ attempt[r].identity = attempt[r].client
      BY <2>0, <2>3, AttemptIsRecord DEF CountedAsItself
    <3>2. attempt' = [attempt EXCEPT ![r] = a] BY <2>3 DEF Consumed
    <3> HIDE DEF more
    <3>3. a.identity = a.client BY <3>1 DEF Attempt
    <3> HIDE DEF a
    <3> QED BY <2>2, <3>2, <3>3
  <2>4. CASE LimiterTick \/ UNCHANGED limiterVars BY <2>1, <2>4 DEF LimiterTick, limiterVars
  <2>5. ASSUME NEW b \in Bucket, LateEval(b) PROVE CountedAsItself' BY <2>1, <2>5 DEF LateEval
  <2>6. ASSUME NEW r \in Requests, NEW p \in Processes, NEW client \in Clients, NEW class \in RouteClasses,
               NEW credential \in Credentials \cup {NONE}, Arrive(r, p, client, class, credential)
        PROVE  CountedAsItself'
    <3>1. PICK written \in SeqOf(Clients \cup {Proxy, Junk}, 1), proxies \in 0 .. ProxyHops :
              attempt' = [attempt EXCEPT ![r] =
                  [step |-> "guard", process |-> p, class |-> class, credential |-> credential,
                   client |-> client, guard |-> 1, reported |-> NONE, counted |-> <<>>, reply |-> NONE,
                   identity |-> ResolveClientIdentity(IF proxies = 0 THEN client ELSE Proxy,
                                                      Chain(written, client, proxies))]]
      BY <2>6 DEF Arrive
    <3>2. written \in Seq(Clients \cup {Proxy, Junk})
      <4>1. PICK m \in 0 .. 1 : written \in [1 .. m -> Clients \cup {Proxy, Junk}] BY DEF SeqOf
      <4> QED BY <4>1, SeqDef
    <3>3. ResolveClientIdentity(IF proxies = 0 THEN client ELSE Proxy, Chain(written, client, proxies)) = client
      BY <3>2, ClientIsIdentified
    <3> QED BY <2>2, <3>1, <3>3
  <2>7. ASSUME NEW r \in Requests, Eval(r) \/ Unauthorized(r) PROVE CountedAsItself'
    <3>1. attempt[r] \in Attempt /\ attempt[r].identity = attempt[r].client
      BY <2>0, <2>7, AttemptIsRecord DEF CountedAsItself, Eval, Unauthorized
    <3>2. CASE Eval(r)
      <4> DEFINE a == [attempt[r] EXCEPT !.step = "replied", !.reply = Incremented(Staged(r))]
      <4>1. attempt' = [attempt EXCEPT ![r] = a] BY <3>2 DEF Eval
      <4>2. a.identity = a.client BY <3>1 DEF Attempt
      <4> HIDE DEF a
      <4> QED BY <2>2, <4>1, <4>2
    <3>3. CASE Unauthorized(r)
      <4> DEFINE a == [attempt[r] EXCEPT !.step = "unauthorized"]
      <4>1. attempt' = [attempt EXCEPT ![r] = a] BY <3>3 DEF Unauthorized
      <4>2. a.identity = a.client BY <3>1 DEF Attempt
      <4> HIDE DEF a
      <4> QED BY <2>2, <4>1, <4>2
    <3> QED BY <2>7, <3>2, <3>3
  <2>8. ASSUME NEW r \in Requests, Reply(r) PROVE CountedAsItself' BY <2>3, <2>8 DEF Reply
  <2>9. ASSUME NEW r \in Requests, Degraded(r) PROVE CountedAsItself'
    <3>1. \E c : Consumed(r, c) BY <2>9 DEF Degraded, ConsumeInMemory
    <3>2. attempt[r].step # "none" BY <2>9 DEF Degraded
    <3> QED BY <2>3, <3>1, <3>2, SMTT(30)
  <2> QED BY <2>4, <2>5, <2>6, <2>7, <2>8, <2>9 DEF LimiterNext
<1> QED BY <1>1, <1>2, LimitInvariance, PTL DEF LimiterSpec


(***************************************************************************)
(* The validation of the production images.                                *)
(***************************************************************************)

\* The checks that ran are the first ones of the checklist, in its order.
ListOrder ==
    /\ Len(verdicts) <= Len(Checklist)
    /\ \A i \in DOMAIN verdicts : verdicts[i].id = Checklist[i]

\* What a stage of main() can rely on.
StageInv ==
    /\ stage \in {"preflight", "environment", "build", "refusals"} => verdicts = <<>>
    /\ stage \notin {"assert", "recreated", "ended"} => Len(verdicts) <= 1
    /\ stage = "recreated" => Len(verdicts) = 6
    /\ stage = "migrate" => schema = "none"
    /\ stage \in {"start", "ready", "assert", "recreated"} => schema = "applied"
    /\ stage = "ready" => containers = Services
    /\ stage \in {"assert", "recreated"} =>
           /\ Services \ {"api"} \subseteq containers
           /\ "api" \in containers \/ Failed(verdicts) # {}

\* What an exit code tells.
ExitInv ==
    /\ stage # "ended" => exitCode = NONE
    /\ exitCode \in {0, 1} => ~ secretsFile
    /\ exitCode = 0 => Len(verdicts) = Len(Checklist) /\ Failed(verdicts) = {}

Schemas == {"none", "kept", "applied"}

ValidationInv == ValidationTypeOK /\ ListOrder /\ StageInv /\ ExitInv

\* The checklist has ten entries; M5-6b, before which the API is made anew, is the seventh.
LEMMA ChecklistFacts ==
    /\ Checklist \in Seq(ToSet(Checklist)) /\ Len(Checklist) = 10
    /\ DOMAIN Checklist = 1 .. 10
    /\ Checklist[1] = "M5-2" /\ Checklist[7] = "M5-6b"
    /\ \A i \in 1 .. 10 : Checklist[i] \in ToSet(Checklist)
    /\ \A i \in 1 .. 10 : Checklist[i] = "M5-6b" => i = 7
<1>1. /\ Len(Checklist) = 10 /\ DOMAIN Checklist = 1 .. 10 /\ Checklist[1] = "M5-2" /\ Checklist[7] = "M5-6b"
  BY DEF Checklist
<1>2. Checklist = [i \in 1 .. 10 |-> Checklist[i]] BY DEF Checklist
<1>3. \A i \in 1 .. 10 : Checklist[i] = "M5-6b" => i = 7 BY DEF Checklist
<1>4. \A i \in 1 .. 10 : Checklist[i] \in ToSet(Checklist) BY <1>1 DEF ToSet
<1> HIDE DEF Checklist
<1>5. Checklist \in Seq(ToSet(Checklist))
  <2>2. Checklist \in [1 .. 10 -> ToSet(Checklist)] BY <1>2, <1>4
  <2> QED BY <2>2, SeqDef
<1> QED BY <1>1, <1>3, <1>4, <1>5

\* A verdict of the check whose turn it is keeps the order.
LEMMA VerdictInTurn ==
    ASSUME ValidationTypeOK, ListOrder, Len(verdicts) < 10, NEW passed \in BOOLEAN,
           Verdict(Checklist[Len(verdicts) + 1], passed)
    PROVE  /\ verdicts' \in Seq([id : ToSet(Checklist), passed : BOOLEAN])
           /\ Len(verdicts') = Len(verdicts) + 1
           /\ ListOrder'
           /\ Failed(verdicts) # {} \/ ~ passed => Failed(verdicts') # {}
<1> DEFINE Verdicts == [id : ToSet(Checklist), passed : BOOLEAN]
           v == [id |-> Checklist[Len(verdicts) + 1], passed |-> passed]
<1>1. verdicts \in Seq(Verdicts) BY DEF ValidationTypeOK
<1>2. Len(verdicts) + 1 \in 1 .. 10 BY <1>1
<1>3. v \in Verdicts BY <1>2, ChecklistFacts
<1>4. v.id = Checklist[Len(verdicts) + 1] OBVIOUS
<1>5. verdicts' = Append(verdicts, v) BY DEF Verdict
<1> HIDE DEF Verdicts, v
<1>6. /\ verdicts' \in Seq(Verdicts) /\ Len(verdicts') = Len(verdicts) + 1
      /\ \A i \in 1 .. Len(verdicts) : verdicts'[i] = verdicts[i]
      /\ verdicts'[Len(verdicts) + 1] = v
  BY <1>1, <1>3, <1>5
<1>7. ListOrder'
  <2>1. Len(verdicts') <= Len(Checklist) BY <1>2, <1>6, ChecklistFacts
  <2>2. ASSUME NEW i \in DOMAIN verdicts' PROVE verdicts'[i].id = Checklist[i]
    <3>1. i \in 1 .. Len(verdicts) + 1 BY <1>1, <1>6
    <3>2. CASE i \in 1 .. Len(verdicts) BY <3>2, <1>1, <1>6 DEF ListOrder
    <3>3. CASE i = Len(verdicts) + 1 BY <3>3, <1>4, <1>6
    <3> QED BY <3>1, <3>2, <3>3, <1>1
  <2>3. Checklist' = Checklist BY DEF Checklist
  <2> QED BY <2>1, <2>2, <2>3 DEF ListOrder
<1>8. Failed(verdicts) # {} => Failed(verdicts') # {}
  <2> SUFFICES ASSUME NEW i \in Failed(verdicts) PROVE Failed(verdicts') # {} OBVIOUS
  <2>1. i \in 1 .. Len(verdicts) /\ ~ verdicts[i].passed BY <1>1 DEF Failed
  <2>2. i \in DOMAIN verdicts' /\ ~ verdicts'[i].passed BY <1>1, <1>6, <2>1
  <2> QED BY <2>2 DEF Failed
<1>9. ~ passed => Failed(verdicts') # {}
  <2>1. Len(verdicts) + 1 \in DOMAIN verdicts' BY <1>1, <1>6
  <2>2. v.passed = passed BY DEF v
  <2> QED BY <1>6, <2>1, <2>2 DEF Failed
<1> QED BY <1>6, <1>7, <1>8, <1>9 DEF Verdicts

\* Whoever ends the run in order keeps the invariant.
LEMMA EndsInOrder ==
    ASSUME ValidationInv, Ends(1), UNCHANGED <<wishes, stackTouched, exposed, verdicts>>,
           containers' \subseteq Services, schema' \in Schemas
    PROVE  ValidationInv'
<1>1. ValidationTypeOK' BY DEF ValidationInv, ValidationTypeOK, Ends, Schemas
<1>2. ListOrder' /\ StageInv' /\ ExitInv'
  BY NoneIsNoExitCode, ChecklistFacts DEF ValidationInv, ListOrder, StageInv, ExitInv, Ends
<1> QED BY <1>1, <1>2 DEF ValidationInv

\* So do fail() and an exception.
LEMMA FailsInOrder ==
    ASSUME ValidationInv
    PROVE  /\ \A running \in SUBSET Services : fail(running) => ValidationInv'
           /\ Throws => ValidationInv'
<1>1. containers \subseteq Services /\ schema \in Schemas BY DEF ValidationInv, ValidationTypeOK, Schemas
<1>2. ASSUME NEW running \in SUBSET Services, fail(running) PROVE ValidationInv'
  <2>1. containers' \subseteq Services /\ schema' \in Schemas BY <1>1, <1>2 DEF fail, TornDown, Schemas
  <2> QED BY <1>2, <2>1, EndsInOrder DEF fail
<1>3. ASSUME Throws PROVE ValidationInv' BY <1>1, <1>3, EndsInOrder DEF Throws
<1> QED BY <1>2, <1>3

\* The invariant holds at the start and every step keeps it.
LEMMA ValidationInvariance == ValidationSpec => []ValidationInv
<1>1. ValidationInit => ValidationInv
  <2> SUFFICES ASSUME ValidationInit PROVE ValidationInv OBVIOUS
  <2>1. ValidationTypeOK
    <3>1. wishes \in [keepStack : BOOLEAN, noBuild : BOOLEAN] /\ stage = "preflight" BY DEF ValidationInit
    <3>2. /\ {stackTouched, secretsFile, exposed} \subseteq BOOLEAN
          /\ containers \subseteq Services /\ schema \in {"none", "kept", "applied"}
      BY DEF ValidationInit, Services, Backing
    <3>3. verdicts = <<>> /\ exitCode = NONE BY DEF ValidationInit
    <3> QED BY <3>1, <3>2, <3>3 DEF ValidationTypeOK
  <2>2. ListOrder BY ChecklistFacts DEF ValidationInit, ListOrder
  <2>3. StageInv BY DEF ValidationInit, StageInv
  <2>4. ExitInv BY NoneIsNoExitCode DEF ValidationInit, ExitInv
  <2> QED BY <2>1, <2>2, <2>3, <2>4 DEF ValidationInv
<1>2. ValidationInv /\ [ValidationNext]_validationVars => ValidationInv'
  <2> SUFFICES ASSUME ValidationInv, [ValidationNext]_validationVars PROVE ValidationInv' OBVIOUS
  <2>0. /\ ValidationTypeOK /\ ListOrder /\ StageInv /\ ExitInv
        /\ containers \subseteq Services /\ Backing \subseteq Services /\ "api" \in Services
    BY DEF ValidationInv, ValidationTypeOK, Services
  <2>1. ASSUME stage # "ended", UNCHANGED <<wishes, exitCode, exposed, verdicts>>,
               stage' \in {"preflight", "environment", "build", "refusals", "dependencies", "healthy",
                           "unmigrated", "refused", "migrate", "start", "ready", "assert"},
               {stackTouched', secretsFile'} \subseteq BOOLEAN, containers' \subseteq Services,
               schema' \in Schemas,
               StageInv'
        PROVE  ValidationInv'
    <3>1. ValidationTypeOK' BY <2>0, <2>1 DEF ValidationTypeOK, Schemas
    <3>2. ListOrder' BY <2>0, <2>1 DEF ListOrder, Checklist
    <3>3. ExitInv' BY <2>0, <2>1, NoneIsNoExitCode DEF ExitInv
    <3> QED BY <3>1, <3>2, <3>3, <2>1 DEF ValidationInv
  <2>2. CASE preflight
    <3>1. CASE fail(containers) BY <2>0, <3>1, FailsInOrder
    <3>2. CASE To("environment") /\ UNCHANGED <<stackTouched, secretsFile, containers, schema>>
      BY <2>0, <2>1, <2>2, <3>2 DEF preflight, To, StageInv, ValidationTypeOK, Schemas
    <3> QED BY <2>2, <3>1, <3>2 DEF preflight
  <2>3. CASE writeEnvFile
    <3>1. CASE Throws BY <3>1, FailsInOrder
    <3>2. CASE ~ Throws
      BY <2>0, <2>1, <2>3, <3>2 DEF writeEnvFile, To, StageInv, ValidationTypeOK, Schemas
    <3> QED BY <3>1, <3>2
  <2>4. CASE buildImages
    <3>1. CASE fail(containers) BY <2>0, <3>1, FailsInOrder
    <3>2. CASE To("refusals") /\ UNCHANGED <<stackTouched, secretsFile, containers, schema>>
      BY <2>0, <2>1, <2>4, <3>2 DEF buildImages, To, StageInv, ValidationTypeOK, Schemas
    <3> QED BY <2>4, <3>1, <3>2 DEF buildImages
  <2>5. CASE negativeSecretRuns
    <3>0. Len(verdicts) = 0 BY <2>0, <2>5 DEF negativeSecretRuns, StageInv
    <3>1. PICK passed \in BOOLEAN : Verdict(Checklist[Len(verdicts) + 1], passed)
      BY <2>5, <3>0, ChecklistFacts DEF negativeSecretRuns
    <3>2. /\ verdicts' \in Seq([id : ToSet(Checklist), passed : BOOLEAN]) /\ ListOrder'
      <4>1. Len(verdicts) < 10 BY <3>0
      <4> QED BY <2>0, <3>1, <4>1, VerdictInTurn
    <3>3. ValidationTypeOK' BY <2>0, <2>5, <3>2 DEF negativeSecretRuns, ValidationTypeOK
    <3>4. Len(verdicts') <= 1
      <4>1. Len(verdicts) < 10 BY <3>0
      <4>2. Len(verdicts') = Len(verdicts) + 1 BY <2>0, <3>1, <4>1, VerdictInTurn
      <4> QED BY <3>0, <4>2
    <3>6. StageInv' BY <2>5, <3>4 DEF negativeSecretRuns, StageInv
    <3>5. ExitInv' BY <2>0, <2>5, NoneIsNoExitCode DEF negativeSecretRuns, ExitInv
    <3> QED BY <3>2, <3>3, <3>6, <3>5 DEF ValidationInv
  <2>6. CASE startDependencies
    <3>1. CASE \E started \in SUBSET Backing : fail(containers \cup started)
      BY <2>0, <3>1, FailsInOrder
    <3>2. CASE /\ To("healthy") /\ stackTouched' = TRUE /\ containers' = containers \cup Backing
               /\ UNCHANGED <<secretsFile, schema>>
      BY <2>0, <2>1, <2>6, <3>2 DEF startDependencies, To, StageInv, ValidationTypeOK, Schemas
    <3> QED BY <2>6, <3>1, <3>2 DEF startDependencies
  <2>7. CASE DependenciesHealthy
    <3>1. CASE fail(containers) BY <2>0, <3>1, FailsInOrder
    <3>2. CASE To("unmigrated") /\ UNCHANGED <<stackTouched, secretsFile, containers, schema>>
      BY <2>0, <2>1, <2>7, <3>2 DEF DependenciesHealthy, To, StageInv, ValidationTypeOK, Schemas
    <3> QED BY <2>7, <3>1, <3>2 DEF DependenciesHealthy
  <2>8. CASE preMigrationNegativeRun
    <3>1. CASE fail(containers) \/ fail(containers \cup {"api"}) \/ Throws
      BY <2>0, <3>1, FailsInOrder
    <3>2. CASE /\ stage = "unmigrated" /\ To("refused") /\ containers' = containers \cup {"api"}
               /\ UNCHANGED <<stackTouched, secretsFile, schema>>
      BY <2>0, <2>1, <3>2 DEF To, StageInv, ValidationTypeOK, Schemas
    <3>3. CASE /\ stage = "refused" /\ To("migrate") /\ containers' = containers \ {"api"} /\ schema = "none"
               /\ UNCHANGED <<stackTouched, secretsFile, schema>>
      BY <2>0, <2>1, <3>3 DEF To, StageInv, ValidationTypeOK, Schemas
    <3> QED BY <2>8, <3>1, <3>2, <3>3 DEF preMigrationNegativeRun, Refuses
  <2>9. CASE applyMigrations
    <3>1. CASE Throws BY <3>1, FailsInOrder
    <3>2. CASE /\ Ends(1) /\ schema' = Migrated
               /\ UNCHANGED <<wishes, stackTouched, containers, exposed, verdicts>>
      <4>1. schema' \in Schemas BY <2>0, <3>2 DEF Migrated, ValidationTypeOK, Schemas
      <4> QED BY <2>0, <3>2, <4>1, EndsInOrder
    <3>3. CASE /\ To("start") /\ schema' = Migrated /\ UNCHANGED <<stackTouched, secretsFile, containers>>
      BY <2>0, <2>1, <2>9, <3>3 DEF applyMigrations, Migrated, To, StageInv, ValidationTypeOK, Schemas
    <3> QED BY <2>9, <3>1, <3>2, <3>3 DEF applyMigrations
  <2>10. CASE startStack
    <3>1. CASE \/ fail(containers) \/ \E started \in SUBSET Services : fail(containers \cup started)
      BY <2>0, <3>1, FailsInOrder
    <3>2. CASE /\ stage = "start" /\ To("ready") /\ containers' = Services
               /\ UNCHANGED <<stackTouched, secretsFile, schema>>
      BY <2>0, <2>1, <3>2 DEF To, StageInv, ValidationTypeOK, Schemas
    <3>3. CASE /\ stage = "ready" /\ To("assert") /\ UNCHANGED <<stackTouched, secretsFile, containers, schema>>
      BY <2>0, <2>1, <3>3 DEF To, StageInv, ValidationTypeOK, Schemas
    <3> QED BY <2>10, <3>1, <3>2, <3>3 DEF startStack
  <2>11. CASE runAssertions
    <3> DEFINE next == Checklist[Len(verdicts) + 1]
    <3>1. /\ stage = "assert" /\ Len(verdicts) < 10 /\ Len(verdicts) \in Nat
          /\ UNCHANGED <<wishes, stackTouched, secretsFile, schema, exitCode>>
      BY <2>0, <2>11, ChecklistFacts DEF runAssertions, ValidationTypeOK
    <3>2. CASE /\ next = "M5-6b" /\ stage' = "recreated" /\ exposed' = TRUE
               /\ UNCHANGED <<containers, verdicts>>
      <4>1. Len(verdicts) = 6
        <5> DEFINE n == Len(verdicts)
        <5>1. n \in Nat /\ n + 1 \in 1 .. 10 BY <3>1
        <5>2. n + 1 = 7 BY <3>2, <5>1, ChecklistFacts
        <5> HIDE DEF n
        <5>3. n = 6 BY <5>1, <5>2
        <5> QED BY <5>3 DEF n
      <4>2. ValidationTypeOK' BY <2>0, <3>1, <3>2 DEF ValidationTypeOK
      <4>3. ListOrder' /\ StageInv' /\ ExitInv'
        BY <2>0, <3>1, <3>2, <4>1, ChecklistFacts DEF ListOrder, StageInv, ExitInv
      <4> QED BY <4>2, <4>3 DEF ValidationInv
    <3>3. ASSUME NEW passed \in BOOLEAN, Verdict(next, passed), stage' = stage, exposed' = exposed,
                 \/ containers' = containers
                 \/ ~ passed /\ containers' = containers \ {"api"}
          PROVE  ValidationInv'
      <4>1. /\ verdicts' \in Seq([id : ToSet(Checklist), passed : BOOLEAN]) /\ ListOrder'
            /\ Failed(verdicts) # {} \/ ~ passed => Failed(verdicts') # {}
        BY <2>0, <3>1, <3>3, VerdictInTurn
      <4>2. ValidationTypeOK' BY <2>0, <3>1, <3>3, <4>1 DEF ValidationTypeOK
      <4>3. StageInv' BY <2>0, <3>1, <3>3, <4>1 DEF StageInv
      <4>4. ExitInv' BY <2>0, <3>1, <3>3, NoneIsNoExitCode DEF ExitInv
      <4> QED BY <4>1, <4>2, <4>3, <4>4 DEF ValidationInv
    <3>4. CASE ~ (next = "M5-6b" /\ ~ exposed)
      <4>1. UNCHANGED <<stage, containers, exposed>> /\ \E passed \in BOOLEAN : Verdict(next, passed)
        BY <2>11, <3>4 DEF runAssertions
      <4> QED BY <3>3, <4>1
    <3>5. CASE next = "M5-6b" /\ ~ exposed
      <4>1. \/ next = "M5-6b" /\ stage' = "recreated" /\ exposed' = TRUE /\ UNCHANGED <<containers, verdicts>>
            \/ /\ Verdict(next, FALSE) /\ containers' \in {containers, containers \ {"api"}}
               /\ UNCHANGED <<stage, exposed>>
        BY <2>11, <3>5 DEF runAssertions
      <4> QED BY <3>2, <3>3, <4>1
    <3> QED BY <3>4, <3>5
  <2>12. CASE RecreatedApi
    <3>1. CASE fail(containers) BY <2>0, <3>1, FailsInOrder
    <3>2. ASSUME NEW passed \in BOOLEAN, Verdict("M5-6b", passed), stage' = "assert",
                 UNCHANGED <<wishes, stackTouched, secretsFile, containers, schema, exposed, exitCode>>
          PROVE  ValidationInv'
      <4>1. stage = "recreated" /\ Len(verdicts) = 6 BY <2>0, <2>12 DEF RecreatedApi, StageInv
      <4>2. Verdict(Checklist[Len(verdicts) + 1], passed) BY <3>2, <4>1, ChecklistFacts
      <4>3. /\ verdicts' \in Seq([id : ToSet(Checklist), passed : BOOLEAN]) /\ ListOrder'
            /\ Failed(verdicts) # {} => Failed(verdicts') # {}
        <5>1. Len(verdicts) < 10 BY <4>1
        <5> QED BY <2>0, <4>2, <5>1, VerdictInTurn
      <4>4. ValidationTypeOK' BY <2>0, <3>2, <4>3 DEF ValidationTypeOK
      <4>5. StageInv' BY <2>0, <3>2, <4>1, <4>3 DEF StageInv
      <4>6. ExitInv' BY <2>0, <3>2, <4>1, NoneIsNoExitCode DEF ExitInv
      <4> QED BY <4>3, <4>4, <4>5, <4>6 DEF ValidationInv
    <3> QED BY <2>12, <3>1, <3>2 DEF RecreatedApi
  <2>13. CASE teardown
    <3>1. /\ stage' = "ended" /\ exitCode' \in {0, 1} /\ secretsFile' = FALSE
          /\ Len(verdicts) = Len(Checklist) /\ UNCHANGED <<wishes, stackTouched, exposed, verdicts>>
          /\ exitCode' = 0 => Failed(verdicts) = {}
      BY <2>13 DEF teardown, Ends, ExitCodeOf
    <3>2. containers' \subseteq Services /\ schema' \in Schemas
      BY <2>0, <2>13 DEF teardown, TornDown, ValidationTypeOK, Schemas
    <3>3. ValidationTypeOK' BY <2>0, <3>1, <3>2 DEF ValidationTypeOK, Schemas
    <3>4. ListOrder' /\ StageInv' /\ ExitInv'
      BY <2>0, <3>1, ChecklistFacts DEF ListOrder, StageInv, ExitInv, Failed
    <3> QED BY <3>3, <3>4 DEF ValidationInv
  <2>14. CASE Killed
    <3>1. ValidationTypeOK' BY <2>0, <2>14 DEF Killed, ValidationTypeOK
    <3>2. ListOrder' /\ StageInv' /\ ExitInv'
      BY <2>0, <2>14, ChecklistFacts DEF Killed, ListOrder, StageInv, ExitInv, Signalled
    <3> QED BY <3>1, <3>2 DEF ValidationInv
  <2>15. CASE UNCHANGED validationVars
    BY <2>15 DEF validationVars, ValidationInv, ValidationTypeOK, ListOrder, StageInv, ExitInv, Failed
  <2> QED BY <2>2, <2>3, <2>4, <2>5, <2>6, <2>7, <2>8, <2>9, <2>10, <2>11, <2>12, <2>13, <2>14, <2>15
          DEF ValidationNext
<1> QED BY <1>1, <1>2, PTL DEF ValidationSpec

\* Type correctness of the run of validate.mjs.
THEOREM ValidationTypesOk == ValidationSpec => []ValidationTypeOK
<1>1. ValidationInv => ValidationTypeOK BY DEF ValidationInv
<1> QED BY <1>1, ValidationInvariance, PTL

\* The exit code 0 stands for the whole checklist, passed in order, and every check but M5-2 is
\* judged with the whole stack up on a database that this run found unmigrated and migrated.
THEOREM ExitCodeIsEarned == ValidationSpec => []VerdictEarned
<1>1. ValidationInv => VerdictEarned
  <2> SUFFICES ASSUME ValidationInv PROVE VerdictEarned OBVIOUS
  <2>0. ValidationTypeOK /\ ListOrder /\ StageInv /\ ExitInv BY DEF ValidationInv
  <2>1. ASSUME exitCode = 0
        PROVE  [i \in DOMAIN verdicts |-> verdicts[i].id] = Checklist /\ Failed(verdicts) = {}
    <3>1. Len(verdicts) = 10 /\ Failed(verdicts) = {} BY <2>0, <2>1, ChecklistFacts DEF ExitInv
    <3>2. DOMAIN verdicts = 1 .. 10 BY <2>0, <3>1 DEF ValidationTypeOK
    <3>3. Checklist = [i \in 1 .. 10 |-> Checklist[i]] BY ChecklistFacts
    <3>4. \A i \in 1 .. 10 : verdicts[i].id = Checklist[i] BY <2>0, <3>2 DEF ListOrder
    <3> QED BY <3>1, <3>2, <3>3, <3>4
  <2>2. ASSUME Len(verdicts) > 1, stage # "ended" PROVE stage \in {"assert", "recreated"}
    <3>1. Len(verdicts) \in Nat BY <2>0 DEF ValidationTypeOK
    <3> QED BY <2>0, <2>2, <3>1 DEF StageInv
  <2> QED BY <2>0, <2>1, <2>2 DEF VerdictEarned, StageInv
<1> QED BY <1>1, ValidationInvariance, PTL


(***************************************************************************)
(* The worker's exposition.                                                *)
(***************************************************************************)

\* The aggregate and the series of one moment.
HalvesAgree(a, series) ==
    a.since # NONE => \A q \in Tenanted : series[q] # NONE => /\ series[q].pass = a.pass
                                                             /\ series[q].since >= a.since

\* One pass at a time, shared by whoever collects; between its two reads the aggregate is its own,
\* no series is shown, and no row it has read is older than the aggregate.
PassesInv ==
    /\ \A p, q \in passes : p = q
    /\ passes # {} => inflight # NONE
    /\ \A p \in passes : p.step = "projects" =>
          /\ age.pass = p.number /\ age.since \in 0 .. MaxTurns
          /\ \A r \in p.rows : age.since <= r.since
          /\ \A q \in Tenanted : ages[q] = NONE

\* Both gauges of a scrape await the same pass, and an answer has agreeing halves.
ScrapeInv(s) ==
    /\ scrape[s].agePass = scrape[s].agesPass
    /\ scrape[s].state = "waiting" => scrape[s].age = NONE
    /\ scrape[s].state = "answered" => /\ scrape[s].age # NONE /\ scrape[s].ages # NONE
                                       /\ HalvesAgree(scrape[s].age, scrape[s].ages)

MetricsInv == MetricsTypeOK /\ PassesInv /\ \A s \in Scrapes : ScrapeInv(s)

\* A set of rows has an oldest one.
LEMMA OldestIsLeast ==
    ASSUME NEW rows \in SUBSET PendingRow, rows # {}
    PROVE  OldestOf(rows) \in rows /\ \A r \in rows : OldestOf(rows).since <= r.since
<1> DEFINE instants == {r.since : r \in rows}
<1>1. \A r \in rows : r.since \in Nat BY MetricsAssumption DEF PendingRow
<1>2. instants \in SUBSET Nat /\ instants # {} BY <1>1
<1>3. PICK n \in instants : \A m \in instants : n <= m BY <1>2, LeastOfNaturals
<1>4. \E r \in rows : \A q \in rows : r.since <= q.since BY <1>3
<1> QED BY <1>4 DEF OldestOf

\* What a scrape has after the end of a pass: both halves of the pass it awaited, or what it had.
LEMMA TakesBothOrNone ==
    ASSUME MetricsTypeOK, NEW s \in Scrapes, ScrapeInv(s), NEW n \in 1 .. MaxTurns,
           NEW a \in Written, NEW series \in [Tenanted -> Written \cup {NONE}], HalvesAgree(a, series),
           NEW x, x = Took(s, n, a, series)
    PROVE  /\ x \in Scraping
           /\ x.agePass = x.agesPass
           /\ x.state = "waiting" => x.age = NONE
           /\ x.state = "answered" => x.age # NONE /\ x.ages # NONE /\ HalvesAgree(x.age, x.ages)
<1> DEFINE old == scrape[s]
           hears == old.agePass = n
           half == IF hears THEN a ELSE old.age
           halves == IF hears THEN series ELSE old.ages
           new == IF old.state = "waiting" /\ half # NONE /\ halves # NONE THEN "answered" ELSE old.state
<1>1. old \in Scraping BY DEF MetricsTypeOK
<1>2. old.agesPass = old.agePass BY DEF ScrapeInv
<1>3. x = [old EXCEPT !.age = half, !.ages = halves, !.state = new]
  <2> DEFINE y == [old EXCEPT !.age = half, !.ages = halves]
  <2>1. y = [old EXCEPT !.age = IF old.agePass = n THEN a ELSE @,
                        !.ages = IF old.agesPass = n THEN series ELSE @]
    BY <1>1, <1>2 DEF Scraping
  <2>2. y.age = half /\ y.ages = halves /\ y.state = old.state BY <1>1 DEF Scraping
  <2>3. x = [y EXCEPT !.state = IF @ = "waiting" /\ y.age # NONE /\ y.ages # NONE THEN "answered" ELSE @]
    BY <2>1 DEF Took
  <2>4. x = [y EXCEPT !.state = new] BY <2>2, <2>3
  <2> QED BY <2>4
<1>4. /\ x.agePass = old.agePass /\ x.agesPass = old.agesPass
      /\ x.age = half /\ x.ages = halves /\ x.state = new
  BY <1>1, <1>3 DEF Scraping
<1>5. half \in Written \cup {NONE} /\ halves \in [Tenanted -> Written \cup {NONE}] \cup {NONE}
  BY <1>1 DEF Scraping
<1>6. new \in {"none", "waiting", "answered"} BY <1>1 DEF Scraping
<1>7. x \in Scraping
  <2> HIDE DEF half, halves, new
  <2> QED BY <1>1, <1>3, <1>5, <1>6 DEF Scraping
<1>8. a # NONE /\ series # NONE BY NoneIsNoReading
<1>9. CASE hears BY <1>4, <1>2, <1>7, <1>8, <1>9
<1>10. CASE ~hears
  <2>1. x.age = old.age /\ x.ages = old.ages /\ x.agePass = x.agesPass BY <1>2, <1>4, <1>10
  <2>2. old.state = "waiting" => old.age = NONE BY DEF ScrapeInv
  <2>3. x.state = old.state BY <1>4, <1>10, <2>2
  <2> QED BY <1>7, <2>1, <2>2, <2>3 DEF ScrapeInv
<1> QED BY <1>9, <1>10

\* The end of a pass whose halves agree keeps the invariant.
LEMMA PassEnds ==
    ASSUME MetricsInv, NEW p \in passes, FinishPass(p),
           age' \in Written, ages' \in [Tenanted -> Written \cup {NONE}], HalvesAgree(age', ages'),
           UNCHANGED <<listener, oldestPending, known, turns>>
    PROVE  MetricsInv'
<1>0. MetricsTypeOK /\ PassesInv /\ \A s \in Scrapes : ScrapeInv(s) BY DEF MetricsInv
<1>1. p \in Pass /\ p.number \in 1 .. MaxTurns BY <1>0 DEF MetricsTypeOK, Pass
<1>2. passes' = {} /\ inflight' = NONE
  <2>1. passes' = {} BY <1>0 DEF FinishPass, PassesInv
  <2>2. inflight = p.number
    <3>1. inflight # NONE BY <1>0 DEF PassesInv
    <3> QED BY <1>0, <3>1 DEF PassesInv, MetricsTypeOK
  <2> QED BY <2>1, <2>2 DEF FinishPass
<1>3. ASSUME NEW s \in Scrapes
      PROVE  scrape'[s] \in Scraping /\ ScrapeInv(s)'
  <2>1. scrape'[s] = Took(s, p.number, age', ages') BY DEF FinishPass
  <2>2. PICK a, series : a = age' /\ series = ages' OBVIOUS
  <2>3. scrape'[s] = Took(s, p.number, a, series) BY <2>1, <2>2
  <2>4. a \in Written /\ series \in [Tenanted -> Written \cup {NONE}] /\ HalvesAgree(a, series) BY <2>2
  <2>5. PICK x : x = scrape'[s] OBVIOUS
  <2>6. /\ x \in Scraping /\ x.agePass = x.agesPass
        /\ x.state = "waiting" => x.age = NONE
        /\ x.state = "answered" => x.age # NONE /\ x.ages # NONE /\ HalvesAgree(x.age, x.ages)
    BY <1>0, <1>1, <2>3, <2>4, <2>5, TakesBothOrNone
  <2> QED BY <2>5, <2>6 DEF ScrapeInv, HalvesAgree
<1>4. scrape' \in [Scrapes -> Scraping] BY <1>3 DEF FinishPass
<1>5. MetricsTypeOK' BY <1>0, <1>2, <1>4 DEF MetricsTypeOK
<1>6. PassesInv' BY <1>2 DEF PassesInv
<1> QED BY <1>3, <1>5, <1>6 DEF MetricsInv

\* Scrapes keep what they have while no pass ends.
LEMMA ScrapesKeep ==
    ASSUME MetricsInv, UNCHANGED scrape
    PROVE  \A s \in Scrapes : ScrapeInv(s)'
BY DEF MetricsInv, ScrapeInv, HalvesAgree

\* The invariant holds at the start and every step keeps it.
LEMMA MetricsInvariance == MetricsSpec => []MetricsInv
<1>1. MetricsInit => MetricsInv
  <2> SUFFICES ASSUME MetricsInit PROVE MetricsInv OBVIOUS
  <2>1. NotWaiting \in Scraping /\ NotWaiting.state = "none" /\ NotWaiting.agePass = NotWaiting.agesPass
    BY DEF NotWaiting, Waiting, Scraping
  <2>2. age \in Written /\ 0 \in 0 .. MaxTurns BY MetricsAssumption DEF MetricsInit, Written
  <2>3. MetricsTypeOK
    <3>1. oldestPending \in [Backlogged -> 0 .. MaxTurns \cup {NONE}] BY <2>2 DEF MetricsInit
    <3>2. scrape \in [Scrapes -> Scraping] BY <2>1 DEF MetricsInit
    <3>3. ages \in [Tenanted -> Written \cup {NONE}] BY DEF MetricsInit
    <3> QED BY <2>2, <3>1, <3>2, <3>3 DEF MetricsInit, MetricsTypeOK
  <2>4. PassesInv BY DEF MetricsInit, PassesInv
  <2>5. ASSUME NEW s \in Scrapes PROVE ScrapeInv(s) BY <2>1 DEF MetricsInit, ScrapeInv
  <2> QED BY <2>3, <2>4, <2>5 DEF MetricsInv
<1>2. MetricsInv /\ [MetricsNext]_metricsVars => MetricsInv'
  <2> SUFFICES ASSUME MetricsInv, [MetricsNext]_metricsVars PROVE MetricsInv' OBVIOUS
  <2>0. MetricsTypeOK /\ PassesInv /\ (\A s \in Scrapes : ScrapeInv(s)) BY DEF MetricsInv
  <2>1. CASE start \/ stop \/ Stopped \/ UNCHANGED metricsVars
    <3>1. MetricsTypeOK' /\ PassesInv'
      BY <2>0, <2>1 DEF start, stop, Stopped, metricsVars, metricsStore, MetricsTypeOK, PassesInv
    <3>2. UNCHANGED scrape BY <2>1 DEF start, stop, Stopped, metricsVars
    <3> QED BY <3>1, <3>2, ScrapesKeep DEF MetricsInv
  <2>2. CASE BacklogMoves
    <3>1. turns' \in 0 .. MaxTurns BY <2>0, <2>2, MetricsAssumption DEF BacklogMoves, MetricsTurn, MetricsTypeOK
    <3>2. oldestPending' \in [Backlogged -> 0 .. MaxTurns \cup {NONE}] /\ known' \subseteq Backlogged
      BY <2>0, <2>2, <3>1 DEF BacklogMoves, MetricsTypeOK
    <3>3. UNCHANGED <<listener, metricsStore, scrape>> BY <2>2 DEF BacklogMoves
    <3>4. MetricsTypeOK' BY <2>0, <3>1, <3>2, <3>3 DEF MetricsTypeOK, metricsStore
    <3>5. PassesInv' BY <2>0, <3>3 DEF PassesInv, metricsStore
    <3> QED BY <3>3, <3>4, <3>5, ScrapesKeep DEF MetricsInv
  <2>3. ASSUME NEW s \in Scrapes, Scrape(s) PROVE MetricsInv'
    <3> DEFINE x == [Waiting EXCEPT !.agePass = inflight', !.agesPass = inflight']
    <3>1. scrape' = [scrape EXCEPT ![s] = x] BY <2>3 DEF Scrape, collectOldestPendingOnce
    <3>2. /\ turns' \in 0 .. MaxTurns /\ passes' \subseteq Pass
          /\ inflight' \in 1 .. MaxTurns /\ (\E p \in passes' : p.number = inflight')
          /\ PassesInv'
      <4>1. CASE inflight = NONE
        <5>1. turns \in 0 .. MaxTurns /\ turns' = turns + 1 /\ turns < MaxTurns
          BY <2>0, <2>3, <4>1 DEF Scrape, collectOldestPendingOnce, MetricsTurn, MetricsTypeOK
        <5>2. turns' \in 1 .. MaxTurns BY <5>1, MetricsAssumption
        <5>3. passes = {} BY <2>0, <4>1 DEF PassesInv
        <5>4. passes' = {NewPass} /\ inflight' = turns'
          BY <2>3, <4>1, <5>3 DEF Scrape, collectOldestPendingOnce
        <5>5. NewPass \in Pass /\ NewPass.number = turns' /\ NewPass.step = "group"
          BY <5>2 DEF NewPass, Pass
        <5>6. inflight' # NONE BY <5>2, <5>4, MetricsAssumption
        <5>7. PassesInv' BY <5>4, <5>5, <5>6 DEF PassesInv
        <5> QED BY <5>2, <5>4, <5>5, <5>7
      <4>2. CASE inflight # NONE
        <5>1. UNCHANGED <<passes, inflight, turns, age, ages>>
          BY <2>3, <4>2 DEF Scrape, collectOldestPendingOnce
        <5>2. \E p \in passes : p.number = inflight BY <2>0, <4>2 DEF MetricsTypeOK
        <5>3. PassesInv' BY <2>0, <5>1 DEF PassesInv
        <5> QED BY <2>0, <5>1, <5>2, <5>3 DEF MetricsTypeOK, Pass
      <4> QED BY <4>1, <4>2
    <3>3. /\ x \in Scraping /\ x.state = "waiting" /\ x.age = NONE /\ x.agePass = x.agesPass
      <4>1. PICK n \in 1 .. MaxTurns : n = inflight' BY <3>2
      <4>2. Waiting \in Scraping /\ Waiting.state = "waiting" /\ Waiting.age = NONE
        BY DEF Waiting, Scraping
      <4>3. x = [Waiting EXCEPT !.agePass = n, !.agesPass = n] BY <4>1
      <4> HIDE DEF x
      <4> QED BY <4>2, <4>3 DEF Scraping
    <3> HIDE DEF x
    <3>4. MetricsTypeOK'
      <4>1. scrape' \in [Scrapes -> Scraping] BY <2>0, <3>1, <3>3 DEF MetricsTypeOK
      <4>2. UNCHANGED <<listener, oldestPending, known, age, ages>> BY <2>3 DEF Scrape
      <4> QED BY <2>0, <3>2, <4>1, <4>2 DEF MetricsTypeOK
    <3>5. ASSUME NEW t \in Scrapes PROVE ScrapeInv(t)'
      <4>1. CASE t = s
        <5>1. scrape'[t] = x BY <2>0, <3>1, <4>1 DEF MetricsTypeOK
        <5> QED BY <3>3, <5>1 DEF ScrapeInv
      <4>2. CASE t # s
        <5>1. scrape'[t] = scrape[t] BY <2>0, <3>1, <4>2 DEF MetricsTypeOK
        <5> QED BY <2>0, <5>1 DEF ScrapeInv, HalvesAgree
      <4> QED BY <4>1, <4>2
    <3> QED BY <3>2, <3>4, <3>5 DEF MetricsInv
  <2>4. ASSUME NEW p \in passes, GroupPending(p) PROVE MetricsInv'
    <3> DEFINE rows == {[endpoint |-> e, since |-> oldestPending[e]] : e \in {x \in Backlogged : Backed(x)}}
               since == IF rows = {} THEN NONE ELSE OldestOf(rows).since
    <3>1. p \in Pass BY <2>0 DEF MetricsTypeOK
    <3>2. rows \in SUBSET PendingRow BY <2>0 DEF MetricsTypeOK, Backed, PendingRow
    <3>3. rows # {} => since \in 0 .. MaxTurns /\ \A r \in rows : since <= r.since
      <4> HIDE DEF rows
      <4> QED BY <3>2, OldestIsLeast DEF PendingRow
    <3>4. /\ ages' = [q \in Tenanted |-> NONE] /\ age' = [pass |-> p.number, since |-> since]
          /\ UNCHANGED <<listener, oldestPending, known, turns>>
          /\ FinishPass(p) \/ (rows # {} /\ Continue(p, rows))
      BY <2>4 DEF GroupPending
    <3> HIDE DEF rows, since
    <3>5. since \in 0 .. MaxTurns \cup {NONE} BY <3>3 DEF since
    <3>6. p.number \in 0 .. MaxTurns BY <3>1 DEF Pass
    <3>7. age' \in Written /\ age'.pass = p.number /\ age'.since = since BY <3>4, <3>5, <3>6 DEF Written
    <3>8. ages' \in [Tenanted -> Written \cup {NONE}] /\ (\A q \in Tenanted : ages'[q] = NONE) BY <3>4
    <3>9. CASE FinishPass(p)
      <4>1. HalvesAgree(age', ages') BY <3>8 DEF HalvesAgree
      <4> QED BY <3>4, <3>7, <3>8, <3>9, <4>1, PassEnds
    <3>10. CASE rows # {} /\ Continue(p, rows)
      <4> DEFINE c == [p EXCEPT !.step = "projects", !.rows = rows]
      <4>1. c \in Pass /\ c.number = p.number /\ c.rows = rows BY <3>1, <3>2 DEF Pass
      <4>2. passes' = {c} BY <2>0, <3>10 DEF Continue, PassesInv
      <4> HIDE DEF c
      <4>3. UNCHANGED <<inflight, scrape>> BY <3>10 DEF Continue
      <4>4. inflight # NONE /\ inflight = p.number BY <2>0, <2>4 DEF PassesInv, MetricsTypeOK
      <4>5. MetricsTypeOK' BY <2>0, <3>4, <3>7, <3>8, <4>1, <4>2, <4>3, <4>4 DEF MetricsTypeOK
      <4>6. PassesInv' BY <3>3, <3>7, <3>8, <3>10, <4>1, <4>2, <4>3, <4>4 DEF PassesInv
      <4> QED BY <4>3, <4>5, <4>6, ScrapesKeep DEF MetricsInv
    <3> QED BY <3>4, <3>9, <3>10
  <2>5. ASSUME NEW p \in passes, ResolveProjects(p) PROVE MetricsInv'
    <3> DEFINE RowsOf(q) == {r \in p.rows : r.endpoint \in known /\ ProjectOfEnd[r.endpoint] = q}
    <3>1. /\ p \in Pass /\ p.number \in 0 .. MaxTurns /\ p.rows \in SUBSET PendingRow
      BY <2>0 DEF MetricsTypeOK, Pass
    <3>2. /\ age.pass = p.number /\ age.since \in 0 .. MaxTurns
          /\ \A r \in p.rows : age.since <= r.since
          /\ \A q \in Tenanted : ages[q] = NONE
      BY <2>0, <2>5 DEF PassesInv, ResolveProjects
    <3>3. ages' = [q \in Tenanted |-> IF RowsOf(q) = {} THEN ages[q]
                                      ELSE [pass |-> p.number, since |-> OldestOf(RowsOf(q)).since]]
      BY <2>5 DEF ResolveProjects
    <3>4. ASSUME NEW q \in Tenanted
          PROVE  /\ ages'[q] \in Written \cup {NONE}
                 /\ ages'[q] # NONE => ages'[q].pass = age.pass /\ ages'[q].since >= age.since
      <4>1. CASE RowsOf(q) = {}
        <5>1. ages'[q] = NONE BY <3>2, <3>3, <4>1
        <5> QED BY <5>1
      <4>2. CASE RowsOf(q) # {}
        <5>1. ages'[q] = [pass |-> p.number, since |-> OldestOf(RowsOf(q)).since] BY <3>3, <4>2
        <5>2. OldestOf(RowsOf(q)) \in p.rows
          <6>1. RowsOf(q) \in SUBSET PendingRow BY <3>1
          <6>2. OldestOf(RowsOf(q)) \in RowsOf(q) BY <4>2, <6>1, OldestIsLeast
          <6> QED BY <6>2
        <5>3. PICK n : n = OldestOf(RowsOf(q)).since OBVIOUS
        <5>4. n \in 0 .. MaxTurns /\ age.since <= n BY <3>1, <3>2, <5>2, <5>3 DEF PendingRow
        <5>5. ages'[q] = [pass |-> p.number, since |-> n] BY <5>1, <5>3
        <5>6. ages'[q] \in Written BY <3>1, <5>4, <5>5 DEF Written
        <5>7. ages'[q].pass = age.pass /\ ages'[q].since = n BY <3>2, <5>5
        <5> QED BY <3>2, <5>4, <5>6, <5>7
      <4> QED BY <4>1, <4>2
    <3>5. ages' \in [Tenanted -> Written \cup {NONE}] BY <3>3, <3>4
    <3>6. age' = age /\ FinishPass(p) /\ UNCHANGED <<listener, oldestPending, known, turns>>
      BY <2>5 DEF ResolveProjects
    <3>7. age' \in Written BY <2>0, <3>6 DEF MetricsTypeOK
    <3>8. HalvesAgree(age', ages') BY <3>4, <3>6 DEF HalvesAgree
    <3> QED BY <3>5, <3>6, <3>7, <3>8, PassEnds
  <2>6. ASSUME NEW p \in passes, CollectFails(p) PROVE MetricsInv'
    <3>1. p.number \in 0 .. MaxTurns BY <2>0 DEF MetricsTypeOK, Pass
    <3>2. /\ age' = [pass |-> p.number, since |-> NONE] /\ ages' = ages /\ FinishPass(p)
          /\ UNCHANGED <<listener, oldestPending, known, turns>>
      BY <2>6 DEF CollectFails
    <3>3. age' \in Written /\ age'.since = NONE BY <3>1, <3>2 DEF Written
    <3>4. ages' \in [Tenanted -> Written \cup {NONE}] BY <2>0, <3>2 DEF MetricsTypeOK
    <3>5. HalvesAgree(age', ages') BY <3>3 DEF HalvesAgree
    <3> QED BY <3>2, <3>3, <3>4, <3>5, PassEnds
  <2> QED BY <2>5, <2>1, <2>2, <2>3, <2>4, <2>6 DEF MetricsNext
<1> QED BY <1>1, <1>2, PTL DEF MetricsSpec

\* Type correctness of the exposition, its passes and its scrapes.
THEOREM MetricsTypesOk == MetricsSpec => []MetricsTypeOK
<1>1. MetricsInv => MetricsTypeOK BY DEF MetricsInv
<1> QED BY <1>1, MetricsInvariance, PTL

\* However scrapes overlap a pass that reads the backlog twice, an answer shows an aggregate and
\* series of one pass, none of them older than the aggregate.
THEOREM ScrapesTellOneMoment == MetricsSpec => []ExpositionOfOneMoment
<1>1. MetricsInv => ExpositionOfOneMoment
  <2> SUFFICES ASSUME MetricsInv, NEW s \in Scrapes, scrape[s].state = "answered", scrape[s].age.since # NONE,
                      NEW x \in Series(scrape[s])
               PROVE  x.pass = scrape[s].age.pass /\ x.since >= scrape[s].age.since
    BY DEF ExpositionOfOneMoment
  <2>1. HalvesAgree(scrape[s].age, scrape[s].ages) BY DEF MetricsInv, ScrapeInv
  <2>2. PICK q \in Tenanted : x = scrape[s].ages[q] /\ x # NONE BY DEF Series
  <2> QED BY <2>1, <2>2 DEF HalvesAgree
<1> QED BY <1>1, MetricsInvariance, PTL


(***************************************************************************)
(* Powers of two and quotients, for the configuration.                     *)
(***************************************************************************)

\* A set of n elements has 2^n subsets.
LEMMA PowIsCount == ASSUME NEW n \in Nat PROVE 2^n = Cardinality(SUBSET (1 .. n)) /\ IsFiniteSet(SUBSET (1 .. n))
<1>1. IsFiniteSet(1 .. n) /\ Cardinality(1 .. n) = n BY FS_Interval
<1>2. Cardinality(SUBSET (1 .. n)) = 2^Cardinality(1 .. n) /\ IsFiniteSet(SUBSET (1 .. n)) BY <1>1, FS_SUBSET
<1> QED BY <1>1, <1>2

\* Powers of two are positive and grow with the exponent.
LEMMA PowGrows ==
    ASSUME NEW m \in Nat, NEW n \in Nat, m <= n
    PROVE  2^m \in Nat /\ 1 <= 2^m /\ 2^m <= 2^n
<1>1. SUBSET (1 .. m) \subseteq SUBSET (1 .. n) BY SMT
<1>2. Cardinality(SUBSET (1 .. m)) <= Cardinality(SUBSET (1 .. n)) BY <1>1, PowIsCount, FS_Subset
<1>3. Cardinality(SUBSET (1 .. m)) \in Nat BY PowIsCount, FS_CardinalityType
<1>4. Cardinality(SUBSET (1 .. m)) # 0 BY PowIsCount, FS_EmptySet
<1> QED BY <1>2, <1>3, <1>4, PowIsCount

\* What a quotient is.
LEMMA Quotient ==
    ASSUME NEW a \in Nat, NEW s \in Nat \ {0}
    PROVE  a \div s \in Nat /\ s * (a \div s) <= a /\ a < s * (a \div s) + s
OBVIOUS

\* The quotient is the only number with that property.
LEMMA QuotientIs ==
    ASSUME NEW a \in Nat, NEW s \in Nat \ {0}, NEW q \in Nat, s * q <= a, a < s * q + s
    PROVE  a \div s = q
<1> DEFINE d == a \div s
<1>1. d \in Nat /\ s * d <= a /\ a < s * d + s BY Quotient
<1> HIDE DEF d
<1>2. CASE d < q
  <2>1. d + 1 <= q BY <1>1, <1>2
  <2>2. s * (d + 1) <= s * q BY <1>1, <2>1
  <2> QED BY <1>1, <2>2
<1>3. CASE q < d
  <2>1. q + 1 <= d BY <1>1, <1>3
  <2>2. s * (q + 1) <= s * d BY <1>1, <2>1
  <2> QED BY <1>1, <2>2
<1> QED BY <1>1, <1>2, <1>3 DEF d

\* Numbers with the same quotient have the same quotient by every multiple of the divisor.
LEMMA QuotientOfProduct ==
    ASSUME NEW a \in Nat, NEW b \in Nat, NEW s \in Nat \ {0}, NEW t \in Nat \ {0}, a \div s = b \div s
    PROVE  a \div (s * t) = b \div (s * t)
<1> DEFINE q == a \div s
           d == q \div t
<1>1. q \in Nat /\ s * q <= a /\ a < s * q + s BY Quotient
<1>2. s * q <= b /\ b < s * q + s BY Quotient
<1> HIDE DEF q
<1>3. d \in Nat /\ t * d <= q /\ q < t * d + t BY <1>1, Quotient
<1> HIDE DEF d
<1>4. s * t \in Nat \ {0} BY SMT
<1>5. s * (t * d) <= s * q BY <1>1, <1>3
<1>6. s * (q + 1) <= s * (t * d + t)
  <2>1. q + 1 <= t * d + t BY <1>1, <1>3
  <2> DEFINE u == t * d + t
  <2>2. u \in Nat BY <1>3
  <2>3. q + 1 <= u BY <2>1
  <2> HIDE DEF u
  <2>4. s * (q + 1) <= s * u BY <1>1, <2>2, <2>3
  <2> QED BY <2>4 DEF u
<1>7. s * (t * d) = (s * t) * d /\ s * (t * d + t) = (s * t) * d + s * t /\ s * (q + 1) = s * q + s
  BY <1>1, <1>3
<1> DEFINE p == s * t
           l == p * d
           x == s * q
<1>8. l <= x /\ x + s <= l + p /\ x \in Nat /\ l \in Nat /\ p \in Nat \ {0} BY <1>1, <1>3, <1>4, <1>5, <1>6, <1>7
<1>9. x <= a /\ a < x + s /\ x <= b /\ b < x + s BY <1>1, <1>2
<1>10. l <= a /\ a < l + p /\ l <= b /\ b < l + p
  <2> HIDE DEF l, x, p
  <2> QED BY <1>8, <1>9
<1>11. a \div p = d
  <2> HIDE DEF p
  <2> QED BY <1>3, <1>8, <1>10, QuotientIs
<1>12. b \div p = d
  <2> HIDE DEF p
  <2> QED BY <1>3, <1>8, <1>10, QuotientIs
<1> QED BY <1>11, <1>12

\* 2^(m + n) is a product: a set of m + n elements splits in two.
LEMMA PowOfSum ==
    ASSUME NEW m \in Nat, NEW n \in Nat
    PROVE  2^(m + n) = 2^m * 2^n
<1> DEFINE S == SUBSET (1 .. m)
           T == SUBSET (m + 1 .. m + n)
           U == SUBSET (1 .. m + n)
           f == [pair \in S \X T |-> pair[1] \cup pair[2]]
<1>1. IsFiniteSet(S) /\ Cardinality(S) = 2^m BY PowIsCount
<1>2. IsFiniteSet(T) /\ Cardinality(T) = 2^n
  <2>1. IsFiniteSet(m + 1 .. m + n) /\ Cardinality(m + 1 .. m + n) = n BY FS_Interval
  <2> QED BY <2>1, FS_SUBSET
<1>3. IsFiniteSet(S \X T) /\ Cardinality(S \X T) = 2^m * 2^n
  <2> HIDE DEF S, T
  <2>1. IsFiniteSet(S \X T) /\ Cardinality(S \X T) = Cardinality(S) * Cardinality(T)
    BY <1>1, <1>2, FS_Product
  <2> QED BY <1>1, <1>2, <2>1
<1>4. f \in [S \X T -> U]
  <2> SUFFICES ASSUME NEW pair \in S \X T PROVE pair[1] \cup pair[2] \in U OBVIOUS
  <2>1. pair[1] \subseteq 1 .. m /\ pair[2] \subseteq m + 1 .. m + n OBVIOUS
  <2>2. (1 .. m) \subseteq 1 .. m + n /\ (m + 1 .. m + n) \subseteq 1 .. m + n BY SMT
  <2> QED BY <2>1, <2>2
<1>5. ASSUME NEW pair \in S \X T, NEW other \in S \X T, f[pair] = f[other] PROVE pair = other
  <2>1. pair[1] \cup pair[2] = other[1] \cup other[2] BY <1>5
  <2>2. \A x \in 1 .. m : x \notin m + 1 .. m + n BY SMT
  <2>3. /\ pair[1] \subseteq 1 .. m /\ pair[2] \subseteq m + 1 .. m + n
        /\ other[1] \subseteq 1 .. m /\ other[2] \subseteq m + 1 .. m + n
    OBVIOUS
  <2> HIDE DEF S, T, U, f
  <2>4. pair[1] = other[1] BY <2>1, <2>2, <2>3
  <2>5. pair[2] = other[2] BY <2>1, <2>2, <2>3
  <2>6. pair = <<pair[1], pair[2]>> /\ other = <<other[1], other[2]>> BY DEF S, T
  <2> QED BY <2>4, <2>5, <2>6
<1>6. ASSUME NEW u \in U PROVE \E pair \in S \X T : f[pair] = u
  <2> DEFINE pair == <<u \cap (1 .. m), u \cap (m + 1 .. m + n)>>
  <2>1. pair \in S \X T OBVIOUS
  <2>2. \A x \in 1 .. m + n : x \in 1 .. m \/ x \in m + 1 .. m + n BY SMT
  <2>3. (u \cap (1 .. m)) \cup (u \cap (m + 1 .. m + n)) = u BY <2>2
  <2>4. f[pair] = u BY <2>1, <2>3
  <2> QED BY <2>1, <2>4
<1> HIDE DEF S, T, U, f
<1>7. f \in Bijection(S \X T, U)
  BY <1>4, <1>5, <1>6 DEF Bijection, Injection, Surjection, IsInjective
<1>8. Cardinality(U) = Cardinality(S \X T) BY <1>3, <1>7, FS_Bijection DEF ExistsBijection
<1>9. Cardinality(U) = 2^(m + n) BY PowIsCount DEF U
<1> QED BY <1>3, <1>8, <1>9
\* A set within an interval of s numbers has at most s elements.
LEMMA CountOfPart ==
    ASSUME NEW l \in Int, NEW s \in Nat, NEW T \in SUBSET (l .. l + s - 1)
    PROVE  IsFiniteSet(T) /\ Cardinality(T) \in Nat /\ Cardinality(T) <= s
<1>1. IsFiniteSet(l .. l + s - 1) /\ Cardinality(l .. l + s - 1) = s
  <2>1. IsFiniteSet(l .. l + s - 1)
        /\ Cardinality(l .. l + s - 1) = IF l > l + s - 1 THEN 0 ELSE l + s - 1 - l + 1
    BY FS_Interval
  <2>2. (IF l > l + s - 1 THEN 0 ELSE l + s - 1 - l + 1) = s BY SMT
  <2> QED BY <2>1, <2>2
<1>2. IsFiniteSet(T) /\ Cardinality(T) <= Cardinality(l .. l + s - 1) BY <1>1, FS_Subset
<1>3. Cardinality(T) \in Nat BY <1>2, FS_CardinalityType
<1> QED BY <1>1, <1>2, <1>3

(***************************************************************************)
(* The configuration.                                                      *)
(***************************************************************************)

\* What an environment holds, as far as the properties depend on it.
Legal ==
    [TRUST_PROXY_CIDRS             |-> SUBSET Entries,
     WEBHOOK_DESTINATION_ALLOWLIST |-> SUBSET HostTexts,
     WEBHOOK_DESTINATION_DENYLIST  |-> SUBSET HostTexts,
     JWT_SECRET                    |-> {NONE, "short", "long"},
     WEBHOOK_ENCRYPTION_KEY        |-> {NONE, "short", "32 bytes"}]

Environment(env) == \A name \in DOMAIN Legal : name \in DOMAIN env /\ env[name] \in Legal[name]

HostText == [name : {"v6", "name"}, bracketed : BOOLEAN, dot : BOOLEAN]
Canonical(host) == host \in HostText /\ host.bracketed = FALSE /\ host.dot = FALSE

ConfigurationInv ==
    /\ ConfigurationTypeOK
    /\ Environment(environ)
    /\ \A daemon \in Daemons : config[daemon] # NONE =>
          /\ GivesNothingAway(config[daemon])
          /\ \A host \in config[daemon].allowlist \cup config[daemon].denylist : Canonical(host)
    /\ \A host \in contacted : config["worker"] # NONE /\ DestinationAllowed(host, config["worker"])

\* A block lies within an interval as long as its size.
LEMMA BlockIsShort ==
    ASSUME NEW version \in {4, 6}, NEW prefix \in 0 .. BitsOf(version),
           NEW address \in 0 .. 2^BitsOf(version) - 1
    PROVE  \E l \in Nat : Subnet(version, address, prefix) \subseteq l .. l + 2^(BitsOf(version) - prefix) - 1
<1> DEFINE bits == BitsOf(version)
           size == 2^(bits - prefix)
<1>1. bits \in Nat BY ConfigurationAssumption DEF BitsOf
<1>2. bits - prefix \in Nat BY <1>1
<1>3. size \in Nat \ {0}
  <2> HIDE DEF bits
  <2> QED BY <1>2, PowGrows
<1>4. address \in Nat
  <2>1. 2^bits \in Nat
    <3> HIDE DEF bits
    <3> QED BY <1>1, PowGrows
  <2> QED BY <2>1
<1> DEFINE q == address \div size
<1>5. Subnet(version, address, prefix) = {a \in 0 .. 2^bits - 1 : a \div size = q} BY DEF Subnet
<1>6. q \in Nat
  <2> HIDE DEF size
  <2> QED BY <1>3, <1>4, Quotient
<1>7. 2^bits \in Nat
  <2> HIDE DEF bits
  <2> QED BY <1>1, PowGrows
<1> DEFINE n == 2^bits
<1> HIDE DEF size, q, n
<1>8. ASSUME NEW a \in 0 .. n - 1, a \div size = q PROVE a \in size * q .. size * q + size - 1
  <2>1. a \in Nat BY <1>7, <1>8 DEF n
  <2>2. size * q <= a /\ a < size * q + size BY <1>3, <1>8, <2>1, Quotient
  <2> DEFINE l == size * q
  <2>3. l \in Nat BY <1>3, <1>6
  <2> HIDE DEF l
  <2>4. l <= a /\ a < l + size BY <2>2 DEF l
  <2>5. a \in l .. l + size - 1 BY <1>3, <2>1, <2>3, <2>4
  <2> QED BY <2>5 DEF l
<1>9. size * q \in Nat BY <1>3, <1>6
<1>10. Subnet(version, address, prefix) \subseteq size * q .. size * q + size - 1
  BY <1>5, <1>8 DEF n
<1> QED BY <1>9, <1>10 DEF size

\* An IPv4 peer, spelled as IPv6, has quotient one by the size of the mapped range.
LEMMA MappedPeer ==
    ASSUME NEW a \in 0 .. 2^V4Bits - 1
    PROVE  /\ IPV4_MAPPED_START + a \in Nat /\ IPV4_MAPPED_START \in Nat \ {0}
           /\ (IPV4_MAPPED_START + a) \div 2^V4Bits = 1 /\ IPV4_MAPPED_START \div 2^V4Bits = 1
           /\ IPV4_MAPPED_START + a < 2 * IPV4_MAPPED_START
<1> DEFINE S == 2^V4Bits
<1>1. S \in Nat \ {0}
  <2>0. V4Bits \in Nat BY ConfigurationAssumption, Zenon
  <2>1. V4Bits \in Nat /\ V4Bits <= V4Bits BY <2>0
  <2>2. 2^V4Bits \in Nat /\ 1 <= 2^V4Bits BY <2>1, PowGrows
  <2> QED BY <2>2
<1>2. IPV4_MAPPED_START = S BY DEF IPV4_MAPPED_START
<1>3. a \in 0 .. S - 1 OBVIOUS
<1> HIDE DEF S
<1>4. S * 1 <= S + a /\ S + a < S * 1 + S /\ S * 1 <= S /\ S < S * 1 + S BY <1>1, <1>3
<1>5. S + a \in Nat BY <1>1, <1>3
<1>6. (S + a) \div S = 1 /\ S \div S = 1 BY <1>1, <1>4, <1>5, QuotientIs
<1> QED BY <1>1, <1>2, <1>4, <1>5, <1>6 DEF S

\* No peer is reached by an entry at least as long as the mapped prefix but outside the range.
LEMMA OutsideReachesNobody ==
    ASSUME NEW address \in 0 .. 2^V6Bits - 1, NEW prefix \in IPV4_MAPPED_PREFIX .. V6Bits,
           address \notin Mapped, NEW a \in 0 .. 2^V4Bits - 1
    PROVE  IPV4_MAPPED_START + a \notin Subnet(6, address, prefix)
<1> SUFFICES ASSUME IPV4_MAPPED_START + a \in Subnet(6, address, prefix) PROVE FALSE OBVIOUS
<1> DEFINE m == V6Bits - prefix
           n == prefix - IPV4_MAPPED_PREFIX
           x == IPV4_MAPPED_START + a
<1>1. V4Bits \in Nat /\ V6Bits \in Nat /\ V4Bits < V6Bits BY ConfigurationAssumption
<1>2. m \in Nat /\ n \in Nat /\ m + n = V4Bits /\ prefix \in Int BY <1>1 DEF IPV4_MAPPED_PREFIX
<1>3. x \in Nat /\ x \div 2^V4Bits = 1 /\ IPV4_MAPPED_START \div 2^V4Bits = 1 BY MappedPeer
<1>4. address \in Nat BY <1>1, PowGrows
<1>5. x \div 2^m = address \div 2^m BY DEF Subnet, BitsOf
<1> HIDE DEF m, n, x
<1>6. 2^m \in Nat \ {0} /\ 2^n \in Nat \ {0} BY <1>2, PowGrows
<1>7. x \div (2^m * 2^n) = address \div (2^m * 2^n)
  <2> DEFINE s == 2^m
             t == 2^n
  <2>1. s \in Nat \ {0} /\ t \in Nat \ {0} /\ x \div s = address \div s BY <1>5, <1>6
  <2> HIDE DEF s, t
  <2>0. x \in Nat BY <1>3
  <2>2. x \div (s * t) = address \div (s * t) BY <1>4, <2>0, <2>1, QuotientOfProduct, ZenonT(40)
  <2> QED BY <2>2 DEF s, t
<1>8. 2^V4Bits = 2^m * 2^n BY <1>2, PowOfSum
<1>9. address \div 2^V4Bits = IPV4_MAPPED_START \div 2^V4Bits BY <1>3, <1>7, <1>8
<1>10. V6Bits - IPV4_MAPPED_PREFIX = V4Bits BY <1>1 DEF IPV4_MAPPED_PREFIX
<1>11. address \in Mapped BY <1>9, <1>10 DEF Mapped, Subnet, BitsOf
<1> QED BY <1>11

\* Nor by a shorter one, unless it holds the start of the range.
LEMMA ShorterReachesNobody ==
    ASSUME NEW address \in 0 .. 2^V6Bits - 1, NEW prefix \in 0 .. IPV4_MAPPED_PREFIX - 1,
           IPV4_MAPPED_START \notin Subnet(6, address, prefix), NEW a \in 0 .. 2^V4Bits - 1
    PROVE  IPV4_MAPPED_START + a \notin Subnet(6, address, prefix)
<1> SUFFICES ASSUME IPV4_MAPPED_START + a \in Subnet(6, address, prefix) PROVE FALSE OBVIOUS
<1> DEFINE m == V6Bits - prefix
           size == 2^m
           x == IPV4_MAPPED_START + a
           S == IPV4_MAPPED_START
<1>1. V4Bits \in Nat /\ V6Bits \in Nat /\ V4Bits < V6Bits BY ConfigurationAssumption
<1>2. m \in Nat /\ V4Bits + 1 <= m /\ m <= V6Bits BY <1>1 DEF IPV4_MAPPED_PREFIX
<1>3. x \in Nat /\ S \in Nat \ {0} /\ x < 2 * S /\ S = 2^V4Bits
  BY MappedPeer DEF IPV4_MAPPED_START
<1>4. x \div size = address \div size BY DEF Subnet, BitsOf
<1>5. 2 * S <= size /\ size \in Nat \ {0} /\ size <= 2^V6Bits
  <2> HIDE DEF m
  <2>1. 2^(V4Bits + 1) = 2^V4Bits * 2^1 BY <1>1, PowOfSum
  <2>2. 2^1 = 2
    <3>1. IsFiniteSet(SUBSET (1 .. 1)) /\ 2^1 = Cardinality(SUBSET (1 .. 1)) BY PowIsCount
    <3>2. SUBSET (1 .. 1) = {{}, {1}} BY SMT
    <3>3. Cardinality({{}}) = 1 /\ IsFiniteSet({{}}) BY FS_Singleton
    <3>4. Cardinality({{}} \cup {{1}}) = 2
      <4>1. {1} \notin {{}} OBVIOUS
      <4>2. Cardinality({{}} \cup {{1}}) = Cardinality({{}}) + 1
        BY <3>3, <4>1, FS_AddElement
      <4> QED BY <3>3, <4>2
    <3>5. {{}, {1}} = {{}} \cup {{1}} OBVIOUS
    <3> QED BY <3>1, <3>2, <3>4, <3>5
  <2>3. 2^(V4Bits + 1) <= 2^m /\ 2^(V4Bits + 1) \in Nat BY <1>1, <1>2, PowGrows
  <2>4. 2^m \in Nat /\ 1 <= 2^m /\ 2^m <= 2^V6Bits BY <1>1, <1>2, PowGrows
  <2>5. 2^(V4Bits + 1) = S * 2 BY <1>3, <2>1, <2>2
  <2> QED BY <1>3, <2>3, <2>4, <2>5
<1> HIDE DEF size, x, S
<1>6. x \div size = 0 /\ S \div size = 0
  <2>1. size * 0 <= x /\ x < size * 0 + size /\ size * 0 <= S /\ S < size * 0 + size
    BY <1>3, <1>5
  <2> QED BY <1>3, <1>5, <2>1, QuotientIs
<1>7. S \in 0 .. 2^V6Bits - 1
  <2>1. 2^V6Bits \in Nat BY <1>1, PowGrows
  <2> QED BY <1>3, <1>5, <2>1
<1>8. S \in Subnet(6, address, prefix) BY <1>4, <1>6, <1>7 DEF Subnet, BitsOf, size
<1> QED BY <1>8 DEF S


\* A trusted entry trusts at most as many IPv4 peers as an IPv4 block of the floor has.
LEMMA TrustedEntryIsNarrow ==
    ASSUME NEW e \in Entries, TrustedProxy(e), NEW entry,
           entry = [e EXCEPT !.prefix = IF @ = Bare THEN BitsOf(e.version) ELSE @]
    PROVE  Cardinality(TrustedPeers(entry)) <= 2^(V4Bits - V4Floor)
<1> DEFINE v == e.version
           bits == BitsOf(v)
           p == IF e.prefix = Bare THEN bits ELSE e.prefix
           most == 2^(V4Bits - V4Floor)
<1>1. /\ V4Bits \in Nat /\ V6Bits \in Nat /\ V4Floor \in Nat /\ V4Floor <= V4Bits /\ V4Bits < V6Bits
      /\ V6Seen \subseteq 0 .. 2^V6Bits - 1
  BY ConfigurationAssumption
<1>2. /\ v \in {4, 6} /\ e.address \in 0 .. 2^bits - 1 /\ e.prefix \in Int
      /\ e \in [version : {4, 6}, address : Int, prefix : Int]
  <2>1. CASE \E a \in 0 .. 2^V4Bits - 1, q \in Bare .. V4Bits + 1 :
                e = [version |-> 4, address |-> a, prefix |-> q]
    BY <1>1, <2>1 DEF BitsOf, Bare
  <2>2. CASE \E a \in V6Seen, q \in Bare .. V6Bits + 1 :
                e = [version |-> 6, address |-> a, prefix |-> q]
    BY <1>1, <2>2 DEF BitsOf, Bare
  <2> QED BY <2>1, <2>2 DEF Entries
<1>3. bits \in Nat BY <1>1 DEF BitsOf
<1>4. p \in 0 .. bits
  <2>1. CASE e.prefix = Bare BY <1>3, <2>1
  <2>2. CASE e.prefix # Bare BY <2>2 DEF TrustedProxy
  <2> QED BY <2>1, <2>2
<1>5. entry.version = v /\ entry.address = e.address /\ entry.prefix = p BY <1>2
<1> DEFINE a == e.address
           size == 2^(bits - p)
           block == Subnet(v, a, p)
<1>6. PICK l \in Nat : block \subseteq l .. l + size - 1
  <2> HIDE DEF p
  <2> QED BY <1>2, <1>4, BlockIsShort
<1>7. TrustedPeers(entry) = IF v = 4 THEN block
                            ELSE {x \in 0 .. 2^V4Bits - 1 : IPV4_MAPPED_START + x \in block}
  BY <1>5 DEF TrustedPeers
<1>8. size \in Nat \ {0} /\ most \in Nat \ {0}
  <2>1. bits - p \in Nat /\ V4Bits - V4Floor \in Nat BY <1>1, <1>3, <1>4
  <2> DEFINE k == bits - p
             j == V4Bits - V4Floor
  <2>2. k \in Nat /\ j \in Nat BY <2>1
  <2> HIDE DEF k, j
  <2>3. 2^k \in Nat \ {0} /\ 2^j \in Nat \ {0} BY <2>2, PowGrows
  <2> QED BY <2>3 DEF k, j
<1>9. TrustedPeers(entry) = {} \/ bits - p <= V4Bits - V4Floor
  <2>1. CASE e.prefix = Bare BY <1>1, <1>3, <2>1
  <2>2. CASE e.prefix # Bare /\ v = 4 BY <1>1, <2>2 DEF TrustedProxy, BitsOf
  <2>3. CASE e.prefix # Bare /\ v = 6
    <3>1. /\ p = e.prefix /\ bits = V6Bits /\ NarrowerThanIpv4Space(a, p)
      BY <2>3 DEF TrustedProxy, BitsOf
    <3>2. TrustedPeers(entry) = {x \in 0 .. 2^V4Bits - 1 : IPV4_MAPPED_START + x \in Subnet(6, a, p)}
      BY <1>7, <2>3
    <3>3. a \in 0 .. 2^V6Bits - 1 /\ p \in 0 .. V6Bits BY <1>2, <1>4, <3>1
    <3>4. IPV4_MAPPED_PREFIX = V6Bits - V4Bits BY DEF IPV4_MAPPED_PREFIX
    <3> HIDE DEF p, a, bits
    <3>5. CASE p >= IPV4_MAPPED_PREFIX /\ a \in Mapped
      <4>1. p - IPV4_MAPPED_PREFIX >= V4Floor BY <3>1, <3>5 DEF NarrowerThanIpv4Space
      <4> QED BY <1>1, <3>1, <3>3, <3>4, <4>1
    <3>6. CASE p >= IPV4_MAPPED_PREFIX /\ a \notin Mapped
      <4>1. p \in IPV4_MAPPED_PREFIX .. V6Bits BY <1>1, <3>3, <3>4, <3>6
      <4> QED BY <3>2, <3>3, <3>6, <4>1, OutsideReachesNobody
    <3>7. CASE ~(p >= IPV4_MAPPED_PREFIX)
      <4>1. p \in 0 .. IPV4_MAPPED_PREFIX - 1 BY <1>1, <3>3, <3>4, <3>7
      <4>2. IPV4_MAPPED_START \notin Subnet(6, a, p) BY <3>1, <3>7 DEF NarrowerThanIpv4Space
      <4> QED BY <3>2, <3>3, <4>1, <4>2, ShorterReachesNobody
    <3> QED BY <3>5, <3>6, <3>7
  <2> QED BY <1>2, <2>1, <2>2, <2>3
<1>10. CASE TrustedPeers(entry) = {}
  <2>1. Cardinality(TrustedPeers(entry)) = 0 BY <1>10, FS_EmptySet
  <2> HIDE DEF most
  <2>2. 0 <= most BY <1>8
  <2> QED BY <2>1, <2>2 DEF most
<1>11. CASE bits - p <= V4Bits - V4Floor
  <2>1. size <= most
    <3> DEFINE k == bits - p
               j == V4Bits - V4Floor
    <3>1. k \in Nat /\ j \in Nat /\ k <= j BY <1>1, <1>3, <1>4, <1>11
    <3> HIDE DEF k, j
    <3>2. 2^k <= 2^j BY <3>1, PowGrows
    <3> QED BY <3>2 DEF k, j
  <2> HIDE DEF size, most
  <2>2. \E m \in Int : TrustedPeers(entry) \subseteq m .. m + size - 1
    <3>1. CASE v = 4 BY <1>6, <1>7, <3>1
    <3>2. CASE v # 4
      <4>1. IPV4_MAPPED_START \in Nat BY <1>1, PowGrows DEF IPV4_MAPPED_START
      <4>2. 2^V4Bits \in Nat BY <1>1, PowGrows
      <4> DEFINE n == 2^V4Bits
                 S == IPV4_MAPPED_START
      <4>3. n \in Nat /\ S \in Nat BY <4>1, <4>2
      <4>4. TrustedPeers(entry) = {x \in 0 .. n - 1 : S + x \in block} BY <1>7, <3>2
      <4> HIDE DEF n, S, block
      <4>5. ASSUME NEW x \in TrustedPeers(entry) PROVE x \in l - S .. l - S + size - 1
        <5>1. x \in Nat /\ S + x \in l .. l + size - 1 BY <1>6, <4>3, <4>4, <4>5
        <5> QED BY <1>8, <4>3, <5>1
      <4> QED BY <4>3, <4>5
    <3> QED BY <3>1, <3>2
  <2>3. PICK m \in Int : TrustedPeers(entry) \in SUBSET (m .. m + size - 1) BY <2>2
  <2>4. /\ Cardinality(TrustedPeers(entry)) \in Nat
        /\ Cardinality(TrustedPeers(entry)) <= size
    BY <1>8, <2>3, CountOfPart
  <2>5. Cardinality(TrustedPeers(entry)) <= most BY <1>8, <2>1, <2>4
  <2> QED BY <2>5 DEF most
<1> QED BY <1>9, <1>10, <1>11


\* What an operator can write is legal.
LEMMA WritableIsLegal ==
    ASSUME NEW part \in DOMAIN Writable, NEW name \in DOMAIN Writable[part], name \in DOMAIN Legal,
           NEW value \in Writable[part][name]
    PROVE  value \in Legal[name]
<1>1. DOMAIN Writable = {"proxies", "secrets", "surface", "numbers", "destinations"} BY DEF Writable
<1>2. DOMAIN Legal = {"TRUST_PROXY_CIDRS", "WEBHOOK_DESTINATION_ALLOWLIST", "WEBHOOK_DESTINATION_DENYLIST",
                      "JWT_SECRET", "WEBHOOK_ENCRYPTION_KEY"}
  BY DEF Legal
<1>3. CASE part = "proxies"
  <2>1. name = "TRUST_PROXY_CIDRS" BY <1>2, <1>3 DEF Writable
  <2> QED BY <1>3, <2>1 DEF Writable, Legal
<1>4. CASE part = "secrets"
  <2>1. name \in {"JWT_SECRET", "WEBHOOK_ENCRYPTION_KEY"} BY <1>2, <1>4 DEF Writable
  <2>2. /\ Writable["secrets"]["JWT_SECRET"] = {NONE, "short", "long"}
        /\ Writable["secrets"]["WEBHOOK_ENCRYPTION_KEY"] = {NONE, "short", "32 bytes"}
    BY DEF Writable
  <2>3. /\ Legal["JWT_SECRET"] = {NONE, "short", "long"}
        /\ Legal["WEBHOOK_ENCRYPTION_KEY"] = {NONE, "short", "32 bytes"}
    BY DEF Legal
  <2> QED BY <1>4, <2>1, <2>2, <2>3
<1>5. CASE part = "surface" BY <1>2, <1>5 DEF Writable
<1>6. CASE part = "numbers" BY <1>2, <1>6 DEF Writable, Numbers
<1>7. CASE part = "destinations"
  <2>1. name \in {"WEBHOOK_DESTINATION_ALLOWLIST", "WEBHOOK_DESTINATION_DENYLIST"}
    BY <1>2, <1>7 DEF Writable
  <2>2. /\ Writable["destinations"]["WEBHOOK_DESTINATION_ALLOWLIST"] = {{}} \cup {{host} : host \in HostTexts}
        /\ Writable["destinations"]["WEBHOOK_DESTINATION_DENYLIST"] = {{}} \cup {{host} : host \in HostTexts}
    BY DEF Writable
  <2>3. /\ Legal["WEBHOOK_DESTINATION_ALLOWLIST"] = SUBSET HostTexts
        /\ Legal["WEBHOOK_DESTINATION_DENYLIST"] = SUBSET HostTexts
    BY DEF Legal
  <2> QED BY <1>7, <2>1, <2>2, <2>3
<1> QED BY <1>1, <1>3, <1>4, <1>5, <1>6, <1>7

\* Both environments a behaviour begins with are legal, and have every name.
LEMMA BeginsLegal ==
    /\ Environment(Deployment) /\ Environment(UnitSuite)
    /\ DOMAIN Deployment = DOMAIN Silent /\ DOMAIN UnitSuite = DOMAIN Silent
<1> DEFINE names == UNION {DOMAIN Writable[part] : part \in DOMAIN Writable}
           blank == [name \in names |->
                        IF name \in DOMAIN Writable.destinations \cup {"TRUST_PROXY_CIDRS"} THEN {} ELSE NONE]
<1>1. Silent = blank BY DEF Silent
<1>2. {"proxies", "secrets", "destinations"} \subseteq DOMAIN Writable BY DEF Writable
<1>3. /\ "TRUST_PROXY_CIDRS" \in DOMAIN Writable["proxies"]
      /\ {"JWT_SECRET", "WEBHOOK_ENCRYPTION_KEY", "NODE_ENV", "DATABASE_URL",
          "WEBHOOK_ALLOW_INSECURE_TEST_KEY"} \subseteq DOMAIN Writable["secrets"]
      /\ DOMAIN Writable["destinations"] = {"WEBHOOK_DESTINATION_ALLOWLIST", "WEBHOOK_DESTINATION_DENYLIST"}
  BY DEF Writable
<1>4. Writable.destinations = Writable["destinations"] OBVIOUS
<1>5. DOMAIN Silent = names BY <1>1
<1> HIDE DEF Writable
<1>6. {"TRUST_PROXY_CIDRS", "JWT_SECRET", "WEBHOOK_ENCRYPTION_KEY", "NODE_ENV", "DATABASE_URL",
       "WEBHOOK_ALLOW_INSECURE_TEST_KEY", "WEBHOOK_DESTINATION_ALLOWLIST",
       "WEBHOOK_DESTINATION_DENYLIST"} \subseteq names
  BY <1>2, <1>3
<1>7. /\ Silent["TRUST_PROXY_CIDRS"] = {} /\ Silent["WEBHOOK_DESTINATION_ALLOWLIST"] = {}
      /\ Silent["WEBHOOK_DESTINATION_DENYLIST"] = {}
      /\ Silent["JWT_SECRET"] = NONE /\ Silent["WEBHOOK_ENCRYPTION_KEY"] = NONE
  BY <1>1, <1>3, <1>4, <1>6
<1> HIDE DEF names, blank
<1>8. /\ DOMAIN Legal = {"TRUST_PROXY_CIDRS", "WEBHOOK_DESTINATION_ALLOWLIST", "WEBHOOK_DESTINATION_DENYLIST",
                         "JWT_SECRET", "WEBHOOK_ENCRYPTION_KEY"}
      /\ {} \in Legal["TRUST_PROXY_CIDRS"] /\ {} \in Legal["WEBHOOK_DESTINATION_ALLOWLIST"]
      /\ {} \in Legal["WEBHOOK_DESTINATION_DENYLIST"]
      /\ {NONE, "long"} \subseteq Legal["JWT_SECRET"]
      /\ {NONE, "32 bytes"} \subseteq Legal["WEBHOOK_ENCRYPTION_KEY"]
  BY DEF Legal
<1>9. /\ DOMAIN Deployment = names /\ Deployment["JWT_SECRET"] = "long"
      /\ Deployment["WEBHOOK_ENCRYPTION_KEY"] = "32 bytes"
      /\ \A name \in {"TRUST_PROXY_CIDRS", "WEBHOOK_DESTINATION_ALLOWLIST", "WEBHOOK_DESTINATION_DENYLIST"} :
             Deployment[name] = Silent[name]
  BY <1>5, <1>6 DEF Deployment
<1>10. /\ DOMAIN UnitSuite = names
       /\ \A name \in {"TRUST_PROXY_CIDRS", "WEBHOOK_DESTINATION_ALLOWLIST", "WEBHOOK_DESTINATION_DENYLIST",
                       "JWT_SECRET", "WEBHOOK_ENCRYPTION_KEY"} :
              UnitSuite[name] = Silent[name]
  BY <1>5, <1>6 DEF UnitSuite
<1>11. Environment(Deployment) BY <1>6, <1>7, <1>8, <1>9 DEF Environment
<1>12. Environment(UnitSuite) BY <1>6, <1>7, <1>8, <1>10 DEF Environment
<1> QED BY <1>5, <1>9, <1>10, <1>11, <1>12

\* The hosts of the model are host texts, and their canonical form is canonical.
LEMMA HostsAreTexts ==
    /\ HostTexts \subseteq HostText /\ HostsInUrls \subseteq HostText
    /\ \A host \in HostText : /\ Canonical(canonicalizeWebhookHost(host))
                              /\ canonicalizeWebhookHost(host).name = host.name
<1>1. HostTexts \subseteq HostText
  <2>1. \A name \in {"v6", "name"}, bracketed \in BOOLEAN, dot \in BOOLEAN :
            Spelled(name, bracketed, dot) \in HostText
    BY DEF HostText, Spelled
  <2> QED BY <2>1 DEF HostTexts
<1>2. ASSUME NEW host \in HostText
      PROVE  /\ Canonical(canonicalizeWebhookHost(host))
             /\ canonicalizeWebhookHost(host).name = host.name
  BY DEF HostText, Canonical, canonicalizeWebhookHost
<1> QED BY <1>1, <1>2 DEF HostsInUrls

\* What loads gives nothing away, and its host lists are canonical.
LEMMA LoadedIsSafe ==
    ASSUME NEW env, Environment(env), Loads(env), NEW c, c = loadConfiguration(env)
    PROVE  /\ GivesNothingAway(c)
           /\ \A host \in c.allowlist \cup c.denylist : Canonical(host)
<1>1. /\ env.TRUST_PROXY_CIDRS \subseteq Entries
      /\ env.WEBHOOK_DESTINATION_ALLOWLIST \subseteq HostTexts
      /\ env.WEBHOOK_DESTINATION_DENYLIST \subseteq HostTexts
      /\ env.JWT_SECRET \in {NONE, "short", "long"}
      /\ env.WEBHOOK_ENCRYPTION_KEY \in {NONE, "short", "32 bytes"}
  BY DEF Environment, Legal
<1>2. /\ c.nodeEnv = Given(env, "NODE_ENV", "development")
      /\ c.databaseUrl = Given(env, "DATABASE_URL", "localhost")
      /\ c.jwt = resolveJwtSecret(env) /\ c.secretKey = resolveWebhookEncryptionKey(env)
      /\ c.hops = parseInt(env, "TRUST_PROXY_HOPS")
      /\ c.proxies = parseTrustedProxyCidrs(env.TRUST_PROXY_CIDRS)
      /\ c.allowlist = parseHostList(env.WEBHOOK_DESTINATION_ALLOWLIST)
      /\ c.denylist = parseHostList(env.WEBHOOK_DESTINATION_DENYLIST)
  BY DEF loadConfiguration
<1>3. RateLimitLoads(env) /\ JwtResolves(env) /\ EncryptionKeyResolves(env) BY DEF Loads
<1>4. ASSUME NEW entry \in c.proxies PROVE Cardinality(TrustedPeers(entry)) <= 2^(V4Bits - V4Floor)
  <2>1. PICK e \in env.TRUST_PROXY_CIDRS :
            entry = [e EXCEPT !.prefix = IF @ = Bare THEN BitsOf(e.version) ELSE @]
    BY <1>2, <1>4 DEF parseTrustedProxyCidrs
  <2>2. e \in Entries /\ TrustedProxy(e) BY <1>1, <1>3 DEF RateLimitLoads
  <2> QED BY <2>1, <2>2, TrustedEntryIsNarrow
<1>5. c.hops > 0 => c.proxies # {}
  <2>1. c.hops > 0 => env.TRUST_PROXY_CIDRS # {} BY <1>2, <1>3 DEF RateLimitLoads
  <2>2. env.TRUST_PROXY_CIDRS # {} => c.proxies # {} BY <1>2 DEF parseTrustedProxyCidrs
  <2> QED BY <2>1, <2>2
<1>6. c.jwt = "published" => c.nodeEnv = "test"
  <2> SUFFICES ASSUME c.jwt = "published" PROVE c.nodeEnv = "test" OBVIOUS
  <2>1. NONE # "long" /\ NONE # "test" BY ConfigurationAssumption
  <2>2. env["JWT_SECRET"] = NONE BY <1>1, <1>2 DEF resolveJwtSecret, Given
  <2>3. env["NODE_ENV"] = "test" BY <1>3, <2>1, <2>2 DEF JwtResolves
  <2> QED BY <1>2, <2>1, <2>3 DEF Given
<1>7. c.secretKey = "published" => c.databaseUrl = "localhost"
  <2> SUFFICES ASSUME c.secretKey = "published" PROVE c.databaseUrl = "localhost" OBVIOUS
  <2>1. NONE # "32 bytes" BY ConfigurationAssumption
  <2>2. env["WEBHOOK_ENCRYPTION_KEY"] = NONE BY <1>1, <1>2 DEF resolveWebhookEncryptionKey, Given
  <2>3. env["DATABASE_URL"] = NONE
    BY <1>3, <2>1, <2>2 DEF EncryptionKeyResolves, AllowsInsecureTestKey
  <2> QED BY <1>2, <2>3 DEF Given
<1>8. ASSUME NEW host \in c.allowlist \cup c.denylist PROVE Canonical(host)
  <2>1. \E text \in HostTexts : host = canonicalizeWebhookHost(text)
    BY <1>1, <1>2, <1>8 DEF parseHostList
  <2> QED BY <2>1, HostsAreTexts
<1> QED BY <1>4, <1>5, <1>6, <1>7, <1>8 DEF GivesNothingAway

\* The invariant holds at the start and every step keeps it.
LEMMA ConfigurationInvariance == ConfigurationSpec => []ConfigurationInv
<1>1. ConfigurationInit => ConfigurationInv
  <2> SUFFICES ASSUME ConfigurationInit PROVE ConfigurationInv OBVIOUS
  <2>1. Environment(environ) /\ DOMAIN environ = DOMAIN Silent BY BeginsLegal DEF ConfigurationInit
  <2>2. config = [daemon \in Daemons |-> NONE] /\ contacted = {} BY DEF ConfigurationInit
  <2>3. ConfigurationTypeOK
    <3>1. MaxEdits \in Nat BY ConfigurationAssumption, Zenon
    <3>2. edits \in 0 .. MaxEdits BY <3>1 DEF ConfigurationInit
    <3> QED BY <2>1, <2>2, <3>2 DEF ConfigurationInit, ConfigurationTypeOK
  <2> QED BY <2>1, <2>2, <2>3 DEF ConfigurationInv
<1>2. ConfigurationInv /\ [ConfigurationNext]_configurationVars => ConfigurationInv'
  <2> SUFFICES ASSUME ConfigurationInv, [ConfigurationNext]_configurationVars
               PROVE  ConfigurationInv'
    OBVIOUS
  <2>0. ConfigurationTypeOK /\ Environment(environ) BY DEF ConfigurationInv
  <2>1. CASE Edit
    <3>0. PICK name \in DOMAIN Writable[concern] : \E value \in Writable[concern][name] :
              environ' = [environ EXCEPT ![name] = value]
      BY <2>1 DEF Edit
    <3>1. PICK value \in Writable[concern][name] : environ' = [environ EXCEPT ![name] = value] BY <3>0
    <3>2. UNCHANGED <<concern, config, endpointHost, contacted>> /\ edits' = edits + 1 /\ edits < MaxEdits
      BY <2>1 DEF Edit
    <3>3. concern \in DOMAIN Writable /\ DOMAIN environ' = DOMAIN Silent
      BY <2>0, <3>1 DEF ConfigurationTypeOK
    <3>4. Environment(environ')
      <4> SUFFICES ASSUME NEW n \in DOMAIN Legal
                   PROVE  n \in DOMAIN environ' /\ environ'[n] \in Legal[n]
        BY DEF Environment
      <4>1. n \in DOMAIN environ /\ environ[n] \in Legal[n] BY <2>0 DEF Environment
      <4>2. CASE n = name
        <5>1. value \in Legal[n] BY <3>3, <4>2, WritableIsLegal
        <5> QED BY <3>1, <4>1, <4>2, <5>1
      <4>3. CASE n # name BY <3>1, <4>1, <4>3
      <4> QED BY <4>2, <4>3
    <3>5. edits' \in 0 .. MaxEdits
      <4>1. MaxEdits \in Nat BY ConfigurationAssumption, Zenon
      <4> QED BY <2>0, <3>2, <4>1 DEF ConfigurationTypeOK
    <3>6. ConfigurationTypeOK' BY <2>0, <3>2, <3>3, <3>5 DEF ConfigurationTypeOK
    <3> QED BY <3>2, <3>4, <3>6 DEF ConfigurationInv
  <2>2. ASSUME NEW daemon \in Daemons, Boot(daemon) PROVE ConfigurationInv'
    <3> DEFINE c == IF Loads(environ) THEN loadConfiguration(environ) ELSE NONE
    <3>1. /\ config' = [config EXCEPT ![daemon] = c]
          /\ contacted' = IF daemon = "worker" THEN {} ELSE contacted
          /\ UNCHANGED <<concern, environ, edits, endpointHost>>
      BY <2>2 DEF Boot
    <3>2. c # NONE => GivesNothingAway(c) /\ \A host \in c.allowlist \cup c.denylist : Canonical(host)
      BY <2>0, LoadedIsSafe
    <3> HIDE DEF c
    <3>3. DOMAIN config = Daemons BY <2>0 DEF ConfigurationTypeOK
    <3>4. config'[daemon] = c /\ \A other \in Daemons \ {daemon} : config'[other] = config[other]
      BY <3>1, <3>3
    <3>5. "worker" \in Daemons BY DEF Daemons
    <3>6. ConfigurationTypeOK'
      BY <2>0, <3>1, <3>3, <3>4, <3>5 DEF ConfigurationTypeOK
    <3>7. ASSUME NEW other \in Daemons, config'[other] # NONE
          PROVE  /\ GivesNothingAway(config'[other])
                 /\ \A host \in config'[other].allowlist \cup config'[other].denylist : Canonical(host)
      <4>1. CASE other = daemon BY <3>2, <3>4, <3>7, <4>1
      <4>2. CASE other # daemon BY <3>4, <3>7, <4>2 DEF ConfigurationInv
      <4> QED BY <4>1, <4>2
    <3>8. ASSUME NEW host \in contacted'
          PROVE  config'["worker"] # NONE /\ DestinationAllowed(host, config'["worker"])
      <4>1. daemon # "worker" /\ host \in contacted BY <3>1, <3>8
      <4> QED BY <3>4, <3>5, <4>1 DEF ConfigurationInv
    <3> QED BY <2>0, <3>1, <3>6, <3>7, <3>8 DEF ConfigurationInv
  <2>3. CASE RegisterEndpoint
    <3>1. endpointHost' \in HostsInUrls /\ UNCHANGED <<concern, environ, edits, config, contacted>>
      BY <2>3 DEF RegisterEndpoint
    <3>2. ConfigurationTypeOK' BY <2>0, <3>1 DEF ConfigurationTypeOK
    <3> QED BY <2>0, <3>1, <3>2 DEF ConfigurationInv
  <2>4. CASE Contact
    <3>1. /\ config["worker"] # NONE /\ endpointHost # NONE
          /\ DestinationAllowed(endpointHost, config["worker"])
          /\ contacted' = contacted \cup {endpointHost}
          /\ UNCHANGED <<concern, environ, edits, config, endpointHost>>
      BY <2>4 DEF Contact, MayContact
    <3>2. ConfigurationTypeOK' BY <2>0, <3>1 DEF ConfigurationTypeOK
    <3> QED BY <2>0, <3>1, <3>2 DEF ConfigurationInv
  <2>5. CASE UNCHANGED configurationVars
    <3>1. UNCHANGED <<concern, environ, edits, config, endpointHost, contacted>>
      BY <2>5 DEF configurationVars
    <3>2. ConfigurationTypeOK' BY <2>0, <3>1 DEF ConfigurationTypeOK
    <3> QED BY <2>0, <3>1, <3>2 DEF ConfigurationInv
  <2> QED BY <2>5, <2>1, <2>2, <2>3, <2>4 DEF ConfigurationNext
<1> QED BY <1>1, <1>2, PTL DEF ConfigurationSpec

\* Type correctness of the environment and of what the processes loaded from it.
THEOREM ConfigurationTypesOk == ConfigurationSpec => []ConfigurationTypeOK
<1>1. ConfigurationInv => ConfigurationTypeOK BY DEF ConfigurationInv
<1> QED BY <1>1, ConfigurationInvariance, PTL

\* No process runs on an environment that trusts too many peers or a published secret; for
\* addresses of 32 and 128 bits as for any others.
THEOREM NothingUnsafeBoots == ConfigurationSpec => []BootedIsSafe
<1>1. ConfigurationInv => BootedIsSafe BY DEF ConfigurationInv, BootedIsSafe
<1> QED BY <1>1, ConfigurationInvariance, PTL

\* The worker reaches only hosts its own lists permit, however they are spelled.
THEOREM ContactsAreAllowed == ConfigurationSpec => []ReachesOnlyAllowed
<1>1. ConfigurationInv => ReachesOnlyAllowed
  <2> SUFFICES ASSUME ConfigurationInv, NEW host \in contacted
               PROVE  LET names(list) == {listed.name : listed \in list} IN
                      IF config["worker"].allowlist # {}
                      THEN host.name \in names(config["worker"].allowlist)
                      ELSE host.name \notin names(config["worker"].denylist)
    BY DEF ReachesOnlyAllowed
  <2>1. PICK policy : policy = config["worker"] OBVIOUS
  <2>2. /\ DestinationAllowed(host, policy)
        /\ \A listed \in policy.allowlist \cup policy.denylist : Canonical(listed)
    BY <2>1 DEF ConfigurationInv, Daemons
  <2>3. host \in HostText BY HostsAreTexts DEF ConfigurationInv, ConfigurationTypeOK
  <2> DEFINE exact == canonicalizeWebhookHost(host)
  <2>4. Canonical(exact) /\ exact.name = host.name BY <2>3, HostsAreTexts
  <2>5. CASE policy.allowlist # {}
    <3>1. exact \in policy.allowlist BY <2>2, <2>5 DEF DestinationAllowed
    <3> QED BY <2>1, <2>4, <2>5, <3>1
  <2>6. CASE policy.allowlist = {}
    <3>1. exact \notin policy.denylist BY <2>2, <2>6 DEF DestinationAllowed
    <3> HIDE DEF exact
    <3>2. ASSUME NEW listed \in policy.denylist, listed.name = host.name PROVE FALSE
      <4>1. listed = exact BY <2>2, <2>4, <3>2 DEF Canonical, HostText
      <4> QED BY <3>1, <4>1
    <3> QED BY <2>1, <2>6, <3>2
  <2> QED BY <2>5, <2>6
<1> QED BY <1>1, ConfigurationInvariance, PTL


(***************************************************************************)
(* The load test: labels follow one another in the order of the run, and   *)
(* the steps done come before those left.                                  *)
(***************************************************************************)


Sample == [no : Nat \ {0}, phase : Labels \cup {"baseline"}, open : {0, 1, NONE}]
Preparing == {"preflight", "reset", "up", "receiver", "migrate", "worker", "seed", "quiet"}
InCatalog == {"next", "k6", "polling", "pause", "last"}

LoadTypes ==
    /\ point \in Preparing \cup {"baseline"} \cup InCatalog \cup {"ended"}
    /\ backlog \in {0, 1} /\ shots \in Nat /\ awaited \in 0 .. shots
    /\ todo \subseteq steps
    /\ samples \in Seq(Sample) /\ aloft \subseteq Sample
    /\ report.scenarios \in Seq([id : Labels]) /\ report.settles \in Seq([id : Labels, by : Sample])
    /\ DOMAIN report = {"scenarios", "settles", "baseline"}

Taken == aloft \cup {samples[i] : i \in DOMAIN samples}

\* No sample is under the label of a later step than an older one, nor than the present one;
\* the one that main() waits for is of the present step.
SamplesInv ==
    /\ shots > 0 => currentPhase \in Labels \cup {"baseline"}
    /\ \A s \in Taken : s.no <= shots /\ Place(s.phase) <= Place(currentPhase)
    /\ \A s, t \in Taken : s.no < t.no => Place(s.phase) <= Place(t.phase)
    /\ \A s \in aloft : s.no = awaited => s.phase = currentPhase

\* What main() has done where it waits.
PointInv ==
    /\ point \in Preparing => /\ shots = 0 /\ todo = {}
                              /\ report.scenarios = <<>> /\ report.settles = <<>>
    /\ point = "baseline" => /\ currentPhase = "baseline" /\ todo = {}
                             /\ report.scenarios = <<>> /\ report.settles = <<>>
    /\ point \in InCatalog => shots > 0
    /\ point = "next" => \A i \in todo : Place(currentPhase) < i
    /\ point \in {"k6", "polling", "pause"} => todo # {} /\ currentPhase = step.id
    /\ point \in {"next", "k6", "pause"} => awaited = 0
    /\ point = "k6" => IsScenario(step)
    /\ point \in {"polling", "pause"} => IsSettle(step)
    /\ point = "last" => todo = {} /\ awaited = shots /\ ~sampler
    /\ point # "ended" => manifest = NONE

\* The report tells of the steps that are done, and those come before the others.
Reported(scenarios, settles, done) ==
    /\ InOrder(scenarios, {i \in done : IsScenario(CATALOG[i])})
    /\ InOrder(settles, {i \in done : IsSettle(CATALOG[i])})
    /\ \A i \in DOMAIN settles : settles[i].by.phase = settles[i].id /\ settles[i].by.open = 0

DoneInv ==
    point \in InCatalog =>
        /\ \A i \in steps \ todo, j \in todo : i < j
        /\ Reported(report.scenarios, report.settles, steps \ todo)

LoadInv == LoadTypes /\ SamplesInv /\ PointInv /\ DoneInv /\ ManifestOfOneRun

\* A label has its place in the catalog, after the baseline.
LEMMA Places ==
    /\ \A i \in DOMAIN CATALOG :
           /\ i \in Nat \ {0} /\ CATALOG[i].id \in Labels /\ Place(CATALOG[i].id) = i
           /\ CATALOG[i].phase \in {"scenario", "settle"}
    /\ Place("baseline") = 0
    /\ \A l \in Labels \cup {"baseline"} : Place(l) \in Nat
<1>1. ASSUME NEW i \in DOMAIN CATALOG
      PROVE  /\ i \in Nat \ {0} /\ CATALOG[i].id \in Labels /\ Place(CATALOG[i].id) = i
             /\ CATALOG[i].phase \in {"scenario", "settle"}
  <2> DEFINE Step == [phase : {"scenario", "settle"}, id : Labels]
  <2>. CATALOG \in Seq(Step)
    BY CatalogAssumption
  <2> HIDE DEF Step
  <2>0. i \in Nat \ {0} /\ CATALOG[i] \in Step
    OBVIOUS
  <2>1. i \in Nat \ {0} /\ CATALOG[i] \in [phase : {"scenario", "settle"}, id : Labels]
    BY <2>0 DEF Step
  <2>2. CATALOG[i].id # "baseline"
    BY <2>1, CatalogAssumption
  <2>3. \A j \in DOMAIN CATALOG : CATALOG[j].id = CATALOG[i].id => j = i
    BY CatalogAssumption
  <2>4. Place(CATALOG[i].id) = i
    BY <2>2, <2>3 DEF Place
  <2> QED BY <2>1, <2>4
<1>2. Place("baseline") = 0
  BY DEF Place
<1>3. \A l \in Labels : \E i \in DOMAIN CATALOG : l = CATALOG[i].id
  BY DEF Labels
<1> QED BY <1>1, <1>2, <1>3

\* The loop is at the first of the steps that are left.
LEMMA FirstStep ==
    ASSUME todo \subseteq steps, todo # {}
    PROVE  /\ Min(todo) \in todo /\ Min(todo) \in DOMAIN CATALOG /\ \A j \in todo : Min(todo) <= j
           /\ step = CATALOG[Min(todo)] /\ step.id \in Labels /\ Place(step.id) = Min(todo)
<1>1. steps \subseteq DOMAIN CATALOG /\ DOMAIN CATALOG \subseteq Nat
  BY Places DEF steps
<1>2. \E n \in todo : \A m \in todo : n <= m
  BY <1>1, LeastOfNaturals
<1>3. Min(todo) \in todo /\ \A j \in todo : Min(todo) <= j
  BY <1>2 DEF Min
<1> QED BY <1>1, <1>3, Places DEF step

\* A sample is begun under the present label.
LEMMA TakingKeeps ==
    ASSUME LoadTypes, SamplesInv, NEW mine \in BOOLEAN, takeSample(mine), UNCHANGED <<samples, backlog>>,
           currentPhase' \in Labels \cup {"baseline"},
           shots > 0 => Place(currentPhase) <= Place(currentPhase'),
           ~mine => currentPhase' = currentPhase
    PROVE  /\ SamplesInv' /\ aloft' \subseteq Sample /\ shots' \in Nat /\ shots' = shots + 1
           /\ awaited' \in 0 .. shots' /\ (mine => awaited' = shots') /\ (~mine => awaited' = awaited)
<1>1. /\ shots' = shots + 1 /\ shots \in Nat /\ awaited' = IF mine THEN shots + 1 ELSE awaited
      /\ awaited \in 0 .. shots
  BY DEF takeSample, LoadTypes
<1>2. PICK open_ \in {0, 1, NONE} :
        aloft' = aloft \cup {[no |-> shots + 1, phase |-> currentPhase', open |-> open_]}
  BY DEF takeSample, Snapshot, LoadTypes
<1>3. PICK new \in Sample : /\ aloft' = aloft \cup {new}
                            /\ new.no = shots + 1 /\ new.phase = currentPhase'
  <2> DEFINE x == [no |-> shots + 1, phase |-> currentPhase', open |-> open_]
  <2>1. x \in Sample /\ x.no = shots + 1 /\ x.phase = currentPhase'
    BY <1>1 DEF Sample
  <2> QED BY <1>2, <2>1
<1>4. \A s \in Taken : s \in Sample /\ s.no \in Nat /\ s.no <= shots /\ shots > 0
                       /\ Place(s.phase) <= Place(currentPhase') /\ Place(s.phase) \in Nat
  <2> SUFFICES ASSUME NEW s \in Taken
               PROVE  s \in Sample /\ s.no \in Nat /\ s.no <= shots /\ shots > 0
                      /\ Place(s.phase) <= Place(currentPhase') /\ Place(s.phase) \in Nat
    OBVIOUS
  <2>1. s \in Sample
    BY DEF Taken, LoadTypes
  <2>2. s.no \in Nat \ {0} /\ s.no <= shots /\ Place(s.phase) <= Place(currentPhase)
    BY <2>1 DEF SamplesInv, Sample
  <2>3. shots > 0 /\ currentPhase \in Labels \cup {"baseline"} /\ s.phase \in Labels \cup {"baseline"}
    BY <1>1, <2>1, <2>2 DEF SamplesInv, Sample
  <2>4. Place(s.phase) \in Nat /\ Place(currentPhase) \in Nat /\ Place(currentPhase') \in Nat
    BY <2>3, Places
  <2> QED BY <2>1, <2>2, <2>3, <2>4
<1>5. Taken' = Taken \cup {new}
  BY <1>3 DEF Taken
<1>6. Place(currentPhase') \in Nat
  BY Places
<1>7. \A s \in Taken' : s.no <= shots' /\ Place(s.phase) <= Place(currentPhase)'
  BY <1>1, <1>3, <1>4, <1>5, <1>6
<1>8. \A s, t \in Taken' : s.no < t.no => Place(s.phase) <= Place(t.phase)
  BY <1>1, <1>3, <1>4, <1>5, <1>6 DEF SamplesInv
<1>9. \A s \in aloft' : s.no = awaited' => s.phase = currentPhase'
  <2>1. \A s \in aloft : s \in Taken
    BY DEF Taken
  <2> QED BY <1>1, <1>3, <1>4, <2>1 DEF SamplesInv
<1> QED BY <1>1, <1>3, <1>7, <1>8, <1>9 DEF SamplesInv, LoadTypes

\* A sample comes in.
LEMMA LandingKeeps ==
    ASSUME LoadTypes, SamplesInv, NEW s, Pushed(s), UNCHANGED <<shots, currentPhase>>,
           awaited' \in {0, awaited}
    PROVE  /\ SamplesInv' /\ aloft' \subseteq Sample /\ samples' \in Seq(Sample) /\ Last(samples') = s
           /\ awaited' \in 0 .. shots' /\ s \in Sample
<1>1. s \in aloft /\ s \in Sample /\ samples' = Append(samples, s) /\ aloft' = aloft \ {s}
  BY DEF Pushed, LoadTypes
<1>2. samples \in Seq(Sample)
  BY DEF LoadTypes
<1>3. /\ samples' \in Seq(Sample) /\ Len(samples') = Len(samples) + 1
      /\ \A i \in 1 .. Len(samples) : samples'[i] = samples[i]
      /\ samples'[Len(samples) + 1] = s
  BY <1>1, <1>2, AppendProperties
<1>4. Taken' \subseteq Taken
  BY <1>1, <1>2, <1>3 DEF Taken
<1>5. \A t \in aloft' : t.no \in Nat \ {0} /\ t \in aloft
  BY <1>1 DEF LoadTypes, Sample
<1>6. SamplesInv'
  BY <1>4, <1>5 DEF SamplesInv
<1> QED BY <1>1, <1>3, <1>6 DEF Last, LoadTypes

\* A result of a later step continues the results.
LEMMA OrderGrows ==
    ASSUME NEW R, NEW results \in Seq(R), NEW positions, InOrder(results, positions), NEW e \in R,
           NEW k \in Nat, Place(e.id) = k, \A i \in positions : i \in Nat /\ i < k
    PROVE  Append(results, e) \in Seq(R) /\ InOrder(Append(results, e), positions \cup {k})
<1> DEFINE t == Append(results, e)
<1>1. /\ t \in Seq(R) /\ Len(t) = Len(results) + 1 /\ t[Len(results) + 1] = e
      /\ \A i \in 1 .. Len(results) : t[i] = results[i]
  BY AppendProperties
<1>2. DOMAIN t = 1 .. Len(results) + 1 /\ DOMAIN results = 1 .. Len(results) /\ Len(results) \in Nat
  BY <1>1
<1> HIDE DEF t
<1>3. \A i \in 1 .. Len(results) : Place(results[i].id) \in positions
  BY <1>2 DEF InOrder
<1>4. {Place(t[i].id) : i \in DOMAIN t} = positions \cup {k}
  <2>1. positions = {Place(results[i].id) : i \in 1 .. Len(results)}
    BY <1>2 DEF InOrder
  <2> QED BY <1>1, <1>2, <2>1
<1>5. ASSUME NEW i \in DOMAIN t, NEW j \in DOMAIN t, i < j
      PROVE  Place(t[i].id) < Place(t[j].id)
  <2>1. CASE j = Len(results) + 1
    BY <1>1, <1>2, <1>3, <1>5, <2>1
  <2>2. CASE j # Len(results) + 1
    BY <1>1, <1>2, <1>5, <2>2 DEF InOrder
  <2> QED BY <2>1, <2>2
<1> QED BY <1>1, <1>4, <1>5 DEF InOrder, t

\* The run begins with nothing selected, sampled or reported.
LEMMA LoadInitially == LoadInit => LoadInv
<1> SUFFICES ASSUME LoadInit PROVE LoadInv
  OBVIOUS
<1>1. /\ point = "preflight" /\ shots = 0 /\ awaited = 0 /\ todo = {} /\ backlog = 0 /\ manifest = NONE
      /\ aloft = {} /\ samples = <<>> /\ report = [scenarios |-> <<>>, settles |-> <<>>, baseline |-> NONE]
  BY DEF LoadInit
<1>2. report.scenarios = <<>> /\ report.settles = <<>> /\ DOMAIN report = {"scenarios", "settles", "baseline"}
  BY <1>1
<1>3. LoadTypes
  BY <1>1, <1>2 DEF LoadTypes, Preparing
<1>4. Taken = {}
  BY <1>1 DEF Taken
<1>5. SamplesInv
  BY <1>1, <1>4 DEF SamplesInv
<1>6. PointInv
  BY <1>1, <1>2 DEF PointInv, InCatalog
<1>7. DoneInv /\ ManifestOfOneRun
  BY <1>1 DEF DoneInv, InCatalog, ManifestOfOneRun
<1> QED BY <1>3, <1>5, <1>6, <1>7 DEF LoadInv

\* A step that leaves samples, steps and report alone.
LEMMA OutsideKeeps ==
    ASSUME LoadInv, UNCHANGED <<asked, todo, currentPhase, sampler, shots, aloft, awaited, samples, report, manifest>>,
           backlog' \in {0, 1}, point # "ended",
           \/ point' = point
           \/ point \in Preparing /\ point' \in Preparing
           \/ point' = "ended"
    PROVE  LoadInv'
<1>1. LoadTypes'
  BY DEF LoadInv, LoadTypes, steps
<1>2. SamplesInv'
  BY DEF LoadInv, SamplesInv, Taken
<1>3. PointInv'
  BY DEF LoadInv, PointInv, step, Preparing, InCatalog
<1>4. DoneInv'
  BY DEF LoadInv, DoneInv, steps, Preparing, InCatalog
<1>5. manifest = NONE
  BY DEF LoadInv, PointInv
<1> QED BY <1>1, <1>2, <1>3, <1>4, <1>5 DEF LoadInv, ManifestOfOneRun

\* What runs before the catalog, what fails, and the traffic itself touch no sample and no report.
LEMMA PreparationKeeps ==
    ASSUME LoadInv,
           \/ ensurePreflight \/ composeDown \/ composeUp \/ startReceiver \/ migrate
           \/ composeUpWorker \/ seed \/ PreparationFails \/ KeyMissing \/ SettleTimesOut
           \/ Traffic \/ Sweep
    PROVE  LoadInv'
<1>1. backlog \in {0, 1} /\ 0 .. 1 = {0, 1}
  BY DEF LoadInv, LoadTypes
<1>2. CASE ensurePreflight \/ composeDown \/ composeUp \/ startReceiver \/ migrate \/ composeUpWorker \/ seed
  <2>1. /\ UNCHANGED <<asked, samplingVars>> /\ backlog' \in {0, 1}
        /\ point \in Preparing /\ point' \in Preparing /\ point # "ended"
    BY <1>1, <1>2 DEF ensurePreflight, composeDown, composeUp, startReceiver, migrate, composeUpWorker, seed,
       Onward, Preparing
  <2> QED BY <2>1, OutsideKeeps DEF samplingVars
<1>3. CASE PreparationFails \/ KeyMissing \/ SettleTimesOut
  <2>1. UNCHANGED <<asked, samplingVars>> /\ backlog' \in {0, 1} /\ point' = "ended" /\ point # "ended"
    BY <1>1, <1>3 DEF PreparationFails, KeyMissing, SettleTimesOut, failRun
  <2> QED BY <2>1, OutsideKeeps DEF samplingVars
<1>4. CASE Traffic \/ Sweep
  <2>1. UNCHANGED <<asked, samplingVars>> /\ backlog' \in {0, 1} /\ point' = point /\ point # "ended"
    BY <1>1, <1>4 DEF Traffic, Sweep, worldVars
  <2> QED BY <2>1, OutsideKeeps DEF samplingVars
<1> QED BY <1>2, <1>3, <1>4

\* The sampler's own samples concern neither the steps nor main().
LEMMA TicksKeep ==
    ASSUME LoadInv, SamplerTick \/ TickLands
    PROVE  LoadInv'
<1>1. /\ UNCHANGED <<asked, point, backlog, todo, currentPhase, sampler, awaited, report, manifest>>
      /\ point # "ended" /\ (SamplerTick => point \in InCatalog /\ point # "next" /\ sampler)
  BY DEF SamplerTick, TickLands, takeSample, AtAnAwait, InCatalog
<1>2. LoadTypes /\ SamplesInv /\ PointInv /\ DoneInv /\ manifest = NONE
  BY <1>1 DEF LoadInv, PointInv
<1>3. /\ SamplesInv' /\ aloft' \subseteq Sample /\ samples' \in Seq(Sample) /\ shots' \in Nat /\ shots' >= shots
      /\ awaited' \in 0 .. shots' /\ (point \in Preparing \cup {"baseline", "last"} => shots' = shots)
  <2>1. CASE SamplerTick
    <3>1. takeSample(FALSE) /\ UNCHANGED <<samples, backlog, currentPhase>>
      BY <2>1 DEF SamplerTick
    <3>2. shots > 0 /\ point # "last"
      BY <1>1, <1>2, <2>1 DEF PointInv
    <3>3. currentPhase \in Labels \cup {"baseline"} /\ shots \in Nat
      BY <1>2, <3>2 DEF SamplesInv, LoadTypes
    <3>4. Place(currentPhase) \in Nat
      BY <3>3, Places
    <3>5. Place(currentPhase) <= Place(currentPhase')
      BY <3>1, <3>4
    <3>6. SamplesInv' /\ aloft' \subseteq Sample /\ shots' \in Nat /\ shots' = shots + 1 /\ awaited' \in 0 .. shots'
      BY <1>2, <3>1, <3>3, <3>5, TakingKeeps
    <3>7. point \notin Preparing \cup {"baseline"}
      BY <1>1, <2>1 DEF Preparing, InCatalog
    <3> QED BY <1>2, <3>1, <3>2, <3>3, <3>6, <3>7 DEF LoadTypes
  <2>2. CASE TickLands
    <3>1. PICK s \in aloft : Pushed(s)
      BY <2>2 DEF TickLands
    <3>2. UNCHANGED <<shots, currentPhase, awaited>>
      BY <2>2 DEF TickLands
    <3> QED BY <1>2, <3>1, <3>2, LandingKeeps DEF LoadTypes
  <2> QED BY <2>1, <2>2
<1>4. LoadTypes'
  BY <1>1, <1>2, <1>3 DEF LoadTypes, steps
<1>5. PointInv'
  <2>1. shots \in Nat
    BY <1>2 DEF LoadTypes
  <2>2. shots > 0 => shots' > 0
    BY <1>3, <2>1
  <2>3. point \in Preparing => shots' = 0
    BY <1>2, <1>3 DEF PointInv
  <2> QED BY <1>1, <1>2, <1>3, <2>2, <2>3 DEF PointInv, step
<1>6. DoneInv'
  BY <1>1, <1>2 DEF DoneInv, steps
<1> QED BY <1>1, <1>2, <1>3, <1>4, <1>5, <1>6 DEF LoadInv, ManifestOfOneRun

\* The first sample, under the first label.
LEMMA BaselineKeeps ==
    ASSUME LoadInv, Baseline
    PROVE  LoadInv'
<1>1. /\ point = "quiet" /\ point' = "baseline" /\ currentPhase' = "baseline" /\ takeSample(TRUE)
      /\ UNCHANGED <<asked, backlog, todo, sampler, samples, report, manifest>>
  BY DEF Baseline, worldVars
<1>2. LoadTypes /\ SamplesInv /\ manifest = NONE /\ shots = 0 /\ todo = {}
      /\ report.scenarios = <<>> /\ report.settles = <<>>
  BY <1>1 DEF LoadInv, PointInv, Preparing
<1>3. /\ SamplesInv' /\ aloft' \subseteq Sample /\ shots' \in Nat /\ awaited' \in 0 .. shots'
  <2>1. (shots > 0 => Place(currentPhase) <= Place(currentPhase')) /\ currentPhase' \in Labels \cup {"baseline"}
    BY <1>1, <1>2
  <2> QED BY <1>1, <1>2, <2>1, TakingKeeps
<1>4. LoadTypes'
  BY <1>1, <1>2, <1>3 DEF LoadTypes, steps
<1>5. PointInv'
  BY <1>1, <1>2 DEF PointInv, Preparing, InCatalog
<1>6. DoneInv' /\ ManifestOfOneRun'
  BY <1>1, <1>2 DEF DoneInv, InCatalog, ManifestOfOneRun
<1> QED BY <1>3, <1>4, <1>5, <1>6 DEF LoadInv

\* The report is empty and all steps are left.
LEMMA BaselineLandsKeeps ==
    ASSUME LoadInv, BaselineLands
    PROVE  LoadInv'
<1>1. PICK s \in aloft : s.no = awaited /\ Pushed(s) /\ report' = [report EXCEPT !.baseline = s]
  BY DEF BaselineLands, AwaitedLands
<1>2. /\ point = "baseline" /\ point' = "next" /\ todo' = steps /\ awaited' = 0 /\ sampler' = TRUE
      /\ UNCHANGED <<asked, backlog, currentPhase, shots, manifest>>
  BY DEF BaselineLands, worldVars
<1>3. LoadTypes /\ SamplesInv /\ manifest = NONE /\ currentPhase = "baseline"
      /\ report.scenarios = <<>> /\ report.settles = <<>>
  BY <1>2 DEF LoadInv, PointInv
<1>4. SamplesInv' /\ aloft' \subseteq Sample /\ samples' \in Seq(Sample) /\ awaited' \in 0 .. shots' /\ s \in Sample
  BY <1>1, <1>2, <1>3, LandingKeeps
<1>5. /\ report'.scenarios = <<>> /\ report'.settles = <<>>
      /\ DOMAIN report' = {"scenarios", "settles", "baseline"}
  BY <1>1, <1>3 DEF LoadTypes
<1>6. steps' = steps
  BY <1>2 DEF steps
<1>7. LoadTypes'
  BY <1>2, <1>3, <1>4, <1>5, <1>6 DEF LoadTypes, InCatalog
<1>8. shots' > 0
  <2>1. s.no \in Nat \ {0} /\ s.no <= shots /\ shots \in Nat
    BY <1>3, <1>4 DEF SamplesInv, Taken, Sample, LoadTypes
  <2> QED BY <1>2, <2>1
<1>9. \A i \in todo' : Place(currentPhase') < i
  BY <1>2, <1>3, Places DEF steps
<1>10. PointInv'
  BY <1>2, <1>3, <1>8, <1>9 DEF PointInv, Preparing, InCatalog
<1>11. steps' \ todo' = {}
  BY <1>2, <1>6
<1>12. DoneInv'
  BY <1>5, <1>11 DEF DoneInv, Reported, InOrder
<1>13. ManifestOfOneRun'
  BY <1>2, <1>3 DEF ManifestOfOneRun
<1> QED BY <1>4, <1>7, <1>10, <1>12, <1>13 DEF LoadInv

\* The loop begins a step: its label is later than that of every sample.
LEMMA StepBegins ==
    ASSUME LoadInv, point \in {"next", "pause"}, todo # {}, currentPhase' = step.id
    PROVE  /\ currentPhase' \in Labels /\ shots > 0 /\ Place(currentPhase) \in Nat
           /\ Place(currentPhase') \in Nat /\ Place(currentPhase) <= Place(currentPhase')
<1>1. /\ Min(todo) \in todo /\ Min(todo) \in DOMAIN CATALOG /\ \A j \in todo : Min(todo) <= j
      /\ step = CATALOG[Min(todo)] /\ step.id \in Labels /\ Place(step.id) = Min(todo)
  BY FirstStep DEF LoadInv, LoadTypes
<1>2. shots > 0 /\ (point = "next" => \A i \in todo : Place(currentPhase) < i)
      /\ (point = "pause" => currentPhase = step.id)
  BY DEF LoadInv, PointInv, InCatalog
<1>3. Place(currentPhase) \in Nat /\ Place(step.id) \in Nat
  BY <1>1, <1>2, Places DEF LoadInv, SamplesInv
<1> QED BY <1>1, <1>2, <1>3

\* A scenario begins under its own label.
LEMMA runScenarioKeeps ==
    ASSUME LoadInv, runScenario
    PROVE  LoadInv'
<1>1. /\ point = "next" /\ todo # {} /\ IsScenario(step) /\ point' = "k6" /\ currentPhase' = step.id
      /\ UNCHANGED <<asked, backlog, todo, sampler, shots, aloft, awaited, samples, report, manifest>>
  BY DEF runScenario, worldVars
<1>2. LoadTypes /\ SamplesInv /\ DoneInv /\ manifest = NONE /\ awaited = 0
  BY <1>1 DEF LoadInv, PointInv
<1>3. /\ currentPhase' \in Labels /\ shots > 0 /\ Place(currentPhase) \in Nat
      /\ Place(currentPhase') \in Nat /\ Place(currentPhase) <= Place(currentPhase')
  BY <1>1, StepBegins
<1>4. SamplesInv'
  <2>0. \A s \in Taken : s \in Sample
    BY <1>2 DEF Taken, LoadTypes
  <2>1. \A s \in Taken : s.no \in Nat \ {0} /\ Place(s.phase) \in Nat
    BY <2>0, Places DEF Sample
  <2>2. Taken' = Taken /\ \A s \in aloft : s \in Taken
    BY <1>1 DEF Taken
  <2>3. \A s \in Taken' : s.no <= shots' /\ Place(s.phase) <= Place(currentPhase')
    BY <1>1, <1>2, <1>3, <2>1, <2>2 DEF SamplesInv
  <2> QED BY <1>1, <1>2, <1>3, <2>1, <2>2, <2>3 DEF SamplesInv
<1>5. LoadTypes'
  BY <1>1, <1>2 DEF LoadTypes, steps, InCatalog
<1>6. PointInv'
  BY <1>1, <1>2, <1>3 DEF PointInv, step, Preparing, InCatalog
<1>7. DoneInv' /\ ManifestOfOneRun'
  BY <1>1, <1>2 DEF DoneInv, steps, InCatalog, ManifestOfOneRun
<1> QED BY <1>4, <1>5, <1>6, <1>7 DEF LoadInv

\* The loop ends a step: it is done, and later than all that were done before.
LEMMA StepEnds ==
    ASSUME LoadInv, point \in InCatalog, todo # {}, StepDone, UNCHANGED asked
    PROVE  /\ steps' = steps /\ todo' \subseteq steps /\ steps \ todo' = (steps \ todo) \cup {Min(todo)}
           /\ \A i \in steps \ todo', j \in todo' : i < j
           /\ \A i \in steps \ todo : i \in Nat /\ i < Min(todo)
           /\ \A j \in todo' : Min(todo) < j
           /\ Min(todo) \in Nat /\ step = CATALOG[Min(todo)] /\ Place(step.id) = Min(todo) /\ step.id \in Labels
<1>1. /\ Min(todo) \in todo /\ Min(todo) \in DOMAIN CATALOG /\ \A j \in todo : Min(todo) <= j
      /\ step = CATALOG[Min(todo)] /\ step.id \in Labels /\ Place(step.id) = Min(todo)
  BY FirstStep DEF LoadInv, LoadTypes
<1>2. steps \subseteq Nat /\ todo \subseteq steps /\ \A i \in steps \ todo, j \in todo : i < j
  BY Places DEF LoadInv, LoadTypes, DoneInv, steps
<1>3. todo' = todo \ {Min(todo)} /\ steps' = steps
  BY DEF StepDone, steps
<1> HIDE DEF steps
<1>4. \A j \in todo' : Min(todo) < j
  <2> SUFFICES ASSUME NEW j \in todo' PROVE Min(todo) < j
    OBVIOUS
  <2>1. j \in todo /\ j # Min(todo)
    BY <1>3
  <2>2. j \in Nat /\ Min(todo) \in Nat /\ Min(todo) <= j
    BY <1>1, <1>2, <2>1
  <2> QED BY <2>1, <2>2
<1> QED BY <1>1, <1>2, <1>3, <1>4

\* A scenario that ends is reported next in order.
LEMMA ScenarioEndsKeeps ==
    ASSUME LoadInv, ScenarioEnds
    PROVE  LoadInv'
<1>1. /\ point = "k6" /\ point' = "next" /\ StepDone
      /\ report' = [report EXCEPT !.scenarios = Append(@, [id |-> currentPhase])]
      /\ UNCHANGED <<asked, backlog, currentPhase, sampler, shots, aloft, awaited, samples, manifest>>
  BY DEF ScenarioEnds, worldVars
<1>2. /\ LoadTypes /\ SamplesInv /\ DoneInv /\ manifest = NONE /\ awaited = 0 /\ todo # {} /\ shots > 0
      /\ currentPhase = step.id /\ IsScenario(step) /\ point \in InCatalog
  BY <1>1 DEF LoadInv, PointInv, InCatalog
<1>3. /\ steps' = steps /\ todo' \subseteq steps /\ steps \ todo' = (steps \ todo) \cup {Min(todo)}
      /\ \A i \in steps \ todo', j \in todo' : i < j
      /\ \A i \in steps \ todo : i \in Nat /\ i < Min(todo)
      /\ \A j \in todo' : Min(todo) < j
      /\ Min(todo) \in Nat /\ step = CATALOG[Min(todo)] /\ Place(step.id) = Min(todo) /\ step.id \in Labels
  BY <1>1, <1>2, StepEnds
<1> DEFINE e == [id |-> currentPhase]
           done == {i \in steps \ todo : IsScenario(CATALOG[i])}
           R == [id : Labels]
<1>4. /\ report.scenarios \in Seq(R) /\ e \in R /\ Place(e.id) = Min(todo)
      /\ InOrder(report.scenarios, done) /\ \A i \in done : i \in Nat /\ i < Min(todo)
  BY <1>2, <1>3 DEF LoadTypes, DoneInv, Reported
<1>5. /\ report'.scenarios = Append(report.scenarios, e) /\ report'.settles = report.settles
      /\ DOMAIN report' = {"scenarios", "settles", "baseline"}
  BY <1>1, <1>2 DEF LoadTypes
<1>6. {i \in (steps \ todo)' : IsScenario(CATALOG[i])} = done \cup {Min(todo)}
  BY <1>2, <1>3
<1>7. {i \in (steps \ todo)' : IsSettle(CATALOG[i])} = {i \in steps \ todo : IsSettle(CATALOG[i])}
  BY <1>2, <1>3 DEF IsSettle, IsScenario
<1> HIDE DEF e, done, R
<1>8. /\ report'.scenarios \in Seq(R)
      /\ InOrder(report'.scenarios, done \cup {Min(todo)})
  BY <1>3, <1>4, <1>5, OrderGrows
<1>9. DoneInv'
  <2>1. Reported(report'.scenarios, report'.settles, (steps \ todo)')
    BY <1>2, <1>5, <1>6, <1>7, <1>8 DEF DoneInv, Reported
  <2> QED BY <1>3, <2>1 DEF DoneInv, Reported, InOrder
<1>10. LoadTypes'
  BY <1>1, <1>2, <1>3, <1>5, <1>8 DEF LoadTypes, InCatalog, R
<1>11. SamplesInv'
  BY <1>1, <1>2 DEF SamplesInv, Taken
<1>12. PointInv'
  BY <1>1, <1>2, <1>3 DEF PointInv, Preparing, InCatalog
<1> QED BY <1>1, <1>2, <1>9, <1>10, <1>11, <1>12 DEF LoadInv, ManifestOfOneRun

\* A settle begins, or polls again, with a sample of its own.
LEMMA settleKeeps ==
    ASSUME LoadInv, settle
    PROVE  LoadInv'
<1>1. /\ point \in {"next", "pause"} /\ point' = "polling" /\ currentPhase' = step.id /\ takeSample(TRUE)
      /\ (point = "next" => todo # {} /\ IsSettle(step))
      /\ UNCHANGED <<asked, backlog, todo, sampler, samples, report, manifest>>
  BY DEF settle, worldVars
<1>2. /\ LoadTypes /\ SamplesInv /\ DoneInv /\ manifest = NONE /\ todo # {} /\ IsSettle(step) /\ shots \in Nat
  BY <1>1 DEF LoadInv, PointInv, LoadTypes
<1>3. /\ currentPhase' \in Labels /\ shots > 0 /\ Place(currentPhase) <= Place(currentPhase')
  BY <1>1, <1>2, StepBegins
<1>4. SamplesInv' /\ aloft' \subseteq Sample /\ shots' \in Nat /\ shots' = shots + 1 /\ awaited' \in 0 .. shots'
  BY <1>1, <1>2, <1>3, TakingKeeps
<1>5. LoadTypes'
  BY <1>1, <1>2, <1>4 DEF LoadTypes, steps, InCatalog
<1>6. shots' > 0
  BY <1>2, <1>4
<1>7. PointInv'
  BY <1>1, <1>2, <1>6 DEF PointInv, step, Preparing, InCatalog
<1>8. DoneInv' /\ ManifestOfOneRun'
  BY <1>1, <1>2 DEF DoneInv, steps, InCatalog, ManifestOfOneRun
<1> QED BY <1>4, <1>5, <1>7, <1>8 DEF LoadInv

\* The sample that ends a settle is its own, and saw no open payment.
LEMMA SettleLandsKeeps ==
    ASSUME LoadInv, SettleLands
    PROVE  LoadInv'
<1>1. PICK s \in aloft :
        /\ s.no = awaited /\ Pushed(s)
        /\ \/ /\ Last(samples').open = 0
              /\ report' = [report EXCEPT !.settles =
                               Append(@, [id |-> currentPhase, by |-> Last(samples')])]
              /\ point' = "next" /\ StepDone
           \/ /\ Last(samples').open # 0
              /\ point' = "pause" /\ UNCHANGED <<todo, report>>
  BY DEF SettleLands, AwaitedLands
<1>2. /\ point = "polling" /\ awaited' = 0
      /\ UNCHANGED <<asked, backlog, currentPhase, sampler, shots, manifest>>
  BY DEF SettleLands, worldVars
<1>3. /\ LoadTypes /\ SamplesInv /\ DoneInv /\ manifest = NONE /\ todo # {} /\ shots > 0
      /\ currentPhase = step.id /\ IsSettle(step) /\ point \in InCatalog
  BY <1>2 DEF LoadInv, PointInv, InCatalog
<1>4. /\ SamplesInv' /\ aloft' \subseteq Sample /\ samples' \in Seq(Sample) /\ Last(samples') = s
      /\ awaited' \in 0 .. shots' /\ s \in Sample /\ s.phase = currentPhase
  BY <1>1, <1>2, <1>3, LandingKeeps DEF SamplesInv
<1>5. CASE point' = "pause"
  <2>1. UNCHANGED <<todo, report>>
    BY <1>1, <1>5
  <2>2. LoadTypes'
    BY <1>2, <1>3, <1>4, <1>5, <2>1 DEF LoadTypes, steps, InCatalog
  <2>3. PointInv'
    BY <1>2, <1>3, <1>5, <2>1 DEF PointInv, step, Preparing, InCatalog
  <2>4. DoneInv' /\ ManifestOfOneRun'
    BY <1>2, <1>3, <2>1 DEF DoneInv, steps, InCatalog, ManifestOfOneRun
  <2> QED BY <1>4, <2>2, <2>3, <2>4 DEF LoadInv
<1>6. CASE point' = "next"
  <2> DEFINE e == [id |-> currentPhase, by |-> s]
             done == {i \in steps \ todo : IsSettle(CATALOG[i])}
             R == [id : Labels, by : Sample]
  <2>1. s.open = 0 /\ StepDone /\ report' = [report EXCEPT !.settles = Append(@, e)]
    BY <1>1, <1>4, <1>6
  <2>2. /\ steps' = steps /\ todo' \subseteq steps /\ steps \ todo' = (steps \ todo) \cup {Min(todo)}
        /\ \A i \in steps \ todo', j \in todo' : i < j
        /\ \A i \in steps \ todo : i \in Nat /\ i < Min(todo)
        /\ \A j \in todo' : Min(todo) < j
        /\ Min(todo) \in Nat /\ step = CATALOG[Min(todo)] /\ Place(step.id) = Min(todo) /\ step.id \in Labels
    BY <1>2, <1>3, <2>1, StepEnds
  <2>3. /\ report.settles \in Seq(R) /\ e \in R /\ Place(e.id) = Min(todo)
        /\ InOrder(report.settles, done) /\ \A i \in done : i \in Nat /\ i < Min(todo)
    BY <1>3, <1>4, <2>2 DEF LoadTypes, DoneInv, Reported
  <2>4. /\ report'.settles = Append(report.settles, e) /\ report'.scenarios = report.scenarios
        /\ DOMAIN report' = {"scenarios", "settles", "baseline"}
    BY <1>3, <2>1 DEF LoadTypes
  <2>5. {i \in (steps \ todo)' : IsSettle(CATALOG[i])} = done \cup {Min(todo)}
    BY <1>3, <2>2
  <2>6. {i \in (steps \ todo)' : IsScenario(CATALOG[i])} = {i \in steps \ todo : IsScenario(CATALOG[i])}
    BY <1>3, <2>2 DEF IsSettle, IsScenario
  <2>7. e.by.phase = e.id /\ e.by.open = 0
    BY <1>4, <2>1
  <2> HIDE DEF e, done, R
  <2>8. report'.settles \in Seq(R) /\ InOrder(report'.settles, done \cup {Min(todo)})
    BY <2>2, <2>3, <2>4, OrderGrows
  <2>9. \A i \in DOMAIN report'.settles : /\ report'.settles[i].by.phase = report'.settles[i].id
                                          /\ report'.settles[i].by.open = 0
    <3>1. /\ Len(report'.settles) = Len(report.settles) + 1 /\ report'.settles[Len(report.settles) + 1] = e
          /\ \A i \in 1 .. Len(report.settles) : report'.settles[i] = report.settles[i]
      BY <2>3, <2>4, AppendProperties
    <3>2. \A i \in DOMAIN report.settles : /\ report.settles[i].by.phase = report.settles[i].id
                                           /\ report.settles[i].by.open = 0
      BY <1>3 DEF DoneInv, Reported
    <3>3. DOMAIN report'.settles = 1 .. Len(report.settles) + 1
          /\ DOMAIN report.settles = 1 .. Len(report.settles) /\ Len(report.settles) \in Nat
      BY <2>3, <2>8, <3>1
    <3> SUFFICES ASSUME NEW i \in DOMAIN report'.settles
                 PROVE report'.settles[i].by.phase = report'.settles[i].id /\ report'.settles[i].by.open = 0
      OBVIOUS
    <3>4. CASE i = Len(report.settles) + 1
      BY <2>7, <3>1, <3>4
    <3>5. CASE i # Len(report.settles) + 1
      <4>1. i \in 1 .. Len(report.settles)
        BY <3>3, <3>5
      <4> QED BY <3>1, <3>2, <3>3, <4>1
    <3> QED BY <3>4, <3>5
  <2>10. Reported(report'.scenarios, report'.settles, (steps \ todo)')
    BY <1>3, <2>4, <2>5, <2>6, <2>8, <2>9 DEF DoneInv, Reported
  <2>11. DoneInv'
    BY <2>2, <2>10 DEF DoneInv, Reported, InOrder
  <2>12. LoadTypes'
    BY <1>2, <1>3, <1>4, <1>6, <2>2, <2>4, <2>8 DEF LoadTypes, InCatalog, R
  <2>13. PointInv'
    BY <1>2, <1>3, <1>6, <2>2 DEF PointInv, Preparing, InCatalog
  <2> QED BY <1>2, <1>3, <1>4, <2>11, <2>12, <2>13 DEF LoadInv, ManifestOfOneRun
<1> QED BY <1>1, <1>5, <1>6

\* The last sample is the newest there will ever be.
LEMMA FinalSampleKeeps ==
    ASSUME LoadInv, FinalSample
    PROVE  LoadInv'
<1>1. /\ point = "next" /\ todo = {} /\ point' = "last" /\ sampler' = FALSE /\ takeSample(TRUE)
      /\ UNCHANGED <<asked, backlog, todo, currentPhase, samples, report, manifest>>
  BY DEF FinalSample, worldVars
<1>2. LoadTypes /\ SamplesInv /\ DoneInv /\ manifest = NONE /\ shots > 0 /\ shots \in Nat
  BY <1>1 DEF LoadInv, PointInv, LoadTypes, InCatalog
<1>3. currentPhase' \in Labels \cup {"baseline"} /\ Place(currentPhase) <= Place(currentPhase')
  BY <1>1, <1>2, Places DEF SamplesInv
<1>4. /\ SamplesInv' /\ aloft' \subseteq Sample /\ shots' \in Nat /\ shots' = shots + 1 /\ awaited' \in 0 .. shots'
      /\ awaited' = shots'
  BY <1>1, <1>2, <1>3, TakingKeeps
<1>5. LoadTypes'
  BY <1>1, <1>2, <1>4 DEF LoadTypes, steps, InCatalog
<1>6. shots' > 0
  BY <1>2, <1>4
<1>7. PointInv'
  BY <1>1, <1>2, <1>4, <1>6 DEF PointInv, Preparing, InCatalog
<1>8. DoneInv' /\ ManifestOfOneRun'
  BY <1>1, <1>2 DEF DoneInv, steps, InCatalog, ManifestOfOneRun
<1> QED BY <1>4, <1>5, <1>7, <1>8 DEF LoadInv

\* The manifest is written once no step is left.
LEMMA writeArtifactsKeeps ==
    ASSUME LoadInv, writeArtifacts
    PROVE  LoadInv'
<1>1. PICK s \in aloft : s.no = awaited /\ Pushed(s)
  BY DEF writeArtifacts, AwaitedLands
<1>2. /\ point = "last" /\ point' = "ended" /\ awaited' = 0
      /\ manifest' = [scenarios |-> report.scenarios, settles |-> report.settles,
                      baseline |-> report.baseline, final |-> Last(samples')]
      /\ UNCHANGED <<asked, backlog, todo, currentPhase, sampler, shots, report>>
  BY DEF writeArtifacts
<1>3. LoadTypes /\ SamplesInv /\ DoneInv /\ todo = {} /\ awaited = shots /\ point \in InCatalog
  BY <1>2 DEF LoadInv, PointInv, InCatalog
<1>4. /\ SamplesInv' /\ aloft' \subseteq Sample /\ samples' \in Seq(Sample) /\ Last(samples') = s
      /\ awaited' \in 0 .. shots'
  BY <1>1, <1>2, <1>3, LandingKeeps
<1>5. LoadTypes'
  BY <1>2, <1>3, <1>4 DEF LoadTypes, steps, InCatalog
<1>6. PointInv' /\ DoneInv'
  BY <1>2 DEF PointInv, DoneInv, Preparing, InCatalog
<1>7. Reported(report.scenarios, report.settles, steps)
  <2>1. steps \ todo = steps
    BY <1>3
  <2> QED BY <1>3, <2>1 DEF DoneInv
<1>8. /\ manifest'.scenarios = report.scenarios /\ manifest'.settles = report.settles /\ manifest'.final = s
  BY <1>2, <1>4
<1>9. steps' = steps
  BY <1>2 DEF steps
<1>10. \A i, j \in DOMAIN samples' :
          samples'[i].no < samples'[j].no => Place(samples'[i].phase) <= Place(samples'[j].phase)
  BY <1>4 DEF SamplesInv, Taken
<1>11. ManifestOfOneRun'
  BY <1>1, <1>2, <1>3, <1>7, <1>8, <1>9, <1>10 DEF ManifestOfOneRun, Reported, InOrder
<1> QED BY <1>4, <1>5, <1>6, <1>11 DEF LoadInv

\* Every manifest tells of one whole run of the selected steps, for any catalog and selection
\* and however late the samples land.
THEOREM ManifestsTellOneRun == LoadSpec => []ManifestOfOneRun
<1>1. LoadInv /\ [LoadNext]_loadVars => LoadInv'
  <2> SUFFICES ASSUME LoadInv, [LoadNext]_loadVars PROVE LoadInv'
    OBVIOUS
  <2>1. CASE \/ ensurePreflight \/ composeDown \/ composeUp \/ startReceiver \/ migrate
             \/ composeUpWorker \/ seed \/ PreparationFails \/ KeyMissing \/ SettleTimesOut
             \/ Traffic \/ Sweep
    BY <2>1, PreparationKeeps
  <2>2. CASE SamplerTick \/ TickLands
    BY <2>2, TicksKeep
  <2>3. CASE Baseline \/ BaselineLands
    BY <2>3, BaselineKeeps, BaselineLandsKeeps
  <2>4. CASE runScenario \/ ScenarioEnds
    BY <2>4, runScenarioKeeps, ScenarioEndsKeeps
  <2>5. CASE settle \/ SettleLands
    BY <2>5, settleKeeps, SettleLandsKeeps
  <2>6. CASE FinalSample \/ writeArtifacts
    BY <2>6, FinalSampleKeeps, writeArtifactsKeeps
  <2>7. CASE UNCHANGED loadVars
    <3>1. steps' = steps /\ step' = step
      BY <2>7 DEF loadVars, steps, step
    <3>2. UNCHANGED <<point, volumes, up, backlog, todo, currentPhase, sampler, shots, aloft, awaited, samples,
                      report, manifest>>
      BY <2>7 DEF loadVars
    <3> QED BY <3>1, <3>2 DEF LoadInv, LoadTypes, SamplesInv, Taken, PointInv, DoneInv, ManifestOfOneRun
  <2> QED BY <2>5, <2>1, <2>2, <2>3, <2>4, <2>6, <2>7 DEF LoadNext
<1>2. LoadInv => ManifestOfOneRun
  BY DEF LoadInv
<1> QED BY <1>1, <1>2, LoadInitially, PTL DEF LoadSpec
================================================================================
