----------------------------- MODULE PaymentsProofs -----------------------------
(***************************************************************************)
(* Proofs about Payments, for any number of payments, passes, outcomes and *)
(* failures and for any delays and batch size.                             *)
(***************************************************************************)
EXTENDS Payments, TLAPS

(* What the column written for a request is read back as.                  *)
Intended(q) ==
    [scenario |-> IF q.scenario = NULL THEN "succeed" ELSE q.scenario,
     code |-> IF q.scenario # "decline" THEN NULL
              ELSE IF q.code \in FailureCodes THEN q.code ELSE DefaultFailureCode]

(* What a create writes to the column is a column value.                   *)
LEMMA ColumnType ==
  ASSUME NEW q \in Requested
  PROVE  scenarioColumnValue(q.scenario, q.code) \in Column \cup {NULL}
  BY SimulationAssumption, NullAssumption
     DEF Requested, scenarioColumnValue, Column, Scenarios, Word

(* Writing an outcome to the column and reading it back loses nothing but  *)
(* the difference between no scenario and a success.                       *)
LEMMA ColumnRoundTrip ==
  ASSUME NEW q \in Requested
  PROVE  parseSimulationScenario(scenarioColumnValue(q.scenario, q.code)) = Intended(q)
<1> DEFINE raw == scenarioColumnValue(q.scenario, q.code)
<1> USE SimulationAssumption, NullAssumption DEF Requested, Scenarios, Word, Column
<1>1. CASE q.scenario = NULL
  BY <1>1 DEF scenarioColumnValue, parseSimulationScenario, DefaultIntent, Intended
<1>2. CASE q.scenario \in {"succeed", "timeout"}
  BY <1>2 DEF scenarioColumnValue, parseSimulationScenario, Intended
<1>3. CASE q.scenario = "decline"
  BY <1>3 DEF scenarioColumnValue, parseSimulationScenario, Intended
<1>4. QED
  BY <1>1, <1>2, <1>3

--------------------------------------------------------------------------------
(* The inductive invariant *)

(* A row is what its create request asked for, and nothing exists before   *)
(* the row does.                                                           *)
RowInv ==
    \A p \in Payments :
        /\ creator[p] = "start" <=> row[p] = NULL
        /\ p \in Keyed => creator[p] \in {"start", "done"}
        /\ row[p] = NULL => audit[p] = {} /\ events[p] = [t \in EventTypes |-> 0]
        /\ row[p] # NULL =>
              /\ row[p].id = p
              /\ asked[p] \in Requests
              /\ row[p].scenario = scenarioColumnValue(asked[p].scenario, asked[p].code)
              /\ row[p].createdAt <= clock

(* The status b of a row can be found behind a snapshot that says a.       *)
Reached(a, b) == \/ a = b
                 \/ a = "pending"
                 \/ a = "processing" /\ b \in Terminal

(* A snapshot may be stale in its status and code, and in nothing else.    *)
Snapshot(r) ==
    /\ r.id \in Payments
    /\ row[r.id] # NULL
    /\ row[r.id].createdAt = r.createdAt
    /\ row[r.id].scenario = r.scenario
    /\ Reached(r.status, row[r.id].status)

PassOK(w) ==
    /\ now[w] <= clock
    /\ \A r \in todo[w] : Snapshot(r)
    /\ local[w] # NULL => Snapshot(local[w])
    /\ pc[w] = "reread" => local[w] # NULL
    /\ met[w] = "lost" => /\ local[w] # NULL /\ pc[w] = "reread"
                          /\ row[local[w].id].status # local[w].status

PassInv == \A w \in Passes : PassOK(w)

IInv ==
    /\ TypeOK /\ RowInv /\ PassInv
    /\ TerminalEventExactlyOnce /\ KeyedTrailComplete /\ OutcomeAsRequested
    /\ NeverAheadOfSchedule /\ ContendedReadNotStale

--------------------------------------------------------------------------------
(* The edge of one pass *)

(* What applyEdge did when its guarded update hit: the edge is the one     *)
(* that the row itself, not only the snapshot, was due for.                *)
Edge(p, to, code) ==
    /\ row[p] # NULL
    /\ row' = [row EXCEPT ![p] = [@ EXCEPT !.status = to, !.failureCode = code]]
    /\ code \in FailureCodes \cup {NULL}
    /\ to # "failed" => code = NULL
    /\ to = "failed" => code = Intended(asked[p]).code
    /\ \/ /\ row[p].status = "pending" /\ to = "processing"
          /\ clock >= row[p].createdAt + PendingDelay
          /\ UNCHANGED <<events, audit>>
       \/ /\ row[p].status = "processing" /\ to \in Terminal
          /\ clock >= row[p].createdAt + PendingDelay + SettlementDelay
          /\ to = "failed" => asked[p].scenario = "decline"
          /\ to = "succeeded" => asked[p].scenario \in {"succeed", NULL}
          /\ Emit(p, to)
          /\ RecordTerminalAudit(p, to)
    /\ UNCHANGED <<clock, creator, asked>>

(* An edge that is due leaves the row one step further on its schedule.    *)
LEMMA EdgeFacts ==
  ASSUME TypeOK, RowInv, PassInv, NEW w \in Passes, CommitEdge(w)
  PROVE  \E to \in Statuses, code \in FailureCodes \cup {NULL} :
            /\ Edge(local[w].id, to, code)
            /\ EdgeApplied(w) =>
                 local' = [local EXCEPT ![w] = [@ EXCEPT !.status = to, !.failureCode = code]]
            /\ steps[w] # MaxSteps
            /\ local[w] # NULL /\ pc[w] = "advance"
            /\ local[w].status = row[local[w].id].status
            /\ to # local[w].status
<1> DEFINE r == local[w]
           p == r.id
           q == asked[p]
           intent == parseSimulationScenario(r.scenario)
           to == DueEdge(w)
           code == EdgeCode(w)
<1> USE SimulationAssumption, NullAssumption, PaymentsAssumption
<1>1. /\ r # NULL /\ pc[w] = "advance" /\ to # NULL
      /\ r \in Row /\ p \in Payments /\ row[p] \in Row /\ row[p] # NULL
      /\ row[p].status = r.status
      /\ row[p].createdAt = r.createdAt /\ row[p].scenario = r.scenario
      /\ now[w] \in Nat /\ clock \in Nat /\ now[w] <= clock
  BY DEF CommitEdge, Advancing, EdgeMatches, PassInv, PassOK, Snapshot, TypeOK
<1>2. q \in Requested /\ intent = Intended(q)
  <2>1. q \in Requests /\ r.scenario = scenarioColumnValue(q.scenario, q.code)
    BY <1>1 DEF RowInv
  <2>2. QED
    BY <2>1, ColumnRoundTrip
<1>3. /\ steps[w] # MaxSteps
      /\ to = scheduledTransition(r.status, r.createdAt, now[w], intent.scenario)
  BY <1>1 DEF DueEdge
<1>4. r.createdAt \in Nat /\ r.status \in Statuses
  BY <1>1 DEF Row
<1>5. \/ /\ r.status = "pending" /\ to = "processing"
         /\ clock >= r.createdAt + PendingDelay
      \/ /\ r.status = "processing"
         /\ to = IF intent.scenario = "decline" THEN "failed" ELSE "succeeded"
         /\ intent.scenario # "timeout"
         /\ clock >= r.createdAt + PendingDelay + SettlementDelay
  BY <1>1, <1>3, <1>4 DEF scheduledTransition
<1>6. Intended(q).code \in FailureCodes \cup {NULL}
  BY <1>2 DEF Intended, Requested
<1>c. code = edgeFailureCode(to, intent)
  BY DEF EdgeCode
<1>7. to = "failed" => q.scenario = "decline" /\ code = Intended(q).code /\ code \in FailureCodes
  BY <1>c, <1>2, <1>5, <1>6 DEF Intended, edgeFailureCode, Requested, Scenarios
<1>8. to # "failed" => code = NULL
  BY <1>c DEF edgeFailureCode
<1>9. to = "succeeded" => q.scenario \in {"succeed", NULL}
  BY <1>2, <1>5 DEF Intended, Requested, Scenarios
<1>10. /\ row' = [row EXCEPT ![p] = [@ EXCEPT !.status = to, !.failureCode = code]]
       /\ EdgeApplied(w) =>
            local' = [local EXCEPT ![w] = [@ EXCEPT !.status = to, !.failureCode = code]]
       /\ IF to \in Terminal THEN Emit(p, to) /\ RecordTerminalAudit(p, to)
          ELSE UNCHANGED <<events, audit>>
       /\ UNCHANGED <<clock, creator, asked>>
  BY DEF CommitEdge, EdgeApplied
<1>11. to \in Statuses /\ code \in FailureCodes \cup {NULL} /\ to # r.status
  BY <1>5, <1>7, <1>8 DEF Statuses
<1>12. Edge(p, to, code)
  BY <1>1, <1>5, <1>7, <1>8, <1>9, <1>10, <1>11 DEF Edge, Terminal
<1>13. QED
  BY <1>1, <1>3, <1>10, <1>11, <1>12

--------------------------------------------------------------------------------
(* Type correctness *)

(* The initial state is well typed.                                        *)
LEMMA TypeInit == Init => TypeOK
  BY PaymentsAssumption DEF Init, TypeOK

(* The statements of a create keep the types.                              *)
LEMMA CreateType ==
  ASSUME TypeOK, Create
  PROVE  TypeOK'
<1> USE PaymentsAssumption, SimulationAssumption DEF TypeOK, passVars, rowVars
<1>1. ASSUME NEW p \in Payments, NEW q \in Requests, Insert(p, q)
      PROVE  /\ row' \in [Payments -> Row \cup {NULL}]
             /\ asked' \in [Payments -> Requested \cup {NULL}]
  <2>1. NewRow(p, q) \in Row
    BY ColumnType DEF NewRow, Row, Statuses
  <2>2. QED
    BY <1>1, <2>1 DEF Insert
<1>2. ASSUME NEW p \in Payments, NEW t \in EventTypes, Emit(p, t)
      PROVE  events' \in [Payments -> [EventTypes -> Nat]]
  BY <1>2 DEF Emit
<1>3. ASSUME NEW p \in Payments, NEW q \in Requests, CreateKeyed(p, q)
      PROVE  TypeOK'
  BY <1>1, <1>2, <1>3 DEF CreateKeyed, EventTypes
<1>4. ASSUME NEW p \in Payments, NEW q \in Requests, InsertPayment(p, q)
      PROVE  TypeOK'
  BY <1>1, <1>4 DEF InsertPayment
<1>5. ASSUME NEW p \in Payments, PersistCreatedEvent(p)
      PROVE  TypeOK'
  BY <1>2, <1>5 DEF PersistCreatedEvent, EventTypes
<1>6. ASSUME NEW p \in Payments, RecordCreatedAudit(p)
      PROVE  TypeOK'
  BY <1>6 DEF RecordCreatedAudit, EventTypes
<1>7. ASSUME NEW p \in Payments, CreateDies(p)
      PROVE  TypeOK'
  BY <1>7 DEF CreateDies
<1>8. QED
  BY <1>3, <1>4, <1>5, <1>6, <1>7 DEF Create

(* A committed edge keeps the types, acknowledged or not.                  *)
LEMMA EdgeType ==
  ASSUME TypeOK, RowInv, PassInv, NEW w \in Passes,
         EdgeApplied(w) \/ EdgeUnconfirmed(w)
  PROVE  TypeOK'
<1> USE DEF TypeOK
<1>1. PICK to \in Statuses, code \in FailureCodes \cup {NULL} :
            /\ Edge(local[w].id, to, code)
            /\ EdgeApplied(w) =>
                 local' = [local EXCEPT ![w] = [@ EXCEPT !.status = to, !.failureCode = code]]
            /\ steps[w] # MaxSteps
            /\ local[w] # NULL
  BY EdgeFacts DEF EdgeApplied, EdgeUnconfirmed
<1> DEFINE p == local[w].id
<1>2. p \in Payments /\ row[p] \in Row /\ local[w] \in Row
  BY <1>1 DEF PassInv, PassOK, Snapshot, Edge
<1>3. /\ [row[p] EXCEPT !.status = to, !.failureCode = code] \in Row
      /\ [local[w] EXCEPT !.status = to, !.failureCode = code] \in Row
  BY <1>2 DEF Row
<1>4. row' \in [Payments -> Row \cup {NULL}]
  BY <1>1, <1>2, <1>3 DEF Edge
<1>5. local' \in [Passes -> Row \cup {NULL}]
  BY <1>1, <1>3 DEF EdgeUnconfirmed
<1>6. /\ events' \in [Payments -> [EventTypes -> Nat]]
      /\ audit' \in [Payments -> SUBSET EventTypes]
  <2>1. CASE UNCHANGED <<events, audit>>
    BY <2>1
  <2>2. CASE Emit(p, to) /\ RecordTerminalAudit(p, to) /\ to \in Terminal
    <3>1. to \in EventTypes
      BY <2>2 DEF Terminal, EventTypes
    <3>2. events' \in [Payments -> [EventTypes -> Nat]]
      BY <1>2, <2>2, <3>1 DEF Emit
    <3>3. audit' \in [Payments -> SUBSET EventTypes]
      BY <1>2, <2>2, <3>1 DEF RecordTerminalAudit
    <3>4. QED
      BY <3>2, <3>3
  <2>3. QED
    BY <1>1, <2>1, <2>2 DEF Edge
<1>7. /\ steps' \in [Passes -> 0 .. 2] /\ met' \in [Passes -> EdgeOutcomes \cup {NULL}]
      /\ pc' \in [Passes -> {"idle", "retrieve", "list", "sweep", "advance", "reread"}]
      /\ faults' \in 0 .. MaxFaults
  <2>1. CASE EdgeApplied(w)
    <3>1. steps[w] + 1 \in 0 .. 2
      BY <1>1 DEF MaxSteps
    <3>2. QED
      BY <2>1, <3>1 DEF EdgeApplied, EdgeOutcomes
  <2>2. CASE EdgeUnconfirmed(w)
    BY <2>2, PaymentsAssumption DEF EdgeUnconfirmed, Goto, EdgeOutcomes
  <2>3. QED
    BY <2>1, <2>2
<1>8. QED
  BY <1>1, <1>4, <1>5, <1>6, <1>7 DEF EdgeApplied, EdgeUnconfirmed, CommitEdge, Edge

(* What advance() returns is an answer.                                    *)
LEMMA ReturnType ==
  ASSUME TypeOK, NEW w \in Passes, NEW r \in Row, local[w] \in Row, Return(w, r)
  PROVE  /\ answer' \in [Passes -> Answers \cup {NULL}]
         /\ local' \in [Passes -> Row \cup {NULL}]
         /\ steps' \in [Passes -> 0 .. 2]
         /\ met' \in [Passes -> EdgeOutcomes \cup {NULL}]
<1>1. [row |-> r, met |-> met[w], tried |-> local[w].status] \in Answers
  BY DEF TypeOK, Answers, Row
<1>2. QED
  BY <1>1 DEF Return, TypeOK

(* The other steps of a pass keep the types.                               *)
LEMMA StepType ==
  ASSUME TypeOK, RowInv, PassInv, NEW w \in Passes,
         Start(w) \/ PassStep(w) \/ Fault(w)
  PROVE  TypeOK'
<1> USE PaymentsAssumption DEF TypeOK, createVars, passVars, rowVars, Goto, ReadClock
<1>1. Rows \subseteq Row
  BY DEF Rows
<1>2. ASSUME NEW p \in Payments, FindScopedPayment(w, p)
      PROVE  TypeOK'
  BY <1>2 DEF FindScopedPayment
<1>3. CASE BeginAdvance(w)
  BY <1>3 DEF BeginAdvance
<1>4. CASE BeginQuery(w)
  BY <1>4 DEF BeginQuery
<1>5. CASE catchUpEnvironment(w)
  BY <1>1, <1>5 DEF catchUpEnvironment
<1>6. CASE advanceDuePayments(w)
  BY <1>1, <1>6 DEF advanceDuePayments, FirstBatch
<1>7. ASSUME NEW r \in todo[w], TakeRow(w, r)
      PROVE  TypeOK'
  BY <1>7 DEF TakeRow
<1>8. CASE EdgeApplied(w)
  BY <1>8, EdgeType
<1>9. CASE EdgeLost(w)
  BY <1>9 DEF EdgeLost, EdgeOutcomes
<1>10. CASE EdgeRolledBack(w)
  BY <1>10 DEF EdgeRolledBack, EdgeOutcomes
<1>u. CASE EdgeUnconfirmed(w)
  BY <1>u, EdgeType
<1>11. CASE NothingDue(w)
  <2>1. local[w] \in Row
    BY <1>11 DEF NothingDue, Advancing
  <2>2. CASE met[w] = NULL
    BY <1>11, <2>1, <2>2, ReturnType DEF NothingDue
  <2>3. CASE met[w] # NULL
    BY <1>11, <2>3 DEF NothingDue
  <2>4. QED
    BY <2>2, <2>3
<1>12. CASE Reread(w)
  <2>1. local[w] # NULL /\ Snapshot(local[w])
    BY <1>12 DEF Reread, PassInv, PassOK
  <2>2. local[w] \in Row /\ row[local[w].id] \in Row
    BY <2>1 DEF Snapshot
  <2>3. QED
    BY <1>12, <2>2, ReturnType DEF Reread
<1>13. CASE EndPass(w)
  BY <1>13 DEF EndPass
<1>14. CASE PassDies(w)
  BY <1>14 DEF PassDies
<1>15. QED
  BY <1>2, <1>3, <1>4, <1>5, <1>6, <1>7, <1>8, <1>9, <1>10, <1>u, <1>11, <1>12, <1>13, <1>14
     DEF Start, PassStep, Fault

(* Every step keeps the types.                                             *)
LEMMA TypeStep ==
  ASSUME TypeOK, RowInv, PassInv, [Next]_vars
  PROVE  TypeOK'
<1>1. CASE Tick
  BY <1>1 DEF Tick, TypeOK, createVars, passVars, rowVars
<1>2. CASE UNCHANGED vars
  BY <1>2 DEF vars, TypeOK
<1>3. QED
  BY <1>1, <1>2, CreateType, StepType DEF Next

--------------------------------------------------------------------------------
(* The rows, their events and their audit entries *)

PaymentInv ==
    /\ RowInv /\ TerminalEventExactlyOnce /\ KeyedTrailComplete
    /\ OutcomeAsRequested /\ NeverAheadOfSchedule

(* An applied edge keeps status, code, event and audit entry in accord,    *)
(* and is not ahead of the schedule.                                       *)
LEMMA EdgeKeepsPayments ==
  ASSUME TypeOK, PaymentInv, NEW p \in Payments,
         NEW to \in Statuses, NEW code \in FailureCodes \cup {NULL}, Edge(p, to, code)
  PROVE  PaymentInv'
<1> USE DEF PaymentInv
<1> DEFINE new == [row[p] EXCEPT !.status = to, !.failureCode = code]
<1>1. /\ row[p] \in Row /\ row[p] # NULL /\ asked[p] \in Requests /\ asked[p] \in Requested
      /\ new \in Row /\ new # NULL
      /\ new.id = row[p].id /\ new.scenario = row[p].scenario
      /\ new.createdAt = row[p].createdAt /\ new.status = to /\ new.failureCode = code
  <2>1. row[p] \in Row /\ row[p] # NULL /\ asked[p] \in Requests
    BY DEF Edge, TypeOK, RowInv
  <2>2. new \in Row
    BY <2>1 DEF Row
  <2>3. QED
    BY <2>1, <2>2, PaymentsAssumption, RowAssumption DEF Row
<1>2. /\ row'[p] = new
      /\ \A o \in Payments : o # p => row'[o] = row[o]
      /\ UNCHANGED <<clock, creator, asked>>
  BY DEF Edge, TypeOK
<1>3. /\ \A o \in Payments : o # p => events'[o] = events[o] /\ audit'[o] = audit[o]
      /\ to \notin Terminal => events'[p] = events[p] /\ audit'[p] = audit[p]
      /\ to \in Terminal => /\ events'[p] = [events[p] EXCEPT ![to] = @ + 1]
                            /\ audit'[p] = IF "created" \in audit[p] THEN audit[p] \cup {to}
                                           ELSE audit[p]
  BY DEF Edge, TypeOK, Emit, RecordTerminalAudit, Terminal
<1>4. /\ row[p].status \notin Terminal
      /\ to \in {"processing"} \cup Terminal
  BY DEF Edge, Terminal
<1>5. RowInv'
  <2>1. \A o \in Payments : row'[o] = NULL <=> row[o] = NULL
    BY <1>1, <1>2
  <2>2. \A o \in Payments : row[o] = NULL => audit'[o] = audit[o] /\ events'[o] = events[o]
    BY <1>1, <1>3
  <2>3. \A o \in Payments : row[o] # NULL =>
           /\ row'[o].id = row[o].id /\ row'[o].scenario = row[o].scenario
           /\ row'[o].createdAt = row[o].createdAt
    BY <1>1, <1>2
  <2>4. QED
    BY <1>2, <2>1, <2>2, <2>3 DEF RowInv
<1>6. TerminalEventExactlyOnce'
  <2> SUFFICES ASSUME NEW o \in Payments, NEW t \in Terminal
               PROVE  events'[o][t] = IF row'[o] # NULL /\ row'[o].status = t THEN 1 ELSE 0
    BY DEF TerminalEventExactlyOnce
  <2>1. CASE o # p
    BY <1>2, <1>3, <2>1 DEF TerminalEventExactlyOnce
  <2>2. CASE o = p
    <3>1. events[p][t] = 0 /\ events[p] \in [EventTypes -> Nat] /\ t \in EventTypes
      BY <1>4 DEF TerminalEventExactlyOnce, TypeOK, Terminal, EventTypes
    <3>2. events'[p][t] = IF t = to THEN 1 ELSE 0
      BY <1>3, <3>1
    <3>3. QED
      BY <1>1, <1>2, <2>2, <3>2
  <2>3. QED
    BY <2>1, <2>2
<1>7. KeyedTrailComplete'
  <2> SUFFICES ASSUME NEW o \in Keyed, row'[o] # NULL
               PROVE  /\ events'[o]["created"] = 1
                      /\ audit'[o] = {"created"} \cup ({row'[o].status} \cap Terminal)
    BY DEF KeyedTrailComplete
  <2>1. o \in Payments
    BY PaymentsAssumption
  <2>2. CASE o # p
    BY <1>2, <1>3, <2>1, <2>2 DEF KeyedTrailComplete
  <2>3. CASE o = p
    <3>1. events[p]["created"] = 1 /\ audit[p] = {"created"}
      BY <1>1, <1>4, <2>3 DEF KeyedTrailComplete
    <3>2. events[p] \in [EventTypes -> Nat] /\ to # "created" /\ "created" \in EventTypes
      BY <1>4 DEF TypeOK, Terminal, EventTypes
    <3>3. events'[p]["created"] = 1
      BY <1>3, <3>1, <3>2
    <3>4. audit'[p] = {"created"} \cup ({to} \cap Terminal)
      BY <1>3, <3>1
    <3>5. QED
      BY <1>1, <1>2, <2>3, <3>3, <3>4
  <2>4. QED
    BY <2>2, <2>3
<1>8. OutcomeAsRequested'
  <2>1. to = "failed" => /\ asked[p].scenario = "decline"
                         /\ code = IF asked[p].code = NULL THEN DefaultFailureCode
                                   ELSE asked[p].code
    <3> HAVE to = "failed"
    <3>1. code = Intended(asked[p]).code /\ asked[p].scenario = "decline"
      BY DEF Edge
    <3>2. asked[p].code \in FailureCodes \cup {NULL}
      BY <1>1 DEF Requested
    <3>3. QED
      BY <3>1, <3>2, NullAssumption DEF Intended
  <2>2. /\ to = "succeeded" => asked[p].scenario \in {"succeed", NULL}
        /\ to # "failed" => code = NULL
    BY DEF Edge, Terminal
  <2>3. \A o \in Payments : o # p => row'[o] = row[o] /\ asked'[o] = asked[o]
    BY <1>2
  <2>4. row'[p].status = to /\ row'[p].failureCode = code /\ asked'[p] = asked[p]
    BY <1>1, <1>2
  <2>5. QED
    BY <2>1, <2>2, <2>3, <2>4 DEF OutcomeAsRequested
<1>9. NeverAheadOfSchedule'
  <2>1. /\ to # "pending" => clock >= row[p].createdAt + PendingDelay
        /\ to \in Terminal => clock >= row[p].createdAt + PendingDelay + SettlementDelay
    BY <1>1, SimulationAssumption DEF Edge, Terminal, TypeOK, Row
  <2>2. QED
    BY <1>1, <1>2, <2>1 DEF NeverAheadOfSchedule
<1>10. QED
  BY <1>5, <1>6, <1>7, <1>8, <1>9

(* So does every statement of a create.                                    *)
LEMMA CreateKeepsPayments ==
  ASSUME TypeOK, PaymentInv, Create
  PROVE  PaymentInv'
<1> USE DEF PaymentInv
<1>k. Keyed \subseteq Payments
  BY PaymentsAssumption
<1>1. UNCHANGED clock
  BY DEF Create, CreateKeyed, InsertPayment, PersistCreatedEvent, RecordCreatedAudit, CreateDies
<1>2. ASSUME NEW p \in Payments, NEW q \in Requests, Insert(p, q),
             CreateKeyed(p, q) \/ InsertPayment(p, q)
      PROVE  PaymentInv'
  <2> DEFINE new == NewRow(p, q)
  <2>1. /\ row[p] = NULL /\ row'[p] = new /\ asked'[p] = q
        /\ \A o \in Payments : o # p => row'[o] = row[o] /\ asked'[o] = asked[o]
    BY <1>2 DEF Insert, TypeOK
  <2>2. /\ new # NULL /\ new.id = p /\ new.status = "pending" /\ new.failureCode = NULL
        /\ new.scenario = scenarioColumnValue(q.scenario, q.code) /\ new.createdAt = clock
    <3>1. scenarioColumnValue(q.scenario, q.code) \in Column \cup {NULL} /\ clock \in Nat
      BY PaymentsAssumption, ColumnType DEF TypeOK
    <3>2. new \in Row
      BY <3>1 DEF NewRow, Row, Statuses
    <3>3. QED
      BY <3>2, RowAssumption DEF NewRow
  <2>3. audit[p] = {} /\ events[p] = [t \in EventTypes |-> 0]
    BY <2>1 DEF RowInv
  <2>4. \/ /\ p \in Keyed /\ creator'[p] = "done" /\ audit'[p] = {"created"}
           /\ events'[p] = [events[p] EXCEPT !["created"] = @ + 1]
        \/ /\ p \notin Keyed /\ creator'[p] = "event" /\ audit'[p] = audit[p]
           /\ events'[p] = events[p]
    <3>1. /\ events \in [Payments -> [EventTypes -> Nat]]
          /\ audit \in [Payments -> SUBSET EventTypes]
          /\ creator \in [Payments -> {"start", "event", "audit", "done", "died"}]
      BY DEF TypeOK
    <3>2. CASE CreateKeyed(p, q)
      BY <2>3, <3>1, <3>2 DEF CreateKeyed, Emit
    <3>3. CASE InsertPayment(p, q)
      BY <3>1, <3>3 DEF InsertPayment
    <3>4. QED
      BY <1>2, <3>2, <3>3
  <2>5. \A o \in Payments : o # p => /\ audit'[o] = audit[o] /\ events'[o] = events[o]
                                    /\ creator'[o] = creator[o]
    BY <1>2 DEF CreateKeyed, InsertPayment, Emit, TypeOK
  <2>6. RowInv'
    BY <1>1, <2>1, <2>2, <2>4, <2>5, RowAssumption DEF RowInv, TypeOK
  <2>7. TerminalEventExactlyOnce'
    <3>1. \A t \in Terminal : events'[p][t] = 0
      BY <2>3, <2>4 DEF Terminal, EventTypes
    <3>2. \A o \in Payments : o # p => row'[o] = row[o] /\ events'[o] = events[o]
      BY <2>1, <2>5
    <3>3. row'[p].status \notin Terminal
      BY <2>1, <2>2 DEF Terminal
    <3>4. \A o \in Payments : \A t \in Terminal :
             events'[o][t] = IF row'[o] # NULL /\ row'[o].status = t THEN 1 ELSE 0
      <4>1. TerminalEventExactlyOnce
        OBVIOUS
      <4>2. QED
        BY <3>1, <3>2, <3>3, <4>1 DEF TerminalEventExactlyOnce
    <3>5. QED
      BY <3>4 DEF TerminalEventExactlyOnce
  <2>8. KeyedTrailComplete'
    <3>1. p \in Keyed => events'[p]["created"] = 1
      BY <2>3, <2>4 DEF EventTypes
    <3>2. row'[p].status \notin Terminal
      BY <2>1, <2>2 DEF Terminal
    <3>3. p \in Keyed => audit'[p] = {"created"} \cup ({row'[p].status} \cap Terminal)
      BY <2>4, <3>2
    <3>4. \A o \in Keyed : o # p => /\ row'[o] = row[o]
                                   /\ events'[o] = events[o] /\ audit'[o] = audit[o]
      BY <1>k, <2>1, <2>5
    <3>5. QED
      BY <3>1, <3>3, <3>4 DEF KeyedTrailComplete
  <2>9. OutcomeAsRequested' /\ NeverAheadOfSchedule'
    BY <1>1, <2>1, <2>2 DEF OutcomeAsRequested, NeverAheadOfSchedule, Terminal
  <2>10. QED
    BY <2>6, <2>7, <2>8, <2>9
<1>3. ASSUME NEW p \in Payments,
             PersistCreatedEvent(p) \/ RecordCreatedAudit(p) \/ CreateDies(p)
      PROVE  PaymentInv'
  <2>1. /\ UNCHANGED <<row, asked>>
        /\ p \notin Keyed /\ row[p] # NULL
        /\ creator'[p] # "start"
        /\ \A t \in Terminal : events'[p][t] = events[p][t]
        /\ \A o \in Payments : o # p => /\ audit'[o] = audit[o] /\ events'[o] = events[o]
                                      /\ creator'[o] = creator[o]
    BY <1>3 DEF PersistCreatedEvent, RecordCreatedAudit, CreateDies, Emit, RowInv, TypeOK, Terminal,
                EventTypes
  <2>2. RowInv'
    BY <1>1, <2>1 DEF RowInv, TypeOK
  <2>3. TerminalEventExactlyOnce' /\ KeyedTrailComplete'
    BY <1>k, <2>1 DEF TerminalEventExactlyOnce, KeyedTrailComplete
  <2>4. OutcomeAsRequested' /\ NeverAheadOfSchedule'
    BY <1>1, <2>1 DEF OutcomeAsRequested, NeverAheadOfSchedule
  <2>5. QED
    BY <2>2, <2>3, <2>4
<1>4. QED
  BY <1>2, <1>3 DEF Create, CreateKeyed, InsertPayment

(* Every step keeps what is claimed of the committed rows.                 *)
LEMMA PaymentStep ==
  ASSUME TypeOK, PassInv, PaymentInv, [Next]_vars
  PROVE  PaymentInv'
<1>1. CASE UNCHANGED createVars /\ clock <= clock' /\ clock' \in Nat
  BY <1>1, SimulationAssumption
     DEF PaymentInv, createVars, RowInv, TerminalEventExactlyOnce, KeyedTrailComplete,
         OutcomeAsRequested, NeverAheadOfSchedule, TypeOK, Row
<1>2. CASE Tick
  BY <1>1, <1>2 DEF Tick, TypeOK
<1>3. CASE UNCHANGED vars
  BY <1>1, <1>3 DEF vars, createVars, TypeOK
<1>4. ASSUME NEW w \in Passes, CommitEdge(w)
      PROVE  PaymentInv'
  <2>1. RowInv
    BY DEF PaymentInv
  <2>2. PICK to \in Statuses, code \in FailureCodes \cup {NULL} :
              Edge(local[w].id, to, code) /\ local[w] # NULL
    BY <1>4, <2>1, EdgeFacts
  <2>3. local[w].id \in Payments
    BY <2>2 DEF PassInv, PassOK, Snapshot
  <2>4. QED
    BY <2>2, <2>3, EdgeKeepsPayments
<1>5. ASSUME NEW w \in Passes, ~ CommitEdge(w),
             Start(w) \/ PassStep(w) \/ Fault(w)
      PROVE  PaymentInv'
  <2>1. UNCHANGED createVars /\ UNCHANGED clock
    BY <1>5 DEF Start, PassStep, BeginQuery, FindScopedPayment, BeginAdvance, catchUpEnvironment,
                advanceDuePayments, TakeRow, EdgeApplied, EdgeUnconfirmed, EdgeLost, NothingDue,
                Reread, EndPass, Fault, EdgeRolledBack, PassDies
  <2>2. QED
    BY <1>1, <2>1 DEF TypeOK
<1>6. QED
  BY <1>2, <1>3, <1>4, <1>5, CreateKeepsPayments DEF Next

--------------------------------------------------------------------------------
(* The snapshots of the passes *)

(* Rows are never removed, never change in what a snapshot is trusted for, *)
(* and their status only moves forward.                                    *)
LEMMA RowsMoveForward ==
  ASSUME TypeOK, RowInv, PassInv, [Next]_vars, NEW p \in Payments, row[p] # NULL
  PROVE  /\ row'[p] # NULL
         /\ row'[p].createdAt = row[p].createdAt /\ row'[p].scenario = row[p].scenario
         /\ Reached(row[p].status, row'[p].status)
<1>1. CASE row'[p] = row[p]
  BY <1>1 DEF Reached
<1>2. ASSUME NEW w \in Passes, CommitEdge(w), row'[p] # row[p]
      PROVE  /\ row'[p] # NULL
             /\ row'[p].createdAt = row[p].createdAt /\ row'[p].scenario = row[p].scenario
             /\ Reached(row[p].status, row'[p].status)
  <2>1. PICK to \in Statuses, code \in FailureCodes \cup {NULL} :
              Edge(local[w].id, to, code)
    BY <1>2, EdgeFacts
  <2>2. /\ row'[p] = [row[p] EXCEPT !.status = to, !.failureCode = code]
        /\ p = local[w].id /\ row[p] \in Row
    BY <1>2, <2>1 DEF Edge, TypeOK
  <2>3. row'[p] \in Row /\ row'[p].status = to
    BY <2>2 DEF Row
  <2>4. Reached(row[p].status, to)
    BY <2>1, <2>2 DEF Edge, Reached
  <2>5. QED
    BY <2>2, <2>3, <2>4, RowAssumption DEF Row
<1>3. ASSUME Create
      PROVE  row'[p] = row[p]
  BY <1>3 DEF Create, CreateKeyed, InsertPayment, Insert, PersistCreatedEvent,
              RecordCreatedAudit, CreateDies, TypeOK
<1>4. ASSUME NEW w \in Passes, ~ CommitEdge(w),
             Start(w) \/ PassStep(w) \/ Fault(w)
      PROVE  row' = row
  BY <1>4 DEF Start, PassStep, BeginQuery, FindScopedPayment, BeginAdvance, catchUpEnvironment,
              advanceDuePayments, TakeRow, EdgeApplied, EdgeUnconfirmed, EdgeLost, NothingDue,
              Reread, EndPass, Fault, EdgeRolledBack, PassDies, createVars
<1>5. QED
  BY <1>1, <1>2, <1>3, <1>4 DEF Next, vars, Tick, createVars

(* A snapshot only ever falls behind its row, and agrees with it in what   *)
(* a pass trusts it for.                                                   *)
LEMMA SnapshotsAge ==
  ASSUME TypeOK, RowInv, PassInv, [Next]_vars, NEW r, Snapshot(r)
  PROVE  /\ Snapshot(r)'
         /\ row[r.id].status # r.status => row'[r.id].status # r.status
<1> DEFINE p == r.id
<1>1. p \in Payments /\ row[p] # NULL /\ Reached(r.status, row[p].status)
  BY DEF Snapshot
<1>2. /\ row'[p] # NULL
      /\ row'[p].createdAt = row[p].createdAt /\ row'[p].scenario = row[p].scenario
      /\ Reached(row[p].status, row'[p].status)
  BY <1>1, RowsMoveForward
<1>3. /\ Reached(r.status, row'[p].status)
      /\ row[p].status # r.status => row'[p].status # r.status
  BY <1>1, <1>2 DEF Reached, Terminal
<1>4. QED
  BY <1>1, <1>2, <1>3 DEF Snapshot

(* A pass that does not move keeps what it knows.                          *)
LEMMA OthersKeep ==
  ASSUME TypeOK, RowInv, PassInv, [Next]_vars, clock <= clock', clock' \in Nat, NEW v \in Passes,
         now'[v] = now[v], todo'[v] \subseteq todo[v], local'[v] = local[v],
         pc'[v] = pc[v], met'[v] = met[v]
  PROVE  PassOK(v)'
<1>1. PassOK(v)
  BY DEF PassInv
<1>2. \A r \in todo'[v] : Snapshot(r)'
  BY <1>1, SnapshotsAge DEF PassOK
<1>3. ASSUME local[v] # NULL
      PROVE  /\ Snapshot(local[v])'
             /\ row[local[v].id].status # local[v].status =>
                    row'[local[v].id].status # local[v].status
  <2>1. \A r : Snapshot(r) =>
           /\ r.id \in Payments /\ row'[r.id] # NULL
           /\ row'[r.id].createdAt = r.createdAt /\ row'[r.id].scenario = r.scenario
           /\ Reached(r.status, row'[r.id].status)
           /\ row[r.id].status # r.status => row'[r.id].status # r.status
    BY SnapshotsAge DEF Snapshot
  <2>2. Snapshot(local[v])
    BY <1>1, <1>3 DEF PassOK
  <2>3. QED
    BY <2>1, <2>2 DEF Snapshot
<1>4. now'[v] <= clock'
  BY <1>1 DEF PassOK, TypeOK
<1>5. QED
  BY <1>1, <1>2, <1>3, <1>4 DEF PassOK

(* The pass that moves: what it has read last is the row itself.           *)
LEMMA MoverKeeps ==
  ASSUME TypeOK, RowInv, PassInv, [Next]_vars, NEW w \in Passes,
         Start(w) \/ PassStep(w) \/ Fault(w)
  PROVE  PassOK(w)'
<1> DEFINE Aged(r) == /\ r.id \in Payments /\ row'[r.id] # NULL
                      /\ row'[r.id].createdAt = r.createdAt
                      /\ row'[r.id].scenario = r.scenario
                      /\ Reached(r.status, row'[r.id].status)
<1>1. PassOK(w)
  BY DEF PassInv
<1>2. \A r : Snapshot(r) => Aged(r)
  BY SnapshotsAge DEF Snapshot
<1>3. \A r \in Rows : Snapshot(r)
  BY DEF Rows, Snapshot, Reached, RowInv
<1>4. clock' = clock /\ clock \in Nat
  BY DEF Start, PassStep, BeginQuery, FindScopedPayment, BeginAdvance, catchUpEnvironment,
         advanceDuePayments, TakeRow, CommitEdge, EdgeApplied, EdgeLost, NothingDue, Reread,
         EndPass, Fault, EdgeRolledBack, EdgeUnconfirmed, PassDies, TypeOK
<1> HIDE DEF Aged
<1> USE <1>1, <1>2, <1>3, <1>4, RowAssumption DEF TypeOK, Goto, ReadClock, rowVars, EdgeOutcomes
<1>5. ASSUME /\ now'[w] <= clock
             /\ \A r \in todo'[w] : Aged(r)
             /\ local'[w] # NULL => Aged(local'[w])
             /\ pc'[w] = "reread" => local'[w] # NULL
             /\ met'[w] = "lost" => /\ local'[w] # NULL /\ pc'[w] = "reread"
                                    /\ row'[local'[w].id].status # local'[w].status
      PROVE  PassOK(w)'
  <2>1. \A r : Aged(r) <=> Snapshot(r)'
    BY DEF Snapshot, Aged
  <2>2. \A r \in todo'[w] : Snapshot(r)'
    BY <1>5, <2>1
  <2>3. local'[w] # NULL => Aged(local'[w])
    BY <1>5
  <2>4. local'[w] # NULL => Snapshot(local[w])'
    BY <2>3 DEF Snapshot, Aged
  <2>5. QED
    BY <1>5, <2>2, <2>4 DEF PassOK
<1>6. ASSUME NEW p \in Payments, FindScopedPayment(w, p)
      PROVE  PassOK(w)'
  <2>1. row[p] \in Rows
    BY <1>6 DEF FindScopedPayment, Rows
  <2>2. QED
    BY <1>5, <1>6, <2>1 DEF FindScopedPayment, PassOK
<1>7. CASE BeginAdvance(w)
  BY <1>5, <1>7 DEF BeginAdvance, PassOK
<1>8. CASE BeginQuery(w)
  BY <1>5, <1>8 DEF BeginQuery, PassOK
<1>9. CASE catchUpEnvironment(w)
  BY <1>5, <1>9 DEF catchUpEnvironment, PassOK
<1>10. CASE advanceDuePayments(w)
  BY <1>5, <1>10 DEF advanceDuePayments, FirstBatch, PassOK
<1>11. ASSUME NEW r \in todo[w], TakeRow(w, r)
       PROVE  PassOK(w)'
  BY <1>5, <1>11 DEF TakeRow, PassOK
<1>12. CASE EdgeApplied(w)
  <2>1. PICK to \in Statuses, code \in FailureCodes \cup {NULL} :
              /\ Edge(local[w].id, to, code)
              /\ local' = [local EXCEPT ![w] = [@ EXCEPT !.status = to, !.failureCode = code]]
              /\ local[w] # NULL
    BY <1>12, EdgeFacts DEF EdgeApplied
  <2> DEFINE p == local[w].id
  <2>2. /\ p \in Payments /\ row[p] \in Row /\ local[w] \in Row
        /\ row[p].createdAt = local[w].createdAt /\ row[p].scenario = local[w].scenario
        /\ row[p].id = p
    BY <2>1 DEF PassOK, Snapshot, RowInv
  <2>3. /\ row'[p] = [row[p] EXCEPT !.status = to, !.failureCode = code]
        /\ local'[w] = [local[w] EXCEPT !.status = to, !.failureCode = code]
    BY <2>1, <2>2 DEF Edge
  <2>4. /\ row'[p] \in Row /\ row'[p].status = to
        /\ row'[p].createdAt = row[p].createdAt /\ row'[p].scenario = row[p].scenario
        /\ local'[w].id = p /\ local'[w].status = to
        /\ local'[w].createdAt = local[w].createdAt /\ local'[w].scenario = local[w].scenario
    BY <2>2, <2>3 DEF Row
  <2>5. Aged(local'[w])
    BY <2>2, <2>4 DEF Aged, Reached
  <2>6. local'[w] \in Row
    BY <2>2, <2>3 DEF Row
  <2>7. UNCHANGED <<now, todo, pc>> /\ met'[w] = "applied" /\ pc[w] = "advance"
    BY <1>12 DEF CommitEdge, EdgeApplied, Advancing
  <2>8. QED
    BY <1>5, <2>5, <2>6, <2>7 DEF PassOK
<1>13. CASE EdgeLost(w)
  <2>1. /\ local[w] # NULL /\ row[local[w].id].status # local[w].status
        /\ row' = row /\ UNCHANGED <<now, todo, local>>
        /\ pc'[w] = "reread"
    BY <1>13 DEF EdgeLost, Advancing, EdgeMatches, createVars
  <2>2. QED
    BY <1>5, <2>1 DEF PassOK
<1>14. CASE EdgeRolledBack(w)
  BY <1>5, <1>14 DEF EdgeRolledBack, Advancing, PassOK
<1>u. CASE EdgeUnconfirmed(w)
  <2>1. /\ local[w] # NULL /\ UNCHANGED <<now, todo, local>>
        /\ pc'[w] = "reread" /\ met'[w] = "rolled-back"
    BY <1>u DEF EdgeUnconfirmed, CommitEdge, Advancing
  <2>2. QED
    BY <1>5, <2>1 DEF PassOK
<1>15. CASE NothingDue(w)
  <2>1. UNCHANGED <<now, todo, row>> /\ local[w] # NULL /\ pc[w] = "advance"
    BY <1>15 DEF NothingDue, Advancing, createVars
  <2>2. CASE met[w] = NULL
    <3>1. local'[w] = NULL /\ met'[w] = NULL /\ pc'[w] = "advance"
      BY <1>15, <2>1, <2>2 DEF NothingDue, Return
    <3>2. QED
      BY <1>5, <2>1, <3>1 DEF PassOK
  <2>3. CASE met[w] # NULL
    BY <1>5, <1>15, <2>1, <2>3 DEF NothingDue, PassOK
  <2>4. QED
    BY <2>2, <2>3
<1>16. CASE Reread(w)
  <2>1. /\ local'[w] = NULL /\ met'[w] = NULL /\ pc'[w] = "advance"
        /\ UNCHANGED <<now, todo, row>>
    BY <1>16 DEF Reread, Return, createVars
  <2>2. QED
    BY <1>5, <2>1 DEF PassOK
<1>17. CASE EndPass(w)
  <2>1. pc'[w] = "idle" /\ UNCHANGED <<now, todo, local, met>> /\ local[w] = NULL
    BY <1>17 DEF EndPass
  <2>2. QED
    BY <1>5, <2>1 DEF PassOK
<1>18. CASE PassDies(w)
  BY <1>5, <1>18 DEF PassDies, PassOK
<1>19. QED
  BY <1>6, <1>7, <1>8, <1>9, <1>10, <1>11, <1>12, <1>13, <1>14, <1>u, <1>15, <1>16, <1>17,
     <1>18 DEF Start, PassStep, Fault

(* Every step keeps what every pass knows of its rows.                     *)
LEMMA PassesStep ==
  ASSUME TypeOK, RowInv, PassInv, [Next]_vars
  PROVE  PassInv'
<1> SUFFICES ASSUME NEW v \in Passes
             PROVE  PassOK(v)'
  BY DEF PassInv
<1>1. CASE UNCHANGED passVars /\ clock <= clock' /\ clock' \in Nat
  BY <1>1, OthersKeep DEF passVars, rowVars
<1>2. CASE Tick \/ Create \/ UNCHANGED vars
  <2>1. UNCHANGED passVars /\ clock <= clock' /\ clock' \in Nat
    BY <1>2 DEF Tick, Create, CreateKeyed, InsertPayment, PersistCreatedEvent, RecordCreatedAudit,
                CreateDies, vars, passVars, rowVars, TypeOK
  <2>2. QED
    BY <1>1, <2>1
<1>3. ASSUME NEW w \in Passes, v # w,
             Start(w) \/ PassStep(w) \/ Fault(w)
      PROVE  PassOK(v)'
  <2>1. /\ UNCHANGED clock /\ now'[v] = now[v] /\ todo'[v] = todo[v] /\ local'[v] = local[v]
        /\ pc'[v] = pc[v] /\ met'[v] = met[v]
    BY <1>3 DEF Start, PassStep, BeginQuery, FindScopedPayment, BeginAdvance, catchUpEnvironment,
                advanceDuePayments, TakeRow, CommitEdge, EdgeApplied, EdgeLost, NothingDue, Reread,
                EndPass, Fault, EdgeRolledBack, EdgeUnconfirmed, PassDies, Return, Goto,
                ReadClock, rowVars, TypeOK
  <2>2. QED
    BY <2>1, OthersKeep DEF TypeOK
<1>4. QED
  BY <1>2, <1>3, MoverKeeps DEF Next

(* Every step keeps what is claimed of the answers.                        *)
LEMMA AnswersStep ==
  ASSUME TypeOK, PassInv, ContendedReadNotStale, [Next]_vars
  PROVE  ContendedReadNotStale'
<1> DEFINE Fresh(a) == a # NULL /\ a.met = "lost" => a.row.status # a.tried
<1>1. ASSUME \A w \in Passes : answer'[w] = answer[w] \/ Fresh(answer'[w])
      PROVE  ContendedReadNotStale'
  BY <1>1 DEF ContendedReadNotStale
<1>2. CASE UNCHANGED answer
  BY <1>1, <1>2
<1>3. ASSUME NEW w \in Passes, NEW r, Return(w, r), met[w] = "lost" => r.status # local[w].status
      PROVE  ContendedReadNotStale'
  <2>1. Fresh([row |-> r, met |-> met[w], tried |-> local[w].status])
    BY <1>3
  <2>2. QED
    BY <1>1, <1>3, <2>1 DEF Return, TypeOK
<1>4. ASSUME NEW w \in Passes, answer' = [answer EXCEPT ![w] = NULL]
      PROVE  ContendedReadNotStale'
  BY <1>1, <1>4 DEF TypeOK
<1>5. ASSUME NEW w \in Passes, NothingDue(w)
      PROVE  ContendedReadNotStale'
  BY <1>2, <1>3, <1>5, RowAssumption DEF NothingDue, EdgeOutcomes
<1>6. ASSUME NEW w \in Passes, Reread(w)
      PROVE  ContendedReadNotStale'
  BY <1>3, <1>6 DEF Reread, PassInv, PassOK
<1>7. ASSUME NEW w \in Passes,
             BeginQuery(w) \/ PassDies(w) \/ \E p \in Payments : FindScopedPayment(w, p)
      PROVE  ContendedReadNotStale'
  BY <1>4, <1>7 DEF BeginQuery, PassDies, FindScopedPayment
<1>8. QED
  BY <1>2, <1>5, <1>6, <1>7
     DEF Next, Start, PassStep, BeginAdvance, catchUpEnvironment, advanceDuePayments, TakeRow,
         CommitEdge, EdgeApplied, EdgeLost, EndPass, Fault, EdgeRolledBack, EdgeUnconfirmed,
         Tick, vars, passVars, Create,
         CreateKeyed, InsertPayment, PersistCreatedEvent, RecordCreatedAudit, CreateDies

--------------------------------------------------------------------------------
(* The invariant and what follows from it *)

(* The invariant holds before the first payment.                           *)
LEMMA Initially == Init => IInv
<1> SUFFICES ASSUME Init PROVE IInv
  OBVIOUS
<1>1. TypeOK
  BY TypeInit
<1>2. RowInv /\ PassInv
  BY RowAssumption DEF Init, RowInv, PassInv, PassOK, EdgeOutcomes
<1>3. TerminalEventExactlyOnce
  BY DEF Init, TerminalEventExactlyOnce, Terminal, EventTypes
<1>4. KeyedTrailComplete /\ OutcomeAsRequested /\ NeverAheadOfSchedule /\ ContendedReadNotStale
  BY PaymentsAssumption
     DEF Init, KeyedTrailComplete, OutcomeAsRequested, NeverAheadOfSchedule, ContendedReadNotStale
<1>5. QED
  BY <1>1, <1>2, <1>3, <1>4 DEF IInv

(* The invariant is inductive.                                             *)
LEMMA Inductive == IInv /\ [Next]_vars => IInv'
  BY TypeStep, PaymentStep, PassesStep, AnswersStep DEF IInv, PaymentInv

(* The inductive invariant holds in every execution: the committed rows    *)
(* agree with what was asked, emitted and audited, and every snapshot a    *)
(* pass holds is an earlier state of its row.                              *)
THEOREM Invariance == Spec => []IInv
<1>1. QED
  BY Initially, Inductive, PTL DEF Spec

(* Every variable keeps its type: in particular no pass applies more than  *)
(* two edges to one row, and every answered row is a row.                  *)
THEOREM TypeCorrect == Spec => []TypeOK
<1>1. IInv => TypeOK
  BY DEF IInv
<1>2. QED
  BY <1>1, Invariance, PTL

(* A terminal status and its event appear together and once, for any       *)
(* number of racing readers and sweeps, any failure and any death.         *)
THEOREM TerminalEventOnce == Spec => []TerminalEventExactlyOnce
<1>1. IInv => TerminalEventExactlyOnce
  BY DEF IInv
<1>2. QED
  BY <1>1, Invariance, PTL

(* The event and audit trail of a keyed payment is complete at all times.  *)
THEOREM KeyedTrail == Spec => []KeyedTrailComplete
<1>1. IInv => KeyedTrailComplete
  BY DEF IInv
<1>2. QED
  BY <1>1, Invariance, PTL

(* The outcome is the one asked for: the column is written and read back   *)
(* without loss, and no race changes which edge is taken.                  *)
THEOREM OutcomeFixed == Spec => []OutcomeAsRequested
<1>1. IInv => OutcomeAsRequested
  BY DEF IInv
<1>2. QED
  BY <1>1, Invariance, PTL

(* No pass, however stale its snapshot or late its clock reading, moves a  *)
(* payment before its time.                                                *)
THEOREM OnSchedule == Spec => []NeverAheadOfSchedule
<1>1. IInv => NeverAheadOfSchedule
  BY DEF IInv
<1>2. QED
  BY <1>1, Invariance, PTL

(* A pass that lost its race never answers with the snapshot it lost with. *)
THEOREM LoserRereads == Spec => []ContendedReadNotStale
<1>1. IInv => ContendedReadNotStale
  BY DEF IInv
<1>2. QED
  BY <1>1, Invariance, PTL
--------------------------------------------------------------------------------
(* A read without competitor or failure catches up *)

(* Nothing is due for r at time t.                                         *)
Settled(r, t) ==
    scheduledTransition(r.status, r.createdAt, t,
                        parseSimulationScenario(r.scenario).scenario) = NULL

CaughtUp(w) ==
    /\ pc[w] \in {"retrieve", "list", "sweep"} => answer[w] = NULL
    /\ local[w] = NULL \/ met[w] = NULL => steps[w] = 0
    /\ local[w] = NULL => met[w] = NULL
    /\ steps[w] >= 1 => local[w].status # "pending"
    /\ steps[w] >= 2 => local[w].status \in Terminal
    /\ pc[w] = "reread" => met[w] # NULL
    /\ pc[w] = "reread" /\ met[w] = "applied" => Settled(local[w], now[w])
    /\ answer[w] # NULL /\ answer[w].met \in {"applied", NULL} => Settled(answer[w].row, now[w])

CaughtUpInv == \A w \in Passes : CaughtUp(w)

(* If nothing is due for a snapshot, nothing is due for what its row has   *)
(* become in the meantime.                                                 *)
LEMMA SettledAges ==
  ASSUME NEW r \in Row, NEW q \in Row, NEW t \in Nat, Settled(r, t),
         q.createdAt = r.createdAt, q.scenario = r.scenario, Reached(r.status, q.status)
  PROVE  Settled(q, t)
<1> DEFINE s == parseSimulationScenario(r.scenario).scenario
<1> HIDE DEF s
<1> USE SimulationAssumption, NullAssumption DEF Statuses, Terminal
<1>1. r.createdAt \in Nat /\ r.status \in Statuses /\ q.status \in Statuses
  BY DEF Row
<1>2. scheduledTransition(r.status, r.createdAt, t, s) = NULL
  BY DEF Settled, s
<1>3. scheduledTransition(q.status, r.createdAt, t, s) = NULL
  <2>1. CASE q.status = r.status
    BY <1>2, <2>1
  <2>2. CASE q.status \in Terminal
    BY <2>2 DEF scheduledTransition
  <2>3. CASE r.status = "pending" /\ q.status = "processing"
    <3>1. ~ (t - r.createdAt >= PendingDelay)
      BY <1>2, <2>3 DEF scheduledTransition
    <3>2. ~ (t - r.createdAt >= PendingDelay + SettlementDelay)
      BY <1>1, <3>1
    <3>3. QED
      BY <2>3, <3>2 DEF scheduledTransition
  <2>4. QED
    BY <1>1, <2>1, <2>2, <2>3 DEF Reached
<1>4. QED
  BY <1>3 DEF Settled, s

(* The loop ends with nothing due: two edges lead to a terminal status.    *)
LEMMA LoopEndsSettled ==
  ASSUME TypeOK, NEW w \in Passes, CaughtUp(w), Advancing(w), DueEdge(w) = NULL
  PROVE  Settled(local[w], now[w])
<1>1. CASE steps[w] = MaxSteps
  <2>1. local[w].status \in Terminal
    BY <1>1 DEF CaughtUp, MaxSteps
  <2>2. QED
    BY <2>1 DEF Settled, scheduledTransition, Terminal
<1>2. CASE steps[w] # MaxSteps
  BY <1>2 DEF DueEdge, Settled
<1>3. QED
  BY <1>1, <1>2

(* What advance() returns is settled, if it met nobody.                    *)
LEMMA ReturnsSettled ==
  ASSUME TypeOK, NEW w \in Passes, NEW r, Return(w, r), now' = now, pc'[w] = "advance",
         met[w] \in {"applied", NULL} => Settled(r, now[w])
  PROVE  CaughtUp(w)'
<1>1. /\ local'[w] = NULL /\ steps'[w] = 0 /\ met'[w] = NULL
      /\ answer'[w] = [row |-> r, met |-> met[w], tried |-> local[w].status]
  BY DEF Return, TypeOK
<1>2. answer'[w].met \in {"applied", NULL} => Settled(answer'[w].row, now'[w])
  BY <1>1
<1>3. pc'[w] # "reread"
  OBVIOUS
<1>4. QED
  BY <1>1, <1>2, <1>3 DEF CaughtUp, Settled

(* The pass that moves keeps on the way to a settled row.                  *)
LEMMA CaughtUpMoves ==
  ASSUME TypeOK, RowInv, PassInv, NEW w \in Passes, CaughtUp(w),
         Start(w) \/ PassStep(w) \/ Fault(w)
  PROVE  CaughtUp(w)'
<1> USE RowAssumption DEF TypeOK, Goto, ReadClock, rowVars, EdgeOutcomes
<1>1. ASSUME pc'[w] # "reread", answer'[w] = NULL, UNCHANGED rowVars
      PROVE  CaughtUp(w)'
  BY <1>1 DEF CaughtUp
<1>2. ASSUME NEW p \in Payments, FindScopedPayment(w, p)
      PROVE  CaughtUp(w)'
  BY <1>1, <1>2 DEF FindScopedPayment
<1>3. CASE BeginAdvance(w) \/ BeginQuery(w) \/ catchUpEnvironment(w) \/ advanceDuePayments(w)
  <2>1. UNCHANGED rowVars /\ answer'[w] = NULL /\ pc'[w] # "reread"
    BY <1>3 DEF BeginAdvance, BeginQuery, catchUpEnvironment, advanceDuePayments, CaughtUp
  <2>2. QED
    BY <1>1, <2>1
<1>4. ASSUME NEW r \in todo[w], TakeRow(w, r)
      PROVE  CaughtUp(w)'
  <2>1. /\ pc[w] = "advance" /\ steps[w] = 0 /\ met[w] = NULL
        /\ UNCHANGED <<pc, now, steps, met, answer>>
    BY <1>4 DEF TakeRow, CaughtUp
  <2>2. QED
    BY <2>1 DEF CaughtUp, Settled
<1>5. CASE EdgeApplied(w)
  <2>1. PICK to \in Statuses, code \in FailureCodes \cup {NULL} :
              /\ Edge(local[w].id, to, code)
              /\ local' = [local EXCEPT ![w] = [@ EXCEPT !.status = to, !.failureCode = code]]
              /\ steps[w] # MaxSteps /\ local[w] # NULL /\ pc[w] = "advance"
              /\ local[w].status = row[local[w].id].status
    BY <1>5, EdgeFacts DEF EdgeApplied
  <2>2. local'[w] = [local[w] EXCEPT !.status = to, !.failureCode = code] /\ local[w] \in Row
    BY <2>1
  <2>3. local'[w].status = to /\ local'[w] # NULL
    <3>1. local'[w] \in Row /\ local'[w].status = to
      BY <2>2 DEF Row
    <3>2. QED
      BY <3>1
  <2>4. /\ to # "pending"
        /\ local[w].status # "pending" => to \in Terminal
    BY <2>1 DEF Edge, Terminal
  <2>5. /\ steps'[w] = steps[w] + 1 /\ steps[w] \in 0 .. 2 /\ met'[w] = "applied"
        /\ pc'[w] = "advance" /\ answer' = answer /\ now' = now
    BY <1>5, <2>1 DEF EdgeApplied, CommitEdge
  <2>6. steps'[w] >= 2 => steps[w] >= 1
    BY <2>5
  <2>7. QED
    BY <2>3, <2>4, <2>5, <2>6 DEF CaughtUp, Settled
<1>6. CASE EdgeLost(w) \/ EdgeRolledBack(w) \/ EdgeUnconfirmed(w)
  <2>1. /\ met'[w] \in {"lost", "rolled-back"} /\ local[w] # NULL /\ pc'[w] = "reread"
        /\ UNCHANGED <<now, local, steps, answer>>
    BY <1>6 DEF EdgeLost, EdgeRolledBack, EdgeUnconfirmed, CommitEdge, Advancing
  <2>2. QED
    BY <2>1 DEF CaughtUp, Settled
<1>7. CASE NothingDue(w)
  <2>1. /\ local[w] \in Row /\ local[w] # NULL /\ now' = now /\ pc[w] = "advance"
        /\ Settled(local[w], now[w])
    BY <1>7, LoopEndsSettled DEF NothingDue, Advancing
  <2>2. CASE met[w] = NULL
    BY <1>7, <2>1, <2>2, ReturnsSettled DEF NothingDue
  <2>3. CASE met[w] # NULL
    <3>1. UNCHANGED <<local, steps, met, answer>> /\ pc'[w] = "reread"
      BY <1>7, <2>3 DEF NothingDue
    <3>2. QED
      BY <2>1, <2>3, <3>1 DEF CaughtUp, Settled
  <2>4. QED
    BY <2>2, <2>3
<1>8. CASE Reread(w)
  <2> DEFINE q == row[local[w].id]
  <2>1. /\ local[w] # NULL /\ local[w] \in Row /\ q \in Row /\ now[w] \in Nat
        /\ q.createdAt = local[w].createdAt /\ q.scenario = local[w].scenario
        /\ Reached(local[w].status, q.status)
    BY <1>8 DEF Reread, PassInv, PassOK, Snapshot
  <2>2. /\ Return(w, q) /\ pc'[w] = "advance" /\ pc[w] = "reread" /\ now' = now
    BY <1>8 DEF Reread
  <2>3. met[w] # NULL
    BY <2>2 DEF CaughtUp
  <2>4. met[w] = "applied" => Settled(q, now[w])
    BY <2>1, <2>2, SettledAges DEF CaughtUp
  <2>5. QED
    BY <2>2, <2>3, <2>4, ReturnsSettled
<1>9. CASE EndPass(w)
  <2>1. pc'[w] = "idle" /\ UNCHANGED <<now, local, steps, met, answer>>
    BY <1>9 DEF EndPass
  <2>2. QED
    BY <2>1 DEF CaughtUp, Settled
<1>10. CASE PassDies(w)
  <2>1. /\ pc'[w] = "idle" /\ local'[w] = NULL /\ steps'[w] = 0 /\ met'[w] = NULL
        /\ answer'[w] = NULL
    BY <1>10 DEF PassDies
  <2>2. QED
    BY <2>1 DEF CaughtUp
<1>11. QED
  BY <1>2, <1>3, <1>4, <1>5, <1>6, <1>7, <1>8, <1>9, <1>10 DEF Start, PassStep, Fault

(* Nobody else touches what a pass has in hand.                            *)
LEMMA CaughtUpStep ==
  ASSUME TypeOK, RowInv, PassInv, CaughtUpInv, [Next]_vars
  PROVE  CaughtUpInv'
<1> SUFFICES ASSUME NEW v \in Passes PROVE CaughtUp(v)'
  BY DEF CaughtUpInv
<1>1. CaughtUp(v)
  BY DEF CaughtUpInv
<1>2. CASE UNCHANGED <<pc[v], now[v], local[v], steps[v], met[v], answer[v]>>
  BY <1>1, <1>2 DEF CaughtUp, Settled
<1>3. CASE Tick \/ Create \/ UNCHANGED vars
  <2>1. UNCHANGED passVars
    BY <1>3 DEF Tick, Create, CreateKeyed, InsertPayment, PersistCreatedEvent, RecordCreatedAudit,
                CreateDies, vars, passVars, rowVars
  <2>2. QED
    BY <1>2, <2>1 DEF passVars, rowVars
<1>4. ASSUME NEW w \in Passes, v # w, Start(w) \/ PassStep(w) \/ Fault(w)
      PROVE  CaughtUp(v)'
  <2>1. UNCHANGED <<pc[v], now[v], local[v], steps[v], met[v], answer[v]>>
    BY <1>4 DEF Start, PassStep, BeginQuery, FindScopedPayment, BeginAdvance, catchUpEnvironment,
                advanceDuePayments, TakeRow, CommitEdge, EdgeApplied, EdgeLost, NothingDue, Reread,
                EndPass, Fault, EdgeRolledBack, EdgeUnconfirmed, PassDies, Return, Goto,
                ReadClock, rowVars, TypeOK
  <2>2. QED
    BY <1>2, <2>1
<1>5. QED
  BY <1>1, <1>3, <1>4, CaughtUpMoves DEF Next

(* A read that met neither a competitor nor a failure leaves nothing due   *)
(* at its own reading of the clock: one call takes both edges.             *)
THEOREM ReadCatchesUp == Spec => []UncontendedReadCaughtUp
<1>1. Init => CaughtUpInv
  BY RowAssumption DEF Init, CaughtUpInv, CaughtUp, EdgeOutcomes
<1>2. IInv /\ CaughtUpInv /\ [Next]_vars => CaughtUpInv'
  BY CaughtUpStep DEF IInv
<1>3. CaughtUpInv => UncontendedReadCaughtUp
  BY DEF CaughtUpInv, CaughtUp, Settled, UncontendedReadCaughtUp, NothingLeftDue
<1> QED
  BY <1>1, <1>2, <1>3, Invariance, PTL DEF Spec

--------------------------------------------------------------------------------
(* Payments implements the lifecycle *)

statusMap == [p \in Payments |-> IF row[p] = NULL THEN "absent" ELSE row[p].status]
fateMap == [p \in Payments |-> FateOf(p)]
emittedMap == [p \in Payments |-> [t \in Terminal |-> events[p][t]]]

(* No payment is the initial state of the lifecycle.                       *)
LEMMA LifecycleInit == Init => Lifecycle!Init
  BY DEF Init, Lifecycle!Init, FateOf, Terminal, Lifecycle!TerminalTypes, EventTypes

(* Writing the row of a payment is its creation in the lifecycle: its fate *)
(* is sealed by what the request asked for.                                *)
LEMMA InsertMaps ==
  ASSUME TypeOK, NEW p \in Payments, NEW q \in Requests, Insert(p, q),
         events' = events \/ Emit(p, "created")
  PROVE  Lifecycle!Create(p)
<1> USE RowAssumption, PaymentsAssumption DEF TypeOK
<1>1. NewRow(p, q) \in Row
  BY SimulationAssumption, ColumnType DEF NewRow, Row, Statuses
<1>2. /\ row[p] = NULL /\ row' = [row EXCEPT ![p] = NewRow(p, q)]
      /\ asked' = [asked EXCEPT ![p] = q] /\ NewRow(p, q) # NULL
      /\ NewRow(p, q).status = "pending"
  BY <1>1 DEF Insert, NewRow
<1>3. statusMap[p] = "absent" /\ statusMap' = [statusMap EXCEPT ![p] = "pending"]
  BY <1>2 DEF statusMap
<1>4. \E f \in {"succeeded", "failed", "never"} : fateMap' = [fateMap EXCEPT ![p] = f]
  <2> DEFINE f == IF q.scenario = "timeout" THEN "never"
                  ELSE IF q.scenario = "decline" THEN "failed" ELSE "succeeded"
  <2>1. q # NULL
    OBVIOUS
  <2>2. fateMap' = [fateMap EXCEPT ![p] = f]
    BY <1>2, <2>1 DEF fateMap, FateOf
  <2>3. QED
    BY <2>2
<1>5. emittedMap' = emittedMap
  BY DEF Emit, emittedMap, Terminal, EventTypes
<1>6. QED
  BY <1>3, <1>4, <1>5 DEF Lifecycle!Create, statusMap, fateMap, emittedMap

(* The guarded update that hits is a step of the lifecycle: the first edge *)
(* starts the processing, the second settles the payment as fated, with    *)
(* the event.                                                              *)
LEMMA EdgeMaps ==
  ASSUME TypeOK, RowInv, NEW p \in Payments, NEW to \in Statuses,
         NEW code \in FailureCodes \cup {NULL}, Edge(p, to, code)
  PROVE  Lifecycle!Process(p) \/ Lifecycle!Settle(p)
<1> DEFINE new == [row[p] EXCEPT !.status = to, !.failureCode = code]
<1> USE RowAssumption, PaymentsAssumption DEF TypeOK
<1>1. /\ row[p] # NULL /\ row[p] \in Row /\ asked[p] \in Requests /\ asked[p] # NULL
      /\ row' = [row EXCEPT ![p] = new] /\ asked' = asked
  BY DEF Edge, RowInv
<1>2. new # NULL /\ new.status = to
  <2>1. new \in Row /\ new.status = to
    BY <1>1 DEF Row
  <2>2. QED
    BY <2>1
<1>3. statusMap[p] = row[p].status /\ statusMap' = [statusMap EXCEPT ![p] = to]
  <2>1. \A o \in Payments : row'[o] = IF o = p THEN new ELSE row[o]
    BY <1>1
  <2> HIDE DEF new
  <2>2. QED
    BY <1>1, <1>2, <2>1 DEF statusMap
<1>4. fateMap' = fateMap
  BY <1>1 DEF fateMap, FateOf
<1>5. CASE row[p].status = "pending" /\ to = "processing" /\ UNCHANGED <<events, audit>>
  <2>1. emittedMap' = emittedMap
    BY <1>5 DEF emittedMap
  <2>2. QED
    BY <1>3, <1>4, <1>5, <2>1 DEF Lifecycle!Process, statusMap, fateMap, emittedMap
<1>6. CASE row[p].status = "processing" /\ to \in Terminal
  <2>1. fateMap[p] = to
    <3>1. asked[p].scenario # "timeout" /\ (asked[p].scenario = "decline" <=> to = "failed")
      BY <1>6, NullAssumption DEF Edge, Terminal, Scenarios
    <3>2. QED
      BY <1>1, <1>6, <3>1 DEF fateMap, FateOf, Terminal
  <2>2. Emit(p, to)
    BY <1>6 DEF Edge, Terminal
  <2>3. emittedMap' = [emittedMap EXCEPT ![p][to] = @ + 1]
    <3>1. \A o \in Payments : \A t \in Terminal :
             events'[o][t] = IF o = p /\ t = to THEN events[o][t] + 1 ELSE events[o][t]
      BY <1>6, <2>2 DEF Emit, Terminal, EventTypes
    <3>2. \A o \in Payments : emittedMap'[o] = [emittedMap EXCEPT ![p][to] = @ + 1][o]
      <4> SUFFICES ASSUME NEW o \in Payments
                   PROVE  emittedMap'[o] = [emittedMap EXCEPT ![p][to] = @ + 1][o]
        OBVIOUS
      <4>1. /\ emittedMap[o] = [t \in Terminal |-> events[o][t]]
            /\ emittedMap'[o] = [t \in Terminal |-> events'[o][t]]
        BY DEF emittedMap
      <4>2. CASE o = p
        <5>1. [emittedMap EXCEPT ![p][to] = @ + 1][o] = [emittedMap[o] EXCEPT ![to] = @ + 1]
          BY <4>2 DEF emittedMap
        <5>2. \A t \in Terminal : events'[o][t] = [emittedMap[o] EXCEPT ![to] = @ + 1][t]
          BY <1>6, <3>1, <4>1, <4>2
        <5>3. [t \in Terminal |-> events'[o][t]] = [emittedMap[o] EXCEPT ![to] = @ + 1]
          BY <4>1, <5>2
        <5>4. QED
          BY <4>1, <5>1, <5>3
      <4>3. CASE o # p
        <5>1. [emittedMap EXCEPT ![p][to] = @ + 1][o] = emittedMap[o]
          BY <4>3 DEF emittedMap
        <5>2. \A t \in Terminal : events'[o][t] = events[o][t]
          BY <3>1, <4>3
        <5>3. [t \in Terminal |-> events'[o][t]] = [t \in Terminal |-> events[o][t]]
          BY <5>2
        <5>4. QED
          BY <4>1, <5>1, <5>3
      <4>4. QED
        BY <4>2, <4>3
    <3>3. QED
      BY <3>2 DEF emittedMap
  <2>4. to # "never"
    BY <1>6 DEF Terminal
  <2>5. QED
    BY <1>3, <1>4, <1>6, <2>1, <2>3, <2>4 DEF Lifecycle!Settle, statusMap, fateMap, emittedMap
<1>7. QED
  BY <1>5, <1>6 DEF Edge

(* Every statement is a step of the lifecycle, or none.                    *)
LEMMA LifecycleStep ==
  ASSUME IInv, [Next]_vars
  PROVE  [Lifecycle!Next]_(Lifecycle!lifecycleVars)
<1> USE DEF IInv
<1>1. CASE UNCHANGED <<row, asked>> /\ emittedMap' = emittedMap
  BY <1>1 DEF Lifecycle!lifecycleVars, statusMap, fateMap, emittedMap, FateOf
<1>2. ASSUME NEW p \in Payments, NEW q \in Requests, CreateKeyed(p, q) \/ InsertPayment(p, q)
      PROVE  Lifecycle!Create(p)
  BY <1>2, InsertMaps DEF CreateKeyed, InsertPayment
<1>3. ASSUME NEW p \in Payments,
             PersistCreatedEvent(p) \/ RecordCreatedAudit(p) \/ CreateDies(p)
      PROVE  UNCHANGED <<row, asked>> /\ emittedMap' = emittedMap
  BY <1>3 DEF PersistCreatedEvent, RecordCreatedAudit, CreateDies, Emit, emittedMap, TypeOK,
              Terminal, EventTypes
<1>4. ASSUME NEW w \in Passes, CommitEdge(w)
      PROVE  Lifecycle!Next
  <2>1. PICK to \in Statuses, code \in FailureCodes \cup {NULL} :
              Edge(local[w].id, to, code) /\ local[w] # NULL
    BY <1>4, EdgeFacts
  <2>2. local[w].id \in Payments
    BY <2>1 DEF PassInv, PassOK, Snapshot
  <2>3. QED
    BY <2>1, <2>2, EdgeMaps DEF Lifecycle!Next
<1>5. ASSUME NEW w \in Passes, ~ CommitEdge(w), Start(w) \/ PassStep(w) \/ Fault(w)
      PROVE  UNCHANGED <<row, asked>> /\ emittedMap' = emittedMap
  BY <1>5 DEF Start, PassStep, BeginQuery, FindScopedPayment, BeginAdvance, catchUpEnvironment,
              advanceDuePayments, TakeRow, EdgeApplied, EdgeUnconfirmed, EdgeLost, NothingDue,
              Reread, EndPass, Fault, EdgeRolledBack, PassDies, createVars, emittedMap
<1>6. CASE Tick \/ UNCHANGED vars
  BY <1>1, <1>6 DEF Tick, vars, createVars, emittedMap
<1>7. QED
  BY <1>1, <1>2, <1>3, <1>4, <1>5, <1>6 DEF Next, Create, Lifecycle!Next

(* Clocks, snapshots, races and failures set aside, a payment is pending,  *)
(* then processing, then what it was fated to be at its creation, with one *)
(* event when it gets there.                                               *)
THEOREM LifecycleRefinement == Spec => ImplementsLifecycle
<1>1. QED
  BY LifecycleInit, LifecycleStep, Invariance, PTL
     DEF Spec, ImplementsLifecycle, Lifecycle!Spec
================================================================================
