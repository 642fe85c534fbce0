-------------------------------- MODULE Payments --------------------------------
(***************************************************************************)
(* PaymentsService (apps/api/src/payments): creation with and without an   *)
(* Idempotency-Key, and the advancement of due payments by concurrent      *)
(* passes - retrieve, list and the worker's sweep - each working from a    *)
(* snapshot of the rows and from its own reading of the clock.             *)
(*                                                                         *)
(* A keyed create commits the row, its event and its audit entry in one    *)
(* transaction.  A create without a key hands `run` the plain client, so   *)
(* each statement commits on its own, and the request can die in between.  *)
(* An edge (applyEdge) is one transaction that starts with a guarded       *)
(* update of the row; the row lock serialises the edges of one payment, so *)
(* it is one step here.                                                    *)
(***************************************************************************)
EXTENDS PaymentSimulation, FiniteSets

CONSTANTS Payments,   \* ids; UUIDv7, so their order is the creation order
          Keyed,      \* the payments whose create carries an Idempotency-Key
          Readers,    \* API requests that retrieve a payment
          Listers,    \* API requests that list payments
          Sweepers,   \* the worker's advancement passes
          Requests,   \* the outcomes asked for, a subset of Requested
          BatchSize,  \* rows of one sweep
          MaxTime,    \* bound of the model: the clock stops here
          MaxFaults   \* bound of the model: rolled-back edges and dead passes

ASSUME PaymentsAssumption ==
    /\ Payments \subseteq Nat
    /\ Keyed \subseteq Payments
    /\ Readers \cap Listers = {} /\ (Readers \cup Listers) \cap Sweepers = {}
    /\ Requests \subseteq Requested
    /\ BatchSize \in Nat \ {0} /\ MaxTime \in Nat /\ MaxFaults \in Nat

Passes == Readers \cup Listers \cup Sweepers

VARIABLES clock,    \* the wall clock
          row,      \* committed payments rows, NULL before the insert
          creator,  \* the next statement of each create without a key
          asked,    \* history: the outcome the create request asked for
          events,   \* webhook_events rows of each payment, by type
          audit,    \* audit actions recorded for each payment
          pc,       \* the next step of each pass
          now,      \* the `now` each pass works with
          todo,     \* the snapshot rows a pass has yet to advance
          local,    \* advance(): `current`, NULL between two rows
          steps,    \* advance(): edges applied to it
          met,      \* advance(): the outcome of its last applyEdge
          answer,   \* what advance() returned last, and after what
          faults    \* failures so far

vars == <<clock, row, creator, asked, events, audit,
          pc, now, todo, local, steps, met, answer, faults>>
createVars == <<row, creator, asked, events, audit>>
rowVars == <<local, steps, met>>
passVars == <<pc, now, todo, rowVars, answer>>

Row == [id : Payments, status : Statuses, failureCode : FailureCodes \cup {NULL},
        scenario : Column \cup {NULL}, createdAt : Nat]
EventTypes == {"created", "succeeded", "failed"}
EdgeOutcomes == {"applied", "lost", "rolled-back"}

ASSUME RowAssumption == NULL \notin Row \cup Requested \cup EdgeOutcomes

Answers == [row : Row, met : EdgeOutcomes \cup {NULL}, tried : Statuses]

(* The type invariant: rows as the code writes them, a pass that applies   *)
(* at most two edges to its copy, and the bounded fault budget.            *)
TypeOK ==
    /\ clock \in Nat /\ faults \in 0 .. MaxFaults
    /\ row \in [Payments -> Row \cup {NULL}]
    /\ creator \in [Payments -> {"start", "event", "audit", "done", "died"}]
    /\ asked \in [Payments -> Requested \cup {NULL}]
    /\ events \in [Payments -> [EventTypes -> Nat]]
    /\ audit \in [Payments -> SUBSET EventTypes]
    /\ pc \in [Passes -> {"idle", "retrieve", "list", "sweep", "advance", "reread"}]
    /\ now \in [Passes -> Nat]
    /\ todo \in [Passes -> SUBSET Row]
    /\ local \in [Passes -> Row \cup {NULL}]
    /\ steps \in [Passes -> 0 .. 2]
    /\ met \in [Passes -> EdgeOutcomes \cup {NULL}]
    /\ answer \in [Passes -> Answers \cup {NULL}]

Init ==
    /\ clock = 0 /\ faults = 0
    /\ row = [p \in Payments |-> NULL]
    /\ creator = [p \in Payments |-> "start"]
    /\ asked = [p \in Payments |-> NULL]
    /\ events = [p \in Payments |-> [t \in EventTypes |-> 0]]
    /\ audit = [p \in Payments |-> {}]
    /\ pc = [w \in Passes |-> "idle"]
    /\ now = [w \in Passes |-> 0]
    /\ todo = [w \in Passes |-> {}]
    /\ local = [w \in Passes |-> NULL]
    /\ steps = [w \in Passes |-> 0]
    /\ met = [w \in Passes |-> NULL]
    /\ answer = [w \in Passes |-> NULL]

--------------------------------------------------------------------------------
(* Creation *)

NewRow(p, q) ==
    [id |-> p, status |-> "pending", failureCode |-> NULL,
     scenario |-> scenarioColumnValue(q.scenario, q.code), createdAt |-> clock]

Insert(p, q) ==
    /\ row[p] = NULL
    /\ \A o \in Payments : o < p => row[o] # NULL
    /\ row' = [row EXCEPT ![p] = NewRow(p, q)]
    /\ asked' = [asked EXCEPT ![p] = q]

Emit(p, type) == events' = [events EXCEPT ![p][type] = @ + 1]

(* Mutant: the audit entry is left to be written after the commit.         *)
CreateKeyedUnaudited(p, q) ==
    /\ p \in Keyed
    /\ Insert(p, q)
    /\ Emit(p, "created")
    /\ creator' = [creator EXCEPT ![p] = "audit"]
    /\ UNCHANGED <<clock, audit, faults, passVars>>

(* With a key everything the create writes commits together.               *)
CreateKeyed(p, q) ==
    /\ p \in Keyed
    /\ Insert(p, q)
    /\ Emit(p, "created")
    /\ audit' = [audit EXCEPT ![p] = @ \cup {"created"}]
    /\ creator' = [creator EXCEPT ![p] = "done"]
    /\ UNCHANGED <<clock, faults, passVars>>

(* Without a key: three statements, three commits.                         *)
InsertPayment(p, q) ==
    /\ p \notin Keyed
    /\ Insert(p, q)
    /\ creator' = [creator EXCEPT ![p] = "event"]
    /\ UNCHANGED <<clock, events, audit, faults, passVars>>

PersistCreatedEvent(p) ==
    /\ creator[p] = "event"
    /\ Emit(p, "created")
    /\ creator' = [creator EXCEPT ![p] = "audit"]
    /\ UNCHANGED <<clock, row, asked, audit, faults, passVars>>

RecordCreatedAudit(p) ==
    /\ creator[p] = "audit"
    /\ audit' = [audit EXCEPT ![p] = @ \cup {"created"}]
    /\ creator' = [creator EXCEPT ![p] = "done"]
    /\ UNCHANGED <<clock, row, asked, events, faults, passVars>>

(* A statement fails or the process dies; what was committed stays.        *)
CreateDies(p) ==
    /\ creator[p] \in {"event", "audit"}
    /\ creator' = [creator EXCEPT ![p] = "died"]
    /\ UNCHANGED <<clock, row, asked, events, audit, faults, passVars>>

--------------------------------------------------------------------------------
(* The three passes: which rows they take, and when they read the clock *)

Goto(w, l) == pc' = [pc EXCEPT ![w] = l]
ReadClock(w) == now' = [now EXCEPT ![w] = clock]
Rows == {row[p] : p \in {p \in Payments : row[p] # NULL}}

(* retrieve: the row first, the clock after it.                            *)
FindScopedPayment(w, p) ==
    /\ w \in Readers /\ pc[w] = "idle" /\ row[p] # NULL
    /\ Goto(w, "retrieve")
    /\ todo' = [todo EXCEPT ![w] = {row[p]}]
    /\ answer' = [answer EXCEPT ![w] = NULL]
    /\ UNCHANGED <<clock, createVars, now, rowVars, faults>>

BeginAdvance(w) ==
    /\ pc[w] = "retrieve"
    /\ Goto(w, "advance")
    /\ ReadClock(w)
    /\ UNCHANGED <<clock, createVars, todo, rowVars, answer, faults>>

(* list and sweep: the clock first, the rows after it.                     *)
BeginQuery(w) ==
    /\ w \notin Readers /\ pc[w] = "idle"
    /\ Goto(w, IF w \in Listers THEN "list" ELSE "sweep")
    /\ ReadClock(w)
    /\ answer' = [answer EXCEPT ![w] = NULL]
    /\ UNCHANGED <<clock, createVars, todo, rowVars, faults>>

catchUpEnvironment(w) ==
    /\ pc[w] = "list"
    /\ todo' = [todo EXCEPT ![w] = {r \in Rows : r.status \notin Terminal}]
    /\ Goto(w, "advance")
    /\ UNCHANGED <<clock, createVars, now, rowVars, answer, faults>>

(* Mutant: timeouts are not left out, although they have no edge to take.  *)
DueForSweepTimeouts(r, t) ==
    /\ r.createdAt <= t - (PendingDelay + SettlementDelay)
    /\ r.status \notin Terminal

(* The whole schedule has elapsed and the row still has an edge to take.   *)
DueForSweep(r, t) ==
    /\ r.createdAt <= t - (PendingDelay + SettlementDelay)
    /\ \/ r.status = "pending"
       \/ r.status = "processing" /\ r.scenario # Word("timeout")

FirstBatch(S) ==
    {r \in S : Cardinality({o \in S : o.id < r.id}) < BatchSize}

advanceDuePayments(w) ==
    /\ pc[w] = "sweep"
    /\ todo' = [todo EXCEPT ![w] = FirstBatch({r \in Rows : DueForSweep(r, now[w])})]
    /\ Goto(w, "advance")
    /\ UNCHANGED <<clock, createVars, now, rowVars, answer, faults>>

--------------------------------------------------------------------------------
(* advance() and applyEdge() *)

(* The row advance() works on next.                                        *)
TakeRow(w, r) ==
    /\ pc[w] = "advance" /\ local[w] = NULL
    /\ r \in todo[w]
    /\ todo' = [todo EXCEPT ![w] = @ \ {r}]
    /\ local' = [local EXCEPT ![w] = r]
    /\ UNCHANGED <<clock, createVars, pc, now, steps, met, answer, faults>>

(* Mutant: one edge for each call.                                         *)
OneStep == 1

(* The edge the loop finds due on its copy of the row; at most two passes. *)
MaxSteps == 2

DueEdge(w) ==
    IF steps[w] = MaxSteps THEN NULL
    ELSE LET r == local[w] IN
         scheduledTransition(r.status, r.createdAt, now[w],
                             parseSimulationScenario(r.scenario).scenario)

Advancing(w) == pc[w] = "advance" /\ local[w] # NULL

(* The terminal entry is attributed to the creator found in the created    *)
(* entry; without one it is skipped.                                       *)
RecordTerminalAudit(p, type) ==
    audit' = [audit EXCEPT ![p] = IF "created" \in @ THEN @ \cup {type} ELSE @]

(* Mutant: the update is not guarded by the status it moves from.          *)
EdgeUnguarded(p, from) == row[p] # NULL

EdgeMatches(p, from) == row[p].status = from

EdgeCode(w) == edgeFailureCode(DueEdge(w), parseSimulationScenario(local[w].scenario))

(* The guarded update hits: status, code, event and entry commit at once.  *)
CommitEdge(w) ==
    LET p == local[w].id
        to == DueEdge(w)
    IN
    /\ Advancing(w) /\ to # NULL
    /\ EdgeMatches(p, local[w].status)
    /\ row' = [row EXCEPT ![p].status = to, ![p].failureCode = EdgeCode(w)]
    /\ IF to \in Terminal
       THEN Emit(p, to) /\ RecordTerminalAudit(p, to)
       ELSE UNCHANGED <<events, audit>>
    /\ UNCHANGED <<clock, creator, asked, now, todo, answer>>

(* The pass goes on with its copy as committed.                            *)
EdgeApplied(w) ==
    /\ CommitEdge(w)
    /\ local' = [local EXCEPT ![w].status = DueEdge(w), ![w].failureCode = EdgeCode(w)]
    /\ steps' = [steps EXCEPT ![w] = @ + 1]
    /\ met' = [met EXCEPT ![w] = "applied"]
    /\ UNCHANGED <<pc, faults>>

(* Another pass has moved the row: stop, and look again.                   *)
EdgeLost(w) ==
    /\ Advancing(w) /\ DueEdge(w) # NULL
    /\ ~ EdgeMatches(local[w].id, local[w].status)
    /\ met' = [met EXCEPT ![w] = "lost"]
    /\ Goto(w, "reread")
    /\ UNCHANGED <<clock, createVars, now, todo, local, steps, answer, faults>>

(* The transaction fails: nothing of the edge is written.                  *)
EdgeRolledBack(w) ==
    /\ Advancing(w) /\ DueEdge(w) # NULL
    /\ faults < MaxFaults
    /\ faults' = faults + 1
    /\ met' = [met EXCEPT ![w] = "rolled-back"]
    /\ Goto(w, "reread")
    /\ UNCHANGED <<clock, createVars, now, todo, local, steps, answer>>

(* It commits, but the acknowledgement is lost: the code takes the error   *)
(* for a rollback and keeps its copy.                                      *)
EdgeUnconfirmed(w) ==
    /\ CommitEdge(w)
    /\ faults < MaxFaults
    /\ faults' = faults + 1
    /\ met' = [met EXCEPT ![w] = "rolled-back"]
    /\ Goto(w, "reread")
    /\ UNCHANGED <<local, steps>>

Return(w, r) ==
    /\ answer' = [answer EXCEPT ![w] = [row |-> r, met |-> met[w], tried |-> local[w].status]]
    /\ local' = [local EXCEPT ![w] = NULL]
    /\ steps' = [steps EXCEPT ![w] = 0]
    /\ met' = [met EXCEPT ![w] = NULL]

(* Nothing (more) is due: the snapshot itself is returned only when no     *)
(* edge was tried.                                                         *)
NothingDue(w) ==
    /\ Advancing(w) /\ DueEdge(w) = NULL
    /\ IF met[w] = NULL
       THEN Return(w, local[w]) /\ UNCHANGED pc
       ELSE Goto(w, "reread") /\ UNCHANGED <<rowVars, answer>>
    /\ UNCHANGED <<clock, createVars, now, todo, faults>>

(* Mutant: the snapshot is returned instead.                               *)
RereadNothing(w) ==
    /\ pc[w] = "reread"
    /\ Return(w, local[w])
    /\ Goto(w, "advance")
    /\ UNCHANGED <<clock, createVars, now, todo, faults>>

Reread(w) ==
    /\ pc[w] = "reread"
    /\ Return(w, row[local[w].id])
    /\ Goto(w, "advance")
    /\ UNCHANGED <<clock, createVars, now, todo, faults>>

EndPass(w) ==
    /\ pc[w] = "advance" /\ local[w] = NULL /\ todo[w] = {}
    /\ Goto(w, "idle")
    /\ UNCHANGED <<clock, createVars, now, todo, rowVars, answer, faults>>

(* The process dies, or a query outside applyEdge fails.                   *)
PassDies(w) ==
    /\ pc[w] # "idle" /\ faults < MaxFaults
    /\ faults' = faults + 1
    /\ Goto(w, "idle")
    /\ todo' = [todo EXCEPT ![w] = {}]
    /\ local' = [local EXCEPT ![w] = NULL]
    /\ steps' = [steps EXCEPT ![w] = 0]
    /\ met' = [met EXCEPT ![w] = NULL]
    /\ answer' = [answer EXCEPT ![w] = NULL]
    /\ UNCHANGED <<clock, createVars, now>>

Tick ==
    /\ clock < MaxTime
    /\ clock' = clock + 1
    /\ UNCHANGED <<createVars, passVars, faults>>

--------------------------------------------------------------------------------
Create ==
    \E p \in Payments :
        \/ \E q \in Requests : CreateKeyed(p, q) \/ InsertPayment(p, q)
        \/ PersistCreatedEvent(p) \/ RecordCreatedAudit(p) \/ CreateDies(p)

(* What a pass does once it has been started.                              *)
PassStep(w) ==
    \/ BeginAdvance(w) \/ catchUpEnvironment(w) \/ advanceDuePayments(w)
    \/ \E r \in todo[w] : TakeRow(w, r)
    \/ EdgeApplied(w) \/ EdgeLost(w) \/ NothingDue(w) \/ Reread(w) \/ EndPass(w)

Fault(w) == EdgeRolledBack(w) \/ EdgeUnconfirmed(w) \/ PassDies(w)

Start(w) == BeginQuery(w) \/ \E p \in Payments : FindScopedPayment(w, p)

Next ==
    \/ Tick \/ Create
    \/ \E w \in Passes : Start(w) \/ PassStep(w) \/ Fault(w)

Spec == Init /\ [][Next]_vars

(* Time passes, and the worker keeps starting sweeps and running them;     *)
(* nobody has to read a payment.                                           *)
Fairness == WF_vars(Tick) /\ \A w \in Sweepers : WF_vars(BeginQuery(w) \/ PassStep(w))

FairSpec == Spec /\ Fairness

--------------------------------------------------------------------------------
(* Properties *)

(* A status and its terminal event commit or roll back as one: each        *)
(* payment has exactly one terminal event once it is terminal, of the type *)
(* of its status, and none before - however many readers and sweeps race.  *)
TerminalEventExactlyOnce ==
    \A p \in Payments : \A t \in Terminal :
        events[p][t] = IF row[p] # NULL /\ row[p].status = t THEN 1 ELSE 0

(* A keyed payment always has its created event and its audit entries:     *)
(* one for the creation, one for the terminal edge, and no other.          *)
KeyedTrailComplete ==
    \A p \in Keyed :
        row[p] # NULL =>
            /\ events[p]["created"] = 1
            /\ audit[p] = {"created"} \cup ({row[p].status} \cap Terminal)

(* The outcome is the one the create request asked for: decline and only   *)
(* decline fails, with the requested code or the catalog default, a        *)
(* timeout never settles, and no other row carries a code.                 *)
OutcomeAsRequested ==
    \A p \in Payments : row[p] # NULL =>
        LET q == asked[p] IN
        /\ row[p].status = "failed" =>
              /\ q.scenario = "decline"
              /\ row[p].failureCode = IF q.code = NULL THEN DefaultFailureCode ELSE q.code
        /\ row[p].status = "succeeded" => q.scenario \in {"succeed", NULL}
        /\ row[p].status # "failed" => row[p].failureCode = NULL

(* No edge is ever ahead of the schedule, whatever clock reading and       *)
(* snapshot the pass that applied it was working with.                     *)
NeverAheadOfSchedule ==
    \A p \in Payments : row[p] # NULL =>
        /\ row[p].status # "pending" => clock >= row[p].createdAt + PendingDelay
        /\ row[p].status \in Terminal =>
              clock >= row[p].createdAt + PendingDelay + SettlementDelay

(* After losing a race advance() never hands back the stale snapshot: the  *)
(* row it returns has left the status it tried to move from.               *)
ContendedReadNotStale ==
    \A w \in Passes :
        answer[w] # NULL /\ answer[w].met = "lost" => answer[w].row.status # answer[w].tried

NothingLeftDue(w) ==
    LET r == answer[w].row IN
    scheduledTransition(r.status, r.createdAt, now[w],
                        parseSimulationScenario(r.scenario).scenario) = NULL

(* A read that meets neither a competitor nor a failure returns a row with *)
(* nothing left due at the reader's clock: both edges in one call if both  *)
(* times have passed.                                                      *)
UncontendedReadCaughtUp ==
    \A w \in Passes :
        answer[w] # NULL /\ pc[w] \in {"idle", "advance"} /\ answer[w].met \in {"applied", NULL}
            => NothingLeftDue(w)

(* "A committed payment can never be missing" its payment.created event.   *)
CommittedPaymentHasEvent ==
    \A p \in Payments :
        row[p] # NULL /\ creator[p] \in {"done", "died"} => events[p]["created"] = 1

(* The sweep alone settles every payment that is not a timeout, and brings *)
(* the timeouts to processing, although each pass takes a bounded batch.   *)
SweepSettlesEverything ==
    \A p \in Payments :
        row[p] # NULL /\ row[p].createdAt + PendingDelay + SettlementDelay <= MaxTime
            ~> /\ row[p] # NULL
               /\ row[p].status \in IF asked[p].scenario = "timeout"
                                    THEN {"processing"} ELSE Terminal

(* The lifecycle the observers see.                                        *)
FateOf(p) == IF asked[p] = NULL \/ asked[p].scenario = "timeout" THEN "never"
             ELSE IF asked[p].scenario = "decline" THEN "failed" ELSE "succeeded"

Lifecycle == INSTANCE PaymentLifecycle WITH
    Outcomes <- {"succeeded", "failed", "never"},
    status <- [p \in Payments |-> IF row[p] = NULL THEN "absent" ELSE row[p].status],
    fate <- [p \in Payments |-> FateOf(p)],
    emitted <- [p \in Payments |-> [t \in Terminal |-> events[p][t]]]

ImplementsLifecycle == Lifecycle!Spec
================================================================================
