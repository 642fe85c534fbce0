----------------------------- MODULE WebhookFanout -----------------------------
(***************************************************************************)
(* Which endpoint gets which event: WebhookEventService.persist and        *)
(* .reconcile, the endpoint registry and the replay of WebhooksService,    *)
(* and the retention pass of WebhookMaintenanceService (apps/api/src/      *)
(* webhooks), one SQL statement per step at READ COMMITTED.  What becomes  *)
(* of a delivery once it exists is module WebhookDelivery.                 *)
(*                                                                         *)
(* A mutation with an idempotency key emits its event in one transaction;  *)
(* without a key its statements commit one by one.  One event type stands  *)
(* for the catalog: an endpoint is open to it if it is enabled and         *)
(* subscribed, which the code never asks separately.                       *)
(***************************************************************************)
EXTENDS Naturals, FiniteSets, Absence

CONSTANTS Endpoints, Events, Environments, Passes, ReplayCalls,
          MinAge, Horizon,        \* window of the reconciliation pass
          Retention,              \* age at which an event expires
          TxTimeout,              \* of an interactive transaction
          ReconcileBatch, CleanupBatch, CleanupPages,
          MaxClock, MaxActs,      \* bounds of the model: clock; changes, replays and faults
          GONE                    \* a row that has been deleted

ASSUME FanAssumption ==
    /\ {MinAge, Horizon, Retention, TxTimeout, MaxClock, MaxActs} \subseteq Nat
    /\ MinAge < Horizon /\ Horizon < Retention /\ TxTimeout <= Retention
    /\ IsFiniteSet(Events)
    /\ {ReconcileBatch, CleanupBatch, CleanupPages} \subseteq Nat \ {0}
    /\ {NONE, GONE} \cap (Endpoints \cup Events) = {} /\ NONE # GONE

VARIABLES clock,
          endpoints,  \* webhook_endpoints rows
          events,     \* webhook_events rows that are committed, GONE after their retention
          originals,  \* deliveries of each event and endpoint with is_replay = false
          replays,    \* the pairs that have a delivery with is_replay = true
          emission,   \* what the mutation that emits each event has done
          pass,       \* the reconciliation and retention passes under way
          replay,     \* the replay requests under way
          acts,       \* changes of endpoints, replays and faults so far
          invited,    \* history: pairs that have matched since the event came to be
          steady,     \* history: pairs that have never stopped matching since then
          excused,    \* history: events whose fan-out failed, until a pass owes them a repair
          swept       \* history: cutoff of the last retention pass that came to its end

fanTables == <<endpoints, events, originals, replays>>
fanHistory == <<invited, steady, excused, swept>>
fanVars == <<clock, fanTables, emission, pass, replay, acts, fanHistory>>

Endpoint == [environment : Environments, open : BOOLEAN]
EventRow == [environment : Environments, created : 0 .. MaxClock]
Pairs == Events \X Endpoints
Quiet == [step |-> "none"]
Emitter == [step : {"inserted", "matched", "created"}, keyed : BOOLEAN,
            row : EventRow, to : SUBSET Endpoints]
RepairPass == [step : {"repair", "matched"}, todo : SUBSET Events, owed : SUBSET Events,
               event : Events \cup {NONE}, to : SUBSET Endpoints]
RetentionPass == [step : {"page", "found"}, cutoff : 0 .. MaxClock, pages : Nat,
                  ids : SUBSET Events]
ReplayRequest == [step : {"endpoint", "checked"}, event : Events, endpoint : Endpoints, seen : Endpoint]
ASSUME NullIsNoRow == {NONE, GONE} \cap (Endpoint \cup EventRow) = {}

Act == acts < MaxActs /\ acts' = acts + 1

FanTypeOK ==
    /\ clock \in 0 .. MaxClock /\ acts \in 0 .. MaxActs /\ swept \in 0 .. MaxClock
    /\ endpoints \in [Endpoints -> Endpoint \cup {NONE, GONE}]
    /\ events \in [Events -> EventRow \cup {NONE, GONE}]
    /\ originals \in [Pairs -> 0 .. 1] /\ replays \subseteq Pairs
    /\ emission \in [Events -> Emitter \cup {Quiet, [step |-> "done"]}]
    /\ pass \in [Passes -> RepairPass \cup RetentionPass \cup {Quiet}]
    /\ replay \in [ReplayCalls -> ReplayRequest \cup {Quiet}]
    /\ invited \subseteq Pairs /\ steady \subseteq Pairs /\ excused \subseteq Events

FanInit ==
    /\ clock = 0 /\ acts = 0
    /\ endpoints = [p \in Endpoints |-> NONE]
    /\ events = [e \in Events |-> NONE]
    /\ originals = [x \in Pairs |-> 0] /\ replays = {}
    /\ emission = [e \in Events |-> Quiet]
    /\ pass = [w \in Passes |-> Quiet]
    /\ replay = [c \in ReplayCalls |-> Quiet]
    /\ invited = {} /\ steady = {} /\ excused = {} /\ swept = 0

--------------------------------------------------------------------------------
(* Matching *)

Present(r) == r \notin {NONE, GONE}

(* Mutant: the query forgets the environment.                              *)
MatchesAnywhere(env, endpoint) == Present(endpoint) /\ endpoint.open

Matches(env, endpoint) ==
    Present(endpoint) /\ endpoint.open /\ endpoint.environment = env

Matching(env) == {p \in Endpoints : Matches(env, endpoints[p])}

(* The event exists for its own transaction before it does for the others. *)
Emitting(e) == emission[e].step \in {"inserted", "matched", "created"}
Draft(e) == Present(events[e]) \/ Emitting(e)

Suits(e, endpoint) ==
    Present(endpoint) /\ endpoint.open
    /\ endpoint.environment = (IF Present(events[e]) THEN events[e] ELSE emission[e].row).environment

(* History: what an endpoint that becomes `new` makes of its invitations.  *)
Invite(p, new) ==
    LET suited == {e \in Events : Draft(e) /\ Suits(e, new)} IN
    /\ invited' = invited \cup (suited \X {p})
    /\ steady' = {x \in steady : x[2] = p => x[1] \in suited}
    /\ UNCHANGED <<excused, swept>>

(* The foreign keys of a delivery hold its endpoint until the commit.      *)
Referenced(p) == \E e \in Events : emission[e].step = "created" /\ emission[e].keyed /\ p \in emission[e].to

--------------------------------------------------------------------------------
(* Endpoints *)

Change(p, row) ==
    /\ Act
    /\ endpoints' = [endpoints EXCEPT ![p] = row]
    /\ Invite(p, row)
    /\ UNCHANGED <<clock, events, replays, emission, pass, replay>>

createEndpoint(p) ==
    /\ endpoints[p] = NONE
    /\ \E env \in Environments, on \in BOOLEAN :
          Change(p, [environment |-> env, open |-> on])
    /\ UNCHANGED originals

updateEndpoint(p) ==
    /\ Present(endpoints[p])
    /\ Change(p, [endpoints[p] EXCEPT !.open = ~ @])
    /\ UNCHANGED originals

deleteEndpoint(p) ==
    /\ Present(endpoints[p]) /\ ~ Referenced(p)
    /\ Act
    /\ endpoints' = [endpoints EXCEPT ![p] = GONE]
    /\ originals' = [x \in Pairs |-> IF x[2] = p THEN 0 ELSE originals[x]]
    /\ replays' = {x \in replays : x[2] # p}
    /\ Invite(p, GONE)
    /\ UNCHANGED <<clock, events, emission, pass, replay>>

--------------------------------------------------------------------------------
(* persist() *)

Emission(e, step) == emission' = [emission EXCEPT ![e].step = step]

EmissionFrame == UNCHANGED <<clock, endpoints, replays, pass, replay>>

PersistEvent(e, env, keyed) ==
    LET row == [environment |-> env, created |-> clock]
        suited == {p \in Endpoints : Present(endpoints[p]) /\ endpoints[p].open
                                     /\ endpoints[p].environment = env}
    IN
    /\ emission[e] = Quiet /\ events[e] = NONE
    /\ emission' = [emission EXCEPT ![e] = [step |-> "inserted", keyed |-> keyed, row |-> row, to |-> {}]]
    /\ events' = IF keyed THEN events ELSE [events EXCEPT ![e] = row]
    /\ invited' = invited \cup ({e} \X suited) /\ steady' = steady \cup ({e} \X suited)
    /\ EmissionFrame /\ UNCHANGED <<originals, excused, swept, acts>>

FindEndpoints(e) ==
    /\ emission[e].step = "inserted"
    /\ emission' = [emission EXCEPT ![e].step = "matched", ![e].to = Matching(emission[e].row.environment)]
    /\ EmissionFrame /\ UNCHANGED <<events, originals, fanHistory, acts>>

(* ON CONFLICT DO NOTHING on the partial unique index.                     *)
Insert(e, to) == originals' = [x \in Pairs |->
                     IF x[1] = e /\ x[2] \in to /\ originals[x] = 0 THEN 1 ELSE originals[x]]

ForeignKeys(e, to) == to # {} => Present(events[e]) /\ \A p \in to : Present(endpoints[p])

EndEmission(e) == emission' = [emission EXCEPT ![e] = [step |-> "done"]]

(* The request fails: a keyed one leaves nothing, the other what it wrote. *)
EmissionFails(e) ==
    LET keyed == emission[e].keyed IN
    /\ IF keyed
       THEN invited' = {x \in invited : x[1] # e} /\ steady' = {x \in steady : x[1] # e} /\ UNCHANGED excused
       ELSE excused' = excused \cup {e} /\ UNCHANGED <<invited, steady>>
    /\ EndEmission(e)
    /\ EmissionFrame /\ UNCHANGED <<events, originals, swept>>

CreateDeliveries(e) ==
    LET r == emission[e] IN
    /\ r.step = "matched"
    /\ IF r.keyed
       THEN /\ \A p \in r.to : Present(endpoints[p])
            /\ Emission(e, "created") /\ UNCHANGED <<events, originals, fanHistory>> /\ EmissionFrame
       ELSE /\ ForeignKeys(e, r.to)
            /\ Insert(e, r.to) /\ EndEmission(e) /\ UNCHANGED <<events, fanHistory>> /\ EmissionFrame
    /\ UNCHANGED acts

(* An endpoint or the event has gone since it was read.                    *)
CreateRefused(e) ==
    LET r == emission[e] IN
    /\ r.step = "matched"
    /\ IF r.keyed THEN \E p \in r.to : ~ Present(endpoints[p]) ELSE ~ ForeignKeys(e, r.to)
    /\ EmissionFails(e) /\ UNCHANGED acts

CommitEvent(e) ==
    /\ emission[e].step = "created"
    /\ events' = [events EXCEPT ![e] = emission[e].row]
    /\ Insert(e, emission[e].to)
    /\ EndEmission(e) /\ EmissionFrame /\ UNCHANGED <<fanHistory, acts>>

EmitterDies(e) ==
    /\ Emitting(e) /\ Act
    /\ EmissionFails(e)

--------------------------------------------------------------------------------
(* reconcile() *)

PassFrame == UNCHANGED <<clock, endpoints, emission, replay>>

Newer(e, f) == events[f].created > events[e].created

Window(now) == {e \in Events : Present(events[e]) /\ events[e].created + Horizon >= now
                                              /\ events[e].created + MinAge <= now}

(* Mutant: the oldest events of the window come first.                     *)
FirstBatchOldest(S, n) == {B \in SUBSET S : /\ Cardinality(B) = n
                                            /\ \A e \in B, f \in S \ B : ~ Newer(f, e)}

(* The n newest of S; the order of equals is the database's.               *)
FirstBatchNewest(S, n) == {B \in SUBSET S : /\ Cardinality(B) = n
                                            /\ \A e \in B, f \in S \ B : ~ Newer(e, f)}

Least(m, n) == IF m < n THEN m ELSE n

(* History: the events that a pass of this moment owes a repair, because   *)
(* fewer than a batch of the window are as new as they are.                *)
Owed == {e \in Window(clock) :
            Cardinality({f \in Window(clock) : ~ Newer(f, e)}) <= ReconcileBatch}

BeginReconcile(w) ==
    /\ pass[w] = Quiet /\ Window(clock) # {}
    /\ \E B \in FirstBatchNewest(Window(clock), Least(ReconcileBatch, Cardinality(Window(clock)))) :
          pass' = [pass EXCEPT ![w] = [step |-> "repair", todo |-> B, owed |-> Owed, event |-> NONE, to |-> {}]]
    /\ PassFrame /\ UNCHANGED <<events, originals, replays, fanHistory, acts>>

(* Each event of the batch in a transaction of its own.                    *)
RepairFind(w, e) ==
    /\ pass[w].step = "repair" /\ e \in pass[w].todo
    /\ \A f \in pass[w].todo : Present(events[e]) /\ Present(events[f]) => ~ Newer(e, f)
    /\ pass' = [pass EXCEPT ![w].step = "matched", ![w].event = e, ![w].todo = @ \ {e},
                            ![w].to = IF Present(events[e]) THEN Matching(events[e].environment) ELSE {}]
    /\ PassFrame /\ UNCHANGED <<events, originals, replays, fanHistory, acts>>

RepairCreate(w) ==
    LET r == pass[w] IN
    /\ r.step = "matched" /\ ForeignKeys(r.event, r.to)
    /\ Insert(r.event, r.to)
    /\ pass' = [pass EXCEPT ![w].step = "repair"]
    /\ PassFrame /\ UNCHANGED <<events, replays, fanHistory, acts>>

(* A failure is caught per event; the next pass owes the event again.      *)
RepairFails(w) ==
    LET r == pass[w] IN
    /\ r.step = "matched"
    /\ IF ForeignKeys(r.event, r.to) THEN Act
                                     ELSE UNCHANGED acts
    /\ pass' = [pass EXCEPT ![w].step = "repair", ![w].owed = @ \ {r.event}]
    /\ PassFrame /\ UNCHANGED <<events, originals, replays, fanHistory>>

EndReconcile(w) ==
    /\ pass[w].step = "repair" /\ pass[w].todo = {}
    /\ excused' = {e \in excused : e \notin pass[w].owed}
    /\ pass' = [pass EXCEPT ![w] = Quiet]
    /\ PassFrame /\ UNCHANGED <<events, originals, replays, invited, steady, swept, acts>>

--------------------------------------------------------------------------------
(* cleanupExpired() *)

(* Mutant: an event of exactly the retention's age counts as expired.      *)
PastRetentionLte(cutoff) == {e \in Events : Present(events[e]) /\ events[e].created <= cutoff}

PastRetention(cutoff) == {e \in Events : Present(events[e]) /\ events[e].created < cutoff}

BeginCleanup(w) ==
    /\ pass[w] = Quiet /\ clock > Retention
    /\ pass' = [pass EXCEPT ![w] = [step |-> "page", cutoff |-> clock - Retention, pages |-> 0, ids |-> {}]]
    /\ PassFrame /\ UNCHANGED <<events, originals, replays, fanHistory, acts>>

CloseCleanup(w, complete) ==
    /\ pass' = [pass EXCEPT ![w] = Quiet]
    /\ swept' = IF complete /\ pass[w].cutoff > swept THEN pass[w].cutoff ELSE swept

CleanupFind(w) ==
    LET S == PastRetention(pass[w].cutoff) IN
    /\ pass[w].step = "page"
    /\ IF pass[w].pages = CleanupPages THEN CloseCleanup(w, FALSE)
       ELSE IF S = {} THEN CloseCleanup(w, TRUE)
       ELSE /\ \E B \in FirstBatchOldest(S, Least(CleanupBatch, Cardinality(S))) :
                  pass' = [pass EXCEPT ![w].step = "found", ![w].ids = B]
            /\ UNCHANGED swept
    /\ PassFrame /\ UNCHANGED <<events, originals, replays, invited, steady, excused, acts>>

(* Mutant: a full page counts as the last one.                             *)
LastPageAny(ids) == Cardinality(ids) <= CleanupBatch

LastPage(ids) == Cardinality(ids) < CleanupBatch

CleanupDelete(w) ==
    LET ids == pass[w].ids IN
    /\ pass[w].step = "found"
    /\ events' = [e \in Events |-> IF e \in ids THEN GONE ELSE events[e]]
    /\ originals' = [x \in Pairs |-> IF x[1] \in ids THEN 0 ELSE originals[x]]
    /\ replays' = {x \in replays : x[1] \notin ids}
    /\ IF LastPage(ids) THEN CloseCleanup(w, TRUE)
       ELSE pass' = [pass EXCEPT ![w].step = "page", ![w].pages = @ + 1] /\ UNCHANGED swept
    /\ PassFrame /\ UNCHANGED <<invited, steady, excused, acts>>

(* The process dies, or a statement of the retention pass fails.           *)
PassStops(w) ==
    /\ pass[w] # Quiet /\ Act
    /\ pass' = [pass EXCEPT ![w] = Quiet]
    /\ PassFrame /\ UNCHANGED <<events, originals, replays, fanHistory>>

--------------------------------------------------------------------------------
(* replayEvent() *)

ReplayFrame == UNCHANGED <<clock, endpoints, events, originals, emission, pass, fanHistory>>

(* The caller knows the id of the event from a list.                       *)
FindScopedEndpoint(c, e, p) ==
    /\ replay[c] = Quiet /\ events[e] # NONE /\ Present(endpoints[p]) /\ <<e, p>> \notin replays
    /\ replay' = [replay EXCEPT ![c] = [step |-> "endpoint", event |-> e, endpoint |-> p, seen |-> endpoints[p]]]
    /\ Act /\ ReplayFrame /\ UNCHANGED replays

Replayable(e, seen) == Present(events[e]) /\ Matches(events[e].environment, seen)

FindEvent(c) ==
    LET r == replay[c] IN
    /\ r.step = "endpoint"
    /\ replay' = [replay EXCEPT ![c] = IF Replayable(r.event, r.seen) THEN [r EXCEPT !.step = "checked"] ELSE Quiet]
    /\ ReplayFrame /\ UNCHANGED <<replays, acts>>

CreateReplay(c) ==
    LET r == replay[c] IN
    /\ r.step = "checked"
    /\ replays' = IF ForeignKeys(r.event, {r.endpoint}) THEN replays \cup {<<r.event, r.endpoint>>} ELSE replays
    /\ replay' = [replay EXCEPT ![c] = Quiet]
    /\ ReplayFrame /\ UNCHANGED acts

--------------------------------------------------------------------------------
(* An open transaction does not outlast its time-out.                      *)
FanTick ==
    /\ clock < MaxClock /\ clock' = clock + 1
    /\ \A e \in Events : Emitting(e) /\ emission[e].keyed => clock < emission[e].row.created + TxTimeout
    /\ UNCHANGED <<fanTables, emission, pass, replay, acts, fanHistory>>

FanNext ==
    \/ FanTick
    \/ \E p \in Endpoints : createEndpoint(p) \/ updateEndpoint(p) \/ deleteEndpoint(p)
    \/ \E e \in Events :
          \/ \E env \in Environments, keyed \in BOOLEAN : PersistEvent(e, env, keyed)
          \/ FindEndpoints(e) \/ CreateDeliveries(e) \/ CreateRefused(e) \/ CommitEvent(e) \/ EmitterDies(e)
    \/ \E w \in Passes :
          \/ BeginReconcile(w) \/ (\E e \in Events : RepairFind(w, e)) \/ RepairCreate(w)
          \/ RepairFails(w) \/ EndReconcile(w)
          \/ BeginCleanup(w) \/ CleanupFind(w) \/ CleanupDelete(w) \/ PassStops(w)
    \/ \E c \in ReplayCalls :
          \/ \E e \in Events, p \in Endpoints : FindScopedEndpoint(c, e, p)
          \/ FindEvent(c) \/ CreateReplay(c)

FanSpec == FanInit /\ [][FanNext]_fanVars

--------------------------------------------------------------------------------
(* Properties *)

Delivered(e, p) == originals[<<e, p>>] > 0 \/ <<e, p>> \in replays

(* Nobody hears of an event who was not entitled to at some moment since   *)
(* it happened (same environment, enabled, subscribed), however stale what *)
(* the fan-out, the repair or the replay has read.                         *)
NeverToUninvited ==
    \A e \in Events, p \in Endpoints : Delivered(e, p) => <<e, p>> \in invited

(* An endpoint that matches from the moment the event is emitted gets it   *)
(* as soon as the event is there; if the emitter died in between, as soon  *)
(* as a pass that owes the repair has come to its end.                     *)
FanOutComplete ==
    \A x \in steady :
        Present(events[x[1]]) /\ ~ Emitting(x[1]) /\ x[1] \notin excused => originals[x] = 1

(* Retention takes all that has expired and nothing else: a pass that      *)
(* comes to its end leaves no event that was older than the retention when *)
(* it began, whatever failed or was committed between its pages; and an    *)
(* event that goes is older than the retention when it goes, although its  *)
(* pass has read the clock and the page in earlier steps.                  *)
RetentionExact ==
    [][\A e \in Events :
          /\ Present(events'[e]) => events'[e].created >= swept'
          /\ Present(events[e]) /\ events'[e] = GONE =>
                 events[e].created + Retention < clock]_fanVars
================================================================================
