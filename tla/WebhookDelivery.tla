---------------------------- MODULE WebhookDelivery ----------------------------
(***************************************************************************)
(* The delivery of webhook events (apps/api/src/webhooks): the row written *)
(* by the fan-out, the BullMQ jobs that carry its attempts, the workers    *)
(* that run them (WebhookDeliveryService.attempt), and the maintenance     *)
(* pass that re-queues what looks stranded (requeueDueDeliveries).         *)
(*                                                                         *)
(* An attempt reads the row, talks to the destination, and then records    *)
(* the outcome with an update guarded by status = 'pending' only: between  *)
(* the read and the update other workers may run jobs of the same row.     *)
(* Time is relative: `due` is next_attempt_at - now, down to -Grace, where *)
(* the maintenance pass starts to take an interest and it stops counting.  *)
(***************************************************************************)
EXTENDS Integers, FiniteSets, Absence

CONSTANTS Deliveries,   \* ids; their order is the order of creation
          Workers,      \* concurrent runs of the queue's processor
          Observable,   \* [Deliveries -> answers its endpoint can give]
          MaxAttempts,  \* policy.maxAttempts
          BaseDelay,    \* policy.baseDelayMs, in ticks
          MaxBackoff,   \* policy.maxBackoffMs, in ticks
          Grace,        \* REQUEUE_GRACE_MS, in ticks
          BatchSize,    \* RECONCILIATION_BATCH
          MaxJobs,      \* bound of the model: the pass waits while more are queued
          MaxFaults     \* bound of the model: lost enqueues, crashes, stalls

(* What an attempt can meet: a 2xx; a 3xx; a 4xx that is not worth another *)
(* attempt; 408, 425 or a 5xx; 429 or 503, whose Retry-After counts; no    *)
(* answer at all, as behind a /sandbox/fail or /timeout marker; and what   *)
(* fails before any request, a reject marker or an undecryptable secret.   *)
Answers == {"accepted", "redirect", "refusal", "busy", "throttled", "unreachable", "rejected"}

ASSUME DeliveryAssumption ==
    /\ Deliveries \subseteq Nat /\ NONE \notin Deliveries
    /\ Observable \in [Deliveries -> (SUBSET Answers) \ {{}}]
    /\ MaxAttempts \in Nat \ {0} /\ BatchSize \in Nat \ {0}
    /\ MaxBackoff \in Nat /\ BaseDelay \in Nat /\ Grace \in Nat /\ MaxJobs \in Nat /\ MaxFaults \in Nat

VARIABLES row,        \* webhook_deliveries
          phase,      \* of each delivery: was it created, was it dispatched
          jobs,       \* how many jobs wait for each delivery, by remaining delay
          pc,         \* the next step of each worker
          held,       \* the delivery of the job a worker runs
          snap,       \* delivery.attempts, as the worker read it
          result,     \* the answer whose outcome the worker is about to record
          delay,      \* delayMs of the retry a worker has booked
          requeue,    \* ids the maintenance pass has read and not queued yet
          denied,     \* deliveries whose host the destination policy denies
          accepted,   \* history: deliveries whose destination answered 2xx
          faults      \* failures so far

vars == <<row, phase, jobs, pc, held, snap, result, delay,
          requeue, denied, accepted, faults>>
workerVars == <<pc, held, snap, result, delay>>

Status == {"pending", "delivered", "failed"}
Row == [status : Status, attempts : 0 .. MaxAttempts,
        due : (-Grace .. MaxBackoff) \cup {NONE},
        verdict : Answers \cup {"denied", NONE}]
Waits == 0 .. MaxBackoff

(* The type invariant: rows and jobs as the code writes them, a counter    *)
(* that stays within the policy and a delay within the backoff ceiling.    *)
TypeOK ==
    /\ row \in [Deliveries -> Row \cup {NONE}]
    /\ phase \in [Deliveries -> {"uncreated", "undispatched", "dispatched"}]
    /\ jobs \in [Deliveries -> [Waits -> Nat]]
    /\ pc \in [Workers -> {"idle", "send", "record", "enqueue"}]
    /\ held \in [Workers -> Deliveries \cup {NONE}]
    /\ snap \in [Workers -> 0 .. MaxAttempts]
    /\ result \in [Workers -> Answers \cup {"denied", NONE}]
    /\ delay \in [Workers -> Waits]
    /\ requeue \subseteq Deliveries
    /\ denied \subseteq Deliveries
    /\ accepted \subseteq Deliveries
    /\ faults \in 0 .. MaxFaults

Init ==
    /\ row = [d \in Deliveries |-> NONE]
    /\ phase = [d \in Deliveries |-> "uncreated"]
    /\ jobs = [d \in Deliveries |-> [k \in Waits |-> 0]]
    /\ pc = [w \in Workers |-> "idle"]
    /\ held = [w \in Workers |-> NONE]
    /\ snap = [w \in Workers |-> 0]
    /\ result = [w \in Workers |-> NONE]
    /\ delay = [w \in Workers |-> 0]
    /\ requeue = {} /\ denied = {}
    /\ accepted = {} /\ faults = 0

Goto(w, l) == pc' = [pc EXCEPT ![w] = l]
Enqueue(d, k) == jobs' = [jobs EXCEPT ![d][k] = @ + 1]
Fault == faults < MaxFaults /\ faults' = faults + 1
Pending(d) == row[d] # NONE /\ row[d].status = "pending"

(* The worker is done with its job, one way or another.                    *)
Rest(w) ==
    /\ Goto(w, "idle")
    /\ held' = [held EXCEPT ![w] = NONE]
    /\ snap' = [snap EXCEPT ![w] = 0]
    /\ result' = [result EXCEPT ![w] = NONE]
    /\ delay' = [delay EXCEPT ![w] = 0]

--------------------------------------------------------------------------------
(* The row and its first job *)

(* createDeliveries, committed with the event.                             *)
Persist(d) ==
    /\ phase[d] = "uncreated"
    /\ \A o \in Deliveries : o < d => phase[o] # "uncreated"
    /\ row' = [row EXCEPT ![d] = [status |-> "pending", attempts |-> 0,
                                  due |-> 0, verdict |-> NONE]]
    /\ phase' = [phase EXCEPT ![d] = "undispatched"]
    /\ UNCHANGED <<jobs, workerVars, requeue, denied, accepted, faults>>

(* After the commit; only a row that is still pending gets a job.          *)
Dispatch(d) ==
    /\ phase[d] = "undispatched"
    /\ phase' = [phase EXCEPT ![d] = "dispatched"]
    /\ IF Pending(d) THEN Enqueue(d, 0) ELSE UNCHANGED jobs
    /\ UNCHANGED <<row, workerVars, requeue, denied, accepted, faults>>

(* Redis does not take the job, or the process dies after the commit.      *)
DispatchLost(d) ==
    /\ phase[d] = "undispatched"
    /\ phase' = [phase EXCEPT ![d] = "dispatched"]
    /\ Fault
    /\ UNCHANGED <<row, jobs, workerVars, requeue, denied, accepted>>

(* The endpoint is deleted, or the event outlives its retention: cascade.  *)
Delete(d) ==
    /\ row[d] # NONE
    /\ row' = [row EXCEPT ![d] = NONE]
    /\ UNCHANGED <<phase, jobs, workerVars, requeue, denied, accepted, faults>>

(* The host is on the denylist the workers booted with last: Configuration. *)
DenyHost(d) ==
    /\ denied' = denied \cup {d}
    /\ UNCHANGED <<row, phase, jobs, workerVars, requeue, accepted, faults>>

--------------------------------------------------------------------------------
(* attempt() *)

(* The worker takes a job that is due and reads the row.  A row that is    *)
(* gone or terminal makes the job a no-op; a denied host is an outcome     *)
(* without a request.                                                     *)
BeginAttempt(w, d) ==
    /\ pc[w] = "idle"
    /\ jobs[d][0] > 0
    /\ jobs' = [jobs EXCEPT ![d][0] = @ - 1]
    /\ \/ ~ Pending(d) /\ UNCHANGED workerVars
       \/ /\ Pending(d)
          /\ held' = [held EXCEPT ![w] = d]
          /\ snap' = [snap EXCEPT ![w] = row[d].attempts]
          /\ Goto(w, IF d \in denied THEN "record" ELSE "send")
          /\ result' = [result EXCEPT ![w] = IF d \in denied THEN "denied" ELSE NONE]
          /\ UNCHANGED delay
    /\ UNCHANGED <<row, phase, requeue, denied, accepted, faults>>

Send(w) ==
    /\ pc[w] = "send"
    /\ \E o \in Observable[held[w]] :
           /\ result' = [result EXCEPT ![w] = o]
           /\ accepted' = IF o = "accepted" THEN accepted \cup {held[w]} ELSE accepted
    /\ Goto(w, "record")
    /\ UNCHANGED <<row, phase, jobs, held, snap, delay, requeue, denied, faults>>

attemptNumber(w) == snap[w] + 1

(* Mutants: one attempt more, and one less, than the policy allows.        *)
oneAttemptMore(attemptsMade) == attemptsMade <= MaxAttempts
oneAttemptLess(attemptsMade) == attemptsMade + 1 < MaxAttempts

hasAttemptsRemaining(attemptsMade) == attemptsMade < MaxAttempts

(* classifyResponseStatus and classifyTransportError; a host that is       *)
(* denied is as final as a refusal.                                        *)
classify(answer) ==
    CASE answer = "accepted" -> "delivered"
      [] answer \in {"busy", "throttled", "unreachable"} -> "retry"
      [] OTHER -> "failed"

mayRetry(w) == classify(result[w]) = "retry" /\ hasAttemptsRemaining(attemptNumber(w))

(* Mutant: the update is not guarded.                                      *)
ClaimsAny(d) == row[d] # NONE

(* updateMany ... WHERE id AND status = 'pending'.                         *)
Claims(d) == Pending(d)

(* A denied host counts no attempt.                                        *)
counted(w) == IF result[w] = "denied" THEN snap[w] ELSE attemptNumber(w)

recordTerminal(w) ==
    LET d == held[w] IN
    /\ pc[w] = "record" /\ ~ mayRetry(w)
    /\ row' = IF Claims(d)
              THEN [row EXCEPT ![d] =
                      [status   |-> IF classify(result[w]) = "delivered" THEN "delivered" ELSE "failed",
                       attempts |-> counted(w),
                       due      |-> NONE,
                       verdict  |-> result[w]]]
              ELSE row
    /\ Rest(w)
    /\ UNCHANGED <<phase, jobs, requeue, denied, accepted, faults>>

clamp(k) == IF k > MaxBackoff THEN MaxBackoff ELSE k

(* Attempt 1 is immediate, each ceiling five times the one before; the     *)
(* exponent is bounded so that the power stays a number.                   *)
backoffCeiling(attempt) ==
    IF attempt <= 1 THEN 0
    ELSE clamp(BaseDelay * 5 ^ (IF attempt - 2 > 30 THEN 30 ELSE attempt - 2))

(* Jittered over the whole backoff of the next attempt, or the Retry-After *)
(* of an answer whose header asks for a positive delay, clamped.           *)
Delays(w) ==
    0 .. backoffCeiling(attemptNumber(w) + 1)
        \cup IF result[w] = "throttled" THEN {clamp(k) : k \in 1 .. MaxBackoff + 1} ELSE {}

BookRetry(w) ==
    LET d == held[w] IN
    /\ pc[w] = "record" /\ mayRetry(w)
    /\ \/ /\ Claims(d)
          /\ \E k \in Delays(w) :
                 /\ row' = [row EXCEPT ![d].attempts = attemptNumber(w), ![d].due = k]
                 /\ delay' = [delay EXCEPT ![w] = k]
          /\ Goto(w, "enqueue")
          /\ UNCHANGED <<held, snap, result>>
       \/ ~ Claims(d) /\ Rest(w) /\ UNCHANGED row
    /\ UNCHANGED <<phase, jobs, requeue, denied, accepted, faults>>

EnqueueRetry(w) ==
    /\ pc[w] = "enqueue"
    /\ Enqueue(held[w], delay[w])
    /\ Rest(w)
    /\ UNCHANGED <<row, phase, requeue, denied, accepted, faults>>

(* The worker dies, a query throws, or Redis refuses the retry: the job is *)
(* gone, and whatever was not written yet never will be.                   *)
AttemptLost(w) ==
    /\ pc[w] # "idle"
    /\ Fault
    /\ Rest(w)
    /\ UNCHANGED <<row, phase, jobs, requeue, denied, accepted>>

(* The queue takes the worker for dead and hands its job out once more.    *)
JobStalls(w) ==
    /\ pc[w] # "idle"
    /\ Fault
    /\ Enqueue(held[w], 0)
    /\ UNCHANGED <<row, phase, workerVars, requeue, denied, accepted>>

--------------------------------------------------------------------------------
(* requeueDueDeliveries, and time *)

(* Mutant: only rows with an attempt behind them are looked for.           *)
StrandedInRetry(d) == Pending(d) /\ row[d].attempts > 0 /\ row[d].due <= -Grace

Stranded(d) == Pending(d) /\ (row[d].due = NONE \/ row[d].due <= -Grace)

FirstBatch(S) == {d \in S : Cardinality({o \in S : o < d}) < BatchSize}

QueueFull == \E d \in Deliveries, k \in Waits : jobs[d][k] >= MaxJobs

requeueDueDeliveries ==
    /\ requeue = {}
    /\ ~ QueueFull
    /\ requeue' = FirstBatch({d \in Deliveries : Stranded(d)})
    /\ UNCHANGED <<row, phase, jobs, workerVars, denied, accepted, faults>>

RequeueOne(d) ==
    /\ d \in requeue
    /\ requeue' = requeue \ {d}
    /\ Enqueue(d, 0)
    /\ UNCHANGED <<row, phase, workerVars, denied, accepted, faults>>

(* Redis refuses one job, or the pass dies.                                *)
RequeueLost ==
    /\ requeue # {}
    /\ Fault
    /\ \E S \in SUBSET requeue : S # requeue /\ requeue' = S
    /\ UNCHANGED <<row, phase, jobs, workerVars, denied, accepted>>

Aged(r) == IF r = NONE \/ r.due = NONE \/ r.due = -Grace THEN r
           ELSE [r EXCEPT !.due = @ - 1]

Tick ==
    /\ row' = [d \in Deliveries |-> Aged(row[d])]
    /\ jobs' = [d \in Deliveries |-> [k \in Waits |->
                   (IF k = 0 THEN jobs[d][0] ELSE 0)
                       + (IF k + 1 \in Waits THEN jobs[d][k + 1] ELSE 0)]]
    /\ UNCHANGED <<phase, workerVars, requeue, denied, accepted, faults>>

--------------------------------------------------------------------------------
WorkerStep(w) ==
    \/ \E d \in Deliveries : BeginAttempt(w, d)
    \/ Send(w) \/ recordTerminal(w) \/ BookRetry(w) \/ EnqueueRetry(w)

Maintenance == requeueDueDeliveries \/ \E d \in Deliveries : RequeueOne(d)

Next ==
    \/ Tick \/ Maintenance \/ RequeueLost
    \/ \E d \in Deliveries :
           Persist(d) \/ Dispatch(d) \/ DispatchLost(d) \/ Delete(d) \/ DenyHost(d)
    \/ \E w \in Workers : WorkerStep(w) \/ AttemptLost(w) \/ JobStalls(w)

Spec == Init /\ [][Next]_vars

(* Time passes, the workers consume, the maintenance pass keeps running;   *)
(* no dispatch has to happen.                                              *)
Fairness ==
    /\ WF_vars(Tick) /\ WF_vars(Maintenance)
    /\ \A w \in Workers : WF_vars(WorkerStep(w))

FairSpec == Spec /\ Fairness

--------------------------------------------------------------------------------
(* Properties *)

(* An outcome is final: whatever duplicate or stale attempts do later, a   *)
(* delivered or failed row never changes, it can only be deleted.          *)
TerminalIsFinal ==
    [][\A d \in Deliveries :
          row[d] # NONE /\ row[d].status # "pending" => row'[d] \in {row[d], NONE}]_vars

(* No verdict is invented: delivered means that the destination did accept *)
(* an attempt, and a delivery is given up early only for an answer that no *)
(* retry could change; one whose destination is down or throttles gets the *)
(* whole ladder, duplicates or not.                                        *)
VerdictHonest ==
    \A d \in Deliveries : row[d] # NONE =>
        /\ row[d].status = "delivered" => d \in accepted
        /\ row[d].status = "failed" =>
               \/ row[d].verdict \in {"redirect", "refusal", "rejected"}
               \/ row[d].verdict = "denied" /\ d \in denied
               \/ row[d].attempts = MaxAttempts

(* No delivery stays pending for ever, whichever enqueue, worker or pass   *)
(* was lost: the maintenance pass finds it, behind any number of others.   *)
EveryDeliverySettles ==
    \A d \in Deliveries : Pending(d) ~> ~ Pending(d)

(* "Two jobs for one row both pass the status check; the CAS then discards *)
(* one outcome": a retry is booked, and its job queued, only if the row    *)
(* still is the one the attempt read.                                      *)
StaleOutcomeDiscarded ==
    [][\A w \in Workers :
          pc[w] = "record" /\ pc'[w] = "enqueue" => row[held[w]].attempts = snap[w]]_vars
================================================================================
