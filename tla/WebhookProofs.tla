----------------------------- MODULE WebhookProofs -----------------------------
(***************************************************************************)
(* Proofs about WebhookDelivery and WebhookFanout, for any number of       *)
(* deliveries, workers, endpoints, events, passes and replays, and for any *)
(* policy.                                                                 *)
(***************************************************************************)
EXTENDS WebhookDelivery, WebhookFanout, FiniteSetTheorems, TLAPS

(* What a worker knows: between the read of the row and the record of the  *)
(* outcome it is below the policy's limit, and an outcome that claims the  *)
(* destination's consent, or its denial, is a fact.                        *)
WorkerInv(w) ==
    /\ pc[w] # "idle" => held[w] \in Deliveries
    /\ pc[w] \in {"send", "record"} => snap[w] < MaxAttempts
    /\ pc[w] = "record" =>
           /\ result[w] \in Answers \cup {"denied"}
           /\ result[w] = "accepted" => held[w] \in accepted
           /\ result[w] = "denied" => held[w] \in denied

(* A row that waits for an attempt has one left, one that is settled waits *)
(* for nothing, and there is no row before it is created.                  *)
RowInv(d) ==
    /\ Pending(d) => row[d].attempts < MaxAttempts
    /\ row[d] # NONE /\ row[d].status # "pending" => row[d].due = NONE
    /\ phase[d] = "uncreated" => row[d] = NONE
    /\ row[d] # NONE =>
           /\ row[d].status = "delivered" => d \in accepted
           /\ row[d].status = "failed" =>
                  \/ row[d].verdict \in {"redirect", "refusal", "rejected"}
                  \/ row[d].verdict = "denied" /\ d \in denied
                  \/ row[d].attempts = MaxAttempts

DeliveryInv == TypeOK /\ (\A w \in Workers : WorkerInv(w)) /\ (\A d \in Deliveries : RowInv(d))

--------------------------------------------------------------------------------
(* No row, no job, and every worker idle.                                  *)
LEMMA DeliveryInvInit == Init => DeliveryInv
  BY DeliveryAssumption
  DEF Init, DeliveryInv, TypeOK, WorkerInv, RowInv, Pending, Waits

(* A row of the table is a record with an outcome or with an attempt left. *)
LEMMA RowFields ==
  ASSUME TypeOK, NEW d \in Deliveries, row[d] # NONE
  PROVE  /\ row[d] \in Row
         /\ row[d].status \in Status
         /\ row[d].attempts \in 0 .. MaxAttempts
         /\ row[d].due \in (-Grace .. MaxBackoff) \cup {NONE}
         /\ row[d].verdict \in Answers \cup {"denied", NONE}
  BY DEF TypeOK, Row

(* The bags of jobs stay bags when one more is queued.                     *)
LEMMA EnqueueType ==
  ASSUME TypeOK, NEW d \in Deliveries, NEW k \in Waits, Enqueue(d, k)
  PROVE  jobs' \in [Deliveries -> [Waits -> Nat]]
  BY DEF TypeOK, Enqueue

(* A worker at rest is an idle worker, and the others do not notice.       *)
LEMMA RestType ==
  ASSUME TypeOK, NEW w \in Workers, Rest(w)
  PROVE  /\ pc' \in [Workers -> {"idle", "send", "record", "enqueue"}]
         /\ held' \in [Workers -> Deliveries \cup {NONE}]
         /\ snap' \in [Workers -> 0 .. MaxAttempts]
         /\ result' \in [Workers -> Answers \cup {"denied", NONE}]
         /\ delay' \in [Workers -> Waits]
         /\ pc'[w] = "idle"
         /\ \A v \in Workers \ {w} : /\ pc'[v] = pc[v] /\ held'[v] = held[v]
                                     /\ snap'[v] = snap[v] /\ result'[v] = result[v]
  BY DeliveryAssumption DEF TypeOK, Rest, Goto, Waits

(* The jittered delay is one the queue can hold, whatever the attempt.     *)
LEMMA DelaysWait ==
  ASSUME NEW w \in Workers, TypeOK
  PROVE  Delays(w) \subseteq Waits
<1> DEFINE a == attemptNumber(w) + 1
<1>1. a \in Nat
  BY DeliveryAssumption DEF TypeOK, attemptNumber
<1>2. backoffCeiling(a) \in Int /\ backoffCeiling(a) <= MaxBackoff
  <2> DEFINE e == IF a - 2 > 30 THEN 30 ELSE a - 2
  <2>1. CASE a <= 1
    BY <2>1, DeliveryAssumption DEF backoffCeiling
  <2>2. CASE a > 1
    <3>1. e \in Nat
      BY <1>1, <2>2
    <3> HIDE DEF e
    <3>2. 5 ^ e \in Int
      BY <3>1
    <3> DEFINE q == BaseDelay * 5 ^ e
    <3>3. q \in Int
      BY <3>2, DeliveryAssumption
    <3>4. backoffCeiling(a) = clamp(q)
      <4>1. ~ (a <= 1)
        BY <1>1, <2>2
      <4> QED
        BY <4>1, Zenon DEF backoffCeiling, e
    <3> HIDE DEF q, a
    <3> QED
      BY <3>3, <3>4, DeliveryAssumption DEF clamp
  <2> QED
    BY <1>1, <2>1, <2>2
<1> QED
  BY <1>2, DeliveryAssumption DEF Delays, Waits, clamp

--------------------------------------------------------------------------------
(* Every step writes rows, jobs and workers of their types.                *)
LEMMA TypeStep ==
  ASSUME DeliveryInv, [Next]_vars
  PROVE  TypeOK'
<1> USE DEF DeliveryInv
<1>0. 0 \in Waits /\ 0 \in 0 .. MaxAttempts
  BY DeliveryAssumption DEF Waits
<1>1. CASE Tick
  <2>1. ASSUME NEW d \in Deliveries PROVE Aged(row[d]) \in Row \cup {NONE}
    <3>1. CASE Aged(row[d]) = row[d]
      BY <3>1 DEF TypeOK
    <3>2. CASE row[d] # NONE /\ row[d].due # NONE /\ row[d].due # -Grace
      <4>1. row[d] \in Row /\ row[d].due \in -Grace .. MaxBackoff
        BY <3>2, RowFields
      <4>2. row[d].due - 1 \in -Grace .. MaxBackoff
        BY <3>2, <4>1, DeliveryAssumption
      <4>3. [row[d] EXCEPT !.due = @ - 1] \in Row
        BY <4>1, <4>2 DEF Row
      <4> QED
        BY <3>2, <4>3 DEF Aged
    <3> QED
      BY <3>1, <3>2 DEF Aged
  <2>2. jobs' \in [Deliveries -> [Waits -> Nat]]
    BY <1>1, <1>0 DEF TypeOK, Tick
  <2> QED
    BY <1>1, <2>1, <2>2 DEF TypeOK, Tick, workerVars
<1>2. CASE requeueDueDeliveries
  BY <1>2 DEF TypeOK, requeueDueDeliveries, FirstBatch, workerVars
<1>3. ASSUME NEW d \in Deliveries, RequeueOne(d) PROVE TypeOK'
  <2>1. jobs' \in [Deliveries -> [Waits -> Nat]]
    BY <1>3, <1>0, EnqueueType DEF RequeueOne
  <2> QED
    BY <1>3, <2>1 DEF TypeOK, RequeueOne, workerVars
<1>4. CASE RequeueLost
  BY <1>4, DeliveryAssumption DEF TypeOK, RequeueLost, Fault, workerVars
<1>5. ASSUME NEW d \in Deliveries, Persist(d) PROVE TypeOK'
  <2>1. [status |-> "pending", attempts |-> 0, due |-> 0, verdict |-> NONE] \in Row
    BY DeliveryAssumption DEF Row, Status
  <2> QED
    BY <1>5, <2>1 DEF TypeOK, Persist, workerVars
<1>6. ASSUME NEW d \in Deliveries, Dispatch(d) PROVE TypeOK'
  <2>1. jobs' \in [Deliveries -> [Waits -> Nat]]
    BY <1>6, <1>0, EnqueueType DEF Dispatch, TypeOK
  <2> QED
    BY <1>6, <2>1 DEF TypeOK, Dispatch, workerVars
<1>7. ASSUME NEW d \in Deliveries, DispatchLost(d) PROVE TypeOK'
  BY <1>7, DeliveryAssumption DEF TypeOK, DispatchLost, Fault, workerVars
<1>8. ASSUME NEW d \in Deliveries, Delete(d) PROVE TypeOK'
  BY <1>8 DEF TypeOK, Delete, workerVars
<1>9. ASSUME NEW d \in Deliveries, DenyHost(d) PROVE TypeOK'
  BY <1>9 DEF TypeOK, DenyHost, workerVars
<1>10. ASSUME NEW w \in Workers, NEW d \in Deliveries, BeginAttempt(w, d) PROVE TypeOK'
  <2>1. jobs' \in [Deliveries -> [Waits -> Nat]]
    BY <1>10, <1>0 DEF BeginAttempt, TypeOK
  <2>2. CASE UNCHANGED workerVars
    BY <1>10, <2>1, <2>2 DEF BeginAttempt, TypeOK, workerVars
  <2>3. CASE Pending(d) /\ ~ UNCHANGED workerVars
    <3>1. row[d].attempts \in 0 .. MaxAttempts
      BY <2>3, RowFields DEF Pending
    <3>2. /\ held' = [held EXCEPT ![w] = d]
          /\ snap' = [snap EXCEPT ![w] = row[d].attempts]
          /\ pc' = [pc EXCEPT ![w] = IF d \in denied THEN "record" ELSE "send"]
          /\ result' = [result EXCEPT ![w] = IF d \in denied THEN "denied" ELSE NONE]
          /\ UNCHANGED <<delay, row, phase, requeue, denied, accepted, faults>>
      BY <1>10, <2>3 DEF BeginAttempt, Goto
    <3> QED
      BY <2>1, <3>1, <3>2 DEF TypeOK
  <2> QED
    BY <1>10, <2>2, <2>3 DEF BeginAttempt
<1>11. ASSUME NEW w \in Workers, Send(w) PROVE TypeOK'
  <2>1. held[w] \in Deliveries
    BY <1>11 DEF Send, WorkerInv
  <2>2. Observable[held[w]] \subseteq Answers
    BY <2>1, DeliveryAssumption
  <2> QED
    BY <1>11, <2>1, <2>2 DEF Send, TypeOK, Goto
<1>12. ASSUME NEW w \in Workers, recordTerminal(w) PROVE TypeOK'
  <2>1. /\ held[w] \in Deliveries /\ snap[w] < MaxAttempts /\ snap[w] \in 0 .. MaxAttempts
        /\ result[w] \in Answers \cup {"denied"}
    BY <1>12 DEF recordTerminal, WorkerInv, TypeOK
  <2>2. counted(w) \in 0 .. MaxAttempts
    BY <2>1, DeliveryAssumption DEF counted, attemptNumber
  <2>3. row' \in [Deliveries -> Row \cup {NONE}]
    BY <1>12, <2>1, <2>2 DEF recordTerminal, TypeOK, Row, Status
  <2> QED
    BY <1>12, <2>3, RestType DEF recordTerminal, TypeOK
<1>13. ASSUME NEW w \in Workers, BookRetry(w) PROVE TypeOK'
  <2>1. held[w] \in Deliveries /\ snap[w] < MaxAttempts /\ snap[w] \in 0 .. MaxAttempts
    BY <1>13 DEF BookRetry, WorkerInv, TypeOK
  <2>2. attemptNumber(w) \in 0 .. MaxAttempts
    BY <2>1, DeliveryAssumption DEF attemptNumber
  <2>3. CASE Rest(w) /\ UNCHANGED row
    BY <1>13, <2>3, RestType DEF BookRetry, TypeOK
  <2>4. CASE /\ Claims(held[w])
             /\ \E k \in Delays(w) :
                    /\ row' = [row EXCEPT ![held[w]].attempts = attemptNumber(w), ![held[w]].due = k]
                    /\ delay' = [delay EXCEPT ![w] = k]
             /\ Goto(w, "enqueue")
             /\ UNCHANGED <<held, snap, result>>
    <3>1. PICK k \in Waits :
                /\ row' = [row EXCEPT ![held[w]].attempts = attemptNumber(w), ![held[w]].due = k]
                /\ delay' = [delay EXCEPT ![w] = k]
      BY <2>4, DelaysWait
    <3>2. k \in -Grace .. MaxBackoff
      BY DeliveryAssumption DEF Waits
    <3>3. row[held[w]] \in Row
      BY <2>1, <2>4, RowFields DEF Claims, Pending
    <3>4. row' \in [Deliveries -> Row \cup {NONE}]
      <4> DEFINE r == [row[held[w]] EXCEPT !.attempts = attemptNumber(w), !.due = k]
      <4>1. r \in Row
        BY <3>2, <3>3, <2>2 DEF Row
      <4>2. row' = [row EXCEPT ![held[w]] = r]
        BY <3>1, <2>1 DEF TypeOK
      <4> QED
        BY <4>1, <4>2, <2>1 DEF TypeOK
    <3> QED
      BY <1>13, <2>4, <3>1, <3>4 DEF BookRetry, TypeOK, Goto
  <2> QED
    BY <1>13, <2>3, <2>4 DEF BookRetry
<1>14. ASSUME NEW w \in Workers, EnqueueRetry(w) PROVE TypeOK'
  <2>1. held[w] \in Deliveries /\ delay[w] \in Waits
    BY <1>14 DEF EnqueueRetry, WorkerInv, TypeOK
  <2>2. jobs' \in [Deliveries -> [Waits -> Nat]]
    BY <1>14, <2>1, EnqueueType DEF EnqueueRetry
  <2> QED
    BY <1>14, <2>2, RestType DEF EnqueueRetry, TypeOK
<1>15. ASSUME NEW w \in Workers, AttemptLost(w) PROVE TypeOK'
  BY <1>15, RestType, DeliveryAssumption DEF AttemptLost, TypeOK, Fault
<1>16. ASSUME NEW w \in Workers, JobStalls(w) PROVE TypeOK'
  <2>1. held[w] \in Deliveries
    BY <1>16 DEF JobStalls, WorkerInv
  <2>2. jobs' \in [Deliveries -> [Waits -> Nat]]
    BY <1>16, <1>0, <2>1, EnqueueType DEF JobStalls
  <2> QED
    BY <1>16, <2>2, DeliveryAssumption DEF JobStalls, TypeOK, Fault, workerVars
<1>17. CASE UNCHANGED vars
  BY <1>17 DEF vars, TypeOK
<1> QED
  BY <1>1, <1>2, <1>3, <1>4, <1>5, <1>6, <1>7, <1>8, <1>9, <1>10, <1>11, <1>12, <1>13,
     <1>14, <1>15, <1>16, <1>17 DEF Next, Maintenance, WorkerStep
--------------------------------------------------------------------------------
(* What a worker knows stays true while it does not move: no step takes a  *)
(* consent or a denial back.                                               *)
LEMMA WorkerStays ==
  ASSUME NEW w \in Workers, WorkerInv(w),
         pc'[w] = pc[w], held'[w] = held[w], snap'[w] = snap[w], result'[w] = result[w],
         accepted \subseteq accepted', denied \subseteq denied'
  PROVE  WorkerInv(w)'
  BY DEF WorkerInv

(* Nor does a row lose what it says while it is not written.               *)
LEMMA RowStays ==
  ASSUME NEW d \in Deliveries, RowInv(d), row'[d] = row[d],
         phase'[d] = "uncreated" => phase[d] = "uncreated",
         accepted \subseteq accepted', denied \subseteq denied'
  PROVE  RowInv(d)'
  BY DEF RowInv, Pending

(* The steps of one worker, seen from it and from the others.              *)
LEMMA WorkersStep ==
  ASSUME DeliveryInv, [Next]_vars
  PROVE  \A w \in Workers : WorkerInv(w)'
<1> USE DEF DeliveryInv
<1>1. CASE UNCHANGED workerVars /\ accepted' = accepted /\ denied \subseteq denied'
  BY <1>1, WorkerStays DEF workerVars
<1>2. ASSUME NEW w \in Workers, Rest(w), accepted' = accepted, denied' = denied
      PROVE  \A v \in Workers : WorkerInv(v)'
  <2>1. WorkerInv(w)'
    BY <1>2, RestType DEF WorkerInv
  <2>2. ASSUME NEW v \in Workers \ {w} PROVE WorkerInv(v)'
    BY <1>2, <2>2, RestType, WorkerStays
  <2> QED
    BY <2>1, <2>2
<1>3. ASSUME NEW w \in Workers, NEW d \in Deliveries, BeginAttempt(w, d), ~ UNCHANGED workerVars
      PROVE  \A v \in Workers : WorkerInv(v)'
  <2>1. /\ Pending(d) /\ row[d].attempts < MaxAttempts
        /\ held' = [held EXCEPT ![w] = d]
        /\ snap' = [snap EXCEPT ![w] = row[d].attempts]
        /\ pc' = [pc EXCEPT ![w] = IF d \in denied THEN "record" ELSE "send"]
        /\ result' = [result EXCEPT ![w] = IF d \in denied THEN "denied" ELSE NONE]
        /\ denied' = denied /\ accepted' = accepted
    BY <1>3 DEF BeginAttempt, Goto, RowInv
  <2>2. /\ held'[w] = d /\ snap'[w] = row[d].attempts
        /\ pc'[w] = IF d \in denied THEN "record" ELSE "send"
        /\ result'[w] = IF d \in denied THEN "denied" ELSE NONE
    BY <2>1 DEF TypeOK
  <2>3. WorkerInv(w)'
    BY <2>1, <2>2 DEF WorkerInv, Answers
  <2>4. ASSUME NEW v \in Workers \ {w} PROVE WorkerInv(v)'
    BY <2>1, <2>4, WorkerStays DEF TypeOK
  <2> QED
    BY <2>3, <2>4
<1>4. ASSUME NEW w \in Workers, Send(w)
      PROVE  \A v \in Workers : WorkerInv(v)'
  <2>1. held[w] \in Deliveries /\ snap[w] < MaxAttempts
    BY <1>4 DEF Send, WorkerInv
  <2>2. PICK o \in Answers :
              /\ result' = [result EXCEPT ![w] = o]
              /\ accepted' = IF o = "accepted" THEN accepted \cup {held[w]} ELSE accepted
    BY <1>4, <2>1, DeliveryAssumption DEF Send
  <2>3. /\ pc'[w] = "record" /\ held' = held /\ snap' = snap /\ result'[w] = o /\ denied' = denied
        /\ accepted \subseteq accepted' /\ pc' = [pc EXCEPT ![w] = "record"]
    BY <1>4, <2>2 DEF Send, Goto, TypeOK
  <2>4. o # "denied"
    BY DEF Answers
  <2>5. WorkerInv(w)'
    BY <2>1, <2>2, <2>3, <2>4 DEF WorkerInv
  <2>6. ASSUME NEW v \in Workers \ {w} PROVE WorkerInv(v)'
    BY <2>2, <2>3, <2>6, WorkerStays DEF TypeOK
  <2> QED
    BY <2>5, <2>6
<1>5. ASSUME NEW w \in Workers, BookRetry(w), ~ Rest(w)
      PROVE  \A v \in Workers : WorkerInv(v)'
  <2>1. /\ pc' = [pc EXCEPT ![w] = "enqueue"] /\ pc[w] = "record"
        /\ UNCHANGED <<held, snap, result, denied, accepted>>
    BY <1>5 DEF BookRetry, Goto
  <2>2. WorkerInv(w)'
    BY <2>1 DEF WorkerInv, TypeOK
  <2>3. ASSUME NEW v \in Workers \ {w} PROVE WorkerInv(v)'
    BY <2>1, <2>3, WorkerStays DEF TypeOK
  <2> QED
    BY <2>2, <2>3
<1>6. CASE Tick \/ Maintenance \/ RequeueLost
  BY <1>6, <1>1 DEF Tick, Maintenance, requeueDueDeliveries, RequeueOne, RequeueLost
<1>7. ASSUME NEW d \in Deliveries, Persist(d) \/ Dispatch(d) \/ DispatchLost(d) \/ Delete(d) \/ DenyHost(d)
      PROVE  \A v \in Workers : WorkerInv(v)'
  BY <1>7, <1>1 DEF Persist, Dispatch, DispatchLost, Delete, DenyHost
<1>8. ASSUME NEW w \in Workers, WorkerStep(w) \/ AttemptLost(w) \/ JobStalls(w)
      PROVE  \A v \in Workers : WorkerInv(v)'
  <2>1. ASSUME NEW d \in Deliveries, BeginAttempt(w, d) PROVE \A v \in Workers : WorkerInv(v)'
    BY <2>1, <1>1, <1>3 DEF BeginAttempt
  <2>2. CASE recordTerminal(w) \/ EnqueueRetry(w) \/ AttemptLost(w)
    BY <2>2, <1>2 DEF recordTerminal, EnqueueRetry, AttemptLost
  <2>3. CASE BookRetry(w)
    BY <2>3, <1>2, <1>5 DEF BookRetry
  <2>4. CASE JobStalls(w)
    BY <2>4, <1>1 DEF JobStalls
  <2> QED
    BY <1>8, <1>4, <2>1, <2>2, <2>3, <2>4 DEF WorkerStep
<1>9. CASE UNCHANGED vars
  BY <1>9, <1>1 DEF vars, workerVars
<1> QED
  BY <1>6, <1>7, <1>8, <1>9 DEF Next

--------------------------------------------------------------------------------
(* An outcome that is not worth a retry is the answer's or the ladder's.   *)
LEMMA FinalOutcome ==
  ASSUME TypeOK, NEW w \in Workers, pc[w] = "record", WorkerInv(w), ~ mayRetry(w),
         classify(result[w]) # "delivered"
  PROVE  \/ result[w] \in {"redirect", "refusal", "rejected"}
         \/ result[w] = "denied" /\ held[w] \in denied
         \/ counted(w) = MaxAttempts
<1>1. CASE classify(result[w]) = "retry"
  <2>1. snap[w] \in 0 .. MaxAttempts /\ snap[w] < MaxAttempts /\ ~ (snap[w] + 1 < MaxAttempts)
    BY <1>1 DEF TypeOK, WorkerInv, mayRetry, hasAttemptsRemaining, attemptNumber
  <2>2. result[w] # "denied"
    BY <1>1 DEF classify
  <2> QED
    BY <2>1, <2>2, DeliveryAssumption DEF counted, attemptNumber
<1>2. CASE classify(result[w]) # "retry"
  BY <1>2 DEF classify, Answers, WorkerInv
<1> QED
  BY <1>1, <1>2

(* Every step leaves an honest row: an attempt to spare or a reason.       *)
LEMMA RowsStep ==
  ASSUME DeliveryInv, [Next]_vars
  PROVE  \A d \in Deliveries : RowInv(d)'
<1> USE DEF DeliveryInv
<1>1. CASE UNCHANGED <<row, phase>> /\ accepted \subseteq accepted' /\ denied \subseteq denied'
  BY <1>1, RowStays
<1>2. CASE Tick
  <2> SUFFICES ASSUME NEW d \in Deliveries PROVE RowInv(d)'
    OBVIOUS
  <2>1. row'[d] = Aged(row[d]) /\ UNCHANGED <<phase, accepted, denied>>
    BY <1>2 DEF Tick
  <2>2. CASE Aged(row[d]) = row[d]
    BY <2>1, <2>2, RowStays
  <2>3. CASE row[d] # NONE /\ row[d].due # NONE /\ row[d].due # -Grace
    <3>1. row'[d] = [row[d] EXCEPT !.due = @ - 1] /\ row[d] \in Row /\ row[d].status = "pending"
      BY <2>1, <2>3, RowFields DEF Aged, RowInv
    <3>2. row'[d].status = row[d].status /\ row'[d].attempts = row[d].attempts
      BY <3>1 DEF Row
    <3> QED
      BY <2>1, <2>3, <3>1, <3>2 DEF RowInv, Pending
  <2> QED
    BY <2>2, <2>3 DEF Aged
<1>3. ASSUME NEW d \in Deliveries, Persist(d)
      PROVE  \A o \in Deliveries : RowInv(o)'
  <2>1. /\ row' = [row EXCEPT ![d] = [status |-> "pending", attempts |-> 0,
                                      due |-> 0, verdict |-> NONE]]
        /\ phase' = [phase EXCEPT ![d] = "undispatched"] /\ UNCHANGED <<denied, accepted>>
    BY <1>3 DEF Persist
  <2>2. RowInv(d)'
    BY <2>1, DeliveryAssumption DEF RowInv, Pending, TypeOK
  <2>3. ASSUME NEW o \in Deliveries \ {d} PROVE RowInv(o)'
    BY <2>1, <2>3, RowStays DEF TypeOK
  <2> QED
    BY <2>2, <2>3
<1>4. ASSUME NEW d \in Deliveries, Delete(d)
      PROVE  \A o \in Deliveries : RowInv(o)'
  <2>1. RowInv(d)'
    BY <1>4 DEF Delete, RowInv, Pending, TypeOK
  <2>2. ASSUME NEW o \in Deliveries \ {d} PROVE RowInv(o)'
    BY <1>4, <2>2, RowStays DEF Delete, TypeOK
  <2> QED
    BY <2>1, <2>2
<1>5. ASSUME NEW w \in Workers, recordTerminal(w)
      PROVE  \A o \in Deliveries : RowInv(o)'
  <2>0. PICK d \in Deliveries : d = held[w]
    BY <1>5 DEF recordTerminal, WorkerInv
  <2>1. /\ held[w] = d /\ pc[w] = "record" /\ ~ mayRetry(w)
        /\ UNCHANGED <<phase, denied, accepted>>
    BY <1>5, <2>0 DEF recordTerminal, WorkerInv
  <2>2. CASE row' = row
    BY <2>1, <2>2, RowStays
  <2>3. CASE Claims(d)
    <3> DEFINE new == [status   |-> IF classify(result[w]) = "delivered" THEN "delivered" ELSE "failed",
                       attempts |-> counted(w), due |-> NONE, verdict |-> result[w]]
    <3>1. row' = [row EXCEPT ![d] = new]
      BY <1>5, <2>0, <2>3 DEF recordTerminal
    <3>2. row'[d] = new /\ \A o \in Deliveries \ {d} : row'[o] = row[o]
      BY <2>1, <3>1 DEF TypeOK
    <3>3. phase[d] # "uncreated"
      BY <2>1, <2>3 DEF Claims, Pending, RowInv
    <3>4. classify(result[w]) = "delivered" => d \in accepted
      BY <2>1 DEF classify, WorkerInv
    <3>5. RowInv(d)'
      BY <2>1, <3>2, <3>3, <3>4, FinalOutcome DEF RowInv, Pending
    <3> QED
      BY <2>1, <3>2, <3>5, RowStays
  <2> QED
    BY <1>5, <2>0, <2>2, <2>3 DEF recordTerminal
<1>6. ASSUME NEW w \in Workers, BookRetry(w)
      PROVE  \A o \in Deliveries : RowInv(o)'
  <2>0. PICK d \in Deliveries : d = held[w]
    BY <1>6 DEF BookRetry, WorkerInv
  <2>1. /\ held[w] = d /\ snap[w] + 1 < MaxAttempts
        /\ UNCHANGED <<phase, denied, accepted>>
    BY <1>6, <2>0 DEF BookRetry, WorkerInv, mayRetry, hasAttemptsRemaining, attemptNumber
  <2>2. CASE row' = row
    BY <2>1, <2>2, RowStays
  <2>3. CASE row' # row
    <3>1. PICK k \in Waits :
                row' = [row EXCEPT ![d].attempts = attemptNumber(w), ![d].due = k]
      BY <1>6, <2>0, <2>3, DelaysWait DEF BookRetry
    <3>2. Claims(d)
      BY <1>6, <2>0, <2>3 DEF BookRetry
    <3>3. row[d] \in Row /\ row[d].status = "pending"
      BY <2>1, <3>2, RowFields DEF Claims, Pending
    <3>4. /\ row'[d] = [row[d] EXCEPT !.attempts = attemptNumber(w), !.due = k]
          /\ \A o \in Deliveries \ {d} : row'[o] = row[o]
      BY <2>1, <3>1 DEF TypeOK
    <3>5. row'[d].status = "pending" /\ row'[d].attempts = snap[w] + 1
      BY <3>3, <3>4 DEF Row, attemptNumber
    <3>6. phase[d] # "uncreated"
      BY <2>1, <3>2 DEF Claims, Pending, RowInv
    <3>7. RowInv(d)'
      BY <2>1, <3>5, <3>6 DEF RowInv, Pending
    <3> QED
      BY <2>1, <3>4, <3>7, RowStays
  <2> QED
    BY <2>2, <2>3
<1>7. CASE Maintenance \/ RequeueLost
  BY <1>7, <1>1 DEF Maintenance, requeueDueDeliveries, RequeueOne, RequeueLost
<1>8. ASSUME NEW d \in Deliveries, Dispatch(d) \/ DispatchLost(d) \/ DenyHost(d)
      PROVE  \A o \in Deliveries : RowInv(o)'
  <2>1. row' = row /\ accepted' = accepted /\ denied \subseteq denied'
    BY <1>8 DEF Dispatch, DispatchLost, DenyHost
  <2>2. \A o \in Deliveries : phase'[o] = "uncreated" => phase[o] = "uncreated"
    BY <1>8 DEF Dispatch, DispatchLost, DenyHost, TypeOK
  <2> QED
    BY <2>1, <2>2, RowStays
<1>9. ASSUME NEW w \in Workers,
             (\E d \in Deliveries : BeginAttempt(w, d))
                 \/ Send(w) \/ EnqueueRetry(w) \/ AttemptLost(w) \/ JobStalls(w)
      PROVE  \A o \in Deliveries : RowInv(o)'
  BY <1>9, <1>1 DEF BeginAttempt, Send, EnqueueRetry, AttemptLost, JobStalls
<1>10. CASE UNCHANGED vars
  BY <1>10, <1>1 DEF vars
<1> QED
  BY <1>2, <1>3, <1>4, <1>5, <1>6, <1>7, <1>8, <1>9, <1>10 DEF Next, WorkerStep

--------------------------------------------------------------------------------
(* The induction.                                                          *)
LEMMA DeliveryInvariant == Spec => []DeliveryInv
<1>1. Init => DeliveryInv
  BY DeliveryInvInit
<1>2. DeliveryInv /\ [Next]_vars => DeliveryInv'
  BY TypeStep, WorkersStep, RowsStep DEF DeliveryInv
<1> QED
  BY <1>1, <1>2, PTL DEF Spec

(* Rows, jobs and workers are of their types: no attempt is counted beyond *)
(* the policy, no delay booked beyond the ceiling, no job lost below zero. *)
THEOREM DeliveryTypesOk == Spec => []TypeOK
  BY DeliveryInvariant, PTL DEF DeliveryInv

(* recordTerminal invents no verdict, whatever duplicates, stalls, crashes *)
(* and maintenance passes there are.                                       *)
THEOREM VerdictIsHonest == Spec => []VerdictHonest
<1>1. DeliveryInv => VerdictHonest
  BY DEF DeliveryInv, RowInv, VerdictHonest
<1> QED
  BY <1>1, DeliveryInvariant, PTL

(* updateMany ... WHERE status = 'pending' makes an outcome final: no step *)
(* changes a settled row, except to delete it.                             *)
THEOREM SettledForGood == Spec => TerminalIsFinal
<1>1. ASSUME DeliveryInv, [Next]_vars, NEW d \in Deliveries,
             row[d] # NONE, row[d].status # "pending"
      PROVE  row'[d] \in {row[d], NONE}
  <2> USE <1>1 DEF DeliveryInv
  <2>1. CASE Tick
    BY <2>1 DEF Tick, Aged, RowInv
  <2>2. ASSUME NEW o \in Deliveries, Persist(o) PROVE row'[d] = row[d]
    BY <2>2 DEF Persist, RowInv, TypeOK
  <2>3. ASSUME NEW o \in Deliveries, Delete(o) PROVE row'[d] \in {row[d], NONE}
    BY <2>3 DEF Delete, TypeOK
  <2>4. ASSUME NEW w \in Workers, recordTerminal(w) PROVE row'[d] = row[d]
    BY <2>4 DEF recordTerminal, Claims, Pending, TypeOK
  <2>5. ASSUME NEW w \in Workers, BookRetry(w) PROVE row'[d] = row[d]
    <3>1. CASE row' # row
      <4>1. Claims(held[w])
        BY <2>5, <3>1 DEF BookRetry
      <4>2. held[w] # d
        BY <4>1 DEF Claims, Pending
      <4>3. PICK k \in Delays(w) :
                  row' = [row EXCEPT ![held[w]].attempts = attemptNumber(w), ![held[w]].due = k]
        BY <2>5, <3>1 DEF BookRetry
      <4> QED
        BY <4>2, <4>3 DEF TypeOK
    <3> QED
      BY <3>1
  <2>6. CASE row' = row
    BY <2>6
  <2>7. Maintenance \/ RequeueLost => row' = row
    BY DEF Maintenance, requeueDueDeliveries, RequeueOne, RequeueLost
  <2>8. \A o \in Deliveries : Dispatch(o) \/ DispatchLost(o) \/ DenyHost(o) => row' = row
    BY DEF Dispatch, DispatchLost, DenyHost
  <2>9. \A w \in Workers :
            (\E o \in Deliveries : BeginAttempt(w, o))
                \/ Send(w) \/ EnqueueRetry(w) \/ AttemptLost(w) \/ JobStalls(w)
            => row' = row
    BY DEF BeginAttempt, Send, EnqueueRetry, AttemptLost, JobStalls
  <2> QED
    BY <2>5, <2>1, <2>2, <2>3, <2>4, <2>6, <2>7, <2>8, <2>9 DEF Next, WorkerStep, vars
<1>2. DeliveryInv /\ [Next]_vars =>
          [\A d \in Deliveries :
              row[d] # NONE /\ row[d].status # "pending" => row'[d] \in {row[d], NONE}]_vars
  BY <1>1
<1> QED
  BY <1>2, DeliveryInvariant, PTL DEF Spec, TerminalIsFinal
--------------------------------------------------------------------------------
(* The fan-out: what the parties to it may have read and not used yet.     *)

(* What the events, the passes and the replays under way have to do with   *)
(* the table: an event a transaction has not committed is nobody's yet,    *)
(* and whoever has read an event has read one that exists or has existed.  *)
EventLinks(e) ==
    /\ emission[e] = Quiet => events[e] = NONE
    /\ emission[e].step = "created" => emission[e].keyed
    /\ Emitting(e) /\ emission[e].keyed => events[e] = NONE
    /\ Emitting(e) /\ Present(events[e]) => events[e] = emission[e].row
    /\ events[e] = NONE => \A p \in Endpoints : ~ Delivered(e, p)
PassLinks(w) ==
    /\ pass[w].step \in {"repair", "matched"} =>
           \A e \in pass[w].todo \cup pass[w].owed : events[e] # NONE
    /\ pass[w].step = "matched" => pass[w].event \in Events /\ events[pass[w].event] # NONE
    /\ pass[w].step = "found" => \A e \in pass[w].ids : events[e] # NONE
ReplayLinks(c) == replay[c].step # "none" => events[replay[c].event] # NONE
FanLinks ==
    /\ \A e \in Events : EventLinks(e)
    /\ \A w \in Passes : PassLinks(w)
    /\ \A c \in ReplayCalls : ReplayLinks(c)

(* Whatever anyone has read and not used yet was an invitation.            *)
EventInvites(e, p) ==
    /\ Draft(e) /\ Suits(e, endpoints[p]) => <<e, p>> \in invited
    /\ emission[e].step \in {"matched", "created"} /\ p \in emission[e].to => <<e, p>> \in invited
PassInvites(w, p) ==
    pass[w].step = "matched" /\ p \in pass[w].to => <<pass[w].event, p>> \in invited
ReplayInvites(c) ==
    \/ replay[c].step = "none"
    \/ replay[c].step = "endpoint" /\ ~ Replayable(replay[c].event, replay[c].seen)
    \/ <<replay[c].event, replay[c].endpoint>> \in invited
Invitations ==
    /\ \A e \in Events, p \in Endpoints : EventInvites(e, p)
    /\ \A w \in Passes, p \in Endpoints : PassInvites(w, p)
    /\ \A c \in ReplayCalls : ReplayInvites(c)
    /\ NeverToUninvited

(* An open transaction is too young to commit an event that has expired,   *)
(* the last page of a retention pass holds all that was left, and a page   *)
(* holds nothing that its cutoff spares.                                   *)
Sweep(w) ==
    pass[w].step \in {"page", "found"} =>
        /\ pass[w].cutoff + Retention <= clock
        /\ pass[w].step = "found" /\ LastPage(pass[w].ids) =>
               PastRetention(pass[w].cutoff) \subseteq pass[w].ids
Spared(w) ==
    pass[w].step = "found" =>
        \A e \in pass[w].ids : Present(events[e]) => events[e].created < pass[w].cutoff
NothingExpired == \A e \in Events : Present(events[e]) => events[e].created >= swept
Expiry ==
    /\ \A e \in Events : Emitting(e) /\ emission[e].keyed => clock <= emission[e].row.created + TxTimeout
    /\ swept = 0 \/ swept + Retention <= clock
    /\ \A w \in Passes : Sweep(w) /\ Spared(w)
    /\ NothingExpired

(* A pair that has never stopped matching still does, so whoever looks for *)
(* the endpoints of the event finds it; and a pass that has dealt with an  *)
(* event has left its deliveries behind.                                   *)
EventSteady(e, p) ==
    <<e, p>> \in steady =>
        /\ emission[e] # Quiet
        /\ Draft(e) => Suits(e, endpoints[p])
        /\ emission[e].step \in {"matched", "created"} => p \in emission[e].to
PassSteady(w, e, p) ==
    <<e, p>> \in steady /\ Present(events[e]) =>
        /\ pass[w].step = "matched" /\ pass[w].event = e => p \in pass[w].to
        /\ pass[w].step \in {"repair", "matched"} /\ e \in pass[w].owed =>
               \/ e \in pass[w].todo
               \/ pass[w].step = "matched" /\ pass[w].event = e
               \/ originals[<<e, p>>] = 1
Steadiness ==
    /\ \A e \in Events, p \in Endpoints : EventSteady(e, p)
    /\ \A w \in Passes, e \in Events, p \in Endpoints : PassSteady(w, e, p)
    /\ FanOutComplete

FanInv == FanTypeOK /\ FanLinks /\ Invitations /\ Expiry /\ Steadiness

(* The constants, one by one.                                              *)
LEMMA FanConstants ==
  /\ Retention \in Nat /\ TxTimeout \in Nat /\ MaxClock \in Nat /\ MaxActs \in Nat
  /\ MinAge \in Nat /\ Horizon \in Nat /\ TxTimeout <= Retention
  /\ ReconcileBatch \in Nat \ {0} /\ CleanupBatch \in Nat \ {0} /\ CleanupPages \in Nat \ {0}
  /\ IsFiniteSet(Events) /\ NONE \notin Events /\ GONE \notin Events /\ NONE # GONE
  BY FanAssumption

(* The step of a party tells which record it keeps.                        *)
LEMMA FanRecords ==
  ASSUME FanTypeOK
  PROVE  /\ \A e \in Events :
               \/ Emitting(e) /\ emission[e] \in Emitter
               \/ emission[e].step \in {"none", "done"} /\ emission[e] \in {Quiet, [step |-> "done"]}
         /\ \A w \in Passes :
               \/ pass[w].step \in {"repair", "matched"} /\ pass[w] \in RepairPass
               \/ pass[w].step \in {"page", "found"} /\ pass[w] \in RetentionPass
               \/ pass[w].step = "none" /\ pass[w] = Quiet
         /\ \A c \in ReplayCalls :
               \/ replay[c].step \in {"endpoint", "checked"} /\ replay[c] \in ReplayRequest
               \/ replay[c].step = "none" /\ replay[c] = Quiet
         /\ \A e \in Events : Present(events[e]) => events[e] \in EventRow
         /\ \A p \in Endpoints : Present(endpoints[p]) => endpoints[p] \in Endpoint
<1>1. \A e \in Events :
         \/ Emitting(e) /\ emission[e] \in Emitter
         \/ emission[e].step \in {"none", "done"} /\ emission[e] \in {Quiet, [step |-> "done"]}
  <2> TAKE e \in Events
  <2>1. emission[e] \in Emitter \/ emission[e] = Quiet \/ emission[e] = [step |-> "done"]
    BY DEF FanTypeOK
  <2>2. CASE emission[e] \in Emitter
    <3>1. emission[e].step \in {"inserted", "matched", "created"}
      BY <2>2 DEF Emitter
    <3> QED
      BY <2>2, <3>1 DEF Emitting
  <2> QED
    BY <2>1, <2>2 DEF Quiet
<1>2. \A w \in Passes :
         \/ pass[w].step \in {"repair", "matched"} /\ pass[w] \in RepairPass
         \/ pass[w].step \in {"page", "found"} /\ pass[w] \in RetentionPass
         \/ pass[w].step = "none" /\ pass[w] = Quiet
  <2> TAKE w \in Passes
  <2>1. pass[w] \in RepairPass \/ pass[w] \in RetentionPass \/ pass[w] = Quiet
    BY DEF FanTypeOK
  <2>2. CASE pass[w] \in RepairPass
    <3>1. pass[w].step \in {"repair", "matched"}
      BY <2>2 DEF RepairPass
    <3> QED
      BY <2>2, <3>1
  <2>3. CASE pass[w] \in RetentionPass
    <3>1. pass[w].step \in {"page", "found"}
      BY <2>3 DEF RetentionPass
    <3> QED
      BY <2>3, <3>1
  <2> QED
    BY <2>1, <2>2, <2>3 DEF Quiet
<1>3. \A c \in ReplayCalls :
         \/ replay[c].step \in {"endpoint", "checked"} /\ replay[c] \in ReplayRequest
         \/ replay[c].step = "none" /\ replay[c] = Quiet
  <2> TAKE c \in ReplayCalls
  <2>1. replay[c] \in ReplayRequest \/ replay[c] = Quiet
    BY DEF FanTypeOK
  <2>2. CASE replay[c] \in ReplayRequest
    <3>1. replay[c].step \in {"endpoint", "checked"}
      BY <2>2 DEF ReplayRequest
    <3> QED
      BY <2>2, <3>1
  <2> QED
    BY <2>1, <2>2 DEF Quiet
<1> QED
  BY <1>1, <1>2, <1>3 DEF FanTypeOK, Present

(* The rows and the requests of the initial state.                         *)
LEMMA FanInvInit == FanInit => FanInv
<1> SUFFICES ASSUME FanInit PROVE FanInv
  OBVIOUS
<1>1. FanTypeOK
  BY FanConstants DEF FanInit, FanTypeOK, Pairs, Quiet
<1>2. \A e \in Events : emission[e] = Quiet /\ events[e] = NONE /\ ~ Emitting(e) /\ ~ Present(events[e]) /\ ~ Draft(e)
  BY FanConstants DEF FanInit, Quiet, Emitting, Draft, Present
<1>3. \A w \in Passes : pass[w].step = "none"
  BY DEF FanInit, Quiet
<1>4. \A c \in ReplayCalls : replay[c].step = "none"
  BY DEF FanInit, Quiet
<1>5. \A e \in Events, p \in Endpoints : ~ Delivered(e, p)
  BY DEF FanInit, Delivered, Pairs
<1>6. \A e \in Events : emission[e].step = "none"
  BY <1>2 DEF Quiet
<1>7. FanLinks
  BY <1>2, <1>3, <1>4, <1>5, <1>6 DEF FanLinks, EventLinks, PassLinks, ReplayLinks
<1>8. Invitations
  BY <1>2, <1>3, <1>4, <1>5, <1>6 DEF Invitations, EventInvites, PassInvites, ReplayInvites, NeverToUninvited
<1>9. Expiry
  BY <1>2, <1>3, FanConstants DEF Expiry, Sweep, Spared, NothingExpired, FanInit
<1>10. Steadiness
  BY DEF Steadiness, EventSteady, PassSteady, FanOutComplete, FanInit
<1> QED
  BY <1>1, <1>7, <1>8, <1>9, <1>10 DEF FanInv
--------------------------------------------------------------------------------
(* The rows, the parties and their histories keep their types.             *)
LEMMA FanTypeStep ==
  ASSUME FanTypeOK, [FanNext]_fanVars
  PROVE  FanTypeOK'
<1> USE FanConstants
<1>1. CASE FanTick
  BY <1>1 DEF FanTick, FanTypeOK, fanTables, fanHistory
<1>2. ASSUME NEW p \in Endpoints, createEndpoint(p) \/ updateEndpoint(p) \/ deleteEndpoint(p) PROVE FanTypeOK'
  <2>1. PICK new \in Endpoint \cup {GONE} :
              /\ endpoints' = [endpoints EXCEPT ![p] = new] /\ Invite(p, new) /\ Act
              /\ UNCHANGED <<clock, events, emission, pass, replay>>
    <3>1. CASE createEndpoint(p)
      BY <3>1 DEF createEndpoint, Change, Endpoint
    <3>2. CASE updateEndpoint(p)
      <4>1. [endpoints[p] EXCEPT !.open = ~ @] \in Endpoint
        BY <3>2 DEF updateEndpoint, Present, FanTypeOK, Endpoint
      <4> QED
        BY <3>2, <4>1 DEF updateEndpoint, Change
    <3>3. CASE deleteEndpoint(p)
      BY <3>3 DEF deleteEndpoint
    <3> QED
      BY <1>2, <3>1, <3>2, <3>3
  <2>2. originals' \in [Pairs -> 0 .. 1] /\ replays' \subseteq Pairs
    <3>1. CASE createEndpoint(p) \/ updateEndpoint(p)
      BY <3>1 DEF createEndpoint, updateEndpoint, Change, FanTypeOK
    <3>2. CASE deleteEndpoint(p)
      <4>1. /\ originals' = [x \in Pairs |-> IF x[2] = p THEN 0 ELSE originals[x]]
            /\ replays' = {x \in replays : x[2] # p}
        BY <3>2 DEF deleteEndpoint
      <4> QED
        BY <4>1 DEF FanTypeOK
    <3> QED
      BY <1>2, <3>1, <3>2
  <2>3. invited' \subseteq Pairs /\ steady' \subseteq Pairs /\ UNCHANGED <<excused, swept>>
    BY <2>1 DEF Invite, Pairs, FanTypeOK
  <2>4. acts' \in 0 .. MaxActs
    BY <2>1 DEF Act, FanTypeOK
  <2> QED
    BY <2>1, <2>2, <2>3, <2>4 DEF FanTypeOK
<1>3. ASSUME NEW e \in Events, NEW env \in Environments, NEW keyed \in BOOLEAN, PersistEvent(e, env, keyed)
      PROVE  FanTypeOK'
  <2>1. [environment |-> env, created |-> clock] \in EventRow
    BY DEF FanTypeOK, EventRow
  <2>2. [step |-> "inserted", keyed |-> keyed, row |-> [environment |-> env, created |-> clock], to |-> {}] \in Emitter
    BY <2>1 DEF Emitter
  <2>3. emission' \in [Events -> Emitter \cup {Quiet, [step |-> "done"]}]
    BY <1>3, <2>2 DEF FanTypeOK, PersistEvent
  <2>4. events' \in [Events -> EventRow \cup {NONE, GONE}]
    BY <1>3, <2>1 DEF FanTypeOK, PersistEvent
  <2>5. invited' \subseteq Pairs /\ steady' \subseteq Pairs
    BY <1>3 DEF FanTypeOK, PersistEvent, Pairs
  <2> QED
    BY <1>3, <2>3, <2>4, <2>5 DEF FanTypeOK, PersistEvent, EmissionFrame
<1>4. ASSUME NEW e \in Events, FindEndpoints(e) PROVE FanTypeOK'
  <2>1. emission[e] \in Emitter
    BY <1>4, FanRecords DEF FindEndpoints, Emitting
  <2>2. [emission[e] EXCEPT !.step = "matched", !.to = Matching(emission[e].row.environment)] \in Emitter
    BY <2>1 DEF Emitter, Matching
  <2> QED
    BY <1>4, <2>2 DEF FanTypeOK, FindEndpoints, EmissionFrame, fanHistory
<1>5. ASSUME NEW e \in Events, CreateDeliveries(e) PROVE FanTypeOK'
  <2>1. emission[e] \in Emitter
    BY <1>5, FanRecords DEF CreateDeliveries, Emitting
  <2>2. [emission[e] EXCEPT !.step = "created"] \in Emitter
    BY <2>1 DEF Emitter
  <2>3. originals' \in [Pairs -> 0 .. 1]
    BY <1>5 DEF CreateDeliveries, Insert, FanTypeOK
  <2> QED
    BY <1>5, <2>2, <2>3 DEF FanTypeOK, CreateDeliveries, Emission, EndEmission, EmissionFrame, fanHistory
<1>6. ASSUME NEW e \in Events, CreateRefused(e) \/ EmitterDies(e) PROVE FanTypeOK'
  <2>1. EmissionFails(e) /\ acts' \in 0 .. MaxActs
    BY <1>6 DEF CreateRefused, EmitterDies, Act, FanTypeOK
  <2> QED
    BY <2>1 DEF FanTypeOK, EmissionFails, EndEmission, EmissionFrame
<1>7. ASSUME NEW e \in Events, CommitEvent(e) PROVE FanTypeOK'
  <2>1. emission[e] \in Emitter
    BY <1>7, FanRecords DEF CommitEvent, Emitting
  <2>2. emission[e].row \in EventRow
    BY <2>1 DEF Emitter
  <2>3. originals' \in [Pairs -> 0 .. 1]
    BY <1>7 DEF CommitEvent, Insert, FanTypeOK
  <2> QED
    BY <1>7, <2>2, <2>3 DEF FanTypeOK, CommitEvent, EndEmission, EmissionFrame, fanHistory
<1>8. ASSUME NEW w \in Passes, BeginReconcile(w) PROVE FanTypeOK'
  <2>1. PICK B \in SUBSET Events :
           pass' = [pass EXCEPT ![w] = [step |-> "repair", todo |-> B, owed |-> Owed, event |-> NONE, to |-> {}]]
    BY <1>8 DEF BeginReconcile, FirstBatchNewest, Window
  <2>2. [step |-> "repair", todo |-> B, owed |-> Owed, event |-> NONE, to |-> {}] \in RepairPass
    BY DEF RepairPass, Owed, Window
  <2> QED
    BY <1>8, <2>1, <2>2 DEF FanTypeOK, BeginReconcile, PassFrame, fanHistory
<1>9. ASSUME NEW w \in Passes, NEW e \in Events, RepairFind(w, e) PROVE FanTypeOK'
  <2>1. pass[w] \in RepairPass
    BY <1>9, FanRecords DEF RepairFind
  <2> DEFINE to == IF Present(events[e]) THEN Matching(events[e].environment) ELSE {}
  <2>2. to \subseteq Endpoints
    BY DEF Matching
  <2> HIDE DEF to
  <2>3. [pass[w] EXCEPT !.step = "matched", !.event = e, !.todo = @ \ {e}, !.to = to] \in RepairPass
    BY <2>1, <2>2 DEF RepairPass
  <2>4. pass' = [pass EXCEPT ![w] = [pass[w] EXCEPT !.step = "matched", !.event = e, !.todo = @ \ {e}, !.to = to]]
    BY <1>9 DEF RepairFind, FanTypeOK, to
  <2>5. pass' \in [Passes -> RepairPass \cup RetentionPass \cup {Quiet}]
    BY <2>3, <2>4 DEF FanTypeOK
  <2> QED
    BY <1>9, <2>5 DEF FanTypeOK, RepairFind, PassFrame, fanHistory
<1>10. ASSUME NEW w \in Passes, RepairCreate(w) \/ RepairFails(w) PROVE FanTypeOK'
  <2>1. pass[w] \in RepairPass
    BY <1>10, FanRecords DEF RepairCreate, RepairFails
  <2>2. /\ [pass[w] EXCEPT !.step = "repair"] \in RepairPass
        /\ [pass[w] EXCEPT !.step = "repair", !.owed = @ \ {pass[w].event}] \in RepairPass
    BY <2>1 DEF RepairPass
  <2>3. originals' \in [Pairs -> 0 .. 1] /\ acts' \in 0 .. MaxActs
    BY <1>10 DEF RepairCreate, RepairFails, Insert, Act, FanTypeOK
  <2> QED
    BY <1>10, <2>2, <2>3 DEF FanTypeOK, RepairCreate, RepairFails, PassFrame, fanHistory
<1>11. ASSUME NEW w \in Passes, EndReconcile(w) \/ PassStops(w) PROVE FanTypeOK'
  BY <1>11 DEF FanTypeOK, EndReconcile, PassStops, PassFrame, fanHistory, Act
<1>12. ASSUME NEW w \in Passes, BeginCleanup(w) PROVE FanTypeOK'
  <2>1. clock - Retention \in 0 .. MaxClock
    BY <1>12 DEF BeginCleanup, FanTypeOK
  <2>2. [step |-> "page", cutoff |-> clock - Retention, pages |-> 0, ids |-> {}] \in RetentionPass
    BY <2>1 DEF RetentionPass
  <2> QED
    BY <1>12, <2>2 DEF FanTypeOK, BeginCleanup, PassFrame, fanHistory
<1>13. ASSUME NEW w \in Passes, NEW complete \in BOOLEAN, pass[w] \in RetentionPass, CloseCleanup(w, complete)
       PROVE  pass' \in [Passes -> RepairPass \cup RetentionPass \cup {Quiet}] /\ swept' \in 0 .. MaxClock
  BY <1>13 DEF CloseCleanup, FanTypeOK, RetentionPass
<1>14. ASSUME NEW w \in Passes, CleanupFind(w) PROVE FanTypeOK'
  <2>1. pass[w] \in RetentionPass
    BY <1>14, FanRecords DEF CleanupFind
  <2>2. pass' \in [Passes -> RepairPass \cup RetentionPass \cup {Quiet}] /\ swept' \in 0 .. MaxClock
    <3>1. CASE CloseCleanup(w, TRUE) \/ CloseCleanup(w, FALSE)
      BY <2>1, <3>1, <1>13
    <3>2. CASE UNCHANGED swept
      <4>1. PICK B \in SUBSET Events : pass' = [pass EXCEPT ![w].step = "found", ![w].ids = B] \/ CloseCleanup(w, TRUE) \/ CloseCleanup(w, FALSE)
        BY <1>14 DEF CleanupFind, FirstBatchOldest, PastRetention
      <4>2. [pass[w] EXCEPT !.step = "found", !.ids = B] \in RetentionPass
        BY <2>1 DEF RetentionPass
      <4>3. ASSUME pass' = [pass EXCEPT ![w].step = "found", ![w].ids = B]
            PROVE  pass' \in [Passes -> RepairPass \cup RetentionPass \cup {Quiet}]
        <5>1. pass' = [pass EXCEPT ![w] = [pass[w] EXCEPT !.step = "found", !.ids = B]]
          BY <4>3 DEF FanTypeOK
        <5> QED
          BY <4>2, <5>1 DEF FanTypeOK
      <4> QED
        BY <3>1, <3>2, <4>1, <4>3 DEF FanTypeOK
    <3> QED
      BY <1>14, <3>1, <3>2 DEF CleanupFind
  <2> QED
    BY <1>14, <2>2 DEF FanTypeOK, CleanupFind, PassFrame
<1>15. ASSUME NEW w \in Passes, CleanupDelete(w) PROVE FanTypeOK'
  <2>1. pass[w] \in RetentionPass
    BY <1>15, FanRecords DEF CleanupDelete
  <2>2. pass' \in [Passes -> RepairPass \cup RetentionPass \cup {Quiet}] /\ swept' \in 0 .. MaxClock
    <3>1. CASE CloseCleanup(w, TRUE)
      BY <2>1, <3>1, <1>13
    <3>2. CASE pass' = [pass EXCEPT ![w].step = "page", ![w].pages = @ + 1] /\ UNCHANGED swept
      <4>0. pass[w].pages + 1 \in Nat
        BY <2>1 DEF RetentionPass
      <4>1. [pass[w] EXCEPT !.step = "page", !.pages = @ + 1] \in RetentionPass
        BY <2>1, <4>0 DEF RetentionPass
      <4> QED
        BY <3>2, <4>1 DEF FanTypeOK
    <3> QED
      BY <1>15, <3>1, <3>2 DEF CleanupDelete
  <2>3. originals' \in [Pairs -> 0 .. 1] /\ replays' \subseteq Pairs
    BY <1>15 DEF FanTypeOK, CleanupDelete
  <2> QED
    BY <1>15, <2>2, <2>3 DEF FanTypeOK, CleanupDelete, PassFrame
<1>16. ASSUME NEW c \in ReplayCalls, NEW e \in Events, NEW p \in Endpoints, FindScopedEndpoint(c, e, p)
       PROVE  FanTypeOK'
  <2>1. [step |-> "endpoint", event |-> e, endpoint |-> p, seen |-> endpoints[p]] \in ReplayRequest
    BY <1>16 DEF FindScopedEndpoint, ReplayRequest, FanTypeOK, Present
  <2> QED
    BY <1>16, <2>1 DEF FanTypeOK, FindScopedEndpoint, ReplayFrame, fanHistory, Act
<1>17. ASSUME NEW c \in ReplayCalls, FindEvent(c) PROVE FanTypeOK'
  <2>1. [replay[c] EXCEPT !.step = "checked"] \in ReplayRequest
    BY <1>17, FanRecords DEF FindEvent, ReplayRequest
  <2> QED
    BY <1>17, <2>1 DEF FanTypeOK, FindEvent, ReplayFrame, fanHistory
<1>18. ASSUME NEW c \in ReplayCalls, CreateReplay(c) PROVE FanTypeOK'
  <2>1. replay[c].event \in Events /\ replay[c].endpoint \in Endpoints
    BY <1>18, FanRecords DEF CreateReplay, ReplayRequest
  <2> QED
    BY <1>18, <2>1 DEF FanTypeOK, CreateReplay, ReplayFrame, fanHistory, Pairs
<1>19. CASE UNCHANGED fanVars
  BY <1>19 DEF FanTypeOK, fanVars, fanTables, fanHistory
<1> QED
  BY <1>1, <1>2, <1>3, <1>4, <1>5, <1>6, <1>7, <1>8, <1>9, <1>10, <1>11, <1>12,
     <1>14, <1>15, <1>16, <1>17, <1>18, <1>19 DEF FanNext
--------------------------------------------------------------------------------
(* Who moves what: each variable of an event, of a pass or of a request is *)
(* written by a few of the actions, and by no other.                       *)

PassStep(w) ==
    \/ BeginReconcile(w) \/ (\E e \in Events : RepairFind(w, e)) \/ RepairCreate(w)
    \/ RepairFails(w) \/ EndReconcile(w)
    \/ BeginCleanup(w) \/ CleanupFind(w) \/ CleanupDelete(w) \/ PassStops(w)
EmissionStep(e) ==
    \/ \E env \in Environments, keyed \in BOOLEAN : PersistEvent(e, env, keyed)
    \/ FindEndpoints(e) \/ CreateDeliveries(e) \/ CreateRefused(e) \/ CommitEvent(e) \/ EmitterDies(e)
EndpointStep(p) == createEndpoint(p) \/ updateEndpoint(p) \/ deleteEndpoint(p)
ReplayStep(c) ==
    \/ \E e \in Events, p \in Endpoints : FindScopedEndpoint(c, e, p)
    \/ FindEvent(c) \/ CreateReplay(c)

(* A step of the fan-out is one party's.                                   *)
LEMMA FanSteps ==
  ASSUME [FanNext]_fanVars
  PROVE  \/ FanTick \/ UNCHANGED fanVars
         \/ \E p \in Endpoints : EndpointStep(p)
         \/ \E e \in Events : EmissionStep(e)
         \/ \E w \in Passes : PassStep(w)
         \/ \E c \in ReplayCalls : ReplayStep(c)
<1>1. CASE FanNext
  BY <1>1 DEF FanNext, EndpointStep, EmissionStep, PassStep, ReplayStep
<1> QED
  BY <1>1

(* The step of an emitter: what it leaves to the others as it was.         *)
LEMMA EmissionStepFrame ==
  ASSUME FanTypeOK, NEW e \in Events, EmissionStep(e)
  PROVE  /\ UNCHANGED <<clock, endpoints, replays, pass, replay, swept>>
         /\ \A f \in Events \ {e} :
               /\ emission'[f] = emission[f] /\ events'[f] = events[f]
               /\ (f \in excused' <=> f \in excused)
         /\ \A x \in Pairs : x[1] # e =>
               /\ originals'[x] = originals[x]
               /\ (x \in invited' <=> x \in invited) /\ (x \in steady' <=> x \in steady)
<1>1. ASSUME NEW env \in Environments, NEW keyed \in BOOLEAN, PersistEvent(e, env, keyed)
      PROVE  /\ UNCHANGED <<clock, endpoints, replays, pass, replay, swept, excused, originals>>
             /\ \A f \in Events \ {e} : emission'[f] = emission[f] /\ events'[f] = events[f]
             /\ \A x \in Pairs : x[1] # e =>
                   (x \in invited' <=> x \in invited) /\ (x \in steady' <=> x \in steady)
  <2>1. PICK S \in SUBSET Endpoints : invited' = invited \cup ({e} \X S) /\ steady' = steady \cup ({e} \X S)
    BY <1>1 DEF PersistEvent
  <2>2. \A x \in Pairs : x[1] # e => (x \in invited' <=> x \in invited) /\ (x \in steady' <=> x \in steady)
    BY <2>1
  <2> QED
    BY <1>1, <2>2 DEF PersistEvent, EmissionFrame, FanTypeOK
<1>2. CASE FindEndpoints(e)
  BY <1>2 DEF FindEndpoints, EmissionFrame, fanHistory, FanTypeOK
<1>3. CASE CreateDeliveries(e)
  BY <1>3 DEF CreateDeliveries, Emission, EndEmission, Insert, EmissionFrame, fanHistory, FanTypeOK
<1>4. CASE CreateRefused(e) \/ EmitterDies(e)
  BY <1>4 DEF CreateRefused, EmitterDies, EmissionFails, EndEmission, EmissionFrame, FanTypeOK
<1>5. CASE CommitEvent(e)
  BY <1>5 DEF CommitEvent, EndEmission, Insert, EmissionFrame, fanHistory, FanTypeOK
<1> QED
  BY <1>1, <1>2, <1>3, <1>4, <1>5 DEF EmissionStep

(* The step of a pass.                                                     *)
LEMMA PassStepFrame ==
  ASSUME FanTypeOK, NEW w \in Passes, PassStep(w)
  PROVE  /\ UNCHANGED <<clock, endpoints, emission, replay, invited, steady>>
         /\ \A v \in Passes \ {w} : pass'[v] = pass[v]
         /\ \/ UNCHANGED <<events, originals, replays>>
            \/ RepairCreate(w) /\ UNCHANGED <<events, replays>>
            \/ CleanupDelete(w)
         /\ excused' = excused \/ EndReconcile(w)
         /\ swept' = swept \/ CleanupFind(w) \/ CleanupDelete(w)
<1>1. UNCHANGED <<clock, endpoints, emission, replay, invited, steady>>
  BY DEF PassStep, PassFrame, BeginReconcile, RepairFind, RepairCreate, RepairFails, EndReconcile,
         BeginCleanup, CleanupFind, CleanupDelete, PassStops, fanHistory
<1>2. \A v \in Passes \ {w} : pass'[v] = pass[v]
  BY DEF PassStep, BeginReconcile, RepairFind, RepairCreate, RepairFails, EndReconcile,
         BeginCleanup, CleanupFind, CleanupDelete, CloseCleanup, PassStops, FanTypeOK
<1>3. /\ \/ UNCHANGED <<events, originals, replays>>
         \/ RepairCreate(w) /\ UNCHANGED <<events, replays>>
         \/ CleanupDelete(w)
      /\ excused' = excused \/ EndReconcile(w)
      /\ swept' = swept \/ CleanupFind(w) \/ CleanupDelete(w)
  <2>1. CASE CleanupFind(w)
    BY <2>1 DEF CleanupFind
  <2>2. CASE CleanupDelete(w)
    BY <2>2 DEF CleanupDelete
  <2> QED
    BY <2>1, <2>2 DEF PassStep, BeginReconcile, RepairFind, RepairCreate, RepairFails, EndReconcile,
         BeginCleanup, PassStops, fanHistory
<1> QED
  BY <1>1, <1>2, <1>3

(* The step of a replay.                                                   *)
LEMMA ReplayStepFrame ==
  ASSUME FanTypeOK, NEW c \in ReplayCalls, ReplayStep(c)
  PROVE  /\ UNCHANGED <<clock, endpoints, events, originals, emission, pass, fanHistory>>
         /\ \A d \in ReplayCalls \ {c} : replay'[d] = replay[d]
         /\ replays' = replays \/ CreateReplay(c)
  BY DEF ReplayStep, ReplayFrame, FindScopedEndpoint, FindEvent, CreateReplay, FanTypeOK

(* The step of the endpoint registry.                                      *)
LEMMA EndpointStepFrame ==
  ASSUME FanTypeOK, NEW p \in Endpoints, EndpointStep(p)
  PROVE  /\ UNCHANGED <<clock, events, emission, pass, replay, excused, swept>>
         /\ \A q \in Endpoints \ {p} : endpoints'[q] = endpoints[q]
         /\ Invite(p, endpoints'[p])
         /\ \/ UNCHANGED <<originals, replays>>
            \/ /\ endpoints'[p] = GONE
               /\ originals' = [x \in Pairs |-> IF x[2] = p THEN 0 ELSE originals[x]]
               /\ replays' = {x \in replays : x[2] # p}
<1>1. ASSUME NEW new, Change(p, new)
      PROVE  /\ UNCHANGED <<clock, events, emission, pass, replay, excused, swept, replays>>
             /\ endpoints'[p] = new /\ Invite(p, new)
             /\ \A q \in Endpoints \ {p} : endpoints'[q] = endpoints[q]
  BY <1>1 DEF Change, Invite, FanTypeOK
<1>2. CASE createEndpoint(p)
  BY <1>1, <1>2 DEF createEndpoint
<1>3. CASE updateEndpoint(p)
  BY <1>1, <1>3 DEF updateEndpoint
<1>4. CASE deleteEndpoint(p)
  BY <1>4 DEF deleteEndpoint, Invite, FanTypeOK
<1> QED
  BY <1>2, <1>3, <1>4 DEF EndpointStep
--------------------------------------------------------------------------------
(* An event is committed once, with the row its transaction has inserted,  *)
(* and goes when a retention pass that has read it deletes it: a row is    *)
(* never changed, and an event that has gone does not come back.           *)
LEMMA EventHistory ==
  ASSUME FanTypeOK, FanLinks, [FanNext]_fanVars, NEW e \in Events
  PROVE  \/ events'[e] = events[e]
         \/ events[e] # NONE /\ events'[e] = GONE /\ \E w \in Passes : CleanupDelete(w) /\ e \in pass[w].ids
         \/ /\ events[e] = NONE /\ Present(events'[e]) /\ EmissionStep(e)
            /\ \/ \E env \in Environments : PersistEvent(e, env, FALSE)
               \/ CommitEvent(e)
<1>1. ASSUME NEW w \in Passes, PassStep(w)
      PROVE  \/ events'[e] = events[e]
             \/ events[e] # NONE /\ events'[e] = GONE /\ CleanupDelete(w) /\ e \in pass[w].ids
  <2>1. CASE CleanupDelete(w)
    BY <2>1 DEF CleanupDelete, FanLinks, PassLinks
  <2> QED
    BY <1>1, <2>1, PassStepFrame
<1>2. ASSUME EmissionStep(e), events'[e] # events[e]
      PROVE  /\ events[e] = NONE /\ Present(events'[e])
             /\ (\E env \in Environments : PersistEvent(e, env, FALSE)) \/ CommitEvent(e)
  <2>1. ASSUME NEW env \in Environments, NEW keyed \in BOOLEAN, PersistEvent(e, env, keyed)
        PROVE  events[e] = NONE /\ Present(events'[e]) /\ PersistEvent(e, env, FALSE)
    <3>1. keyed = FALSE /\ events[e] = NONE
      BY <1>2, <2>1 DEF PersistEvent
    <3>2. events'[e] = [environment |-> env, created |-> clock]
      BY <2>1, <3>1 DEF PersistEvent, FanTypeOK
    <3>3. [environment |-> env, created |-> clock] \in EventRow
      BY DEF FanTypeOK, EventRow
    <3> QED
      BY <2>1, <3>1, <3>2, <3>3, NullIsNoRow DEF Present
  <2>2. CASE CommitEvent(e)
    <3>1. emission[e] \in Emitter /\ emission[e].step = "created" /\ Emitting(e)
      BY <2>2, FanRecords DEF CommitEvent, Emitting
    <3>2. events[e] = NONE
      BY <3>1 DEF FanLinks, EventLinks
    <3>3. events'[e] = emission[e].row /\ emission[e].row \in EventRow
      BY <2>2, <3>1 DEF CommitEvent, Emitter, FanTypeOK
    <3> QED
      BY <2>2, <3>2, <3>3, NullIsNoRow DEF Present
  <2> QED
    BY <1>2, <2>1, <2>2 DEF EmissionStep, FindEndpoints, CreateDeliveries, CreateRefused, EmitterDies,
       EmissionFails, Emission, EndEmission, EmissionFrame
<1>3. ASSUME NEW p \in Endpoints, EndpointStep(p) PROVE events' = events
  BY <1>3, EndpointStepFrame
<1>4. ASSUME NEW c \in ReplayCalls, ReplayStep(c) PROVE events' = events
  BY <1>4, ReplayStepFrame
<1>5. ASSUME NEW f \in Events \ {e}, EmissionStep(f) PROVE events'[e] = events[e]
  BY <1>5, EmissionStepFrame
<1>6. CASE FanTick \/ UNCHANGED fanVars
  BY <1>6 DEF FanTick, fanVars, fanTables
<1> QED
  BY <1>1, <1>2, <1>3, <1>4, <1>5, <1>6, FanSteps DEF PassStep

(* So whoever holds the id of an event goes on holding the id of an event. *)
LEMMA EventsOutlast ==
  ASSUME FanTypeOK, FanLinks, [FanNext]_fanVars, NEW e \in Events, events[e] # NONE
  PROVE  /\ events'[e] # NONE
         /\ Present(events'[e]) => events'[e] = events[e]
  BY EventHistory, FanConstants DEF Present

(* An insert of deliveries adds those it names and takes none away.        *)
LEMMA InsertAdds ==
  ASSUME FanTypeOK, NEW e \in Events, NEW to, Insert(e, to), NEW x \in Pairs
  PROVE  /\ x[1] = e /\ x[2] \in to => originals'[x] = 1
         /\ ~ (x[1] = e /\ x[2] \in to) => originals'[x] = originals[x]
         /\ originals[x] = 1 => originals'[x] = 1
  BY DEF Insert, FanTypeOK

(* The links of the passes and of the replays: they follow the ids.        *)
LEMMA PassLinksStep ==
  ASSUME FanTypeOK, FanLinks, [FanNext]_fanVars, NEW w \in Passes
  PROVE  PassLinks(w)'
<1>0. PassLinks(w)
  BY DEF FanLinks
<1>1. CASE pass'[w] = pass[w]
  <2>1. pass[w].step \in {"repair", "matched"} => pass[w].todo \cup pass[w].owed \subseteq Events
    BY FanRecords DEF RepairPass
  <2>2. pass[w].step = "found" => pass[w].ids \subseteq Events
    BY FanRecords DEF RetentionPass
  <2> QED
    BY <1>0, <1>1, <2>1, <2>2, EventsOutlast DEF PassLinks
<1>2. CASE PassStep(w)
  <2>1. CASE BeginReconcile(w)
    <3>1. PICK B \in SUBSET Window(clock) :
             pass' = [pass EXCEPT ![w] = [step |-> "repair", todo |-> B, owed |-> Owed, event |-> NONE, to |-> {}]]
      BY <2>1 DEF BeginReconcile, FirstBatchNewest
    <3>2. events' = events
      BY <2>1 DEF BeginReconcile
    <3>3. \A e \in B \cup Owed : events[e] # NONE
      BY DEF Window, Owed, Present
    <3>4. pass'[w] = [step |-> "repair", todo |-> B, owed |-> Owed, event |-> NONE, to |-> {}]
      BY <3>1 DEF FanTypeOK
    <3> QED
      BY <3>2, <3>3, <3>4 DEF PassLinks
  <2>2. ASSUME NEW e \in Events, RepairFind(w, e) PROVE PassLinks(w)'
    <3>1. /\ pass'[w].step = "matched" /\ pass'[w].event = e /\ events' = events
          /\ pass'[w].todo = pass[w].todo \ {e} /\ pass'[w].owed = pass[w].owed
          /\ pass[w].step = "repair" /\ e \in pass[w].todo
      BY <2>2, FanRecords DEF RepairFind, FanTypeOK, RepairPass
    <3> QED
      BY <1>0, <3>1 DEF PassLinks
  <2>3. CASE RepairCreate(w) \/ RepairFails(w)
    <3>1. /\ pass'[w].step = "repair" /\ events' = events
          /\ pass'[w].todo = pass[w].todo /\ pass'[w].owed \subseteq pass[w].owed
          /\ pass[w].step = "matched"
      BY <2>3, FanRecords DEF RepairCreate, RepairFails, FanTypeOK, RepairPass
    <3> QED
      BY <1>0, <3>1 DEF PassLinks
  <2>4. CASE BeginCleanup(w)
    BY <2>4 DEF BeginCleanup, PassLinks, FanTypeOK
  <2>5. CASE CleanupFind(w) \/ CleanupDelete(w)
    <3>1. ASSUME NEW complete, CloseCleanup(w, complete) PROVE pass'[w] = Quiet
      BY <3>1 DEF CloseCleanup, FanTypeOK
    <3>2. ASSUME NEW B \in SUBSET PastRetention(pass[w].cutoff), pass[w].step = "page", events' = events,
                 pass' = [pass EXCEPT ![w].step = "found", ![w].ids = B]
          PROVE  PassLinks(w)'
      <4>1. pass'[w].step = "found" /\ pass'[w].ids = B
        BY <3>2, FanRecords DEF FanTypeOK, RetentionPass
      <4>2. \A e \in B : events[e] # NONE
        BY DEF PastRetention, Present
      <4> QED
        BY <3>2, <4>1, <4>2 DEF PassLinks
    <3>3. CASE pass' = [pass EXCEPT ![w].step = "page", ![w].pages = @ + 1] /\ pass[w].step = "found"
      <4>1. pass'[w].step = "page"
        BY <3>3, FanRecords DEF FanTypeOK, RetentionPass
      <4> QED
        BY <4>1 DEF PassLinks
    <3>4. CASE pass'[w] = Quiet
      BY <3>4 DEF PassLinks, Quiet
    <3>5. CASE CleanupFind(w)
      BY <3>1, <3>2, <3>4, <3>5 DEF CleanupFind, FirstBatchOldest
    <3>6. CASE CleanupDelete(w)
      BY <3>1, <3>3, <3>4, <3>6 DEF CleanupDelete
    <3> QED
      BY <2>5, <3>5, <3>6
  <2>6. CASE EndReconcile(w) \/ PassStops(w)
    BY <2>6 DEF EndReconcile, PassStops, PassLinks, FanTypeOK, Quiet
  <2> QED
    BY <1>2, <2>5, <2>1, <2>2, <2>3, <2>4, <2>6 DEF PassStep
<1>3. pass'[w] = pass[w] \/ PassStep(w)
  <2>1. FanTick \/ UNCHANGED fanVars => pass' = pass
    BY DEF FanTick, fanVars
  <2> QED
    BY <2>1, FanSteps, EndpointStepFrame, EmissionStepFrame, PassStepFrame, ReplayStepFrame
<1> QED
  BY <1>1, <1>2, <1>3

(* A request keeps asking about an event that is or was.                   *)
LEMMA ReplayLinksStep ==
  ASSUME FanTypeOK, FanLinks, [FanNext]_fanVars, NEW c \in ReplayCalls
  PROVE  ReplayLinks(c)'
<1>0. ReplayLinks(c)
  BY DEF FanLinks
<1>1. CASE replay'[c] = replay[c]
  <2>1. replay[c].step # "none" => replay[c].event \in Events
    BY FanRecords DEF ReplayRequest
  <2> QED
    BY <1>0, <1>1, <2>1, EventsOutlast DEF ReplayLinks
<1>2. CASE ReplayStep(c)
  <2>1. ASSUME NEW e \in Events, NEW p \in Endpoints, FindScopedEndpoint(c, e, p) PROVE ReplayLinks(c)'
    BY <2>1 DEF FindScopedEndpoint, ReplayFrame, ReplayLinks, FanTypeOK
  <2>2. CASE FindEvent(c)
    <3>1. replay[c] \in ReplayRequest /\ replay[c].step = "endpoint" /\ events' = events
      BY <2>2, FanRecords DEF FindEvent, ReplayFrame
    <3>2. replay'[c] = Quiet \/ replay'[c] = [replay[c] EXCEPT !.step = "checked"]
      BY <2>2 DEF FindEvent, FanTypeOK
    <3>3. replay'[c] # Quiet => replay'[c].event = replay[c].event
      BY <3>1, <3>2 DEF ReplayRequest
    <3> QED
      BY <1>0, <3>1, <3>2, <3>3 DEF ReplayLinks, Quiet
  <2>3. CASE CreateReplay(c)
    BY <2>3 DEF CreateReplay, ReplayLinks, FanTypeOK, Quiet
  <2> QED
    BY <1>2, <2>1, <2>2, <2>3 DEF ReplayStep
<1>3. replay'[c] = replay[c] \/ ReplayStep(c)
  <2>1. FanTick \/ UNCHANGED fanVars => replay' = replay
    BY DEF FanTick, fanVars
  <2> QED
    BY <2>1, FanSteps, EndpointStepFrame, EmissionStepFrame, PassStepFrame, ReplayStepFrame
<1> QED
  BY <1>1, <1>2, <1>3
(* The link between an emission and its event, across each of its steps.   *)
LEMMA EventLinksStep ==
  ASSUME FanTypeOK, FanLinks, [FanNext]_fanVars, NEW e \in Events
  PROVE  EventLinks(e)'
<1>0. EventLinks(e)
  BY DEF FanLinks
<1>p. \A p \in Endpoints : <<e, p>> \in Pairs
  BY DEF Pairs
<1>1. CASE EmissionStep(e)
  <2>0. replays' = replays
    BY <1>1, EmissionStepFrame
  <2>1. ASSUME NEW env \in Environments, NEW keyed \in BOOLEAN, PersistEvent(e, env, keyed)
        PROVE  EventLinks(e)'
    <3> DEFINE new == [environment |-> env, created |-> clock]
    <3>1. /\ emission'[e] = [step |-> "inserted", keyed |-> keyed, row |-> new, to |-> {}]
          /\ events'[e] = IF keyed THEN events[e] ELSE new
          /\ events[e] = NONE /\ originals' = originals
      BY <2>1 DEF PersistEvent, FanTypeOK
    <3>2. new \in EventRow
      BY DEF FanTypeOK, EventRow
    <3>3. new # NONE
      BY <3>2, NullIsNoRow
    <3> HIDE DEF new
    <3>4. emission'[e].step = "inserted" /\ emission'[e].keyed = keyed /\ emission'[e].row = new
      BY <3>1
    <3>5. emission'[e] # Quiet
      BY <3>4 DEF Quiet
    <3>6. (~ Present(events[e])) /\ \A p \in Endpoints : ~ Delivered(e, p)
      BY <3>1, <1>0 DEF EventLinks, Present
    <3>7. \A p \in Endpoints : ~ Delivered(e, p)'
      BY <3>1, <3>6, <2>0 DEF Delivered
    <3> QED
      BY <3>1, <3>3, <3>4, <3>5, <3>6, <3>7 DEF EventLinks, Present
  <2>2. CASE FindEndpoints(e)
    <3>1. emission[e] \in Emitter /\ emission[e].step = "inserted"
      BY <2>2, FanRecords DEF FindEndpoints, Emitting
    <3>2. /\ emission'[e].step = "matched" /\ emission'[e].keyed = emission[e].keyed
          /\ emission'[e].row = emission[e].row /\ UNCHANGED <<events, originals>>
      BY <2>2, <3>1 DEF FindEndpoints, FanTypeOK, Emitter
    <3> QED
      BY <1>0, <2>0, <3>1, <3>2 DEF EventLinks, Emitting, Quiet, Present, Delivered
  <2>3. CASE CreateDeliveries(e) /\ emission[e].keyed
    <3>1. emission[e] \in Emitter /\ emission[e].step = "matched"
      BY <2>3, FanRecords DEF CreateDeliveries, Emitting
    <3>2. /\ emission'[e].step = "created" /\ emission'[e].keyed = emission[e].keyed
          /\ emission'[e].row = emission[e].row /\ UNCHANGED <<events, originals>>
      BY <2>3, <3>1, ZenonT(40) DEF CreateDeliveries, Emission, FanTypeOK, Emitter
    <3> QED
      BY <1>0, <2>0, <2>3, <3>1, <3>2 DEF EventLinks, Emitting, Quiet, Present, Delivered
  <2>4. CASE CreateDeliveries(e) /\ ~ emission[e].keyed
    <3>1. /\ emission'[e] = [step |-> "done"] /\ events' = events
          /\ ForeignKeys(e, emission[e].to) /\ Insert(e, emission[e].to)
      BY <2>4 DEF CreateDeliveries, EndEmission, FanTypeOK
    <3>2. events[e] = NONE => \A p \in Endpoints : originals'[<<e, p>>] = originals[<<e, p>>]
      BY <3>1, <1>p, InsertAdds DEF ForeignKeys, Present
    <3> QED
      BY <1>0, <2>0, <3>1, <3>2 DEF EventLinks, Emitting, Quiet, Delivered
  <2>5. CASE CreateRefused(e) \/ EmitterDies(e)
    <3>1. emission'[e] = [step |-> "done"] /\ events' = events /\ originals' = originals
      BY <2>5 DEF CreateRefused, EmitterDies, EmissionFails, EndEmission, FanTypeOK
    <3> QED
      BY <1>0, <2>0, <3>1 DEF EventLinks, Emitting, Quiet, Delivered
  <2>6. CASE CommitEvent(e)
    <3>1. emission'[e] = [step |-> "done"] /\ events'[e] = emission[e].row
      BY <2>6 DEF CommitEvent, EndEmission, FanTypeOK
    <3>2. emission[e] \in Emitter
      BY <2>6, FanRecords DEF CommitEvent, Emitting
    <3>3. emission[e].row # NONE
      BY <3>2, NullIsNoRow DEF Emitter
    <3> QED
      BY <3>1, <3>3 DEF EventLinks, Emitting, Quiet
  <2> QED
    BY <1>1, <2>5, <2>1, <2>2, <2>3, <2>4, <2>6 DEF EmissionStep
<1>2. CASE emission'[e] = emission[e] /\ events'[e] = events[e]
  <2>1. ASSUME events[e] = NONE, NEW p \in Endpoints
        PROVE  ~ Delivered(e, p)'
    <3>1. ~ Delivered(e, p)
      BY <1>0, <2>1 DEF EventLinks
    <3>2. CASE originals'[<<e, p>>] = originals[<<e, p>>] /\ (<<e, p>> \in replays' => <<e, p>> \in replays)
      BY <3>1, <3>2 DEF Delivered
    <3>3. ASSUME NEW f \in Events \ {e}, EmissionStep(f)
          PROVE  originals'[<<e, p>>] = originals[<<e, p>>] /\ replays' = replays
      BY <3>3, <1>p, EmissionStepFrame
    <3>4. ASSUME NEW w \in Passes, PassStep(w) PROVE ~ Delivered(e, p)'
      <4>1. CASE RepairCreate(w)
        <5>1. ForeignKeys(pass[w].event, pass[w].to) /\ Insert(pass[w].event, pass[w].to) /\ replays' = replays
          BY <4>1 DEF RepairCreate
        <5>2. pass[w].event \in Events /\ pass[w].event # e
          BY <4>1, <2>1 DEF RepairCreate, FanLinks, PassLinks
        <5> QED
          BY <5>1, <5>2, <1>p, <3>2, InsertAdds
      <4>2. CASE CleanupDelete(w)
        <5>1. /\ originals' = [x \in Pairs |-> IF x[1] \in pass[w].ids THEN 0 ELSE originals[x]]
              /\ replays' = {x \in replays : x[1] \notin pass[w].ids}
          BY <4>2 DEF CleanupDelete
        <5> QED
          BY <5>1, <1>p, <3>1 DEF Delivered
      <4> QED
        BY <3>2, <3>4, <4>1, <4>2, PassStepFrame
    <3>5. ASSUME NEW c \in ReplayCalls, ReplayStep(c) PROVE ~ Delivered(e, p)'
      <4>1. CASE CreateReplay(c)
        <5>1. replay[c].event # e
          BY <4>1, <2>1 DEF CreateReplay, FanLinks, ReplayLinks
        <5>2. replays' \subseteq replays \cup {<<replay[c].event, replay[c].endpoint>>} /\ originals' = originals
          BY <4>1 DEF CreateReplay, ReplayFrame
        <5> QED
          BY <5>1, <5>2, <3>2
      <4> QED
        BY <3>2, <3>5, <4>1, ReplayStepFrame
    <3>6. ASSUME NEW q \in Endpoints, EndpointStep(q) PROVE ~ Delivered(e, p)'
      <4>1. CASE UNCHANGED <<originals, replays>>
        BY <4>1, <3>2
      <4>2. CASE /\ originals' = [x \in Pairs |-> IF x[2] = q THEN 0 ELSE originals[x]]
                 /\ replays' = {x \in replays : x[2] # q}
        BY <4>2, <1>p, <3>1 DEF Delivered
      <4> QED
        BY <3>6, <4>1, <4>2, EndpointStepFrame
    <3>7. CASE FanTick \/ UNCHANGED fanVars
      BY <3>2, <3>7 DEF FanTick, fanVars, fanTables
    <3>8. CASE EmissionStep(e)
      BY <1>1, <1>2, <2>1, <3>8 DEF EventLinks
    <3> QED
      BY <3>2, <3>3, <3>4, <3>5, <3>6, <3>7, <3>8, FanSteps
  <2> QED
    BY <1>0, <1>2, <2>1 DEF EventLinks, Emitting, Present
<1>3. CASE emission'[e] = emission[e] /\ events'[e] # events[e] /\ ~ EmissionStep(e)
  <2>1. events[e] # NONE /\ events'[e] = GONE
    BY <1>3, EventHistory
  <2> QED
    BY <1>0, <1>3, <2>1, FanConstants DEF EventLinks, Emitting, Present
<1>4. emission'[e] = emission[e] \/ EmissionStep(e)
  <2>1. FanTick \/ UNCHANGED fanVars => emission' = emission
    BY DEF FanTick, fanVars
  <2> QED
    BY <2>1, FanSteps, EndpointStepFrame, EmissionStepFrame, PassStepFrame, ReplayStepFrame
<1> QED
  BY <1>1, <1>2, <1>3, <1>4

(* The links are kept.                                                     *)
LEMMA FanLinksStep ==
  ASSUME FanTypeOK, FanLinks, [FanNext]_fanVars
  PROVE  FanLinks'
  BY EventLinksStep, PassLinksStep, ReplayLinksStep DEF FanLinks
--------------------------------------------------------------------------------
(* An invitation is withdrawn only with the event itself, by a transaction *)
(* that rolls back.                                                        *)
LEMMA InvitationsLast ==
  ASSUME FanTypeOK, FanLinks, [FanNext]_fanVars, NEW e \in Events, NEW p \in Endpoints,
         <<e, p>> \in invited, events[e] # NONE
  PROVE  <<e, p>> \in invited'
<1>p. <<e, p>> \in Pairs
  BY DEF Pairs
<1>1. CASE EmissionStep(e)
  <2>1. ASSUME EmissionFails(e), Emitting(e) PROVE <<e, p>> \in invited'
    <3>1. ~ emission[e].keyed
      BY <2>1 DEF FanLinks, EventLinks
    <3> QED
      BY <2>1, <3>1 DEF EmissionFails
  <2>2. ASSUME NEW env \in Environments, NEW keyed \in BOOLEAN, PersistEvent(e, env, keyed)
        PROVE  <<e, p>> \in invited'
    BY <2>2 DEF PersistEvent
  <2>3. CASE FindEndpoints(e) \/ CreateDeliveries(e) \/ CommitEvent(e)
    BY <2>3 DEF FindEndpoints, CreateDeliveries, CommitEvent, fanHistory
  <2>4. CASE CreateRefused(e) \/ EmitterDies(e)
    BY <2>4, <2>1 DEF CreateRefused, EmitterDies, Emitting
  <2> QED
    BY <1>1, <2>2, <2>3, <2>4 DEF EmissionStep
<1>2. ASSUME NEW f \in Events \ {e}, EmissionStep(f) PROVE <<e, p>> \in invited'
  BY <1>2, <1>p, EmissionStepFrame
<1>3. ASSUME NEW q \in Endpoints, EndpointStep(q) PROVE <<e, p>> \in invited'
  BY <1>3, EndpointStepFrame DEF Invite
<1>4. CASE FanTick \/ UNCHANGED fanVars
  BY <1>4 DEF FanTick, fanVars, fanHistory
<1> QED
  BY <1>1, <1>2, <1>3, <1>4, FanSteps, PassStepFrame, ReplayStepFrame DEF fanHistory

(* An event that its own transaction has inserted has the environment its  *)
(* emitter goes on using, visible to the others or not, deleted or not.    *)
LEMMA SuitsTheRow ==
  ASSUME FanTypeOK, FanLinks, NEW e \in Events, NEW endpoint
  PROVE  /\ Emitting(e) => (Suits(e, endpoint) <=> Matches(emission[e].row.environment, endpoint))
         /\ Present(events[e]) => (Suits(e, endpoint) <=> Matches(events[e].environment, endpoint))
<1>1. Emitting(e) /\ Present(events[e]) => events[e] = emission[e].row
  BY DEF FanLinks, EventLinks
<1> QED
  BY <1>1 DEF Suits, Matches

(* An endpoint that suits an event is invited at once, and what an emitter *)
(* has matched was.                                                        *)
LEMMA EventInvitesStep ==
  ASSUME FanTypeOK, FanLinks, Invitations, [FanNext]_fanVars, FanTypeOK', FanLinks',
         NEW e \in Events, NEW p \in Endpoints
  PROVE  EventInvites(e, p)'
<1>0. EventInvites(e, p)
  BY DEF Invitations
<1>p. <<e, p>> \in Pairs
  BY DEF Pairs
<1>s. /\ Emitting(e) => (Suits(e, endpoints[p]) <=> Matches(emission[e].row.environment, endpoints[p]))
      /\ Present(events[e]) => (Suits(e, endpoints[p]) <=> Matches(events[e].environment, endpoints[p]))
  BY SuitsTheRow
<1>t. /\ Emitting(e)' => (Suits(e, endpoints[p])' <=> Matches(emission'[e].row.environment, endpoints'[p]))
      /\ Present(events'[e]) => (Suits(e, endpoints[p])' <=> Matches(events'[e].environment, endpoints'[p]))
  <2>1. Emitting(e)' /\ Present(events'[e]) => events'[e] = emission'[e].row
    BY DEF FanLinks, EventLinks
  <2> QED
    BY <2>1 DEF Suits, Matches
<1>1. CASE EmissionStep(e)
  <2>0. endpoints' = endpoints
    BY <1>1, EmissionStepFrame
  <2>1. ASSUME NEW env \in Environments, NEW keyed \in BOOLEAN, PersistEvent(e, env, keyed)
        PROVE  EventInvites(e, p)'
    <3>1. /\ emission'[e].step = "inserted" /\ emission'[e].row.environment = env
          /\ Matches(env, endpoints[p]) => <<e, p>> \in invited'
      BY <2>1 DEF PersistEvent, FanTypeOK, Matches
    <3> QED
      BY <2>0, <3>1, <1>t DEF EventInvites, Emitting
  <2>2. CASE FindEndpoints(e)
    <3>1. emission[e] \in Emitter /\ Emitting(e)
      BY <2>2, FanRecords DEF FindEndpoints, Emitting
    <3>2. /\ emission'[e].step = "matched" /\ emission'[e].row = emission[e].row
          /\ emission'[e].to = Matching(emission[e].row.environment) /\ UNCHANGED <<events, invited>>
      BY <2>2, <3>1 DEF FindEndpoints, FanTypeOK, Emitter, fanHistory
    <3>3. Matches(emission[e].row.environment, endpoints[p]) => <<e, p>> \in invited
      BY <1>0, <1>s, <3>1 DEF EventInvites, Draft
    <3>4. Emitting(e)'
      BY <3>2 DEF Emitting
    <3> QED
      BY <2>0, <3>2, <3>3, <3>4, <1>t DEF EventInvites, Matching
  <2>3. CASE CreateDeliveries(e) /\ emission[e].keyed
    <3>1. emission[e] \in Emitter /\ emission[e].step = "matched"
      BY <2>3, FanRecords DEF CreateDeliveries, Emitting
    <3>2. /\ emission'[e].step = "created" /\ emission'[e].row = emission[e].row
          /\ emission'[e].to = emission[e].to /\ UNCHANGED <<events, invited>>
      BY <2>3, <3>1 DEF CreateDeliveries, Emission, FanTypeOK, Emitter, fanHistory
    <3> QED
      BY <2>0, <1>0, <1>s, <1>t, <3>1, <3>2 DEF EventInvites, Emitting, Draft
  <2>4. CASE \/ CreateDeliveries(e) /\ ~ emission[e].keyed
             \/ CreateRefused(e) \/ EmitterDies(e)
    <3>1. /\ emission'[e] = [step |-> "done"] /\ events' = events /\ Emitting(e)
          /\ invited' = invited \/ emission[e].keyed
      BY <2>4 DEF CreateDeliveries, CreateRefused, EmitterDies, EmissionFails, EndEmission, FanTypeOK, Emitting, fanHistory
    <3>2. ~ Emitting(e)' /\ emission'[e].step = "done"
      BY <3>1 DEF Emitting
    <3>3. emission[e].keyed => ~ Present(events[e])
      BY <3>1 DEF FanLinks, EventLinks, Present
    <3> QED
      BY <2>0, <1>0, <1>s, <1>t, <3>1, <3>2, <3>3 DEF EventInvites, Draft
  <2>5. CASE CommitEvent(e)
    <3>1. /\ emission'[e] = [step |-> "done"] /\ events'[e] = emission[e].row /\ invited' = invited /\ Emitting(e)
      BY <2>5 DEF CommitEvent, EndEmission, FanTypeOK, fanHistory, Emitting
    <3>2. ~ Emitting(e)' /\ emission'[e].step = "done"
      BY <3>1 DEF Emitting
    <3> QED
      BY <2>0, <1>0, <1>s, <1>t, <3>1, <3>2 DEF EventInvites, Draft
  <2> QED
    BY <1>1, <2>5, <2>1, <2>2, <2>3, <2>4 DEF EmissionStep
<1>2. ASSUME emission'[e] = emission[e], events'[e] = events[e], endpoints'[p] = endpoints[p],
             <<e, p>> \in invited => <<e, p>> \in invited'
      PROVE  EventInvites(e, p)'
  BY <1>2, <1>0 DEF EventInvites, Draft, Emitting, Suits
<1>3. ASSUME NEW f \in Events \ {e}, EmissionStep(f) PROVE EventInvites(e, p)'
  BY <1>2, <1>3, <1>p, EmissionStepFrame
<1>4. ASSUME NEW c \in ReplayCalls, ReplayStep(c) PROVE EventInvites(e, p)'
  BY <1>2, <1>4, ReplayStepFrame DEF fanHistory
<1>5. ASSUME NEW w \in Passes, PassStep(w) PROVE EventInvites(e, p)'
  <2>1. UNCHANGED <<emission, endpoints, invited>>
    BY <1>5, PassStepFrame
  <2>2. CASE events'[e] = events[e]
    BY <1>2, <2>1, <2>2
  <2>3. CASE events'[e] = GONE
    <3>1. ~ Present(events'[e]) /\ (Emitting(e)' <=> Emitting(e))
      BY <2>1, <2>3 DEF Present, Emitting
    <3> QED
      BY <1>0, <1>s, <1>t, <2>1, <3>1 DEF EventInvites, Draft
  <2>4. events'[e] = events[e] \/ events'[e] = GONE
    <3>1. CASE CleanupDelete(w)
      BY <3>1 DEF CleanupDelete
    <3> QED
      BY <1>5, <3>1, PassStepFrame
  <2> QED
    BY <2>2, <2>3, <2>4
<1>6. ASSUME NEW q \in Endpoints, EndpointStep(q) PROVE EventInvites(e, p)'
  <2>1. UNCHANGED <<events, emission>> /\ Invite(q, endpoints'[q])
    BY <1>6, EndpointStepFrame
  <2>2. invited \subseteq invited'
    BY <2>1 DEF Invite
  <2>3. CASE q # p
    BY <1>2, <1>6, <2>1, <2>2, <2>3, EndpointStepFrame
  <2>4. CASE q = p
    <3>1. Draft(e) /\ Suits(e, endpoints'[p]) => <<e, p>> \in invited'
      BY <2>1, <2>4 DEF Invite
    <3> QED
      BY <1>0, <2>1, <2>2, <3>1 DEF EventInvites, Draft, Emitting, Suits
  <2> QED
    BY <2>3, <2>4
<1>7. CASE FanTick \/ UNCHANGED fanVars
  BY <1>2, <1>7 DEF FanTick, fanVars, fanTables, fanHistory
<1> QED
  BY <1>1, <1>3, <1>4, <1>5, <1>6, <1>7, FanSteps

(* What the repair has matched, and not delivered yet, was an invitation.  *)
LEMMA PassInvitesStep ==
  ASSUME FanTypeOK, FanLinks, Invitations, [FanNext]_fanVars, NEW w \in Passes, NEW p \in Endpoints
  PROVE  PassInvites(w, p)'
<1>0. PassInvites(w, p) /\ PassLinks(w)
  BY DEF Invitations, FanLinks
<1>1. CASE pass'[w] = pass[w]
  BY <1>0, <1>1, InvitationsLast DEF PassInvites, PassLinks
<1>2. ASSUME NEW e \in Events, RepairFind(w, e) PROVE PassInvites(w, p)'
  <2>1. /\ pass'[w].event = e /\ invited' = invited
        /\ pass'[w].to = IF Present(events[e]) THEN Matching(events[e].environment) ELSE {}
    BY <1>2, FanRecords DEF RepairFind, FanTypeOK, RepairPass, fanHistory
  <2>2. Present(events[e]) /\ Matches(events[e].environment, endpoints[p]) => <<e, p>> \in invited
    BY SuitsTheRow DEF Invitations, EventInvites, Draft
  <2> QED
    BY <2>1, <2>2 DEF PassInvites, Matching
<1>3. CASE PassStep(w) /\ ~ \E e \in Events : RepairFind(w, e)
  <2>1. pass'[w].step # "matched"
    <3>1. CASE RepairCreate(w) \/ RepairFails(w)
      BY <3>1, FanRecords DEF RepairCreate, RepairFails, FanTypeOK, RepairPass
    <3>2. CASE BeginReconcile(w) \/ BeginCleanup(w) \/ EndReconcile(w) \/ PassStops(w)
      BY <3>2 DEF BeginReconcile, BeginCleanup, EndReconcile, PassStops, FanTypeOK, Quiet
    <3>3. ASSUME NEW complete, CloseCleanup(w, complete) PROVE pass'[w].step # "matched"
      BY <3>3 DEF CloseCleanup, FanTypeOK, Quiet
    <3>4. CASE CleanupFind(w)
      <4>1. pass[w] \in RetentionPass
        BY <3>4, FanRecords DEF CleanupFind
      <4>2. ASSUME NEW B, pass' = [pass EXCEPT ![w].step = "found", ![w].ids = B]
            PROVE  pass'[w].step # "matched"
        BY <4>1, <4>2 DEF FanTypeOK, RetentionPass
      <4> QED
        BY <3>3, <3>4, <4>2 DEF CleanupFind
    <3>5. CASE CleanupDelete(w)
      <4>1. pass[w] \in RetentionPass
        BY <3>5, FanRecords DEF CleanupDelete
      <4>2. ASSUME pass' = [pass EXCEPT ![w].step = "page", ![w].pages = @ + 1]
            PROVE  pass'[w].step # "matched"
        BY <4>1, <4>2 DEF FanTypeOK, RetentionPass
      <4> QED
        BY <3>3, <3>5, <4>2 DEF CleanupDelete
    <3> QED
      BY <1>3, <3>1, <3>2, <3>4, <3>5 DEF PassStep
  <2> QED
    BY <2>1 DEF PassInvites
<1>4. pass'[w] = pass[w] \/ PassStep(w)
  <2>1. FanTick \/ UNCHANGED fanVars => pass' = pass
    BY DEF FanTick, fanVars
  <2> QED
    BY <2>1, FanSteps, EndpointStepFrame, EmissionStepFrame, PassStepFrame, ReplayStepFrame
<1> QED
  BY <1>1, <1>2, <1>3, <1>4

(* What a replay has checked was an invitation, at the time of the check.  *)
LEMMA ReplayInvitesStep ==
  ASSUME FanTypeOK, FanLinks, Invitations, [FanNext]_fanVars, NEW c \in ReplayCalls
  PROVE  ReplayInvites(c)'
<1>0. ReplayInvites(c) /\ ReplayLinks(c)
  BY DEF Invitations, FanLinks
<1>1. CASE replay'[c] = replay[c]
  <2>1. replay[c].step # "none" => replay[c].event \in Events /\ replay[c].endpoint \in Endpoints
    BY FanRecords DEF ReplayRequest
  <2>2. CASE replay[c].step = "none"
    BY <1>1, <2>2 DEF ReplayInvites
  <2>3. CASE replay[c].step = "endpoint" /\ ~ Replayable(replay[c].event, replay[c].seen)
    <3>1. ~ Replayable(replay[c].event, replay[c].seen)'
      BY <1>0, <1>1, <2>1, <2>3, EventsOutlast DEF ReplayLinks, Replayable
    <3> QED
      BY <1>1, <2>3, <3>1 DEF ReplayInvites
  <2>4. CASE replay[c].step # "none" /\ <<replay[c].event, replay[c].endpoint>> \in invited
    <3>1. <<replay[c].event, replay[c].endpoint>> \in invited'
      BY <1>0, <2>1, <2>4, InvitationsLast DEF ReplayLinks
    <3> QED
      BY <1>1, <3>1 DEF ReplayInvites
  <2> QED
    BY <1>0, <2>2, <2>3, <2>4 DEF ReplayInvites
<1>2. CASE ReplayStep(c)
  <2>0. UNCHANGED <<events, invited>>
    BY <1>2, ReplayStepFrame DEF fanHistory
  <2>1. ASSUME NEW e \in Events, NEW p \in Endpoints, FindScopedEndpoint(c, e, p) PROVE ReplayInvites(c)'
    <3>1. replay'[c] = [step |-> "endpoint", event |-> e, endpoint |-> p, seen |-> endpoints[p]]
      BY <2>1 DEF FindScopedEndpoint, FanTypeOK
    <3>2. Replayable(e, endpoints[p]) => <<e, p>> \in invited
      BY SuitsTheRow DEF Replayable, Invitations, EventInvites, Draft
    <3> QED
      BY <2>0, <3>1, <3>2 DEF ReplayInvites, Replayable
  <2>2. CASE FindEvent(c)
    <3>1. replay[c] \in ReplayRequest /\ replay[c].step = "endpoint"
      BY <2>2, FanRecords DEF FindEvent
    <3>2. CASE replay'[c] = Quiet
      BY <3>2 DEF ReplayInvites, Quiet
    <3>3. CASE Replayable(replay[c].event, replay[c].seen)
      <4>1. replay'[c].event = replay[c].event /\ replay'[c].endpoint = replay[c].endpoint
        BY <2>2, <3>1, <3>3 DEF FindEvent, FanTypeOK, ReplayRequest
      <4> QED
        BY <1>0, <2>0, <3>1, <3>3, <4>1 DEF ReplayInvites
    <3> QED
      BY <2>2, <3>2, <3>3 DEF FindEvent, FanTypeOK
  <2>3. CASE CreateReplay(c)
    BY <2>3 DEF CreateReplay, ReplayInvites, FanTypeOK, Quiet
  <2> QED
    BY <1>2, <2>1, <2>2, <2>3 DEF ReplayStep
<1>3. replay'[c] = replay[c] \/ ReplayStep(c)
  <2>1. FanTick \/ UNCHANGED fanVars => replay' = replay
    BY DEF FanTick, fanVars
  <2> QED
    BY <2>1, FanSteps, EndpointStepFrame, EmissionStepFrame, PassStepFrame, ReplayStepFrame
<1> QED
  BY <1>1, <1>2, <1>3

(* A delivery that is created goes to somebody the emitter, the repair or  *)
(* the replay had matched, when it had.                                    *)
LEMMA DeliveriesInvited ==
  ASSUME FanTypeOK, FanLinks, Invitations, [FanNext]_fanVars,
         NEW e \in Events, NEW p \in Endpoints, Delivered(e, p)'
  PROVE  <<e, p>> \in invited'
<1>p. <<e, p>> \in Pairs
  BY DEF Pairs
<1>1. CASE Delivered(e, p)
  <2>1. <<e, p>> \in invited
    BY <1>1 DEF Invitations, NeverToUninvited
  <2>2. events[e] # NONE
    BY <1>1 DEF FanLinks, EventLinks
  <2> QED
    BY <2>1, <2>2, InvitationsLast
<1>2. CASE ~ Delivered(e, p)
  <2>1. CASE originals'[<<e, p>>] = originals[<<e, p>>] /\ replays' \subseteq replays
    BY <1>2, <2>1 DEF Delivered
  <2>2. ASSUME NEW f \in Events, EmissionStep(f) PROVE <<e, p>> \in invited'
    <3>1. CASE originals' = originals
      BY <2>1, <2>2, <3>1, EmissionStepFrame
    <3>2. CASE f # e
      BY <2>1, <2>2, <3>2, <1>p, EmissionStepFrame
    <3>3. CASE f = e /\ (CreateDeliveries(e) \/ CommitEvent(e)) /\ originals' # originals
      <4>1. Insert(e, emission[e].to) /\ emission[e].step \in {"matched", "created"} /\ invited' = invited
        BY <3>3 DEF CreateDeliveries, CommitEvent, fanHistory
      <4>2. CASE p \in emission[e].to
        BY <4>1, <4>2 DEF Invitations, EventInvites
      <4>3. CASE p \notin emission[e].to
        BY <2>1, <2>2, <4>1, <4>3, <1>p, InsertAdds, EmissionStepFrame
      <4> QED
        BY <4>2, <4>3
    <3> QED
      BY <2>2, <3>1, <3>2, <3>3 DEF EmissionStep, PersistEvent, FindEndpoints, CreateRefused,
         EmitterDies, EmissionFails, fanHistory
  <2>3. ASSUME NEW w \in Passes, PassStep(w) PROVE <<e, p>> \in invited'
    <3>0. invited' = invited
      BY <2>3, PassStepFrame
    <3>1. CASE RepairCreate(w) /\ replays' = replays
      <4>1. Insert(pass[w].event, pass[w].to) /\ pass[w].event \in Events /\ pass[w].step = "matched"
        BY <3>1 DEF RepairCreate, FanLinks, PassLinks
      <4>2. CASE pass[w].event = e /\ p \in pass[w].to
        BY <3>0, <4>1, <4>2 DEF Invitations, PassInvites
      <4>3. CASE ~ (pass[w].event = e /\ p \in pass[w].to)
        BY <2>1, <3>1, <4>1, <4>3, <1>p, InsertAdds
      <4> QED
        BY <4>2, <4>3
    <3>2. CASE CleanupDelete(w)
      <4>1. /\ originals' = [x \in Pairs |-> IF x[1] \in pass[w].ids THEN 0 ELSE originals[x]]
            /\ replays' \subseteq replays
        BY <3>2 DEF CleanupDelete
      <4> QED
        BY <4>1, <1>p, <1>2 DEF Delivered
    <3> QED
      BY <2>1, <2>3, <3>1, <3>2, PassStepFrame
  <2>4. ASSUME NEW c \in ReplayCalls, ReplayStep(c) PROVE <<e, p>> \in invited'
    <3>1. invited' = invited /\ originals' = originals
      BY <2>4, ReplayStepFrame DEF fanHistory
    <3>2. CASE CreateReplay(c)
      <4>1. replays' \subseteq replays \cup {<<replay[c].event, replay[c].endpoint>>} /\ replay[c].step = "checked"
        BY <3>2 DEF CreateReplay
      <4>2. <<replay[c].event, replay[c].endpoint>> \in invited
        BY <4>1 DEF Invitations, ReplayInvites
      <4> QED
        BY <1>2, <3>1, <4>1, <4>2 DEF Delivered
    <3> QED
      BY <2>1, <2>4, <3>1, <3>2, ReplayStepFrame
  <2>5. ASSUME NEW q \in Endpoints, EndpointStep(q) PROVE <<e, p>> \in invited'
    <3>1. CASE UNCHANGED <<originals, replays>>
      BY <2>1, <3>1
    <3>2. CASE /\ originals' = [x \in Pairs |-> IF x[2] = q THEN 0 ELSE originals[x]]
               /\ replays' = {x \in replays : x[2] # q}
      BY <3>2, <1>p, <1>2 DEF Delivered
    <3> QED
      BY <2>5, <3>1, <3>2, EndpointStepFrame
  <2>6. CASE FanTick \/ UNCHANGED fanVars
    BY <2>1, <2>6 DEF FanTick, fanVars, fanTables
  <2> QED
    BY <2>2, <2>3, <2>4, <2>5, <2>6, FanSteps
<1> QED
  BY <1>1, <1>2

(* Invitations are kept.                                                   *)
LEMMA InvitationsStep ==
  ASSUME FanTypeOK, FanLinks, Invitations, [FanNext]_fanVars, FanTypeOK', FanLinks'
  PROVE  Invitations'
<1>1. NeverToUninvited'
  BY DeliveriesInvited DEF NeverToUninvited
<1> QED
  BY <1>1, EventInvitesStep, PassInvitesStep, ReplayInvitesStep DEF Invitations
--------------------------------------------------------------------------------
(* A page that is not full is all there was.                               *)
LEMMA LastPageIsAll ==
  ASSUME FanTypeOK, NEW S \in SUBSET Events,
         NEW B \in FirstBatchOldest(S, Least(CleanupBatch, Cardinality(S))), LastPage(B)
  PROVE  S \subseteq B
<1>1. IsFiniteSet(S) /\ Cardinality(S) \in Nat
  BY FanConstants, FS_Subset, FS_CardinalityType
<1>2. B \subseteq S /\ Cardinality(B) = Least(CleanupBatch, Cardinality(S)) /\ Cardinality(B) < CleanupBatch
  BY DEF FirstBatchOldest, LastPage
<1>3. Cardinality(B) = Cardinality(S)
  BY <1>1, <1>2, FanConstants DEF Least
<1> QED
  BY <1>1, <1>2, <1>3, FS_Subset

(* An event that comes to be is younger than every cutoff: its transaction *)
(* has not timed out, and no time-out is as long as the retention.         *)
LEMMA NewcomersAreYoung ==
  ASSUME FanTypeOK, FanLinks, Expiry, [FanNext]_fanVars, NEW e \in Events,
         Present(events'[e]), events'[e] # events[e]
  PROVE  events'[e].created + Retention >= clock /\ clock' = clock
<1>1. EmissionStep(e) /\ ((\E env \in Environments : PersistEvent(e, env, FALSE)) \/ CommitEvent(e))
  BY EventHistory DEF Present
<1>2. clock' = clock /\ clock \in Nat
  BY <1>1, EmissionStepFrame DEF FanTypeOK
<1>3. CASE \E env \in Environments : PersistEvent(e, env, FALSE)
  <2>1. PICK env \in Environments : events'[e] = [environment |-> env, created |-> clock]
    BY <1>3 DEF PersistEvent, FanTypeOK
  <2>2. events'[e].created = clock
    BY <2>1
  <2> QED
    BY <1>2, <2>2, FanConstants
<1>4. CASE CommitEvent(e)
  <2>1. emission[e] \in Emitter /\ Emitting(e) /\ emission[e].keyed /\ events'[e] = emission[e].row
    BY <1>4, FanRecords DEF CommitEvent, Emitting, FanLinks, EventLinks, FanTypeOK
  <2>2. clock <= emission[e].row.created + TxTimeout
    BY <2>1 DEF Expiry
  <2>3. emission[e].row.created \in Nat
    BY <2>1, FanConstants DEF Emitter, EventRow
  <2> QED
    BY <1>2, <2>1, <2>2, <2>3, FanConstants
<1> QED
  BY <1>1, <1>3, <1>4

(* An open transaction stays within its time-out.                          *)
LEMMA TransactionsAreYoung ==
  ASSUME FanTypeOK, Expiry, [FanNext]_fanVars, FanTypeOK',
         NEW e \in Events, Emitting(e)', emission'[e].keyed
  PROVE  clock' <= emission'[e].row.created + TxTimeout
<1>1. CASE EmissionStep(e)
  <2>1. clock' = clock /\ clock \in Nat
    BY <1>1, EmissionStepFrame DEF FanTypeOK
  <2>2. ASSUME NEW env \in Environments, NEW keyed \in BOOLEAN, PersistEvent(e, env, keyed)
        PROVE  clock' <= emission'[e].row.created + TxTimeout
    <3>1. emission'[e].row.created = clock
      BY <2>2 DEF PersistEvent, FanTypeOK
    <3> QED
      BY <2>1, <3>1, FanConstants
  <2>3. CASE FindEndpoints(e) \/ (CreateDeliveries(e) /\ emission[e].keyed)
    <3>1. emission[e] \in Emitter /\ Emitting(e)
      BY <2>3, FanRecords DEF FindEndpoints, CreateDeliveries, Emitting
    <3>2. emission'[e].row = emission[e].row /\ emission'[e].keyed = emission[e].keyed
      <4>1. CASE FindEndpoints(e)
        BY <3>1, <4>1 DEF FindEndpoints, FanTypeOK, Emitter
      <4>2. CASE CreateDeliveries(e) /\ emission[e].keyed
        BY <3>1, <4>2 DEF CreateDeliveries, Emission, FanTypeOK, Emitter
      <4> QED
        BY <2>3, <4>1, <4>2
    <3> QED
      BY <2>1, <3>1, <3>2 DEF Expiry
  <2>4. CASE (CreateDeliveries(e) /\ ~ emission[e].keyed) \/ CreateRefused(e) \/ EmitterDies(e) \/ CommitEvent(e)
    <3>1. emission'[e] = [step |-> "done"]
      BY <2>4 DEF CreateDeliveries, CreateRefused, EmitterDies, CommitEvent, EmissionFails, EndEmission, FanTypeOK
    <3> QED
      BY <3>1 DEF Emitting
  <2> QED
    BY <1>1, <2>2, <2>3, <2>4 DEF EmissionStep
<1>2. CASE emission'[e] = emission[e] /\ clock' = clock
  BY <1>2 DEF Expiry, Emitting
<1>3. CASE FanTick
  <2>1. emission' = emission /\ clock' = clock + 1 /\ (Emitting(e) /\ emission[e].keyed => clock < emission[e].row.created + TxTimeout)
    BY <1>3 DEF FanTick
  <2>2. Emitting(e) /\ emission[e] \in Emitter
    BY <2>1, FanRecords DEF Emitting
  <2>3. emission[e].row.created \in Nat /\ clock \in Nat
    BY <2>2, FanConstants DEF Emitter, EventRow, FanTypeOK
  <2> QED
    BY <2>1, <2>2, <2>3, FanConstants
<1>4. CASE UNCHANGED fanVars
  BY <1>2, <1>4 DEF fanVars
<1> QED
  BY <1>1, <1>2, <1>3, <1>4, FanSteps, EndpointStepFrame, EmissionStepFrame, PassStepFrame, ReplayStepFrame

(* Time passes, and nothing else happens to it.                            *)
LEMMA ClockGrows ==
  ASSUME FanTypeOK, [FanNext]_fanVars
  PROVE  clock \in Nat /\ clock' \in Nat /\ clock <= clock'
<1>1. CASE FanTick
  BY <1>1 DEF FanTick, FanTypeOK
<1>2. CASE clock' = clock
  BY <1>2 DEF FanTypeOK
<1> QED
  BY <1>1, <1>2, FanSteps, EndpointStepFrame, EmissionStepFrame, PassStepFrame, ReplayStepFrame DEF fanVars

(* A retention pass between its statements: what it has read is complete.  *)
LEMMA SweepStep ==
  ASSUME FanTypeOK, FanLinks, Expiry, [FanNext]_fanVars, NEW w \in Passes
  PROVE  Sweep(w)'
<1>0. Sweep(w)
  BY DEF Expiry
<1>1. CASE pass'[w] = pass[w]
  <2>1. CASE pass[w].step \in {"page", "found"}
    <3>1. pass[w].cutoff \in Nat /\ pass[w].ids \subseteq Events
      BY <2>1, FanRecords, FanConstants DEF RetentionPass
    <3>2. pass[w].cutoff + Retention <= clock'
      BY <1>0, <2>1, <3>1, ClockGrows, FanConstants DEF Sweep
    <3>3. ASSUME pass[w].step = "found", LastPage(pass[w].ids), NEW e \in Events, Present(events'[e]),
                 events'[e].created < pass[w].cutoff
          PROVE  e \in pass[w].ids
      <4>1. CASE events'[e] = events[e]
        BY <1>0, <3>3, <4>1 DEF Sweep, PastRetention
      <4>2. CASE events'[e] # events[e]
        <5>1. events'[e].created + Retention >= clock /\ clock' = clock
          BY <3>3, <4>2, NewcomersAreYoung
        <5>2. events'[e].created \in Nat
          <6>1. FanTypeOK'
            BY FanTypeStep
          <6>2. events'[e] \in EventRow
            BY <3>3, <6>1 DEF FanTypeOK, Present
          <6> QED
            BY <6>2, FanConstants DEF EventRow
        <5>3. pass[w].cutoff <= events'[e].created
          BY <3>1, <3>2, <5>1, <5>2, ClockGrows, FanConstants
        <5> QED
          BY <3>1, <3>3, <5>2, <5>3
      <4> QED
        BY <4>1, <4>2
    <3> QED
      BY <1>1, <3>2, <3>3 DEF Sweep, PastRetention
  <2>2. CASE pass[w].step \notin {"page", "found"}
    BY <1>1, <2>2 DEF Sweep
  <2> QED
    BY <2>1, <2>2
<1>2. CASE PassStep(w)
  <2>0. clock' = clock
    BY <1>2, PassStepFrame
  <2>1. CASE BeginCleanup(w)
    <3>1. pass'[w] = [step |-> "page", cutoff |-> clock - Retention, pages |-> 0, ids |-> {}]
      BY <2>1 DEF BeginCleanup, FanTypeOK
    <3>2. pass'[w].step = "page" /\ pass'[w].cutoff + Retention = clock
      BY <3>1, ClockGrows, FanConstants
    <3> QED
      BY <2>0, <3>1, <3>2, ClockGrows, FanConstants DEF Sweep
  <2>2. ASSUME NEW complete, CloseCleanup(w, complete) PROVE Sweep(w)'
    <3>1. pass'[w] = Quiet
      BY <2>2 DEF CloseCleanup, FanTypeOK
    <3> QED
      BY <3>1 DEF Sweep, Quiet
  <2>3. CASE CleanupFind(w)
    <3>1. pass[w] \in RetentionPass /\ pass[w].step = "page" /\ events' = events
      BY <2>3, FanRecords DEF CleanupFind
    <3>2. ASSUME NEW B \in FirstBatchOldest(PastRetention(pass[w].cutoff),
                                            Least(CleanupBatch, Cardinality(PastRetention(pass[w].cutoff)))),
                 pass' = [pass EXCEPT ![w].step = "found", ![w].ids = B]
          PROVE  Sweep(w)'
      <4>1. pass'[w].step = "found" /\ pass'[w].ids = B /\ pass'[w].cutoff = pass[w].cutoff
        BY <3>1, <3>2 DEF FanTypeOK, RetentionPass
      <4>2. LastPage(B) => PastRetention(pass[w].cutoff) \subseteq B
        BY LastPageIsAll DEF PastRetention
      <4>3. PastRetention(pass[w].cutoff)' = PastRetention(pass[w].cutoff)
        BY <3>1, <4>1 DEF PastRetention
      <4> QED
        BY <1>0, <2>0, <3>1, <4>1, <4>2, <4>3 DEF Sweep, LastPage
    <3> QED
      BY <2>2, <2>3, <3>2 DEF CleanupFind
  <2>4. CASE CleanupDelete(w)
    <3>1. pass[w] \in RetentionPass /\ pass[w].step = "found"
      BY <2>4, FanRecords DEF CleanupDelete
    <3>2. ASSUME pass' = [pass EXCEPT ![w].step = "page", ![w].pages = @ + 1]
          PROVE  Sweep(w)'
      <4>1. pass'[w].step = "page" /\ pass'[w].cutoff = pass[w].cutoff
        BY <3>1, <3>2 DEF FanTypeOK, RetentionPass
      <4> QED
        BY <1>0, <2>0, <3>1, <4>1 DEF Sweep
    <3> QED
      BY <2>2, <2>4, <3>2 DEF CleanupDelete
  <2>5. CASE RepairCreate(w) \/ RepairFails(w) \/ \E e \in Events : RepairFind(w, e)
    <3>1. pass[w] \in RepairPass
      BY <2>5, FanRecords DEF RepairCreate, RepairFails, RepairFind
    <3>2. RepairCreate(w) \/ RepairFails(w) => pass'[w].step = "repair"
      BY <3>1 DEF RepairCreate, RepairFails, FanTypeOK, RepairPass
    <3>3. (\E e \in Events : RepairFind(w, e)) => pass'[w].step = "matched"
      BY <3>1 DEF RepairFind, FanTypeOK, RepairPass
    <3> QED
      BY <2>5, <3>2, <3>3 DEF Sweep
  <2>6. CASE BeginReconcile(w) \/ EndReconcile(w) \/ PassStops(w)
    <3>1. pass'[w].step \in {"repair", "none"}
      BY <2>6 DEF BeginReconcile, EndReconcile, PassStops, FanTypeOK, Quiet
    <3> QED
      BY <3>1 DEF Sweep
  <2> QED
    BY <1>2, <2>1, <2>3, <2>4, <2>5, <2>6 DEF PassStep
<1>3. pass'[w] = pass[w] \/ PassStep(w)
  <2>1. FanTick \/ UNCHANGED fanVars => pass' = pass
    BY DEF FanTick, fanVars
  <2> QED
    BY <2>1, FanSteps, EndpointStepFrame, EmissionStepFrame, PassStepFrame, ReplayStepFrame
<1> QED
  BY <1>1, <1>2, <1>3

(* A page is read past the cutoff, and no row of it grows younger.         *)
LEMMA SparedStep ==
  ASSUME FanTypeOK, FanLinks, [FanNext]_fanVars, NEW w \in Passes, Spared(w)
  PROVE  Spared(w)'
<1>1. CASE pass'[w] = pass[w]
  <2>1. ASSUME pass[w].step = "found", NEW e \in pass[w].ids, Present(events'[e])
        PROVE  events'[e].created < pass[w].cutoff
    <3>1. pass[w].ids \subseteq Events /\ events[e] # NONE
      BY <2>1, FanRecords DEF RetentionPass, FanLinks, PassLinks
    <3>2. events'[e] = events[e]
      BY <2>1, <3>1, EventHistory DEF Present
    <3> QED
      BY <2>1, <3>2 DEF Spared
  <2> QED
    BY <1>1, <2>1 DEF Spared, Present
<1>2. CASE CleanupFind(w)
  <2>1. ASSUME NEW complete, CloseCleanup(w, complete) PROVE pass'[w].step = "none"
    BY <2>1 DEF CloseCleanup, FanTypeOK, Quiet
  <2>2. pass[w] \in RetentionPass /\ events' = events
    BY <1>2, FanRecords DEF CleanupFind
  <2>3. ASSUME NEW B \in FirstBatchOldest(PastRetention(pass[w].cutoff),
                                          Least(CleanupBatch, Cardinality(PastRetention(pass[w].cutoff)))),
               pass' = [pass EXCEPT ![w].step = "found", ![w].ids = B]
        PROVE  Spared(w)'
    <3>1. pass'[w].ids = B /\ pass'[w].cutoff = pass[w].cutoff
      BY <2>2, <2>3 DEF FanTypeOK, RetentionPass
    <3>2. \A e \in B : events[e].created < pass[w].cutoff
      BY <2>3 DEF FirstBatchOldest, PastRetention
    <3> QED
      BY <2>2, <3>1, <3>2 DEF Spared
  <2> QED
    BY <1>2, <2>1, <2>3 DEF CleanupFind, Spared
<1>3. CASE PassStep(w) /\ ~ CleanupFind(w)
  <2>1. pass'[w].step # "found"
    <3>1. CASE CleanupDelete(w)
      <4>1. pass[w] \in RetentionPass
        BY <3>1, FanRecords DEF CleanupDelete
      <4> QED
        BY <3>1, <4>1 DEF CleanupDelete, CloseCleanup, FanTypeOK, RetentionPass, Quiet
    <3>2. CASE RepairCreate(w) \/ RepairFails(w) \/ \E e \in Events : RepairFind(w, e)
      <4>1. pass[w] \in RepairPass
        BY <3>2, FanRecords DEF RepairCreate, RepairFails, RepairFind
      <4>2. RepairCreate(w) \/ RepairFails(w) => pass'[w].step = "repair"
        BY <4>1 DEF RepairCreate, RepairFails, FanTypeOK, RepairPass
      <4>3. (\E e \in Events : RepairFind(w, e)) => pass'[w].step = "matched"
        BY <4>1 DEF RepairFind, FanTypeOK, RepairPass
      <4> QED
        BY <3>2, <4>2, <4>3
    <3>3. CASE BeginReconcile(w) \/ EndReconcile(w) \/ PassStops(w) \/ BeginCleanup(w)
      BY <3>3 DEF BeginReconcile, EndReconcile, PassStops, BeginCleanup, FanTypeOK, Quiet
    <3> QED
      BY <1>3, <3>1, <3>2, <3>3 DEF PassStep
  <2> QED
    BY <2>1 DEF Spared
<1>4. pass'[w] = pass[w] \/ PassStep(w)
  <2>1. FanTick \/ UNCHANGED fanVars => pass' = pass
    BY DEF FanTick, fanVars
  <2> QED
    BY <2>1, FanSteps, EndpointStepFrame, EmissionStepFrame, PassStepFrame, ReplayStepFrame
<1> QED
  BY <1>1, <1>2, <1>3, <1>4

(* The cutoff of a pass that ends is past, and nothing older is left.      *)
LEMMA SweptStep ==
  ASSUME FanTypeOK, FanLinks, Expiry, [FanNext]_fanVars
  PROVE  /\ swept' = 0 \/ swept' + Retention <= clock'
         /\ NothingExpired'
<1>0. swept \in Nat /\ FanTypeOK'
  BY FanTypeStep, FanConstants DEF FanTypeOK
<1>r. \A e \in Events : Present(events[e]) => events[e].created \in Nat
  BY FanRecords, FanConstants DEF EventRow
<1>1. ASSUME swept' = swept
      PROVE  /\ swept' = 0 \/ swept' + Retention <= clock'
             /\ NothingExpired'
  <2>1. swept' = 0 \/ swept' + Retention <= clock'
    BY <1>0, <1>1, ClockGrows, FanConstants DEF Expiry
  <2>2. ASSUME NEW e \in Events, Present(events'[e]) PROVE events'[e].created >= swept'
    <3>1. CASE events'[e] = events[e]
      BY <1>1, <2>2, <3>1 DEF Expiry, NothingExpired
    <3>2. CASE events'[e] # events[e]
      <4>1. events'[e].created + Retention >= clock /\ clock' = clock
        BY <2>2, <3>2, NewcomersAreYoung
      <4>2. events'[e].created \in Nat
        BY <1>0, <2>2, FanConstants DEF FanTypeOK, Present, EventRow
      <4> QED
        BY <1>0, <1>1, <2>1, <4>1, <4>2, ClockGrows, FanConstants
    <3> QED
      BY <3>1, <3>2
  <2> QED
    BY <2>1, <2>2 DEF NothingExpired
<1>2. ASSUME NEW w \in Passes, CleanupFind(w) \/ CleanupDelete(w), swept' # swept
      PROVE  /\ swept' = 0 \/ swept' + Retention <= clock'
             /\ NothingExpired'
  <2>1. swept' = pass[w].cutoff /\ pass[w].step \in {"page", "found"}
    BY <1>2 DEF CleanupFind, CleanupDelete, CloseCleanup
  <2>2. pass[w].cutoff + Retention <= clock'
    BY <1>2, <2>1 DEF Expiry, Sweep, CleanupFind, CleanupDelete, PassFrame
  <2>3. pass[w].cutoff \in Nat
    BY <2>1, FanRecords, FanConstants DEF RetentionPass
  <2>4. ASSUME NEW e \in Events, Present(events'[e]) PROVE events'[e] = events[e] /\ e \notin PastRetention(pass[w].cutoff)
    <3>1. CASE CleanupFind(w)
      <4>1. PastRetention(pass[w].cutoff) = {} /\ events' = events
        BY <1>2, <3>1 DEF CleanupFind, CloseCleanup
      <4> QED
        BY <4>1
    <3>2. CASE CleanupDelete(w)
      <4>1. LastPage(pass[w].ids) /\ events' = [f \in Events |-> IF f \in pass[w].ids THEN GONE ELSE events[f]]
        BY <1>2, <3>2 DEF CleanupDelete, CloseCleanup
      <4>2. PastRetention(pass[w].cutoff) \subseteq pass[w].ids
        BY <3>2, <4>1 DEF Expiry, Sweep, CleanupDelete
      <4>3. e \notin pass[w].ids
        BY <2>4, <4>1 DEF Present
      <4> QED
        BY <4>1, <4>2, <4>3
    <3> QED
      BY <1>2, <3>1, <3>2
  <2>5. \A e \in Events : Present(events'[e]) => events'[e].created >= swept'
    BY <1>r, <2>1, <2>3, <2>4 DEF PastRetention
  <2> QED
    BY <2>1, <2>2, <2>5 DEF NothingExpired
<1>3. swept' = swept \/ \E w \in Passes : CleanupFind(w) \/ CleanupDelete(w)
  <2>1. FanTick \/ UNCHANGED fanVars => swept' = swept
    BY DEF FanTick, fanVars, fanHistory
  <2> QED
    BY <2>1, FanSteps, EndpointStepFrame, EmissionStepFrame, PassStepFrame, ReplayStepFrame DEF fanHistory
<1> QED
  BY <1>1, <1>2, <1>3

(* Expiry is kept.                                                         *)
LEMMA ExpiryStep ==
  ASSUME FanTypeOK, FanLinks, Expiry, [FanNext]_fanVars, FanTypeOK'
  PROVE  Expiry'
  BY TransactionsAreYoung, SweepStep, SparedStep, SweptStep DEF Expiry
--------------------------------------------------------------------------------
(* A pass of the retention, or one that ends, has nothing to repair.       *)
LEMMA SweepersRepairNothing ==
  ASSUME FanTypeOK, NEW w \in Passes,
         \/ BeginCleanup(w) \/ CleanupFind(w) \/ CleanupDelete(w)
         \/ EndReconcile(w) \/ PassStops(w)
  PROVE  pass'[w].step \notin {"repair", "matched"}
<1>1. CASE BeginCleanup(w) \/ EndReconcile(w) \/ PassStops(w)
  BY <1>1 DEF BeginCleanup, EndReconcile, PassStops, FanTypeOK, Quiet
<1>2. ASSUME NEW complete, CloseCleanup(w, complete) PROVE pass'[w].step = "none"
  BY <1>2 DEF CloseCleanup, FanTypeOK, Quiet
<1>3. CASE CleanupFind(w)
  <2>1. pass[w] \in RetentionPass
    BY <1>3, FanRecords DEF CleanupFind
  <2>2. ASSUME NEW B, pass' = [pass EXCEPT ![w].step = "found", ![w].ids = B]
        PROVE  pass'[w].step = "found"
    BY <2>1, <2>2 DEF FanTypeOK, RetentionPass
  <2> QED
    BY <1>2, <1>3, <2>2 DEF CleanupFind
<1>4. CASE CleanupDelete(w)
  <2>1. pass[w] \in RetentionPass
    BY <1>4, FanRecords DEF CleanupDelete
  <2>2. ASSUME pass' = [pass EXCEPT ![w].step = "page", ![w].pages = @ + 1]
        PROVE  pass'[w].step = "page"
    BY <2>1, <2>2 DEF FanTypeOK, RetentionPass
  <2> QED
    BY <1>2, <1>4, <2>2 DEF CleanupDelete
<1> QED
  BY <1>1, <1>3, <1>4

(* A pair that is steady after a step was steady before it, unless the     *)
(* step is the one that emits its event.                                   *)
LEMMA SteadyBefore ==
  ASSUME FanTypeOK, [FanNext]_fanVars, NEW e \in Events, NEW p \in Endpoints, <<e, p>> \in steady'
  PROVE  \/ <<e, p>> \in steady
         \/ \E env \in Environments, keyed \in BOOLEAN : PersistEvent(e, env, keyed)
<1>p. <<e, p>> \in Pairs
  BY DEF Pairs
<1>1. CASE EmissionStep(e)
  BY <1>1 DEF EmissionStep, FindEndpoints, CreateDeliveries, CreateRefused, CommitEvent, EmitterDies,
     EmissionFails, fanHistory
<1>2. ASSUME NEW f \in Events \ {e}, EmissionStep(f) PROVE <<e, p>> \in steady
  BY <1>2, <1>p, EmissionStepFrame
<1>3. ASSUME NEW q \in Endpoints, EndpointStep(q) PROVE <<e, p>> \in steady
  BY <1>3, EndpointStepFrame DEF Invite
<1>4. CASE FanTick \/ UNCHANGED fanVars
  BY <1>4 DEF FanTick, fanVars, fanHistory
<1> QED
  BY <1>1, <1>2, <1>3, <1>4, FanSteps, PassStepFrame, ReplayStepFrame DEF fanHistory

(* The delivery of a pair that goes on matching is not taken away.         *)
LEMMA OriginalsStay ==
  ASSUME FanTypeOK, FanLinks, [FanNext]_fanVars, NEW e \in Events, NEW p \in Endpoints,
         <<e, p>> \in steady', Present(events'[e]), originals[<<e, p>>] = 1
  PROVE  originals'[<<e, p>>] = 1
<1>p. <<e, p>> \in Pairs
  BY DEF Pairs
<1>1. CASE originals' = originals
  BY <1>1
<1>2. ASSUME NEW f \in Events, EmissionStep(f), originals' # originals PROVE originals'[<<e, p>>] = 1
  <2>1. Insert(f, emission[f].to)
    BY <1>2 DEF EmissionStep, PersistEvent, FindEndpoints, CreateDeliveries, CreateRefused, CommitEvent,
       EmitterDies, EmissionFails, EmissionFrame, fanHistory
  <2> QED
    BY <2>1, <1>p, InsertAdds
<1>3. ASSUME NEW w \in Passes, PassStep(w) PROVE originals'[<<e, p>>] = 1
  <2>1. CASE RepairCreate(w)
    BY <2>1, <1>p, InsertAdds DEF RepairCreate, FanLinks, PassLinks
  <2>2. CASE CleanupDelete(w)
    <3>1. /\ originals' = [x \in Pairs |-> IF x[1] \in pass[w].ids THEN 0 ELSE originals[x]]
          /\ events' = [f \in Events |-> IF f \in pass[w].ids THEN GONE ELSE events[f]]
      BY <2>2 DEF CleanupDelete
    <3>2. e \notin pass[w].ids
      BY <3>1 DEF Present
    <3> QED
      BY <3>1, <3>2, <1>p
  <2> QED
    BY <1>3, <2>1, <2>2, <1>1, PassStepFrame
<1>4. ASSUME NEW q \in Endpoints, EndpointStep(q) PROVE originals'[<<e, p>>] = 1
  <2>1. Invite(q, endpoints'[q])
    BY <1>4, EndpointStepFrame
  <2>2. ASSUME q = p PROVE endpoints'[q] # GONE
    <3>1. Suits(e, endpoints'[q])
      BY <2>1, <2>2 DEF Invite
    <3> QED
      BY <3>1 DEF Suits, Present
  <2>3. CASE originals' = [x \in Pairs |-> IF x[2] = q THEN 0 ELSE originals[x]] /\ endpoints'[q] = GONE
    BY <2>2, <2>3, <1>p
  <2> QED
    BY <1>1, <1>4, <2>3, EndpointStepFrame
<1>5. CASE FanTick \/ UNCHANGED fanVars
  BY <1>1, <1>5 DEF FanTick, fanVars, fanTables
<1> QED
  BY <1>1, <1>2, <1>3, <1>4, <1>5, FanSteps, ReplayStepFrame

(* A pair that has never stopped matching matches, and is matched.         *)
LEMMA EventSteadyStep ==
  ASSUME FanTypeOK, FanLinks, Steadiness, [FanNext]_fanVars, FanTypeOK', FanLinks',
         NEW e \in Events, NEW p \in Endpoints
  PROVE  EventSteady(e, p)'
<1>0. EventSteady(e, p)
  BY DEF Steadiness
<1>p. <<e, p>> \in Pairs
  BY DEF Pairs
<1> SUFFICES ASSUME <<e, p>> \in steady' PROVE EventSteady(e, p)'
  BY DEF EventSteady
<1>s. /\ Emitting(e) => (Suits(e, endpoints[p]) <=> Matches(emission[e].row.environment, endpoints[p]))
      /\ Present(events[e]) => (Suits(e, endpoints[p]) <=> Matches(events[e].environment, endpoints[p]))
  BY SuitsTheRow
<1>t. /\ Emitting(e)' => (Suits(e, endpoints[p])' <=> Matches(emission'[e].row.environment, endpoints'[p]))
      /\ Present(events'[e]) => (Suits(e, endpoints[p])' <=> Matches(events'[e].environment, endpoints'[p]))
  <2>1. Emitting(e)' /\ Present(events'[e]) => events'[e] = emission'[e].row
    BY DEF FanLinks, EventLinks
  <2> QED
    BY <2>1 DEF Suits, Matches
<1>1. CASE EmissionStep(e)
  <2>0. endpoints' = endpoints
    BY <1>1, EmissionStepFrame
  <2>1. ASSUME NEW env \in Environments, NEW keyed \in BOOLEAN, PersistEvent(e, env, keyed)
        PROVE  EventSteady(e, p)'
    <3>1. <<e, p>> \notin steady
      BY <1>0, <2>1 DEF PersistEvent, EventSteady
    <3>2. Matches(env, endpoints[p])
      BY <2>1, <3>1 DEF PersistEvent, Matches
    <3>3. emission'[e].step = "inserted" /\ emission'[e].row.environment = env
      BY <2>1 DEF PersistEvent, FanTypeOK
    <3> QED
      BY <2>0, <3>2, <3>3, <1>t DEF EventSteady, Emitting, Quiet
  <2>2. CASE <<e, p>> \in steady /\ ~ \E env \in Environments, keyed \in BOOLEAN : PersistEvent(e, env, keyed)
    <3>1. CASE FindEndpoints(e)
      <4>1. emission[e] \in Emitter /\ Emitting(e)
        BY <3>1, FanRecords DEF FindEndpoints, Emitting
      <4>2. /\ emission'[e].step = "matched" /\ emission'[e].row = emission[e].row
            /\ emission'[e].to = Matching(emission[e].row.environment) /\ events' = events
        BY <3>1, <4>1 DEF FindEndpoints, FanTypeOK, Emitter
      <4>3. Matches(emission[e].row.environment, endpoints[p])
        BY <1>0, <1>s, <2>2, <4>1 DEF EventSteady, Draft
      <4>4. Emitting(e)'
        BY <4>2 DEF Emitting
      <4> QED
        BY <2>0, <4>2, <4>3, <4>4, <1>t DEF EventSteady, Matching, Quiet
    <3>2. CASE CreateDeliveries(e) /\ emission[e].keyed
      <4>1. emission[e] \in Emitter /\ emission[e].step = "matched"
        BY <3>2, FanRecords DEF CreateDeliveries, Emitting
      <4>2. /\ emission'[e].step = "created" /\ emission'[e].row = emission[e].row
            /\ emission'[e].to = emission[e].to /\ events' = events
        BY <3>2, <4>1 DEF CreateDeliveries, Emission, FanTypeOK, Emitter
      <4> QED
        BY <2>0, <1>0, <1>s, <1>t, <2>2, <4>1, <4>2 DEF EventSteady, Emitting, Draft, Quiet
    <3>3. CASE \/ CreateDeliveries(e) /\ ~ emission[e].keyed
               \/ CreateRefused(e) \/ EmitterDies(e)
      <4>1. emission'[e] = [step |-> "done"] /\ events' = events /\ Emitting(e)
        BY <3>3 DEF CreateDeliveries, CreateRefused, EmitterDies, EmissionFails, EndEmission, FanTypeOK, Emitting
      <4>2. ~ Emitting(e)' /\ emission'[e].step = "done"
        BY <4>1 DEF Emitting
      <4> QED
        BY <2>0, <1>0, <1>s, <1>t, <2>2, <4>1, <4>2 DEF EventSteady, Draft, Quiet
    <3>4. CASE CommitEvent(e)
      <4>1. /\ emission'[e] = [step |-> "done"] /\ events'[e] = emission[e].row /\ Emitting(e)
        BY <3>4 DEF CommitEvent, EndEmission, FanTypeOK, Emitting
      <4>2. ~ Emitting(e)' /\ emission'[e].step = "done"
        BY <4>1 DEF Emitting
      <4> QED
        BY <2>0, <1>0, <1>s, <1>t, <2>2, <4>1, <4>2 DEF EventSteady, Draft, Quiet
    <3> QED
      BY <1>1, <2>2, <3>1, <3>2, <3>3, <3>4 DEF EmissionStep
  <2> QED
    BY <2>1, <2>2, SteadyBefore
<1>2. ASSUME <<e, p>> \in steady, emission'[e] = emission[e], events'[e] = events[e], endpoints'[p] = endpoints[p]
      PROVE  EventSteady(e, p)'
  BY <1>2, <1>0 DEF EventSteady, Draft, Emitting, Suits
<1>3. ASSUME NEW f \in Events \ {e}, EmissionStep(f) PROVE EventSteady(e, p)'
  BY <1>2, <1>3, <1>p, EmissionStepFrame
<1>4. ASSUME NEW c \in ReplayCalls, ReplayStep(c) PROVE EventSteady(e, p)'
  BY <1>2, <1>4, ReplayStepFrame DEF fanHistory
<1>5. ASSUME NEW w \in Passes, PassStep(w) PROVE EventSteady(e, p)'
  <2>1. UNCHANGED <<emission, endpoints, steady>>
    BY <1>5, PassStepFrame
  <2>2. CASE events'[e] = events[e]
    BY <1>2, <2>1, <2>2
  <2>3. CASE events'[e] = GONE
    <3>1. ~ Present(events'[e]) /\ (Emitting(e)' <=> Emitting(e))
      BY <2>1, <2>3 DEF Present, Emitting
    <3> QED
      BY <1>0, <1>s, <1>t, <2>1, <3>1 DEF EventSteady, Draft
  <2>4. events'[e] = events[e] \/ events'[e] = GONE
    <3>1. CASE CleanupDelete(w)
      BY <3>1 DEF CleanupDelete
    <3> QED
      BY <1>5, <3>1, PassStepFrame
  <2> QED
    BY <2>2, <2>3, <2>4
<1>6. ASSUME NEW q \in Endpoints, EndpointStep(q) PROVE EventSteady(e, p)'
  <2>1. UNCHANGED <<events, emission>> /\ Invite(q, endpoints'[q])
    BY <1>6, EndpointStepFrame
  <2>2. <<e, p>> \in steady
    BY <2>1 DEF Invite
  <2>3. CASE q # p
    BY <1>2, <1>6, <2>1, <2>2, <2>3, EndpointStepFrame
  <2>4. CASE q = p
    <3>1. Suits(e, endpoints'[p])
      BY <2>1, <2>4 DEF Invite
    <3> QED
      BY <1>0, <2>1, <2>2, <3>1 DEF EventSteady, Draft, Emitting, Suits
  <2> QED
    BY <2>3, <2>4
<1>7. CASE FanTick \/ UNCHANGED fanVars
  BY <1>2, <1>7 DEF FanTick, fanVars, fanTables, fanHistory
<1> QED
  BY <1>1, <1>3, <1>4, <1>5, <1>6, <1>7, FanSteps

(* The events a pass owes a repair are in its batch, however the database  *)
(* orders equals: fewer than a batch are as new.                           *)
LEMMA OwedAreTaken ==
  ASSUME FanTypeOK, NEW e \in Owed,
         NEW B \in FirstBatchNewest(Window(clock), Least(ReconcileBatch, Cardinality(Window(clock))))
  PROVE  e \in B
<1> DEFINE W == Window(clock)
           T == {f \in W : ~ Newer(f, e)}
<1>1. IsFiniteSet(W) /\ Cardinality(W) \in Nat /\ B \subseteq W /\ e \in W
  BY FanConstants, FS_Subset, FS_CardinalityType DEF Window, FirstBatchNewest, Owed
<1>2. Cardinality(B) = Least(ReconcileBatch, Cardinality(W)) /\ Cardinality(T) <= ReconcileBatch
  BY DEF FirstBatchNewest, Owed
<1> SUFFICES ASSUME e \notin B PROVE FALSE
  OBVIOUS
<1>3. \A f \in W : events[f].created \in Nat
  BY FanRecords, FanConstants DEF Window, EventRow
<1>4. B \cup {e} \subseteq T
  <2>1. \A f \in B : ~ Newer(f, e)
    <3>1. \A f \in B : ~ Newer(f, e)
      BY <1>1 DEF FirstBatchNewest
    <3> QED
      BY <3>1
  <2>2. ~ Newer(e, e)
    BY <1>1, <1>3 DEF Newer
  <2> QED
    BY <1>1, <2>1, <2>2
<1>5. IsFiniteSet(T) /\ IsFiniteSet(B)
  BY <1>1, FS_Subset
<1>6. Cardinality(B \cup {e}) = Cardinality(B) + 1 /\ IsFiniteSet(B \cup {e})
  BY <1>5, FS_AddElement
<1>7. Cardinality(B \cup {e}) <= Cardinality(T)
  BY <1>4, <1>5, FS_Subset
<1>8. Cardinality(B) \in Nat /\ Cardinality(T) \in Nat
  BY <1>5, FS_CardinalityType
<1>9. Cardinality(B) < ReconcileBatch
  BY <1>2, <1>6, <1>7, <1>8, FanConstants
<1>10. Cardinality(B) = Cardinality(W)
  BY <1>1, <1>2, <1>9, FanConstants DEF Least
<1>11. B = W
  BY <1>1, <1>10, FS_Subset
<1> QED
  BY <1>1, <1>11

(* What a pass has dealt with is delivered.                                *)
LEMMA PassSteadyStep ==
  ASSUME FanTypeOK, FanLinks, Steadiness, [FanNext]_fanVars, FanTypeOK',
         NEW w \in Passes, NEW e \in Events, NEW p \in Endpoints
  PROVE  PassSteady(w, e, p)'
<1>0. PassSteady(w, e, p) /\ EventSteady(e, p) /\ PassLinks(w)
  BY DEF Steadiness, FanLinks
<1>p. <<e, p>> \in Pairs
  BY DEF Pairs
<1> SUFFICES ASSUME <<e, p>> \in steady', Present(events'[e]) PROVE PassSteady(w, e, p)'
  BY DEF PassSteady
<1>o. originals[<<e, p>>] = 1 => originals'[<<e, p>>] = 1
  BY OriginalsStay
<1>1. CASE pass'[w] = pass[w]
  <2>1. CASE events'[e] = events[e]
    <3>1. <<e, p>> \in steady
      BY <2>1, SteadyBefore DEF PersistEvent, Present
    <3> QED
      BY <1>0, <1>1, <1>o, <2>1, <3>1 DEF PassSteady
  <2>2. CASE events'[e] # events[e]
    <3>1. events[e] = NONE
      BY <2>2, EventHistory DEF Present
    <3> QED
      BY <1>0, <1>1, <3>1 DEF PassSteady, PassLinks
  <2> QED
    BY <2>1, <2>2
<1>2. CASE PassStep(w)
  <2>0. <<e, p>> \in steady
    BY <1>2, PassStepFrame
  <2>1. CASE BeginReconcile(w)
    <3>1. PICK B \in FirstBatchNewest(Window(clock), Least(ReconcileBatch, Cardinality(Window(clock)))) :
             pass' = [pass EXCEPT ![w] = [step |-> "repair", todo |-> B, owed |-> Owed, event |-> NONE, to |-> {}]]
      BY <2>1 DEF BeginReconcile
    <3>2. pass'[w].step = "repair" /\ pass'[w].todo = B /\ pass'[w].owed = Owed
      BY <3>1 DEF FanTypeOK
    <3> QED
      BY <3>2, OwedAreTaken DEF PassSteady
  <2>2. ASSUME NEW f \in Events, RepairFind(w, f) PROVE PassSteady(w, e, p)'
    <3>1. pass[w] \in RepairPass /\ pass[w].step = "repair" /\ events' = events
      BY <2>2, FanRecords DEF RepairFind
    <3>2. /\ pass'[w].step = "matched" /\ pass'[w].event = f /\ pass'[w].todo = pass[w].todo \ {f}
          /\ pass'[w].owed = pass[w].owed
          /\ pass'[w].to = IF Present(events[f]) THEN Matching(events[f].environment) ELSE {}
      BY <2>2, <3>1 DEF RepairFind, FanTypeOK, RepairPass
    <3>3. Matches(events[e].environment, endpoints[p])
      BY <1>0, <2>0, <3>1, SuitsTheRow DEF EventSteady, Draft
    <3>4. f = e => p \in pass'[w].to
      BY <3>1, <3>2, <3>3 DEF Matching
    <3>5. e \in pass[w].owed => e \in pass[w].todo \/ originals[<<e, p>>] = 1
      BY <1>0, <2>0, <3>1 DEF PassSteady
    <3> QED
      BY <1>o, <3>2, <3>4, <3>5 DEF PassSteady
  <2>3. CASE RepairCreate(w)
    <3>1. pass[w] \in RepairPass /\ pass[w].step = "matched" /\ events' = events
      BY <2>3, FanRecords DEF RepairCreate
    <3>2. /\ pass'[w].step = "repair" /\ pass'[w].todo = pass[w].todo /\ pass'[w].owed = pass[w].owed
          /\ Insert(pass[w].event, pass[w].to)
      BY <2>3, <3>1 DEF RepairCreate, FanTypeOK, RepairPass
    <3>3. pass[w].event = e => originals'[<<e, p>>] = 1
      BY <1>0, <1>p, <2>0, <3>1, <3>2, InsertAdds DEF PassSteady
    <3> QED
      BY <1>0, <1>o, <2>0, <3>1, <3>2, <3>3 DEF PassSteady
  <2>4. CASE RepairFails(w)
    <3>1. pass[w] \in RepairPass /\ pass[w].step = "matched" /\ events' = events
      BY <2>4, FanRecords DEF RepairFails
    <3>2. /\ pass'[w].step = "repair" /\ pass'[w].todo = pass[w].todo
          /\ pass'[w].owed = pass[w].owed \ {pass[w].event}
      BY <2>4, <3>1 DEF RepairFails, FanTypeOK, RepairPass
    <3> QED
      BY <1>0, <1>o, <2>0, <3>1, <3>2 DEF PassSteady
  <2>5. CASE BeginCleanup(w) \/ CleanupFind(w) \/ CleanupDelete(w) \/ EndReconcile(w) \/ PassStops(w)
    BY <2>5, SweepersRepairNothing DEF PassSteady
  <2> QED
    BY <1>2, <2>5, <2>1, <2>2, <2>3, <2>4 DEF PassStep
<1>3. pass'[w] = pass[w] \/ PassStep(w)
  <2>1. FanTick \/ UNCHANGED fanVars => pass' = pass
    BY DEF FanTick, fanVars
  <2> QED
    BY <2>1, FanSteps, EndpointStepFrame, EmissionStepFrame, PassStepFrame, ReplayStepFrame
<1> QED
  BY <1>1, <1>2, <1>3
(* Whoever never stopped matching has its delivery once the emitter is     *)
(* through, or once a pass that owes a repair is.                          *)
LEMMA CompleteStep ==
  ASSUME FanTypeOK, FanLinks, Steadiness, [FanNext]_fanVars, FanTypeOK',
         NEW e \in Events, NEW p \in Endpoints, <<e, p>> \in steady',
         Present(events'[e]), ~ Emitting(e)', e \notin excused'
  PROVE  originals'[<<e, p>>] = 1
<1>0. EventSteady(e, p) /\ FanOutComplete
  BY DEF Steadiness
<1>p. <<e, p>> \in Pairs
  BY DEF Pairs
<1>o. originals[<<e, p>>] = 1 => originals'[<<e, p>>] = 1
  BY OriginalsStay
<1>1. CASE EmissionStep(e)
  <2>1. ASSUME NEW env \in Environments, NEW keyed \in BOOLEAN, PersistEvent(e, env, keyed) PROVE FALSE
    <3>1. emission'[e].step = "inserted"
      BY <2>1 DEF PersistEvent, FanTypeOK
    <3> QED
      BY <3>1 DEF Emitting
  <2>2. <<e, p>> \in steady
    BY <2>1, SteadyBefore
  <2>3. CASE FindEndpoints(e) \/ (CreateDeliveries(e) /\ emission[e].keyed)
    <3>1. emission[e] \in Emitter
      BY <2>3, FanRecords DEF FindEndpoints, CreateDeliveries, Emitting
    <3>2. FindEndpoints(e) => emission'[e].step = "matched"
      BY <3>1 DEF FindEndpoints, FanTypeOK, Emitter
    <3>3. CreateDeliveries(e) /\ emission[e].keyed => emission'[e].step = "created"
      BY <3>1 DEF CreateDeliveries, Emission, FanTypeOK, Emitter
    <3> QED
      BY <2>3, <3>2, <3>3 DEF Emitting
  <2>4. CASE (CreateDeliveries(e) /\ ~ emission[e].keyed) \/ CommitEvent(e)
    <3>1. Insert(e, emission[e].to) /\ emission[e].step \in {"matched", "created"}
      BY <2>4 DEF CreateDeliveries, CommitEvent
    <3>2. p \in emission[e].to
      BY <1>0, <2>2, <3>1 DEF EventSteady
    <3> QED
      BY <1>p, <3>1, <3>2, InsertAdds
  <2>5. CASE CreateRefused(e) \/ EmitterDies(e)
    <3>1. IF emission[e].keyed THEN <<e, p>> \notin steady' ELSE e \in excused'
      BY <2>5 DEF CreateRefused, EmitterDies, EmissionFails
    <3> QED
      BY <3>1
  <2> QED
    BY <1>1, <2>1, <2>3, <2>4, <2>5 DEF EmissionStep
<1>2. CASE ~ EmissionStep(e)
  <2>1. events'[e] = events[e]
    BY <1>2, EventHistory DEF Present
  <2>2. <<e, p>> \in steady
    BY <1>2, SteadyBefore DEF EmissionStep
  <2>3. emission'[e] = emission[e]
    <3>1. FanTick \/ UNCHANGED fanVars => emission' = emission
      BY DEF FanTick, fanVars
    <3> QED
      BY <1>2, <3>1, FanSteps, EndpointStepFrame, EmissionStepFrame, PassStepFrame, ReplayStepFrame
  <2>4. ~ Emitting(e)
    BY <2>3 DEF Emitting
  <2>5. CASE e \notin excused
    BY <1>0, <1>o, <2>1, <2>2, <2>4, <2>5 DEF FanOutComplete
  <2>6. CASE e \in excused
    <3>1. FanTick \/ UNCHANGED fanVars => excused' = excused
      BY DEF FanTick, fanVars, fanHistory
    <3>2. PICK w \in Passes : EndReconcile(w)
      BY <1>2, <2>6, <3>1, FanSteps, EndpointStepFrame, EmissionStepFrame, PassStepFrame, ReplayStepFrame DEF fanHistory
    <3>3. pass[w].step = "repair" /\ pass[w].todo = {} /\ e \in pass[w].owed
      BY <2>6, <3>2 DEF EndReconcile
    <3>4. PassSteady(w, e, p)
      BY DEF Steadiness
    <3> QED
      BY <1>o, <2>1, <2>2, <3>3, <3>4 DEF PassSteady
  <2> QED
    BY <2>5, <2>6
<1> QED
  BY <1>1, <1>2

(* Steadiness is kept.                                                     *)
LEMMA SteadinessStep ==
  ASSUME FanTypeOK, FanLinks, Steadiness, [FanNext]_fanVars, FanTypeOK', FanLinks'
  PROVE  Steadiness'
<1>1. FanOutComplete'
  <2> SUFFICES ASSUME NEW x \in steady', Present(events'[x[1]]), ~ Emitting(x[1])', x[1] \notin excused'
               PROVE  originals'[x] = 1
    BY DEF FanOutComplete
  <2>1. PICK e \in Events, p \in Endpoints : x = <<e, p>>
    BY DEF FanTypeOK, Pairs
  <2>2. <<e, p>> \in steady' /\ Present(events'[e]) /\ ~ Emitting(e)' /\ e \notin excused'
    BY <2>1 DEF Emitting
  <2> QED
    BY <2>1, <2>2, CompleteStep
<1> QED
  BY <1>1, EventSteadyStep, PassSteadyStep DEF Steadiness

--------------------------------------------------------------------------------
(* The induction.                                                          *)
LEMMA FanInvariant == FanSpec => []FanInv
<1>1. FanInit => FanInv
  BY FanInvInit
<1>2. FanInv /\ [FanNext]_fanVars => FanInv'
  BY FanTypeStep, FanLinksStep, InvitationsStep, ExpiryStep, SteadinessStep DEF FanInv
<1> QED
  BY <1>1, <1>2, PTL DEF FanSpec

(* Events, endpoints, deliveries and the reads of every party are of their *)
(* types; in particular an endpoint has one original of an event at most.  *)
THEOREM FanTypesOk == FanSpec => []FanTypeOK
  BY FanInvariant, PTL DEF FanInv

(* Nobody hears of an event who was not entitled to at some moment since   *)
(* it happened, whatever persist, reconcile and replayEvent have read.     *)
THEOREM UninvitedHearNothing == FanSpec => []NeverToUninvited
<1>1. FanInv => NeverToUninvited
  BY DEF FanInv, Invitations
<1> QED
  BY <1>1, FanInvariant, PTL

(* An endpoint that never stopped matching has the event, from the end of  *)
(* the emission or of the pass that repairs it.                            *)
THEOREM FanOutIsComplete == FanSpec => []FanOutComplete
<1>1. FanInv => FanOutComplete
  BY DEF FanInv, Steadiness
<1> QED
  BY <1>1, FanInvariant, PTL

(* A retention pass that ends leaves no expired event, however many pages  *)
(* it takes and whichever transactions commit in between, because none of  *)
(* them may last as long as the retention; and an event it deletes is      *)
(* older than the retention, because cutoffs only fall behind the clock    *)
(* and rows keep their time of creation.                                   *)
THEOREM RetentionIsExact == FanSpec => RetentionExact
<1> DEFINE Taken(e) == /\ Present(events'[e]) => events'[e].created >= swept'
                       /\ Present(events[e]) /\ events'[e] = GONE =>
                              events[e].created + Retention < clock
<1>1. ASSUME FanInv, FanInv', [FanNext]_fanVars, NEW e \in Events PROVE Taken(e)
  <2>1. Present(events'[e]) => events'[e].created >= swept'
    BY <1>1 DEF FanInv, Expiry, NothingExpired, Present
  <2>2. ASSUME Present(events[e]), events'[e] = GONE PROVE events[e].created + Retention < clock
    <3>1. PICK w \in Passes : CleanupDelete(w) /\ e \in pass[w].ids
      BY <1>1, <2>2, EventHistory DEF FanInv, Present
    <3>2. pass[w].step = "found" /\ pass[w] \in RetentionPass
      BY <1>1, <3>1, FanRecords DEF FanInv, CleanupDelete
    <3>3. events[e].created < pass[w].cutoff /\ pass[w].cutoff + Retention <= clock
      BY <1>1, <2>2, <3>1, <3>2 DEF FanInv, Expiry, Spared, Sweep
    <3>4. events[e].created \in Nat /\ pass[w].cutoff \in Nat /\ clock \in Nat
      BY <1>1, <2>2, <3>2, FanRecords, FanConstants DEF FanInv, FanTypeOK, EventRow, RetentionPass
    <3> QED
      BY <3>3, <3>4, FanConstants
  <2> QED
    BY <2>1, <2>2
<1>2. FanInv /\ FanInv' /\ [FanNext]_fanVars => [\A e \in Events : Taken(e)]_fanVars
  BY <1>1
<1> QED
  BY <1>2, FanInvariant, PTL DEF FanSpec, RetentionExact

(* An event is written once: its row is never changed, and one that has    *)
(* been deleted does not come back.                                        *)
THEOREM EventsNeverRewritten ==
  FanSpec => [][\A e \in Events : events[e] # NONE => events'[e] \in {events[e], GONE}]_fanVars
<1>1. FanInv /\ [FanNext]_fanVars =>
          [\A e \in Events : events[e] # NONE => events'[e] \in {events[e], GONE}]_fanVars
  BY EventHistory DEF FanInv
<1> QED
  BY <1>1, FanInvariant, PTL DEF FanSpec
================================================================================
