----------------------------- MODULE RefundsProofs -----------------------------
(***************************************************************************)
(* Proofs about Refunds, for any number of requests, payments and keys and *)
(* for any amounts.                                                        *)
(***************************************************************************)
EXTENDS Refunds, TLAPS

InBalance == {"found", "summed", "inserted", "persisted", "recorded", "stored"}
Holding == InBalance \cup {"locked"}
Claiming == Holding \cup {"open"}
Granting == InBalance \ {"found"}

(* What the transaction of a request has written when its record is r.     *)
Written(r) ==
    (IF r.step \in {"inserted", "persisted", "recorded", "stored"} THEN {"refund"} ELSE {})
    \cup (IF r.step \in {"persisted", "recorded", "stored"} THEN {"event"} ELSE {})
    \cup (IF r.step \in {"recorded", "stored"} THEN {"audit"} ELSE {})
    \cup (IF r.step = "stored" /\ r.key # NONE THEN {"record"} ELSE {})

(* What a request owns and knows when its record is r.  Between SELECT ... *)
(* FOR UPDATE and its commit it owns the row, and what it read under the   *)
(* lock is still true; from its claim on it owns a key without a record.   *)
Sound(c, r) ==
    /\ r.step \in Holding => rowLock[r.payment] = c
    /\ r.step \in Claiming /\ r.key # NONE => keyClaim[r.key] = c /\ keyRow[r.key] = NONE
    /\ r.step \in InBalance => paymentStatus[r.payment] = "succeeded"
    /\ r.step \in Granting => refunded[r.payment].sum + r.amount <= Amount[r.payment]
    /\ r.step # "idle" => r.pending = Written(r)
    /\ r.step = "answered" => r.answer = r.payment /\ refunded[r.payment].rows > 0

(* A record stands for one refund of the payment it names.                 *)
RecordInv ==
    \A k \in Keys : /\ keyRefunds[k] = IF keyRow[k] = NONE THEN 0 ELSE 1
                    /\ keyRow[k] # NONE => refunded[keyRow[k]].rows > 0

RefundInv ==
    /\ RefundTypeOK /\ RecordInv /\ RefundHasTrail /\ NeverOverRefunded
    /\ \A c \in RefundCalls : Sound(c, request[c])

--------------------------------------------------------------------------------
(* Initially nothing is refunded and nothing is held.                      *)
LEMMA RefundInvInit == RefundInit => RefundInv
  BY RefundAssumption
  DEF RefundInit, RefundInv, RefundTypeOK, Sound, RecordInv, NeverOverRefunded, RefundHasTrail,
      NoRequest, Holding, Claiming, InBalance, Granting

(* What every request at work is made of.                                  *)
LEMMA OpenFields ==
  ASSUME RefundTypeOK, NEW c \in RefundCalls, request[c].step # "idle"
  PROVE  /\ request[c] \in OpenRequest
         /\ request[c].payment \in Refundable
         /\ request[c].key \in Keys \cup {NONE}
         /\ request[c].asked \in Nat \cup {NONE}
         /\ request[c].amount \in Nat
  BY DEF RefundTypeOK, NoRequest, OpenRequest

(* Request c moves on to a record that is sound, and nobody else loses a   *)
(* lock; no table changes but the status of a payment that settles while   *)
(* nobody has its row.                                                     *)
MovesOn(c) ==
    /\ request' \in [RefundCalls -> OpenRequest \cup {NoRequest}]
    /\ \A d \in RefundCalls \ {c} : /\ request'[d] = request[d]
                                    /\ \A p \in Refundable : rowLock[p] = d => rowLock'[p] = d
                                    /\ \A k \in Keys : keyClaim[k] = d => keyClaim'[k] = d
    /\ rowLock' \in [Refundable -> RefundCalls \cup {NONE}]
    /\ keyClaim' \in [Keys -> RefundCalls \cup {NONE}]
    /\ paymentStatus' \in [Refundable -> {"processing", "succeeded", "failed"}]
    /\ \A p \in Refundable : paymentStatus[p] = "succeeded" => paymentStatus'[p] = "succeeded"
    /\ UNCHANGED <<refunded, trail, keyRow, keyRefunds>>
    /\ Sound(c, request[c])'

(* Such a step keeps the invariant.                                        *)
LEMMA MovesOnKeeps ==
  ASSUME RefundInv, NEW c \in RefundCalls, MovesOn(c)
  PROVE  RefundInv'
<1> USE RefundAssumption DEF RefundInv, MovesOn
<1>1. RefundTypeOK'
  BY DEF RefundTypeOK
<1>2. RecordInv' /\ RefundHasTrail' /\ NeverOverRefunded'
  BY DEF RefundTypeOK, RecordInv, RefundHasTrail, NeverOverRefunded
<1>3. ASSUME NEW d \in RefundCalls
      PROVE  Sound(d, request[d])'
  <2>1. CASE d = c
    BY <2>1
  <2>2. CASE d # c /\ request[d].step = "idle"
    BY <2>2 DEF Sound, Holding, Claiming, InBalance, Granting
  <2>3. CASE d # c /\ request[d].step # "idle"
    <3>1. request'[d] = request[d] /\ Written(request[d])' = Written(request[d])
      BY <2>3 DEF Written
    <3>2. Sound(d, request[d])
      OBVIOUS
    <3>3. QED
      BY <2>3, <3>1, <3>2, OpenFields DEF Sound
  <2>4. QED
    BY <2>1, <2>2, <2>3
<1>4. QED
  BY <1>1, <1>2, <1>3

(* A request that only advances keeps its fields.                          *)
LEMMA AdvanceFields ==
  ASSUME RefundTypeOK, NEW c \in RefundCalls, request[c].step # "idle",
         NEW step \in Steps \ {"idle"}, Advance(c, step)
  PROVE  /\ request' \in [RefundCalls -> OpenRequest \cup {NoRequest}]
         /\ \A d \in RefundCalls \ {c} : request'[d] = request[d]
         /\ request'[c].step = step
         /\ request'[c].payment = request[c].payment
         /\ request'[c].key = request[c].key
         /\ request'[c].amount = request[c].amount
         /\ request'[c].pending = request[c].pending
         /\ request'[c].answer = request[c].answer
<1>1. request[c] \in OpenRequest
  BY OpenFields
<1>2. [request[c] EXCEPT !.step = step] \in OpenRequest
  BY <1>1 DEF OpenRequest
<1>3. QED
  BY <1>1, <1>2 DEF RefundTypeOK, Advance, OpenRequest

--------------------------------------------------------------------------------
(* The steps that commit nothing *)

(* A new request holds nothing yet; its first read may settle the payment. *)
LEMMA CreateKeeps ==
  ASSUME RefundInv, NEW c \in RefundCalls, NEW p \in Refundable, NEW key \in Keys \cup {NONE},
         NEW asked \in {NONE} \cup 1 .. Amount[p], CreateRefund(c, p, key, asked)
  PROVE  RefundInv'
<1> USE RefundAssumption DEF RefundInv, RefundTypeOK
<1>1. request'[c] \in OpenRequest
  BY DEF CreateRefund, OpenRequest, Steps
<1>2. Sound(c, request[c])'
  BY DEF CreateRefund, Sound, Written, Holding, Claiming, InBalance, Granting
<1>3. /\ paymentStatus' \in [Refundable -> {"processing", "succeeded", "failed"}]
      /\ \A q \in Refundable : paymentStatus[q] = "succeeded" => paymentStatus'[q] = "succeeded"
  BY DEF CreateRefund, Settle
<1>4. MovesOn(c)
  BY <1>1, <1>2, <1>3 DEF CreateRefund, MovesOn
<1>5. QED
  BY <1>4, MovesOnKeeps

(* An edge that falls due reaches no payment whose row is locked.          *)
LEMMA SettleKeeps ==
  ASSUME RefundInv, NEW p \in Refundable, Settle(p),
         UNCHANGED <<rowLock, refunded, trail, keyRow, keyClaim, keyRefunds, request>>
  PROVE  RefundInv'
<1> USE RefundAssumption DEF RefundInv
<1>1. /\ paymentStatus' \in [Refundable -> {"processing", "succeeded", "failed"}]
      /\ \A q \in Refundable : paymentStatus[q] = "succeeded" => paymentStatus'[q] = "succeeded"
  BY DEF Settle, RefundTypeOK
<1>2. RefundTypeOK' /\ RecordInv' /\ RefundHasTrail' /\ NeverOverRefunded'
  BY <1>1 DEF RefundTypeOK, RecordInv, RefundHasTrail, NeverOverRefunded
<1>3. \A d \in RefundCalls : Sound(d, request[d])'
  BY <1>1, OpenFields DEF Sound, Written, InBalance
<1>4. QED
  BY <1>2, <1>3

(* Any request may stop, with nothing written and nothing held.            *)
LEMMA RollbackKeeps ==
  ASSUME RefundInv, NEW c \in RefundCalls, request[c].step # "idle", RollbackRefund(c)
  PROVE  RefundInv'
<1>1. request[c] \in OpenRequest
  BY OpenFields DEF RefundInv
<1>2. /\ request'[c].step = "refused" /\ request'[c].pending = {}
      /\ request'[c] \in OpenRequest
  BY <1>1 DEF RefundInv, RefundTypeOK, RollbackRefund, OpenRequest, Steps
<1>3. Sound(c, request[c])'
  BY <1>2 DEF Sound, Written, Holding, Claiming, InBalance, Granting
<1>4. MovesOn(c)
  BY <1>2, <1>3 DEF RefundInv, RefundTypeOK, RollbackRefund, ReleaseLocks, MovesOn, refundTables
<1>5. QED
  BY <1>4, MovesOnKeeps

(* A claim makes the request the owner of a key without a record; a replay *)
(* answers with a payment that was refunded.                               *)
LEMMA ExecuteKeeps ==
  ASSUME RefundInv, NEW c \in RefundCalls, Execute(c)
  PROVE  RefundInv'
<1>0. request[c] \in OpenRequest /\ request[c].step = "retrieved" /\ request[c].key \in Keys \cup {NONE}
  BY OpenFields DEF RefundInv, Execute, At
<1>1. CASE /\ Advance(c, "open")
           /\ \/ request[c].key = NONE /\ keyClaim' = keyClaim
              \/ /\ request[c].key # NONE /\ keyRow[request[c].key] = NONE /\ keyClaim[request[c].key] = NONE
                 /\ keyClaim' = [keyClaim EXCEPT ![request[c].key] = c]
  <2>1. /\ request' \in [RefundCalls -> OpenRequest \cup {NoRequest}]
        /\ \A d \in RefundCalls \ {c} : request'[d] = request[d]
        /\ request'[c].step = "open" /\ request'[c].key = request[c].key
        /\ request'[c].pending = request[c].pending
    BY <1>0, <1>1, AdvanceFields DEF Steps, RefundInv
  <2>2. request[c].pending = {}
    BY <1>0 DEF RefundInv, Sound, Written
  <2>3. /\ keyClaim' \in [Keys -> RefundCalls \cup {NONE}]
        /\ \A d \in RefundCalls \ {c}, k \in Keys : keyClaim[k] = d => keyClaim'[k] = d
        /\ request[c].key # NONE => keyClaim'[request[c].key] = c /\ keyRow[request[c].key] = NONE
    <3>1. CASE request[c].key = NONE /\ keyClaim' = keyClaim
      BY <3>1 DEF RefundInv, RefundTypeOK
    <3>2. CASE /\ request[c].key # NONE /\ keyRow[request[c].key] = NONE /\ keyClaim[request[c].key] = NONE
               /\ keyClaim' = [keyClaim EXCEPT ![request[c].key] = c]
      BY <1>0, <3>2, RefundAssumption DEF RefundInv, RefundTypeOK
    <3>3. QED
      BY <1>1, <3>1, <3>2
  <2>4. Sound(c, request[c])'
    BY <2>1, <2>2, <2>3 DEF Execute, refundTables, Sound, Written, Holding, Claiming, InBalance, Granting
  <2>5. MovesOn(c)
    BY <2>1, <2>3, <2>4 DEF RefundInv, RefundTypeOK, Execute, MovesOn, refundTables
  <2>6. QED
    BY <2>5, MovesOnKeeps
<1>2. CASE /\ request[c].key # NONE /\ keyRow[request[c].key] # NONE
           /\ keyClaim' = keyClaim
  <2>1. CASE keyRow[request[c].key] = request[c].payment
    <3>1. /\ request'[c].step = "answered" /\ request'[c].pending = request[c].pending
          /\ request'[c].answer = keyRow[request[c].key] /\ request'[c].payment = request[c].payment
          /\ request'[c] \in OpenRequest
      BY <1>0, <1>2, <2>1 DEF RefundInv, RefundTypeOK, Execute, ValidateReplay, OpenRequest, Steps
    <3>2. request[c].pending = {}
      BY <1>0 DEF RefundInv, Sound, Written
    <3>3. Sound(c, request[c])'
      BY <1>0, <1>2, <2>1, <3>1, <3>2
      DEF RefundInv, RecordInv, Execute, refundTables, Sound, Written, Holding, Claiming, InBalance, Granting
    <3>4. MovesOn(c)
      BY <1>0, <1>2, <3>1, <3>3 DEF RefundInv, RefundTypeOK, Execute, MovesOn, refundTables
    <3>5. QED
      BY <3>4, MovesOnKeeps
  <2>2. CASE keyRow[request[c].key] # request[c].payment
    <3>1. /\ request'[c].step = "refused" /\ request'[c].pending = request[c].pending
          /\ request'[c] \in OpenRequest
      BY <1>0, <1>2, <2>2 DEF RefundInv, RefundTypeOK, Execute, ValidateReplay, OpenRequest, Steps
    <3>2. request[c].pending = {}
      BY <1>0 DEF RefundInv, Sound, Written
    <3>3. Sound(c, request[c])'
      BY <3>1, <3>2 DEF Sound, Written, Holding, Claiming, InBalance, Granting
    <3>4. MovesOn(c)
      BY <1>0, <1>2, <3>1, <3>3 DEF RefundInv, RefundTypeOK, Execute, MovesOn, refundTables
    <3>5. QED
      BY <3>4, MovesOnKeeps
  <2>3. QED
    BY <2>1, <2>2
<1>3. QED
  BY <1>0, <1>1, <1>2 DEF Execute

(* The lock is taken when nobody has it.                                   *)
LEMMA LockKeeps ==
  ASSUME RefundInv, NEW c \in RefundCalls, LockPayment(c)
  PROVE  RefundInv'
<1>0. request[c].step = "open" /\ request[c].payment \in Refundable /\ rowLock[request[c].payment] = NONE
  BY OpenFields DEF RefundInv, LockPayment, At
<1>1. /\ request' \in [RefundCalls -> OpenRequest \cup {NoRequest}]
      /\ \A d \in RefundCalls \ {c} : request'[d] = request[d]
      /\ request'[c].step = "locked" /\ request'[c].payment = request[c].payment
      /\ request'[c].key = request[c].key /\ request'[c].pending = request[c].pending
  BY <1>0, AdvanceFields DEF Steps, RefundInv, LockPayment
<1>2. /\ rowLock' \in [Refundable -> RefundCalls \cup {NONE}]
      /\ \A d \in RefundCalls \ {c}, p \in Refundable : rowLock[p] = d => rowLock'[p] = d
      /\ rowLock'[request[c].payment] = c
  BY <1>0, RefundAssumption DEF RefundInv, RefundTypeOK, LockPayment
<1>3. Sound(c, request[c])'
  BY <1>0, <1>1, <1>2
  DEF RefundInv, LockPayment, refundTables, Sound, Written, Holding, Claiming, InBalance, Granting
<1>4. MovesOn(c)
  BY <1>1, <1>2, <1>3 DEF RefundInv, RefundTypeOK, LockPayment, MovesOn, refundTables
<1>5. QED
  BY <1>4, MovesOnKeeps

(* A request that finds its payment succeeded, under the lock, will find   *)
(* it so until it ends.                                                    *)
LEMMA FindKeeps ==
  ASSUME RefundInv, NEW c \in RefundCalls, FindPayment(c)
  PROVE  RefundInv'
<1>0. request[c].step = "locked"
  BY DEF FindPayment, At
<1>1. CASE RollbackRefund(c)
  BY <1>0, <1>1, RollbackKeeps
<1>2. CASE /\ paymentStatus[request[c].payment] = "succeeded"
           /\ Advance(c, "found") /\ UNCHANGED <<refundTables, rowLock, keyClaim>>
  <2>1. /\ request' \in [RefundCalls -> OpenRequest \cup {NoRequest}]
        /\ \A d \in RefundCalls \ {c} : request'[d] = request[d]
        /\ request'[c].step = "found" /\ request'[c].payment = request[c].payment
        /\ request'[c].key = request[c].key /\ request'[c].pending = request[c].pending
    BY <1>0, <1>2, AdvanceFields DEF Steps, RefundInv
  <2>2. Sound(c, request[c])'
    BY <1>0, <1>2, <2>1 DEF RefundInv, refundTables, Sound, Written, Holding, Claiming, InBalance, Granting
  <2>3. MovesOn(c)
    BY <1>2, <2>1, <2>2 DEF RefundInv, RefundTypeOK, MovesOn, refundTables
  <2>4. QED
    BY <2>3, MovesOnKeeps
<1>3. QED
  BY <1>1, <1>2 DEF FindPayment

(* The sum that was read cannot grow while the row is locked, so what is   *)
(* granted still fits.                                                     *)
LEMMA BalanceKeeps ==
  ASSUME RefundInv, NEW c \in RefundCalls, Balance(c)
  PROVE  RefundInv'
<1>0. /\ request[c].step = "found" /\ request[c] \in OpenRequest
      /\ request[c].payment \in Refundable /\ request[c].asked \in Nat \cup {NONE}
  BY OpenFields DEF RefundInv, Balance, At
<1>1. CASE RollbackRefund(c)
  BY <1>0, <1>1, RollbackKeeps
<1> DEFINE remaining == Amount[request[c].payment] - refunded[request[c].payment].sum
           amount == IF request[c].asked = NONE THEN remaining ELSE request[c].asked
<1>2. CASE /\ refunded[request[c].payment].sum < Amount[request[c].payment] /\ amount <= remaining
           /\ request' = [request EXCEPT ![c].step = "summed", ![c].amount = amount]
           /\ UNCHANGED <<refundTables, rowLock, keyClaim>>
  <2>1. /\ amount \in Nat
        /\ refunded[request[c].payment].sum + amount <= Amount[request[c].payment]
    BY <1>0, <1>2, RefundAssumption DEF RefundInv, RefundTypeOK
  <2> HIDE DEF amount
  <2>2. /\ request'[c] \in OpenRequest
        /\ request'[c].step = "summed" /\ request'[c].amount = amount
        /\ request'[c].payment = request[c].payment
        /\ request'[c].key = request[c].key /\ request'[c].pending = request[c].pending
    BY <1>0, <1>2, <2>1 DEF RefundInv, RefundTypeOK, OpenRequest, Steps
  <2>3. Sound(c, request[c])'
    <3>1. request'[c].pending = Written(request'[c])
      BY <1>0, <2>2 DEF RefundInv, Sound, Written
    <3>2. Sound(c, request[c]) /\ UNCHANGED <<rowLock, keyClaim, keyRow, paymentStatus, refunded>>
      BY <1>2 DEF RefundInv, refundTables
    <3>3. QED
      BY <1>0, <2>1, <2>2, <3>1, <3>2 DEF Sound, Holding, Claiming, InBalance, Granting
  <2>4. MovesOn(c)
    BY <1>2, <2>2, <2>3 DEF RefundInv, RefundTypeOK, MovesOn, refundTables
  <2>5. QED
    BY <2>4, MovesOnKeeps
<1>3. QED
  BY <1>1, <1>2 DEF Balance

(* An INSERT stays pending until the commit, with a key or without one.    *)
LEMMA WriteKeeps ==
  ASSUME RefundInv, NEW c \in RefundCalls,
         NEW from \in Granting, NEW to \in Granting, NEW w \in Writes, Write(c, from, to, w),
         Written([request[c] EXCEPT !.step = to]) = Written(request[c]) \cup {w}
  PROVE  RefundInv'
<1>0. request[c].step = from /\ request[c] \in OpenRequest
  BY OpenFields DEF RefundInv, Write, At, Granting, InBalance
<1> DEFINE r == [request[c] EXCEPT !.step = to]
<1>1. /\ request'[c] \in OpenRequest
      /\ request'[c].step = to /\ request'[c].amount = request[c].amount
      /\ request'[c].payment = request[c].payment /\ request'[c].key = request[c].key
      /\ request'[c].pending = request[c].pending \cup {w}
  <2>1. request[c].pending \cup {w} \in SUBSET Writes /\ to \in Steps \ {"idle"}
    BY <1>0 DEF OpenRequest, Steps, Granting, InBalance
  <2>2. request' = [request EXCEPT ![c].step = to, ![c].pending = @ \cup {w}]
    BY DEF Write, Transactional
  <2>3. QED
    BY <1>0, <2>1, <2>2 DEF RefundInv, RefundTypeOK, OpenRequest
<1>2. r.step = to /\ r.key = request[c].key
  BY <1>0 DEF OpenRequest
<1>3. Written(r) = request'[c].pending
  BY <1>0, <1>1 DEF RefundInv, Sound, Granting, InBalance
<1>4. Written(request'[c]) = Written(r)
  BY <1>1, <1>2 DEF Written
<1>5. Sound(c, request[c])'
  BY <1>0, <1>1, <1>3, <1>4
  DEF RefundInv, Write, Transactional, refundTables, Sound, Holding, Claiming, InBalance, Granting
<1>6. MovesOn(c)
  BY <1>1, <1>5 DEF RefundInv, RefundTypeOK, Write, Transactional, MovesOn, refundTables
<1>7. QED
  BY <1>6, MovesOnKeeps

LEMMA InsertsKeep ==
  ASSUME RefundInv, NEW c \in RefundCalls, InsertRefund(c) \/ PersistRefundEvent(c) \/ RecordAudit(c)
  PROVE  RefundInv'
<1>0. request[c] \in OpenRequest
  BY OpenFields DEF RefundInv, InsertRefund, PersistRefundEvent, RecordAudit, Write, At
<1>1. CASE InsertRefund(c)
  <2>1. Written([request[c] EXCEPT !.step = "inserted"]) = Written(request[c]) \cup {"refund"}
    BY <1>0, <1>1 DEF InsertRefund, Write, At, Written, OpenRequest
  <2>2. QED
    BY <1>1, <2>1, WriteKeeps DEF InsertRefund, Granting, InBalance, Writes
<1>2. CASE PersistRefundEvent(c)
  <2>1. Written([request[c] EXCEPT !.step = "persisted"]) = Written(request[c]) \cup {"event"}
    BY <1>0, <1>2 DEF PersistRefundEvent, Write, At, Written, OpenRequest
  <2>2. QED
    BY <1>2, <2>1, WriteKeeps DEF PersistRefundEvent, Granting, InBalance, Writes
<1>3. CASE RecordAudit(c)
  <2>1. Written([request[c] EXCEPT !.step = "recorded"]) = Written(request[c]) \cup {"audit"}
    BY <1>0, <1>3 DEF RecordAudit, Write, At, Written, OpenRequest
  <2>2. QED
    BY <1>3, <2>1, WriteKeeps DEF RecordAudit, Granting, InBalance, Writes
<1>4. QED
  BY <1>1, <1>2, <1>3

(* Only a keyed request has a response to store.                           *)
LEMMA StoreKeeps ==
  ASSUME RefundInv, NEW c \in RefundCalls, StoreRefundResponse(c)
  PROVE  RefundInv'
<1>0. request[c] \in OpenRequest /\ request[c].step = "recorded"
  BY OpenFields DEF RefundInv, StoreRefundResponse, At
<1>1. CASE request[c].key = NONE
  <2>1. /\ request' \in [RefundCalls -> OpenRequest \cup {NoRequest}]
        /\ \A d \in RefundCalls \ {c} : request'[d] = request[d]
        /\ request'[c].step = "stored" /\ request'[c].payment = request[c].payment
        /\ request'[c].key = request[c].key /\ request'[c].pending = request[c].pending
        /\ request'[c].amount = request[c].amount
    BY <1>0, <1>1, AdvanceFields DEF Steps, RefundInv, StoreRefundResponse
  <2>2. request'[c].pending = Written(request'[c])
    BY <1>0, <1>1, <2>1 DEF RefundInv, Sound, Written
  <2>3. Sound(c, request[c])'
    BY <1>0, <1>1, <2>1, <2>2
    DEF RefundInv, StoreRefundResponse, refundTables, Sound, Holding, Claiming, InBalance, Granting
  <2>4. MovesOn(c)
    BY <1>1, <2>1, <2>3 DEF RefundInv, RefundTypeOK, StoreRefundResponse, MovesOn, refundTables
  <2>5. QED
    BY <2>4, MovesOnKeeps
<1>2. CASE request[c].key # NONE
  <2>1. Written([request[c] EXCEPT !.step = "stored"]) = Written(request[c]) \cup {"record"}
    BY <1>0, <1>2 DEF Written, OpenRequest
  <2>2. QED
    BY <1>2, <2>1, WriteKeeps DEF StoreRefundResponse, Granting, InBalance, Writes
<1>3. QED
  BY <1>1, <1>2

--------------------------------------------------------------------------------
(* The commit *)

(* What the commit does to the tables: one refund with its event and its   *)
(* audit entry, and the record of a keyed request.                         *)
LEMMA CommitTables ==
  ASSUME RefundInv, NEW c \in RefundCalls, CommitRefund(c)
  PROVE  LET r == request[c]
             p == request[c].payment
         IN  /\ refunded' = [refunded EXCEPT ![p] = [sum |-> @.sum + r.amount, rows |-> @.rows + 1]]
             /\ trail' = [trail EXCEPT ![p] = [events |-> @.events + 1, entries |-> @.entries + 1]]
             /\ \A k \in Keys : /\ keyRow'[k] = IF k = r.key /\ r.key # NONE THEN p ELSE keyRow[k]
                                /\ keyRefunds'[k] = keyRefunds[k] + IF k = r.key THEN 1 ELSE 0
             /\ keyRow' \in [Keys -> Refundable \cup {NONE}] /\ keyRefunds' \in [Keys -> Nat]
<1>0. request[c] \in OpenRequest /\ request[c].step = "stored" /\ request[c].payment \in Refundable
  BY OpenFields DEF RefundInv, CommitRefund, At
<1>1. request[c].pending = {"refund", "event", "audit"} \cup (IF request[c].key # NONE THEN {"record"} ELSE {})
  BY <1>0 DEF RefundInv, Sound, Written
<1>2. /\ "refund" \in request[c].pending /\ "event" \in request[c].pending /\ "audit" \in request[c].pending
      /\ "record" \in request[c].pending <=> request[c].key # NONE
  BY <1>1
<1>3. /\ refunded \in [Refundable -> [sum : Nat, rows : Nat]]
      /\ trail \in [Refundable -> [events : Nat, entries : Nat]]
      /\ keyRow \in [Keys -> Refundable \cup {NONE}] /\ keyRefunds \in [Keys -> Nat] /\ request[c].amount \in Nat
  BY <1>0, OpenFields DEF RefundInv, RefundTypeOK
<1>4. refunded' = [refunded EXCEPT ![request[c].payment] = [sum |-> @.sum + request[c].amount, rows |-> @.rows + 1]]
  BY <1>0, <1>2, <1>3 DEF CommitRefund, ApplyWrites
<1>5. trail' = [trail EXCEPT ![request[c].payment] = [events |-> @.events + 1, entries |-> @.entries + 1]]
  BY <1>0, <1>2, <1>3 DEF CommitRefund, ApplyWrites
<1>6. /\ \A k \in Keys : keyRow'[k] = IF k = request[c].key /\ request[c].key # NONE
                                      THEN request[c].payment ELSE keyRow[k]
      /\ keyRow' \in [Keys -> Refundable \cup {NONE}]
  BY <1>0, <1>2, <1>3 DEF CommitRefund, ApplyWrites
<1>7. /\ \A k \in Keys : keyRefunds'[k] = keyRefunds[k] + IF k = request[c].key THEN 1 ELSE 0
      /\ keyRefunds' \in [Keys -> Nat]
  BY <1>0, <1>2, <1>3 DEF CommitRefund, ApplyWrites
<1>8. QED
  BY <1>4, <1>5, <1>6, <1>7

(* The granted amount still fits, and no other request holds the row or    *)
(* the key that the commit changes.                                        *)
LEMMA CommitKeeps ==
  ASSUME RefundInv, NEW c \in RefundCalls, CommitRefund(c)
  PROVE  RefundInv'
<1> DEFINE p == request[c].payment
<1> USE RefundAssumption
<1>0. /\ request[c] \in OpenRequest /\ request[c].step = "stored"
      /\ p \in Refundable /\ request[c].key \in Keys \cup {NONE} /\ request[c].amount \in Nat
  BY OpenFields DEF RefundInv, CommitRefund, At
<1>1. /\ refunded' = [refunded EXCEPT ![p] = [sum |-> @.sum + request[c].amount, rows |-> @.rows + 1]]
      /\ trail' = [trail EXCEPT ![p] = [events |-> @.events + 1, entries |-> @.entries + 1]]
      /\ \A k \in Keys : /\ keyRow'[k] = IF k = request[c].key /\ request[c].key # NONE THEN p ELSE keyRow[k]
                         /\ keyRefunds'[k] = keyRefunds[k] + IF k = request[c].key THEN 1 ELSE 0
      /\ keyRow' \in [Keys -> Refundable \cup {NONE}] /\ keyRefunds' \in [Keys -> Nat]
  BY CommitTables
<1>2. /\ request'[c].step = "answered" /\ request'[c].answer = p /\ request'[c].payment = p
      /\ request'[c].pending = {} /\ request'[c] \in OpenRequest
      /\ \A d \in RefundCalls \ {c} : request'[d] = request[d]
      /\ request' \in [RefundCalls -> OpenRequest \cup {NoRequest}]
  BY <1>0 DEF RefundInv, RefundTypeOK, CommitRefund, OpenRequest, Steps
<1>3. /\ rowLock[p] = c /\ paymentStatus[p] = "succeeded"
      /\ refunded[p].sum + request[c].amount <= Amount[p]
      /\ request[c].key # NONE => keyClaim[request[c].key] = c /\ keyRow[request[c].key] = NONE
  BY <1>0 DEF RefundInv, Sound, Holding, Claiming, InBalance, Granting
<1>4. /\ rowLock' \in [Refundable -> RefundCalls \cup {NONE}]
      /\ keyClaim' \in [Keys -> RefundCalls \cup {NONE}]
      /\ \A d \in RefundCalls \ {c} : /\ \A q \in Refundable : rowLock[q] = d => rowLock'[q] = d
                                      /\ \A k \in Keys : keyClaim[k] = d => keyClaim'[k] = d
  BY DEF RefundInv, RefundTypeOK, CommitRefund, ReleaseLocks
<1>5. UNCHANGED paymentStatus
  BY DEF CommitRefund
<1>6. /\ refunded' \in [Refundable -> [sum : Nat, rows : Nat]]
      /\ trail' \in [Refundable -> [events : Nat, entries : Nat]]
      /\ \A q \in Refundable \ {p} : refunded'[q] = refunded[q] /\ trail'[q] = trail[q]
      /\ refunded'[p].sum = refunded[p].sum + request[c].amount
      /\ refunded'[p].rows = refunded[p].rows + 1
      /\ trail'[p] = [events |-> trail[p].events + 1, entries |-> trail[p].entries + 1]
  BY <1>0, <1>1 DEF RefundInv, RefundTypeOK
<1>7. RefundTypeOK'
  BY <1>1, <1>2, <1>4, <1>5, <1>6 DEF RefundInv, RefundTypeOK
<1>8. RefundHasTrail'
  <2> SUFFICES ASSUME NEW q \in Refundable
               PROVE  trail'[q] = [events |-> refunded'[q].rows, entries |-> refunded'[q].rows]
    BY DEF RefundHasTrail
  <2>1. trail[q] = [events |-> refunded[q].rows, entries |-> refunded[q].rows]
    BY DEF RefundInv, RefundHasTrail
  <2>2. trail[q].events = refunded[q].rows /\ trail[q].entries = refunded[q].rows
    BY <2>1
  <2>3. CASE q = p
    BY <1>6, <2>2, <2>3
  <2>4. CASE q # p
    BY <1>6, <2>1, <2>4
  <2>5. QED
    BY <2>3, <2>4
<1>9. NeverOverRefunded'
  BY <1>0, <1>3, <1>5, <1>6 DEF RefundInv, NeverOverRefunded
<1>10. RecordInv'
  <2> SUFFICES ASSUME NEW k \in Keys
               PROVE  /\ keyRefunds'[k] = IF keyRow'[k] = NONE THEN 0 ELSE 1
                      /\ keyRow'[k] # NONE => refunded'[keyRow'[k]].rows > 0
    BY DEF RecordInv
  <2>1. refunded[p].rows \in Nat
    BY <1>0 DEF RefundInv, RefundTypeOK
  <2>2. CASE k = request[c].key
    BY <1>0, <1>1, <1>3, <1>6, <2>1, <2>2 DEF RefundInv, RecordInv
  <2>3. CASE k # request[c].key
    <3>1. keyRow'[k] = keyRow[k] /\ keyRefunds'[k] = keyRefunds[k]
      BY <1>1, <2>3 DEF RefundInv, RefundTypeOK
    <3>2. keyRow[k] # NONE => keyRow[k] \in Refundable /\ refunded[keyRow[k]].rows > 0
      BY DEF RefundInv, RecordInv, RefundTypeOK
    <3>3. keyRefunds[k] = IF keyRow[k] = NONE THEN 0 ELSE 1
      BY DEF RefundInv, RecordInv
    <3>4. keyRow[k] # NONE => refunded'[keyRow[k]].rows > 0
      BY <1>6, <2>1, <3>2
    <3>5. QED
      BY <3>1, <3>3, <3>4
  <2>4. QED
    BY <2>2, <2>3
<1>11. ASSUME NEW d \in RefundCalls
       PROVE  Sound(d, request[d])'
  <2>1. CASE d = c
    <3>1. refunded[p].rows \in Nat
      BY <1>0 DEF RefundInv, RefundTypeOK
    <3>2. QED
      BY <1>2, <1>6, <2>1, <3>1 DEF Sound, Written, Holding, Claiming, InBalance, Granting
  <2>2. CASE d # c /\ request[d].step = "idle"
    BY <1>2, <2>2 DEF Sound, Holding, Claiming, InBalance, Granting
  <2>3. CASE d # c /\ request[d].step # "idle"
    <3>1. /\ request'[d] = request[d] /\ Written(request[d])' = Written(request[d])
          /\ request[d].payment \in Refundable /\ request[d].key \in Keys \cup {NONE}
          /\ Sound(d, request[d])
      BY <1>2, <2>3, OpenFields DEF RefundInv, Written
    <3>2. request[d].step \in Holding => request[d].payment # p /\ rowLock'[request[d].payment] = d
      BY <1>3, <1>4, <2>3, <3>1 DEF Sound
    <3>3. request[d].step \in Claiming /\ request[d].key # NONE =>
            keyClaim'[request[d].key] = d /\ keyRow'[request[d].key] = NONE
      BY <1>1, <1>3, <1>4, <2>3, <3>1 DEF Sound
    <3>4. refunded[p].rows \in Nat
      BY <1>0 DEF RefundInv, RefundTypeOK
    <3>5. request[d].step = "answered" => refunded'[request[d].payment].rows > 0
      BY <1>6, <3>1, <3>4 DEF Sound
    <3>6. request[d].step \in Granting =>
            refunded'[request[d].payment].sum + request[d].amount <= Amount[request[d].payment]
      BY <1>6, <3>1, <3>2 DEF Sound, Granting, Holding
    <3>7. QED
      BY <1>5, <2>3, <3>1, <3>2, <3>3, <3>5, <3>6 DEF Sound
  <2>4. QED
    BY <2>1, <2>2, <2>3
<1>12. QED
  BY <1>7, <1>8, <1>9, <1>10, <1>11 DEF RefundInv

--------------------------------------------------------------------------------
(* Every step keeps the invariant.                                         *)
LEMMA RefundInvStep ==
  ASSUME RefundInv, [RefundNext]_refundVars
  PROVE  RefundInv'
<1>1. ASSUME NEW p \in Refundable, Settle(p),
             UNCHANGED <<rowLock, refunded, trail, keyRow, keyClaim, keyRefunds, request>>
      PROVE  RefundInv'
  BY <1>1, SettleKeeps
<1>2. ASSUME NEW c \in RefundCalls, NEW p \in Refundable, NEW key \in Keys \cup {NONE},
             NEW asked \in {NONE} \cup 1 .. Amount[p], CreateRefund(c, p, key, asked)
      PROVE  RefundInv'
  BY <1>2, CreateKeeps
<1>3. ASSUME NEW c \in RefundCalls, RefundStep(c)
      PROVE  RefundInv'
  <2>1. CASE Execute(c) \/ LockPayment(c) \/ FindPayment(c) \/ Balance(c)
    BY <2>1, ExecuteKeeps, LockKeeps, FindKeeps, BalanceKeeps
  <2>2. CASE InsertRefund(c) \/ PersistRefundEvent(c) \/ RecordAudit(c) \/ StoreRefundResponse(c)
    BY <2>2, InsertsKeep, StoreKeeps
  <2>3. CASE CommitRefund(c)
    BY <2>3, CommitKeeps
  <2>4. CASE AbortRefund(c)
    BY <2>4, RollbackKeeps DEF AbortRefund
  <2>5. QED
    BY <1>3, <2>1, <2>2, <2>3, <2>4 DEF RefundStep
<1>4. CASE UNCHANGED refundVars
  BY <1>4
  DEF refundVars, refundTables, RefundInv, RefundTypeOK, RecordInv, RefundHasTrail, NeverOverRefunded, Sound, Written
<1>5. QED
  BY <1>1, <1>2, <1>3, <1>4 DEF RefundNext

(* The invariant holds in every reachable state.                           *)
THEOREM RefundsInvariant == RefundSpec => []RefundInv
<1>1. RefundInit => RefundInv
  BY RefundInvInit
<1>2. RefundInv /\ [RefundNext]_refundVars => RefundInv'
  BY RefundInvStep
<1>3. QED
  BY <1>1, <1>2, PTL DEF RefundSpec

(* refunds.service.ts: whatever the amounts and the order of concurrent    *)
(* requests, the refunds of a payment never exceed it.                     *)
THEOREM NeverOverRefundedHolds == RefundSpec => []NeverOverRefunded
<1>1. RefundInv => NeverOverRefunded
  BY DEF RefundInv
<1>2. QED
  BY <1>1, RefundsInvariant, PTL

(* A refund, its event, its audit entry and the record of its key exist    *)
(* together or not at all, and a success names the payment asked for.      *)
THEOREM RefundAllOrNothingHolds == RefundSpec => []RefundAllOrNothing
<1>1. RefundInv => RefundAllOrNothing
  BY DEF RefundInv, RecordInv, Sound, RefundAllOrNothing, OneRefundPerKey, At
<1>2. QED
  BY <1>1, RefundsInvariant, PTL

================================================================================
