-------------------------------- MODULE Refunds --------------------------------
(***************************************************************************)
(* RefundsService.create (apps/api/src/refunds/refunds.service.ts) on      *)
(* PostgreSQL at READ COMMITTED, one statement of a request per step.  The *)
(* refunds of a payment are kept as the sum of their minor units and their *)
(* number; payments settle by themselves (module Refundable has the detail), *)
(* and an idempotency key is its committed record and the claim in flight  *)
(* (module Idempotency).  Keys outlive the run.                            *)
(***************************************************************************)
EXTENDS Naturals, Absence

CONSTANTS Refundable,       \* payments of one project
          Amount,         \* minor units of each payment
          RefundCalls,    \* requests
          Keys            \* idempotency keys

ASSUME RefundAssumption == Amount \in [Refundable -> Nat \ {0}] /\ NONE \notin Refundable \cup RefundCalls \cup Keys

VARIABLES paymentStatus, \* status column of each payment
          rowLock,       \* the request that holds FOR UPDATE on a payment, or NONE
          refunded,      \* refunds of each payment: sum of amount_minor, rows
          trail,         \* refund.created events and audit entries of each payment
          keyRow,        \* idempotency record of each key: the payment of its response, or NONE
          keyClaim,      \* the request whose uncommitted claim holds the key, or NONE
          keyRefunds,    \* history: refunds committed under each key
          request        \* what each request has asked, read and written

refundTables == <<paymentStatus, refunded, trail, keyRow, keyRefunds>>
refundVars == <<refundTables, rowLock, keyClaim, request>>

Steps == {"idle", "retrieved", "open", "locked", "found", "summed", "inserted", "persisted",
          "recorded", "stored", "answered", "refused"}
Writes == {"refund", "event", "audit", "record"}
NoRequest == [step |-> "idle"]

OpenRequest ==
    [step : Steps \ {"idle"}, payment : Refundable, key : Keys \cup {NONE}, asked : Nat \cup {NONE},
     amount : Nat, pending : SUBSET Writes, answer : Refundable \cup {NONE}]

RefundTypeOK ==
    /\ paymentStatus \in [Refundable -> {"processing", "succeeded", "failed"}]
    /\ rowLock \in [Refundable -> RefundCalls \cup {NONE}]
    /\ refunded \in [Refundable -> [sum : Nat, rows : Nat]]
    /\ trail \in [Refundable -> [events : Nat, entries : Nat]]
    /\ keyRow \in [Keys -> Refundable \cup {NONE}]
    /\ keyClaim \in [Keys -> RefundCalls \cup {NONE}]
    /\ keyRefunds \in [Keys -> Nat]
    /\ request \in [RefundCalls -> OpenRequest \cup {NoRequest}]

RefundInit ==
    /\ paymentStatus = [p \in Refundable |-> "processing"]
    /\ rowLock = [p \in Refundable |-> NONE]
    /\ refunded = [p \in Refundable |-> [sum |-> 0, rows |-> 0]]
    /\ trail = [p \in Refundable |-> [events |-> 0, entries |-> 0]]
    /\ keyRow = [k \in Keys |-> NONE]
    /\ keyClaim = [k \in Keys |-> NONE]
    /\ keyRefunds = [k \in Keys |-> 0]
    /\ request = [c \in RefundCalls |-> NoRequest]

--------------------------------------------------------------------------------
(* Mutant: without a key every statement commits by itself.                *)
TransactionalUnkeyed(c) == request[c].key # NONE

Transactional(c) == TRUE

At(c, step) == request[c].step = step

Advance(c, step) == request' = [request EXCEPT ![c].step = step]

(* The writes W of request c become visible.                               *)
ApplyWrites(c, W) ==
    LET r == request[c]
        p == r.payment
        One(w) == IF w \in W THEN 1 ELSE 0
    IN
    /\ refunded' = [refunded EXCEPT ![p] =
          [sum |-> @.sum + (IF "refund" \in W THEN r.amount ELSE 0), rows |-> @.rows + One("refund")]]
    /\ trail' = [trail EXCEPT ![p] =
          [events |-> @.events + One("event"), entries |-> @.entries + One("audit")]]
    /\ keyRow' = [k \in Keys |-> IF k = r.key /\ "record" \in W THEN p ELSE keyRow[k]]
    /\ keyRefunds' = [k \in Keys |-> keyRefunds[k] + IF k = r.key THEN One("refund") ELSE 0]

(* One INSERT of the request: pending until the commit, or at once.        *)
Write(c, from, to, w) ==
    /\ At(c, from)
    /\ IF Transactional(c)
       THEN /\ request' = [request EXCEPT ![c].step = to, ![c].pending = @ \cup {w}]
            /\ UNCHANGED refundTables
       ELSE Advance(c, to) /\ ApplyWrites(c, {w}) /\ UNCHANGED paymentStatus
    /\ UNCHANGED <<rowLock, keyClaim>>

ReleaseLocks(c) ==
    /\ rowLock' = [p \in Refundable |-> IF rowLock[p] = c THEN NONE ELSE rowLock[p]]
    /\ keyClaim' = [k \in Keys |-> IF keyClaim[k] = c THEN NONE ELSE keyClaim[k]]

(* Any error rolls the transaction back.                                   *)
RollbackRefund(c) ==
    /\ request' = [request EXCEPT ![c].step = "refused", ![c].pending = {}]
    /\ ReleaseLocks(c) /\ UNCHANGED refundTables

--------------------------------------------------------------------------------
(* A pending edge falls due; its UPDATE waits for the lock of the row.     *)
Settle(p) ==
    /\ paymentStatus[p] = "processing" /\ rowLock[p] = NONE
    /\ \E s \in {"succeeded", "failed"} : paymentStatus' = [paymentStatus EXCEPT ![p] = s]

(* create() reads the payment first, which applies an edge that is due.    *)
CreateRefund(c, p, key, asked) ==
    /\ request[c] = NoRequest
    /\ request' = [request EXCEPT ![c] =
          [step |-> "retrieved", payment |-> p, key |-> key, asked |-> asked,
           amount |-> 0, pending |-> {}, answer |-> NONE]]
    /\ Settle(p) \/ UNCHANGED paymentStatus
    /\ UNCHANGED <<rowLock, refunded, trail, keyRow, keyClaim, keyRefunds>>

(* Mutant: the replay is not compared with the target of the request.      *)
ReplayValidAny(c, p) == TRUE

ValidateReplay(c, p) == p = request[c].payment

(* execute(): the transaction begins; a keyed one claims its key, waits    *)
(* for a claim in flight, and replays a committed response.                *)
Execute(c) ==
    LET k == request[c].key IN
    /\ At(c, "retrieved")
    /\ IF k = NONE
       THEN Advance(c, "open") /\ UNCHANGED keyClaim
       ELSE /\ keyClaim[k] = NONE
            /\ IF keyRow[k] = NONE
               THEN Advance(c, "open") /\ keyClaim' = [keyClaim EXCEPT ![k] = c]
               ELSE /\ request' = [request EXCEPT
                          ![c].step = IF ValidateReplay(c, keyRow[k]) THEN "answered" ELSE "refused",
                          ![c].answer = IF ValidateReplay(c, keyRow[k]) THEN keyRow[k] ELSE NONE]
                    /\ UNCHANGED keyClaim
    /\ UNCHANGED <<refundTables, rowLock>>

(* Mutant: the balance is read without the lock.                           *)
LockNothing(c) == At(c, "open") /\ Advance(c, "locked") /\ UNCHANGED <<refundTables, rowLock, keyClaim>>

(* SELECT ... FOR UPDATE waits for the other refunds of the payment.       *)
LockPayment(c) ==
    LET p == request[c].payment IN
    /\ At(c, "open") /\ rowLock[p] = NONE
    /\ rowLock' = [rowLock EXCEPT ![p] = c]
    /\ Advance(c, "locked")
    /\ UNCHANGED <<refundTables, keyClaim>>

FindPayment(c) ==
    /\ At(c, "locked")
    /\ IF paymentStatus[request[c].payment] = "succeeded"
       THEN Advance(c, "found") /\ UNCHANGED <<refundTables, rowLock, keyClaim>>
       ELSE RollbackRefund(c)

(* The aggregate over the committed refunds, and the amount to insert.     *)
Balance(c) ==
    LET r == request[c]
        remaining == Amount[r.payment] - refunded[r.payment].sum
        amount == IF r.asked = NONE THEN remaining ELSE r.asked
    IN
    /\ At(c, "found")
    /\ IF refunded[r.payment].sum < Amount[r.payment] /\ amount <= remaining
       THEN /\ request' = [request EXCEPT ![c].step = "summed", ![c].amount = amount]
            /\ UNCHANGED <<refundTables, rowLock, keyClaim>>
       ELSE RollbackRefund(c)

InsertRefund(c) == Write(c, "summed", "inserted", "refund")
PersistRefundEvent(c) == Write(c, "inserted", "persisted", "event")
RecordAudit(c) == Write(c, "persisted", "recorded", "audit")

(* A keyed request stores its response in the claimed record.              *)
StoreRefundResponse(c) ==
    /\ At(c, "recorded")
    /\ IF request[c].key = NONE
       THEN Advance(c, "stored") /\ UNCHANGED <<refundTables, rowLock, keyClaim>>
       ELSE Write(c, "recorded", "stored", "record")

CommitRefund(c) ==
    /\ At(c, "stored")
    /\ ApplyWrites(c, request[c].pending) /\ UNCHANGED paymentStatus
    /\ request' = [request EXCEPT ![c].step = "answered", ![c].answer = request[c].payment, ![c].pending = {}]
    /\ ReleaseLocks(c)

(* A statement fails, the connection is lost or the process dies.          *)
AbortRefund(c) == request[c].step \notin {"idle", "answered", "refused"} /\ RollbackRefund(c)

RefundStep(c) ==
    \/ Execute(c) \/ LockPayment(c) \/ FindPayment(c) \/ Balance(c) \/ InsertRefund(c)
    \/ PersistRefundEvent(c) \/ RecordAudit(c) \/ StoreRefundResponse(c) \/ CommitRefund(c) \/ AbortRefund(c)

RefundNext ==
    \/ \E p \in Refundable :
          Settle(p) /\ UNCHANGED <<rowLock, refunded, trail, keyRow, keyClaim, keyRefunds, request>>
    \/ \E c \in RefundCalls :
          \/ \E p \in Refundable, key \in Keys \cup {NONE} :
                \E asked \in {NONE} \cup 1 .. Amount[p] : CreateRefund(c, p, key, asked)
          \/ RefundStep(c)

RefundSpec == RefundInit /\ [][RefundNext]_refundVars

--------------------------------------------------------------------------------
(* Properties *)

(* However requests interleave, roll back and replay, the refunds of a     *)
(* payment never exceed its amount, and only a succeeded payment has any.  *)
NeverOverRefunded ==
    \A p \in Refundable :
        /\ refunded[p].sum <= Amount[p]
        /\ refunded[p].rows > 0 => paymentStatus[p] = "succeeded"

(* A refund exists if and only if its event and its audit entry exist,     *)
(* with a key or without one, whatever statement fails.                    *)
RefundHasTrail ==
    \A p \in Refundable :
        trail[p] = [events |-> refunded[p].rows, entries |-> refunded[p].rows]

(* A key stands for one refund, and every success that is answered under   *)
(* it is about the payment that was asked for.                             *)
OneRefundPerKey ==
    /\ \A k \in Keys : keyRefunds[k] = IF keyRow[k] = NONE THEN 0 ELSE 1
    /\ \A c \in RefundCalls :
          At(c, "answered") => /\ request[c].answer = request[c].payment
                               /\ refunded[request[c].payment].rows > 0

(* A retry finds what the first request left, all of it or nothing: the    *)
(* refund, its event, its audit entry and the record of its key are one.   *)
RefundAllOrNothing == RefundHasTrail /\ OneRefundPerKey
================================================================================
