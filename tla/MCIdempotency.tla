----------------------------- MODULE MCIdempotency -----------------------------
(* Instances of Idempotency: three requests from an empty table, and three *)
(* more that meet the expired records left behind by r1, r2 and r6.        *)
EXTENDS Idempotency, TLC

CONSTANTS r1, r2, r3, r4, r5, r6, k1, k2, k3

SameKeyPair == r1 :> k1 @@ r2 :> k1 @@ r3 :> k2
Reuse == r1 :> k1 @@ r2 :> k2 @@ r3 :> k1 @@ r4 :> k2 @@ r5 :> k1 @@ r6 :> k3
Partitions == k1 :> "p" @@ k2 :> "p" @@ k3 :> "q"

(* A reachable state of Spec: the past requests executed at time 0, their  *)
(* records expire now, and nothing else has happened yet.                  *)
Past == {r1, r2, r6}

ExpiredInit ==
    /\ clock = Retention
    /\ table = [s \in Slots |-> CHOOSE row \in [id : Past, resp : Past, expires : {Retention}] :
                                    row.id = row.resp /\ SlotOf[row.id] = s]
    /\ pc = [r \in Requests |-> IF r \in Past THEN "done" ELSE "idle"]
    /\ now = [r \in Requests |-> 0]
    /\ attempt = [r \in Requests |-> 0]
    /\ found = [r \in Requests |-> NONE]
    /\ claim = [r \in Requests |-> NONE]
    /\ freed = [r \in Requests |-> {}]
    /\ answer = [r \in Requests |-> IF r \in Past THEN [kind |-> "executed", resp |-> r]
                                    ELSE NONE]
    /\ effects = {[req |-> r, at |-> 0, committed |-> 0] : r \in Past}

ReuseSpec == ExpiredInit /\ [][Next]_vars /\ Fairness
================================================================================
