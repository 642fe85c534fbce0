--------------------------- MODULE IdempotencyProofs ---------------------------
(***************************************************************************)
(* Proofs about Idempotency, for any number of requests, keys, retention   *)
(* window and clock bound.                                                 *)
(***************************************************************************)
EXTENDS Idempotency, TLAPS

Writing == {"run", "store", "prune"}

(* What is true of each request on its own.                                *)
RequestInv ==
    \A r \in Requests :
        /\ now[r] <= clock
        /\ pc[r] \in Writing <=> claim[r] # NONE
        /\ claim[r] # NONE => /\ claim[r].id = r
                              /\ claim[r].expires = now[r] + Retention
        /\ pc[r] = "prune" => claim[r].resp = r
        /\ freed[r] # {} => Open(r)
        /\ answer[r] # NONE <=> pc[r] = "done"
        /\ answer[r] # NONE => answer[r].kind # "in_progress"

(* What the locks give: who owns which row.                                *)
FreedInv ==
    \A r \in Requests : \A s \in freed[r] :
        Expired(table[s], now[r]) /\ PartitionOf[s] = PartitionOf[SlotOf[r]]

DisjointInv ==
    \A r, q \in Requests : r # q =>
        /\ freed[r] \cap freed[q] = {}
        /\ claim[r] # NONE /\ claim[q] # NONE => SlotOf[r] # SlotOf[q]

ClaimInv ==
    \A r \in Requests :
        claim[r] # NONE => Visible(r, SlotOf[r]) = NONE

(* A committed row stands for a committed execution, and an execution      *)
(* whose window is open has its row.                                       *)
RowInv ==
    \A s \in Slots : table[s] # NONE =>
        \E e \in effects : /\ e.req = table[s].resp
                           /\ SlotOf[e.req] = s
                           /\ e.at + Retention = table[s].expires

EffectInv ==
    \A e \in effects :
        /\ e.at <= e.committed /\ e.committed <= clock
        /\ \/ e.at + Retention <= clock
           \/ /\ table[SlotOf[e.req]] # NONE
              /\ table[SlotOf[e.req]].expires = e.at + Retention

IInv ==
    /\ TypeOK /\ RequestInv /\ FreedInv /\ DisjointInv /\ ClaimInv
    /\ RowInv /\ EffectInv
    /\ AtMostOncePerWindow /\ ReplayIsFaithful

--------------------------------------------------------------------------------
(* The shapes of a step *)

(* r goes on with its transaction and touches no row.                      *)
Continues(r) ==
    /\ pc[r] \in {"insert", "find", "free"}
    /\ \E l \in {"insert", "find", "free"} : Goto(r, l)
    /\ UNCHANGED <<clock, table, now, claim, freed, answer, effects>>

(* r deletes the expired row of slot s, which no other transaction has.    *)
Deletes(r, s) ==
    /\ pc[r] \in {"free", "prune"}
    /\ Expired(Visible(r, s), now[r])
    /\ Deleters(r, s) = {}
    /\ PartitionOf[s] = PartitionOf[SlotOf[r]]
    /\ freed' = [freed EXCEPT ![r] = @ \cup {s}]
    /\ Goto(r, IF pc[r] = "prune" THEN "prune" ELSE "insert")
    /\ UNCHANGED <<clock, table, now, claim, answer, effects>>

RollsBack(r) ==
    /\ Open(r)
    /\ \E k \in {"failed", "exhausted"} : Rollback(r, k)
    /\ UNCHANGED <<clock, now, effects>>

Replays(r) ==
    LET row == Visible(r, SlotOf[r]) IN
    /\ pc[r] = "find"
    /\ row # NONE /\ row.expires > now[r] /\ row.resp \in Requests
    /\ Finish(r, [kind |-> "replayed", resp |-> row.resp])
    /\ CommitRows(r)
    /\ UNCHANGED <<clock, now, effects>>

(* Two attempts at most precede the last, so the loop head is one of these *)
(* two steps; a record found is never without its response.                *)
LEMMA FindShape ==
  ASSUME TypeOK, RowInv, NEW r \in Requests, FindRecord(r)
  PROVE  Continues(r) \/ RollsBack(r) \/ Replays(r)
<1> DEFINE row == Visible(r, SlotOf[r])
<1> USE ConstantsAssumption, NoneAssumption DEF TypeOK
<1>1. CASE row = NONE /\ NextAttempt(r, freed[r])
  BY <1>1 DEF FindRecord, NextAttempt, Continues, RollsBack, Open, Goto
<1>2. CASE row # NONE /\ Replay(r, row)
  <2>1. SlotOf[r] \in Slots /\ row = table[SlotOf[r]]
    BY <1>2 DEF Visible
  <2>2. row.resp \in Requests
    BY <1>2, <2>1 DEF RowInv
  <2>3. QED
    BY <1>2, <2>2 DEF FindRecord, Replay, Replays
<1>3. CASE Expired(row, now[r]) /\ Goto(r, "free")
             /\ UNCHANGED <<table, attempt, claim, freed, answer>>
  BY <1>3 DEF FindRecord, Continues
<1>4. QED
  BY <1>1, <1>2, <1>3 DEF FindRecord

(* A release either deletes the expired row it found or deletes nothing,   *)
(* and then the loop is at its head again.                                 *)
LEMMA FreeShape ==
  ASSUME TypeOK, NEW r \in Requests, FreeExpired(r)
  PROVE  Continues(r) \/ RollsBack(r) \/ Deletes(r, SlotOf[r])
<1> USE ConstantsAssumption DEF TypeOK
<1>1. CASE attempt[r] + 1 < MaxClaimAttempts
  BY <1>1 DEF FreeExpired, Releases, NextAttempt, Continues, Deletes, Blockers, Goto
<1>2. CASE ~ (attempt[r] + 1 < MaxClaimAttempts)
  BY <1>2 DEF FreeExpired, Releases, NextAttempt, RollsBack, Open
<1>3. QED
  BY <1>1, <1>2

(* A prune step deletes one expired row of the partition.                  *)
LEMMA PruneShape ==
  ASSUME TypeOK, NEW r \in Requests, NEW s \in Slots, PruneExpired(r, s)
  PROVE  Deletes(r, s)
  BY DEF TypeOK, PruneExpired, Prunable, Deletes, Goto

(* An abort forgets the claim and the deletions and touches no row.        *)
LEMMA AbortShape ==
  ASSUME NEW r \in Requests, Abort(r)
  PROVE  RollsBack(r)
  BY DEF Abort, RollsBack

--------------------------------------------------------------------------------
(* Type correctness *)

(* The initial state is well typed.                                        *)
LEMMA TypeInit == Init => TypeOK
  BY ConstantsAssumption DEF Init, TypeOK, PCs, MaxClaimAttempts

(* What a commit leaves in the table are rows again.                       *)
LEMMA CommitType ==
  ASSUME TypeOK, NEW r \in Requests, CommitRows(r)
  PROVE  table' \in [Slots -> Row \cup {NONE}]
<1>1. \A s \in Slots : (IF s = SlotOf[r] /\ claim[r] # NONE THEN claim[r]
                       ELSE Visible(r, s)) \in Row \cup {NONE}
  BY DEF TypeOK, Visible
<1>2. QED
  BY <1>1 DEF CommitRows

(* Every statement keeps the types.                                        *)
LEMMA TypeStep ==
  ASSUME TypeOK, RequestInv, RowInv, [Next]_vars
  PROVE  TypeOK'
<1> USE ConstantsAssumption, NoneAssumption DEF TypeOK, PCs, MaxClaimAttempts, Goto
<1>1. CASE Tick
  BY <1>1 DEF Tick
<1>2. CASE UNCHANGED vars
  BY <1>2 DEF vars
<1>3. ASSUME NEW r \in Requests, Begin(r)
      PROVE  TypeOK'
  BY <1>3 DEF Begin
<1>4. ASSUME NEW r \in Requests, InsertClaim(r)
      PROVE  TypeOK'
  <2>1. [id |-> r, resp |-> NONE, expires |-> now[r] + Retention] \in Row
    BY DEF Row
  <2>2. QED
    BY <1>4, <2>1 DEF InsertClaim, ClaimedRow
<1>5. ASSUME NEW r \in Requests, FindRecord(r)
      PROVE  TypeOK'
  <2>1. /\ attempt' \in [Requests -> 0 .. 2] /\ clock' = clock /\ now' = now
        /\ effects' = effects
    BY <1>5 DEF FindRecord, NextAttempt, Replay
  <2>2. found' \in [Requests -> Requests \cup {NONE}]
    <3>1. table[SlotOf[r]] \in Row \cup {NONE}
      OBVIOUS
    <3>2. Visible(r, SlotOf[r]) # NONE => Visible(r, SlotOf[r]).id \in Requests
      BY <3>1 DEF Visible, Row
    <3>3. QED
      BY <1>5, <3>2 DEF FindRecord, Replay, Expired
  <2>3. CASE Continues(r)
    BY <2>1, <2>2, <2>3 DEF Continues
  <2>4. CASE RollsBack(r)
    BY <2>1, <2>2, <2>4 DEF RollsBack, Rollback, Finish, Answers
  <2>5. CASE Replays(r)
    <3>1. table' \in [Slots -> Row \cup {NONE}]
      BY <2>5, CommitType DEF Replays
    <3>2. answer' \in [Requests -> Answers \cup {NONE}]
      <4>1. [kind |-> "replayed", resp |-> Visible(r, SlotOf[r]).resp] \in Answers
        BY <2>5 DEF Replays, Answers
      <4>2. QED
        BY <2>5, <4>1 DEF Replays, Finish
    <3>3. QED
      BY <2>1, <2>2, <2>5, <3>1, <3>2 DEF Replays, Finish
  <2>6. QED
    BY <1>5, <2>3, <2>4, <2>5, FindShape
<1>6. ASSUME NEW r \in Requests, FreeExpired(r)
      PROVE  TypeOK'
  <2>1. /\ attempt' \in [Requests -> 0 .. 2] /\ clock' = clock /\ now' = now
        /\ effects' = effects /\ found' = found
    BY <1>6 DEF FreeExpired, Releases, NextAttempt
  <2>2. CASE Continues(r)
    BY <2>1, <2>2 DEF Continues
  <2>3. CASE RollsBack(r)
    BY <2>1, <2>3 DEF RollsBack, Rollback, Finish, Answers
  <2>4. CASE Deletes(r, SlotOf[r])
    BY <2>1, <2>4 DEF Deletes
  <2>5. QED
    BY <1>6, <2>2, <2>3, <2>4, FreeShape
<1>7. ASSUME NEW r \in Requests, Run(r)
      PROVE  TypeOK'
  BY <1>7 DEF Run
<1>8. ASSUME NEW r \in Requests, StoreResponse(r)
      PROVE  TypeOK'
  <2>1. claim[r] \in Row
    BY <1>8 DEF StoreResponse, RequestInv, Writing
  <2>2. [id |-> claim[r].id, resp |-> r, expires |-> claim[r].expires] \in Row
    BY <2>1 DEF Row
  <2>3. QED
    BY <1>8, <2>2 DEF StoreResponse
<1>9. ASSUME NEW r \in Requests, NEW s \in Slots, PruneExpired(r, s)
      PROVE  TypeOK'
  BY <1>9 DEF PruneExpired
<1>10. ASSUME NEW r \in Requests, Commit(r)
       PROVE  TypeOK'
  <2>1. [kind |-> "executed", resp |-> r] \in Answers
    BY DEF Answers
  <2>2. effects' \subseteq [req : Requests, at : Nat, committed : Nat]
    BY <1>10 DEF Commit
  <2>3. table' \in [Slots -> Row \cup {NONE}]
    BY <1>10, CommitType DEF Commit
  <2>4. QED
    BY <1>10, <2>1, <2>2, <2>3 DEF Commit, Finish
<1>11. ASSUME NEW r \in Requests, Abort(r)
       PROVE  TypeOK'
  BY <1>11 DEF Abort, Rollback, Finish, Answers
<1>12. QED
  BY <1>1, <1>2, <1>3, <1>4, <1>5, <1>6, <1>7, <1>8, <1>9, <1>10, <1>11
     DEF Next, Step, Terminated

--------------------------------------------------------------------------------
(* The conjuncts of the invariant, one lemma for each group of them *)

(* Every step is one of the shapes named above.                            *)
LEMMA StepShapes ==
  ASSUME TypeOK, RowInv, [Next]_vars
  PROVE  \/ Tick \/ UNCHANGED vars
         \/ \E r \in Requests :
                \/ Begin(r) \/ InsertClaim(r) \/ Continues(r) \/ Run(r) \/ StoreResponse(r)
                \/ \E s \in Slots : Deletes(r, s)
                \/ RollsBack(r) \/ Replays(r) \/ Commit(r)
<1>1. \A r \in Requests : SlotOf[r] \in Slots
  BY ConstantsAssumption
<1>2. QED
  BY <1>1, FindShape, FreeShape, PruneShape, AbortShape DEF Next, Step, Terminated

(* What a request knows of itself at each statement stays true.            *)
LEMMA RequestStep ==
  ASSUME TypeOK, RequestInv, RowInv, [Next]_vars
  PROVE  RequestInv'
<1> USE NoneAssumption DEF TypeOK, RequestInv, Writing, Open, Goto
<1>1. CASE Tick
  BY <1>1 DEF Tick
<1>2. CASE UNCHANGED vars
  BY <1>2 DEF vars
<1>3. ASSUME NEW r \in Requests, Begin(r)
      PROVE  RequestInv'
  BY <1>3 DEF Begin
<1>4. ASSUME NEW r \in Requests, InsertClaim(r)
      PROVE  RequestInv'
  <2>1. [id |-> r, resp |-> NONE, expires |-> now[r] + Retention] # NONE
    BY ConstantsAssumption DEF Row
  <2>2. QED
    BY <1>4, <2>1 DEF InsertClaim, ClaimedRow
<1>5. ASSUME NEW r \in Requests, Continues(r)
      PROVE  RequestInv'
  BY <1>5 DEF Continues
<1>6. ASSUME NEW r \in Requests, Run(r)
      PROVE  RequestInv'
  BY <1>6 DEF Run
<1>7. ASSUME NEW r \in Requests, StoreResponse(r)
      PROVE  RequestInv'
  <2>1. claim[r] \in Row
    BY <1>7 DEF StoreResponse
  <2>2. [id |-> claim[r].id, resp |-> r, expires |-> claim[r].expires] # NONE
    BY <2>1 DEF Row
  <2>3. QED
    BY <1>7, <2>2 DEF StoreResponse
<1>8. ASSUME NEW r \in Requests, NEW s \in Slots, Deletes(r, s)
      PROVE  RequestInv'
  BY <1>8 DEF Deletes
<1>9. ASSUME NEW r \in Requests, RollsBack(r)
      PROVE  RequestInv'
  BY <1>9 DEF RollsBack, Rollback, Finish, Answers
<1>10. ASSUME NEW r \in Requests, Replays(r)
       PROVE  RequestInv'
  BY <1>10 DEF Replays, Finish, Answers
<1>11. ASSUME NEW r \in Requests, Commit(r)
       PROVE  RequestInv'
  BY <1>11 DEF Commit, Finish, Answers
<1>12. QED
  BY <1>1, <1>2, <1>3, <1>4, <1>5, <1>6, <1>7, <1>8, <1>9, <1>10, <1>11, StepShapes

(* Own rows stay own rows: no two open transactions delete or insert at    *)
(* the same slot.                                                          *)
LEMMA LockStep ==
  ASSUME TypeOK, RequestInv, FreedInv, DisjointInv, ClaimInv, RowInv, [Next]_vars
  PROVE  FreedInv' /\ DisjointInv' /\ ClaimInv'
<1> USE ConstantsAssumption, NoneAssumption
    DEF TypeOK, FreedInv, DisjointInv, ClaimInv, Expired, Visible
<1>1. CASE UNCHANGED <<table, now, claim, freed>>
  BY <1>1
<1>2. ASSUME NEW r \in Requests, Begin(r)
      PROVE  FreedInv' /\ DisjointInv' /\ ClaimInv'
  BY <1>2 DEF Begin, RequestInv, Open
<1>3. ASSUME NEW r \in Requests, InsertClaim(r)
      PROVE  FreedInv' /\ DisjointInv' /\ ClaimInv'
  BY <1>3 DEF InsertClaim, ClaimedRow, Blockers, Inserters, Deleters
<1>4. ASSUME NEW r \in Requests, StoreResponse(r)
      PROVE  FreedInv' /\ DisjointInv' /\ ClaimInv'
  BY <1>4 DEF StoreResponse, RequestInv, Writing
<1>5. ASSUME NEW r \in Requests, NEW s \in Slots, Deletes(r, s)
      PROVE  FreedInv' /\ DisjointInv' /\ ClaimInv'
  BY <1>5 DEF Deletes, Deleters
<1>6. ASSUME NEW r \in Requests, RollsBack(r)
      PROVE  FreedInv' /\ DisjointInv' /\ ClaimInv'
  BY <1>6 DEF RollsBack, Rollback, Finish
<1>7. ASSUME NEW r \in Requests, CommitRows(r), UNCHANGED now,
             claim' = [claim EXCEPT ![r] = NONE], freed' = [freed EXCEPT ![r] = {}]
      PROVE  FreedInv' /\ DisjointInv' /\ ClaimInv'
  <2>1. FreedInv'
    <3> SUFFICES ASSUME NEW q \in Requests, NEW s \in freed'[q]
                 PROVE  Expired(table'[s], now'[q]) /\ PartitionOf[s] = PartitionOf[SlotOf[q]]
      OBVIOUS
    <3>1. q # r /\ s \in freed[q] /\ s \notin freed[r] /\ s \in Slots
      BY <1>7
    <3>2. table[s] # NONE
      BY <3>1
    <3>3. table'[s] = table[s]
      BY <1>7, <3>1, <3>2 DEF CommitRows
    <3>4. QED
      BY <1>7, <3>1, <3>3
  <2>2. DisjointInv'
    BY <1>7
  <2>3. ClaimInv'
    <3> SUFFICES ASSUME NEW q \in Requests, claim'[q] # NONE
                 PROVE  Visible(q, SlotOf[q])' = NONE
      OBVIOUS
    <3>1. q # r /\ claim[q] # NONE /\ SlotOf[q] \in Slots
      BY <1>7
    <3>2. table'[SlotOf[q]] = Visible(r, SlotOf[q])
      BY <1>7, <3>1 DEF CommitRows
    <3>3. QED
      BY <1>7, <3>1, <3>2
  <2>4. QED
    BY <2>1, <2>2, <2>3
<1>8. ASSUME NEW r \in Requests, Replays(r) \/ Commit(r)
      PROVE  FreedInv' /\ DisjointInv' /\ ClaimInv'
  BY <1>7, <1>8 DEF Replays, Commit, Finish
<1>9. QED
  BY <1>1, <1>2, <1>3, <1>4, <1>5, <1>6, <1>8, StepShapes DEF Tick, vars, Continues, Run

(* The rows after a commit, seen from a slot.                              *)
LEMMA CommitSlot ==
  ASSUME TypeOK, FreedInv, ClaimInv, NEW r \in Requests, CommitRows(r), NEW s \in Slots
  PROVE  \/ table'[s] = table[s]
         \/ /\ table[s] # NONE => table[s].expires <= now[r]
            /\ \/ table'[s] = NONE
               \/ s = SlotOf[r] /\ claim[r] # NONE /\ table'[s] = claim[r]
  BY ConstantsAssumption DEF CommitRows, TypeOK, FreedInv, ClaimInv, Visible, Expired

(* Every committed row is the row of its execution, and a slot that holds  *)
(* a row holds that of its last execution.                                 *)
LEMMA RowStep ==
  ASSUME TypeOK, RequestInv, FreedInv, ClaimInv, RowInv, EffectInv, [Next]_vars
  PROVE  RowInv' /\ EffectInv'
<1> USE ConstantsAssumption, NoneAssumption DEF TypeOK
<1>1. CASE UNCHANGED <<table, effects>> /\ clock <= clock' /\ clock' \in Nat
  BY <1>1 DEF RowInv, EffectInv
<1>2. ASSUME NEW r \in Requests, Replays(r)
      PROVE  RowInv' /\ EffectInv'
  <2>1. claim[r] = NONE /\ now[r] <= clock
    BY <1>2 DEF Replays, RequestInv, Writing
  <2>2. \A s \in Slots : \/ table'[s] = table[s]
                         \/ /\ table'[s] = NONE
                            /\ table[s] # NONE => table[s].expires <= clock
    BY <1>2, <2>1, CommitSlot DEF Replays, Row
  <2>3. RowInv'
    BY <1>2, <2>2 DEF RowInv, Replays
  <2>4. EffectInv'
    BY <1>2, <2>2 DEF EffectInv, Replays
  <2>5. QED
    BY <2>3, <2>4
<1>3. ASSUME NEW r \in Requests, Commit(r)
      PROVE  RowInv' /\ EffectInv'
  <2> DEFINE f == [req |-> r, at |-> now[r], committed |-> clock]
  <2>1. /\ claim[r] # NONE /\ now[r] <= clock
        /\ claim[r].resp = r /\ claim[r].expires = now[r] + Retention
    BY <1>3 DEF Commit, RequestInv, Writing
  <2>2. effects' = effects \cup {f} /\ clock' = clock
    BY <1>3 DEF Commit
  <2>3. \A s \in Slots :
           \/ table'[s] = table[s] /\ s # SlotOf[r]
           \/ /\ table[s] # NONE => table[s].expires <= clock
              /\ table'[s] = IF s = SlotOf[r] THEN claim[r] ELSE NONE
    BY <1>3, <2>1 DEF Commit, CommitRows, FreedInv, ClaimInv, Visible, Expired, Row
  <2>4. RowInv'
    <3> SUFFICES ASSUME NEW s \in Slots, table'[s] # NONE
                 PROVE  \E e \in effects' : /\ e.req = table'[s].resp
                                            /\ SlotOf[e.req] = s
                                            /\ e.at + Retention = table'[s].expires
      BY DEF RowInv
    <3>1. CASE table'[s] = table[s]
      <4>1. PICK e \in effects : /\ e.req = table[s].resp /\ SlotOf[e.req] = s
                                 /\ e.at + Retention = table[s].expires
        BY <3>1 DEF RowInv
      <4>2. QED
        BY <2>2, <3>1, <4>1
    <3>2. CASE s = SlotOf[r] /\ table'[s] = claim[r]
      <4>1. f \in effects' /\ f.req = r /\ f.at = now[r]
        BY <2>2
      <4>2. QED
        BY <2>1, <3>2, <4>1
    <3>3. QED
      BY <2>3, <3>1, <3>2
  <2>5. EffectInv'
    <3> SUFFICES ASSUME NEW e \in effects'
                 PROVE  /\ e.at <= e.committed /\ e.committed <= clock'
                        /\ \/ e.at + Retention <= clock'
                           \/ /\ table'[SlotOf[e.req]] # NONE
                              /\ table'[SlotOf[e.req]].expires = e.at + Retention
      BY DEF EffectInv
    <3>1. CASE e = f
      BY <2>1, <2>2, <2>3, <3>1
    <3>2. CASE e \in effects
      <4>1. SlotOf[e.req] \in Slots
        BY <3>2
      <4>2. QED
        BY <2>2, <2>3, <3>2, <4>1 DEF EffectInv
    <3>3. QED
      BY <2>2, <3>1, <3>2
  <2>6. QED
    BY <2>4, <2>5
<1>4. QED
  BY <1>1, <1>2, <1>3, StepShapes
     DEF Tick, vars, Begin, InsertClaim, ClaimedRow, Continues, Run, StoreResponse, Deletes, RollsBack, Rollback

(* Executions of one slot stay apart, and replays stay backed by one.      *)
LEMMA HistoryStep ==
  ASSUME TypeOK, RequestInv, FreedInv, ClaimInv, RowInv, EffectInv,
         AtMostOncePerWindow, ReplayIsFaithful, [Next]_vars
  PROVE  AtMostOncePerWindow' /\ ReplayIsFaithful'
<1> USE ConstantsAssumption, NoneAssumption
<1>1. CASE UNCHANGED <<effects, answer>> /\ \A r \in Requests : answer[r] # NONE => now'[r] = now[r]
  BY <1>1 DEF AtMostOncePerWindow, ReplayIsFaithful
<1>2. ASSUME NEW r \in Requests, RollsBack(r)
      PROVE  AtMostOncePerWindow' /\ ReplayIsFaithful'
  BY <1>2 DEF AtMostOncePerWindow, ReplayIsFaithful, RollsBack, Rollback, Finish, TypeOK
<1>3. ASSUME NEW r \in Requests, Replays(r)
      PROVE  AtMostOncePerWindow' /\ ReplayIsFaithful'
  <2>1. AtMostOncePerWindow'
    BY <1>3 DEF Replays, AtMostOncePerWindow
  <2>2. PICK e \in effects : /\ e.req = Visible(r, SlotOf[r]).resp
                             /\ SlotOf[e.req] = SlotOf[r]
                             /\ e.at + Retention > now[r]
    BY <1>3 DEF Replays, RowInv, Visible
  <2>3. /\ effects' = effects /\ now' = now
        /\ answer' = [answer EXCEPT ![r] = [kind |-> "replayed",
                                            resp |-> Visible(r, SlotOf[r]).resp]]
    BY <1>3 DEF Replays, Finish
  <2>4. ReplayIsFaithful'
    BY <2>2, <2>3 DEF ReplayIsFaithful, TypeOK
  <2>5. QED
    BY <2>1, <2>4
<1>4. ASSUME NEW r \in Requests, Commit(r)
      PROVE  AtMostOncePerWindow' /\ ReplayIsFaithful'
  <2> DEFINE f == [req |-> r, at |-> now[r], committed |-> clock]
  <2>1. /\ effects' = effects \cup {f} /\ now' = now
        /\ answer' = [answer EXCEPT ![r] = [kind |-> "executed", resp |-> r]]
    BY <1>4 DEF Commit, Finish
  <2>2. \A e \in effects : SlotOf[e.req] = SlotOf[r] => f.committed >= e.at + Retention
    <3> SUFFICES ASSUME NEW e \in effects, SlotOf[e.req] = SlotOf[r],
                        ~ (e.at + Retention <= clock)
                 PROVE  FALSE
      BY DEF TypeOK
    <3>1. claim[r] # NONE /\ now[r] <= clock
      BY <1>4 DEF Commit, RequestInv, Writing
    <3>2. /\ table[SlotOf[r]] # NONE
          /\ table[SlotOf[r]].expires = e.at + Retention
      BY DEF EffectInv
    <3>3. table[SlotOf[r]].expires <= now[r]
      BY <3>1, <3>2 DEF ClaimInv, FreedInv, Visible, Expired
    <3>4. QED
      BY <3>1, <3>2, <3>3 DEF TypeOK
  <2>3. AtMostOncePerWindow'
    BY <2>1, <2>2 DEF AtMostOncePerWindow
  <2>4. ReplayIsFaithful'
    BY <2>1 DEF ReplayIsFaithful, TypeOK
  <2>5. QED
    BY <2>3, <2>4
<1>5. ASSUME NEW r \in Requests, Begin(r)
      PROVE  AtMostOncePerWindow' /\ ReplayIsFaithful'
  <2>1. answer[r] = NONE
    BY <1>5 DEF Begin, RequestInv
  <2>2. QED
    BY <1>1, <1>5, <2>1 DEF Begin, TypeOK
<1>6. QED
  BY <1>1, <1>2, <1>3, <1>4, <1>5, StepShapes
     DEF Tick, vars, InsertClaim, ClaimedRow, Continues, Run, StoreResponse, Deletes
--------------------------------------------------------------------------------
(* The invariant and what follows from it *)

(* The invariant holds before the first request.                           *)
LEMMA Initially == Init => IInv
<1> SUFFICES ASSUME Init PROVE IInv
  OBVIOUS
<1>1. TypeOK
  BY TypeInit
<1>2. RequestInv
  BY ConstantsAssumption DEF Init, RequestInv, Writing, Open
<1>3. FreedInv /\ DisjointInv /\ ClaimInv /\ RowInv /\ EffectInv
  BY ConstantsAssumption
     DEF Init, FreedInv, DisjointInv, ClaimInv, RowInv, EffectInv, Visible
<1>4. AtMostOncePerWindow /\ ReplayIsFaithful
  BY DEF Init, AtMostOncePerWindow, ReplayIsFaithful
<1>5. QED
  BY <1>1, <1>2, <1>3, <1>4 DEF IInv

(* The invariant is inductive.                                             *)
LEMMA Inductive == IInv /\ [Next]_vars => IInv'
  BY TypeStep, RequestStep, LockStep, RowStep, HistoryStep DEF IInv

(* The inductive invariant holds in every execution: what each open        *)
(* transaction owns, how rows and executions correspond, and how far apart *)
(* the executions of one slot are.                                         *)
THEOREM Invariance == Spec => []IInv
<1>1. QED
  BY Initially, Inductive, PTL DEF Spec

(* Every variable of execute() and claim() keeps its type in every         *)
(* execution: in particular claim() never counts a fourth attempt.         *)
THEOREM TypeCorrect == Spec => []TypeOK
<1>1. IInv => TypeOK
  BY DEF IInv
<1>2. QED
  BY <1>1, Invariance, PTL

(* However many requests contend for a key, and whatever is released,      *)
(* pruned, aborted or replayed meanwhile, two executions of one (project,  *)
(* scope, key) are never closer than the retention window.                 *)
THEOREM AtMostOnce == Spec => []AtMostOncePerWindow
<1>1. IInv => AtMostOncePerWindow
  BY DEF IInv
<1>2. QED
  BY <1>1, Invariance, PTL

(* A replayed response always is that of a committed execution of the same *)
(* slot, retained when the request was received.                           *)
THEOREM FaithfulReplay == Spec => []ReplayIsFaithful
<1>1. IInv => ReplayIsFaithful
  BY DEF IInv
<1>2. QED
  BY <1>1, Invariance, PTL

(* The "Unreachable" comment of replay(): no committed record is without   *)
(* its response, and nobody is told that the operation is in progress.     *)
THEOREM RecordsCarryResponse == Spec => []CommittedCarriesResponse
<1>1. IInv => CommittedCarriesResponse
  BY NoneAssumption DEF IInv, TypeOK, RowInv, RequestInv, CommittedCarriesResponse
<1>2. QED
  BY <1>1, Invariance, PTL

(* A commit removes a committed record of another execution only after its *)
(* window, and never one of another project or operation scope.            *)
THEOREM OnlyExpiredRemoved == Spec => OnlyExpiredRowsRemoved
<1> DEFINE Safe == \A s \in Slots :
                      table[s] # NONE /\ table'[s] # table[s] =>
                          /\ table[s].expires <= clock
                          /\ \E r \in Requests : /\ pc[r] # "done" /\ pc'[r] = "done"
                                                 /\ PartitionOf[SlotOf[r]] = PartitionOf[s]
<1>1. IInv /\ [Next]_vars => [Safe]_vars
  <2> SUFFICES ASSUME IInv, [Next]_vars PROVE Safe
    OBVIOUS
  <2> USE DEF IInv
  <2>1. CASE UNCHANGED table
    BY <2>1
  <2>2. ASSUME NEW r \in Requests, CommitRows(r), Open(r), Goto(r, "done")
        PROVE  Safe
    <3> SUFFICES ASSUME NEW s \in Slots, table[s] # NONE, table'[s] # table[s]
                 PROVE  /\ table[s].expires <= clock
                        /\ PartitionOf[SlotOf[r]] = PartitionOf[s]
                        /\ pc[r] # "done" /\ pc'[r] = "done"
      OBVIOUS
    <3>1. s \in freed[r]
      BY <2>2, ConstantsAssumption DEF CommitRows, ClaimInv, Visible
    <3>2. table[s].expires <= now[r] /\ PartitionOf[s] = PartitionOf[SlotOf[r]]
      BY <3>1 DEF FreedInv, Expired
    <3>3. table[s].expires \in Nat /\ now[r] \in Nat /\ clock \in Nat /\ now[r] <= clock
      BY DEF TypeOK, Row, RequestInv
    <3>4. QED
      BY <2>2, <3>2, <3>3 DEF Open, Goto, TypeOK
  <2>3. ASSUME NEW r \in Requests, Replays(r) \/ Commit(r)
        PROVE  Safe
    BY <2>2, <2>3 DEF Replays, Commit, Finish, Open
  <2>4. QED
    BY <2>1, <2>3, StepShapes
       DEF Tick, vars, Begin, InsertClaim, ClaimedRow, Continues, Run, StoreResponse, Deletes,
           RollsBack, Rollback
<1>2. QED
  BY <1>1, Invariance, PTL DEF Spec, OnlyExpiredRowsRemoved

--------------------------------------------------------------------------------
(* The detailed specification implements the contract *)

startedMap == [r \in Requests |-> IF pc[r] = "idle" THEN NONE ELSE now[r]]

outcomeMap ==
    [r \in Requests |-> IF answer[r] = NONE THEN NONE
                       ELSE IF answer[r].kind \in {"executed", "replayed"}
                            THEN answer[r].resp ELSE "error"]

(* The empty table is the initial state of the contract.                   *)
LEMMA InitRefines == Init => Contract!Init
  BY DEF Init, Contract!Init

(* What a step by r does to the outcomes the contract sees.                *)
LEMMA AnswerMaps ==
  ASSUME TypeOK, RequestInv, NEW r \in Requests, Open(r), NEW a \in Answers, Finish(r, a),
         UNCHANGED now
  PROVE  /\ startedMap' = startedMap
         /\ startedMap[r] = now[r] /\ startedMap[r] # NONE /\ outcomeMap[r] = NONE
         /\ outcomeMap' = [outcomeMap EXCEPT ![r] =
                             IF a.kind \in {"executed", "replayed"} THEN a.resp ELSE "error"]
<1> USE NoneAssumption DEF TypeOK, RequestInv, Open, Finish, Goto
<1>1. startedMap' = startedMap
  BY DEF startedMap
<1>2. startedMap[r] = now[r] /\ startedMap[r] # NONE /\ outcomeMap[r] = NONE
  BY DEF startedMap, outcomeMap
<1>3. \A q \in Requests : answer'[q] = IF q = r THEN a ELSE answer[q]
  OBVIOUS
<1>4. a # NONE
  OBVIOUS
<1>5. outcomeMap' = [outcomeMap EXCEPT ![r] =
                        IF a.kind \in {"executed", "replayed"} THEN a.resp ELSE "error"]
  BY <1>3, <1>4 DEF outcomeMap
<1>6. QED
  BY <1>1, <1>2, <1>5

(* Every statement is a step of the contract, or none.                     *)
LEMMA StepRefines ==
  ASSUME IInv, [Next]_vars
  PROVE  [Contract!Next]_(Contract!contractVars)
<1> USE DEF IInv
<1>1. CASE UNCHANGED <<clock, effects, answer>> /\ startedMap' = startedMap
  BY <1>1 DEF startedMap, Contract!contractVars
<1>2. CASE Tick
  BY <1>2 DEF Tick, Contract!Next, Contract!Tick
<1>3. ASSUME NEW r \in Requests, Begin(r)
      PROVE  Contract!Receive(r)
  BY <1>3 DEF Begin, Contract!Receive, TypeOK, Goto
<1>4. ASSUME NEW r \in Requests, RollsBack(r)
      PROVE  Contract!Refuse(r)
  <2>1. PICK k \in {"failed", "exhausted"} : Rollback(r, k)
    BY <1>4 DEF RollsBack
  <2>2. [kind |-> k] \in Answers
    BY DEF Answers
  <2>3. QED
    BY <1>4, <2>1, <2>2, AnswerMaps
       DEF RollsBack, Rollback, Contract!Refuse, Contract!Pending, startedMap, outcomeMap
<1>5. ASSUME NEW r \in Requests, Replays(r)
      PROVE  Contract!Replay(r)
  <2> DEFINE row == Visible(r, SlotOf[r])
  <2>1. [kind |-> "replayed", resp |-> row.resp] \in Answers
    BY <1>5 DEF Replays, Answers
  <2>2. PICK e \in effects : e.req = row.resp /\ SlotOf[e.req] = SlotOf[r]
                             /\ e.at + Retention > now[r]
    BY <1>5, ConstantsAssumption DEF Replays, RowInv, Visible
  <2>3. Open(r)
    BY <1>5 DEF Replays, Open
  <2>4. /\ startedMap' = startedMap /\ startedMap[r] = now[r]
        /\ startedMap[r] # NONE /\ outcomeMap[r] = NONE
        /\ outcomeMap' = [outcomeMap EXCEPT ![r] = e.req]
    BY <1>5, <2>1, <2>2, <2>3, AnswerMaps DEF Replays
  <2>5. e \in Contract!Retained(SlotOf[r], startedMap[r])
    BY <2>2, <2>4 DEF Contract!Retained
  <2>6. UNCHANGED <<clock, effects>>
    BY <1>5 DEF Replays
  <2>7. QED
    BY <2>4, <2>5, <2>6 DEF Contract!Replay, Contract!Pending, startedMap, outcomeMap
<1>6. ASSUME NEW r \in Requests, Commit(r)
      PROVE  Contract!Execute(r)
  <2>1. [kind |-> "executed", resp |-> r] \in Answers /\ Open(r)
    BY <1>6 DEF Commit, Answers, Open
  <2>2. \A e \in effects : SlotOf[e.req] = SlotOf[r] => e.at + Retention <= clock
    <3> SUFFICES ASSUME NEW e \in effects, SlotOf[e.req] = SlotOf[r],
                        ~ (e.at + Retention <= clock)
                 PROVE  FALSE
      OBVIOUS
    <3>1. claim[r] # NONE /\ now[r] <= clock
      BY <1>6 DEF Commit, RequestInv, Writing
    <3>2. /\ table[SlotOf[r]] # NONE
          /\ table[SlotOf[r]].expires = e.at + Retention
      BY DEF EffectInv
    <3>3. table[SlotOf[r]].expires <= now[r]
      BY <3>1, <3>2 DEF ClaimInv, FreedInv, Visible, Expired
    <3>4. QED
      BY <3>1, <3>2, <3>3, ConstantsAssumption DEF TypeOK
  <2>3. Contract!Retained(SlotOf[r], clock) = {}
    BY <2>2, ConstantsAssumption DEF Contract!Retained, TypeOK
  <2>4. QED
    BY <1>6, <2>1, <2>3, AnswerMaps
       DEF Commit, Contract!Execute, Contract!Pending, startedMap, outcomeMap
<1>7. ASSUME NEW r \in Requests,
             InsertClaim(r) \/ Continues(r) \/ Run(r) \/ StoreResponse(r)
               \/ \E s \in Slots : Deletes(r, s)
      PROVE  UNCHANGED <<clock, effects, answer>> /\ startedMap' = startedMap
  <2>1. /\ UNCHANGED <<clock, effects, answer, now>>
        /\ pc[r] # "idle" /\ \E l \in PCs \ {"idle"} : Goto(r, l)
    BY <1>7 DEF InsertClaim, ClaimedRow, Continues, Run, StoreResponse, Deletes, Goto, PCs
  <2>2. QED
    BY <2>1 DEF startedMap, Goto, TypeOK
<1>8. CASE UNCHANGED vars
  BY <1>1, <1>8 DEF vars, startedMap
<1>9. QED
  BY <1>1, <1>2, <1>3, <1>4, <1>5, <1>6, <1>7, <1>8, StepShapes DEF Contract!Next

(* execute() keeps the promise of the idempotency contract: every answer   *)
(* is one execution with nothing retained, a replay of a retained          *)
(* execution of the slot, or an error without effect.                      *)
THEOREM Refinement == Spec => ImplementsContract
<1>1. QED
  BY InitRefines, StepRefines, Invariance, PTL DEF Spec, ImplementsContract, Contract!Spec
--------------------------------------------------------------------------------
(* Three attempts are enough *)

Claiming(r) == pc[r] \in {"insert", "find", "free"}

(* No transaction outlives its time-out.                                   *)
AliveInv == \A r \in Requests : Open(r) => clock <= now[r] + TxTimeout

(* A record is deleted this long after its commit at the earliest: its     *)
(* transaction began a time-out before the commit at the earliest.         *)
Margin == Retention - TxTimeout

(* An attempt is lost to a record that went away.  At the first one it may *)
(* have been any; the one that the second meets was committed since r      *)
(* began, so a margin passes before it is gone, and again for the third.   *)
Lost(r, k, age) ==
    LET row == table[SlotOf[r]] IN
    attempt[r] = k =>
        /\ clock >= now[r] + age
        /\ row # NONE => row.expires >= now[r] + age + Margin
        /\ pc[r] = "find" /\ row = NONE => clock >= now[r] + age + Margin

(* A record that r is about to release is the one it found, or new.        *)
Releasing(r) ==
    LET row == table[SlotOf[r]] IN
    /\ attempt[r] = 0
    /\ row # NONE => \/ row.id = found[r] /\ row.expires <= now[r]
                     \/ row.expires >= now[r] + Margin

LoopOf(r) ==
    /\ pc[r] = "idle" => attempt[r] = 0
    /\ Claiming(r) =>
          /\ SlotOf[r] \in freed[r] => pc[r] = "insert"
          /\ SlotOf[r] \notin freed[r] => Lost(r, 1, 0) /\ Lost(r, 2, Margin)
          /\ pc[r] = "free" => Releasing(r)

LoopInv == \A r \in Requests : LoopOf(r)

(* A transaction begins now, and the clock waits for its end.              *)
LEMMA AliveStep ==
  ASSUME IInv, AliveInv, [Next]_vars
  PROVE  AliveInv'
<1> USE ConstantsAssumption DEF IInv, TypeOK, AliveInv, Open
<1>1. CASE Tick
  BY <1>1 DEF Tick
<1>2. ASSUME NEW r \in Requests, Begin(r)
      PROVE  AliveInv'
  BY <1>2 DEF Begin, Goto
<1>3. CASE UNCHANGED <<clock, now>> /\ \A r \in Requests : Open(r)' => Open(r)
  BY <1>3
<1>4. ASSUME NEW r \in Requests, Open(r), UNCHANGED <<clock, now>>,
             pc' = pc \/ \E l \in PCs : Goto(r, l)
      PROVE  AliveInv'
  BY <1>3, <1>4 DEF Goto
<1>5. CASE UNCHANGED vars
  BY <1>3, <1>5 DEF vars
<1>6. ASSUME NEW r \in Requests,
             \/ InsertClaim(r) \/ Continues(r) \/ Run(r) \/ StoreResponse(r)
             \/ \E s \in Slots : Deletes(r, s)
             \/ RollsBack(r) \/ Replays(r) \/ Commit(r)
      PROVE  AliveInv'
  BY <1>4, <1>6
     DEF InsertClaim, Continues, Run, StoreResponse, Deletes, RollsBack, Rollback, Replays,
         Commit, Finish, Goto, PCs
<1>7. QED
  BY <1>1, <1>2, <1>5, <1>6, StepShapes

(* A record that goes had expired, and one that comes has a margin to go.  *)
LEMMA SlotStep ==
  ASSUME IInv, AliveInv, [Next]_vars, NEW s \in Slots
  PROVE  \/ table'[s] = table[s] /\ clock' >= clock
         \/ /\ clock' = clock
            /\ table[s] # NONE => table[s].expires <= clock
            /\ table'[s] # NONE => table'[s].expires >= clock + Margin
<1> USE ConstantsAssumption DEF IInv, TypeOK
<1>1. CASE table' = table /\ clock' >= clock
  BY <1>1
<1>2. ASSUME NEW r \in Requests, CommitRows(r), Open(r), clock' = clock
      PROVE  \/ table'[s] = table[s]
             \/ /\ table[s] # NONE => table[s].expires <= clock
                /\ table'[s] # NONE => table'[s].expires >= clock + Margin
  <2>1. clock \in Nat /\ now[r] \in Nat /\ now[r] <= clock /\ clock <= now[r] + TxTimeout
    BY <1>2 DEF RequestInv, AliveInv
  <2>2. claim[r] # NONE => claim[r].expires = now[r] + Retention
    BY DEF RequestInv
  <2>3. table[s] # NONE => table[s].expires \in Nat
    BY DEF Row
  <2>4. QED
    BY <1>2, <2>1, <2>2, <2>3, CommitSlot DEF Margin
<1>3. ASSUME NEW r \in Requests, Replays(r) \/ Commit(r)
      PROVE  CommitRows(r) /\ Open(r) /\ clock' = clock
  BY <1>3 DEF Replays, Commit, Open
<1>4. QED
  BY <1>1, <1>2, <1>3, StepShapes
     DEF Tick, vars, Begin, InsertClaim, Continues, Run, StoreResponse, Deletes, RollsBack, Rollback

(* What the steps of the others leave of the bounds of r.                  *)
LEMMA LostKept ==
  ASSUME IInv, AliveInv, [Next]_vars, NEW r \in Requests, NEW k \in {1, 2}, NEW age \in Nat,
         UNCHANGED <<pc[r], now[r], attempt[r]>>, Lost(r, k, age)
  PROVE  Lost(r, k, age)'
<1> USE ConstantsAssumption DEF IInv, TypeOK
<1>1. SlotOf[r] \in Slots /\ clock \in Nat /\ now[r] \in Nat /\ clock' \in Nat
  BY TypeStep
<1>2. /\ table[SlotOf[r]] # NONE => table[SlotOf[r]].expires \in Nat
      /\ table'[SlotOf[r]] # NONE => table'[SlotOf[r]].expires \in Nat
  BY <1>1, TypeStep DEF Row
<1>3. Margin \in Nat
  BY DEF Margin
<1>4. QED
  BY <1>1, <1>2, <1>3, SlotStep DEF Lost

(* The same of the record r is about to release.                           *)
LEMMA ReleasingKept ==
  ASSUME IInv, AliveInv, [Next]_vars, NEW r \in Requests,
         UNCHANGED <<found[r], now[r], attempt[r]>>, Releasing(r)
  PROVE  Releasing(r)'
<1> USE ConstantsAssumption DEF IInv, TypeOK
<1>1. /\ SlotOf[r] \in Slots /\ clock \in Nat /\ now[r] \in Nat
      /\ table'[SlotOf[r]] # NONE => table'[SlotOf[r]].expires \in Nat
  BY TypeStep DEF Row
<1>2. Margin \in Nat /\ now'[r] = now[r]
  BY DEF Margin
<1>3. pc[r] = "idle" \/ now[r] <= clock
  BY DEF RequestInv
<1>4. now[r] <= clock
  BY DEF RequestInv
<1>5. QED
  BY <1>1, <1>2, <1>4, SlotStep DEF Releasing

(* A step of somebody else.                                                *)
LEMMA LoopKept ==
  ASSUME IInv, AliveInv, [Next]_vars, NEW r \in Requests, LoopOf(r),
         UNCHANGED <<pc[r], now[r], attempt[r], found[r], freed[r]>>
  PROVE  LoopOf(r)'
<1>1. Margin \in Nat
  BY ConstantsAssumption DEF Margin
<1>2. Lost(r, 1, 0) => Lost(r, 1, 0)'
  BY LostKept
<1>3. Lost(r, 2, Margin) => Lost(r, 2, Margin)'
  BY <1>1, LostKept
<1>4. Releasing(r) => Releasing(r)'
  BY ReleasingKept
<1>5. QED
  BY <1>2, <1>3, <1>4 DEF LoopOf, Claiming

(* The third attempt is not lost: its margins would outlast the time-out.  *)
LEMMA ThirdIsLast ==
  ASSUME IInv, AliveInv, NEW r \in Requests, LoopOf(r), attempt[r] + 1 >= MaxClaimAttempts
  PROVE  /\ ~ (pc[r] = "find" /\ Visible(r, SlotOf[r]) = NONE)
         /\ pc[r] # "free"
<1> USE ConstantsAssumption DEF IInv, TypeOK, MaxClaimAttempts
<1>1. attempt[r] = 2 /\ now[r] \in Nat /\ clock \in Nat
  OBVIOUS
<1>2. pc[r] # "free"
  BY <1>1 DEF LoopOf, Claiming, Releasing
<1>3. ASSUME pc[r] = "find", Visible(r, SlotOf[r]) = NONE
      PROVE  FALSE
  <2>1. SlotOf[r] \notin freed[r] /\ table[SlotOf[r]] = NONE
    BY <1>3 DEF LoopOf, Claiming, Visible
  <2>2. clock >= now[r] + Margin + Margin
    BY <1>1, <1>3, <2>1 DEF LoopOf, Claiming, Lost
  <2>3. clock <= now[r] + TxTimeout
    BY <1>3 DEF AliveInv, Open
  <2>4. QED
    BY <1>1, <2>2, <2>3, RetriesAssumption DEF Margin
<1>4. QED
  BY <1>2, <1>3

(* The step of r itself.                                                   *)
LEMMA LoopMoves ==
  ASSUME IInv, AliveInv, NEW r \in Requests, LoopOf(r), Begin(r) \/ Step(r) \/ Abort(r)
  PROVE  LoopOf(r)'
<1> USE ConstantsAssumption DEF IInv, TypeOK, Goto
<1>1. /\ SlotOf[r] \in Slots /\ now[r] \in Nat /\ clock \in Nat /\ attempt[r] \in 0 .. 2
      /\ table[SlotOf[r]] # NONE => table[SlotOf[r]].expires \in Nat
  BY DEF Row, MaxClaimAttempts
<1>2. Margin \in Nat \ {0}
  BY DEF Margin
<1>3. now[r] <= clock
  BY DEF RequestInv
<1>4. CASE Begin(r)
  <2>1. attempt'[r] = 0 /\ pc'[r] = "insert"
    BY <1>4 DEF Begin, LoopOf
  <2>2. QED
    BY <2>1 DEF LoopOf, Claiming, Lost
<1>5. CASE InsertClaim(r)
  <2>1. CASE pc'[r] = "run"
    BY <2>1 DEF LoopOf, Claiming
  <2>2. CASE Visible(r, SlotOf[r]) # NONE /\ pc'[r] = "find"
    <3>1. /\ SlotOf[r] \notin freed[r] /\ table[SlotOf[r]] # NONE /\ Claiming(r)
          /\ UNCHANGED <<clock, table, now, attempt, freed>>
      BY <1>5, <2>2 DEF InsertClaim, Visible, Claiming
    <3>2. QED
      BY <2>2, <3>1 DEF LoopOf, Lost
  <2>3. QED
    BY <1>5, <2>1, <2>2 DEF InsertClaim
<1>6. CASE FindRecord(r)
  <2> DEFINE row == Visible(r, SlotOf[r])
  <2>1. /\ pc[r] = "find" /\ Claiming(r) /\ SlotOf[r] \notin freed[r]
        /\ row = table[SlotOf[r]] /\ UNCHANGED <<clock, now>>
    BY <1>6 DEF FindRecord, LoopOf, Claiming, Visible
  <2>2. CASE row = NONE /\ NextAttempt(r, freed[r])
    <3>1. attempt[r] + 1 < MaxClaimAttempts
      BY <1>1, <2>1, <2>2, ThirdIsLast DEF MaxClaimAttempts
    <3>2. /\ pc'[r] = "insert" /\ attempt'[r] = attempt[r] + 1 /\ freed'[r] = freed[r]
          /\ table' = table
      BY <2>2, <3>1 DEF NextAttempt
    <3>3. attempt[r] \in {0, 1}
      BY <1>1, <3>1 DEF MaxClaimAttempts
    <3>4. attempt[r] = 1 => clock >= now[r] + Margin
      BY <1>1, <1>2, <2>1, <2>2 DEF LoopOf, Lost
    <3>5. /\ table'[SlotOf[r]] = NONE /\ SlotOf[r] \notin freed'[r] /\ clock' = clock
          /\ now'[r] = now[r]
      BY <2>1, <2>2, <3>2
    <3>6. Lost(r, 1, 0)'
      BY <1>1, <1>3, <3>2, <3>5 DEF Lost
    <3>7. Lost(r, 2, Margin)'
      BY <1>1, <3>2, <3>3, <3>4, <3>5 DEF Lost
    <3>8. QED
      BY <3>2, <3>5, <3>6, <3>7 DEF LoopOf, Claiming
  <2>3. CASE Replay(r, row)
    BY <2>3 DEF Replay, Rollback, Finish, LoopOf, Claiming
  <2>4. CASE /\ Expired(row, now[r]) /\ found' = [found EXCEPT ![r] = row.id]
             /\ Goto(r, "free") /\ UNCHANGED <<table, attempt, claim, freed, answer>>
    <3>1. /\ row # NONE /\ row.expires <= now[r] /\ found'[r] = row.id /\ pc'[r] = "free"
          /\ UNCHANGED <<table, attempt, freed>>
      BY <2>4 DEF Expired
    <3>2. attempt[r] = 0
      BY <1>1, <1>2, <2>1, <3>1 DEF LoopOf, Lost
    <3>3. QED
      BY <1>1, <2>1, <3>1, <3>2 DEF LoopOf, Claiming, Lost, Releasing
  <2>5. QED
    BY <1>6, <2>2, <2>3, <2>4 DEF FindRecord
<1>7. CASE FreeExpired(r)
  <2> DEFINE row == Visible(r, SlotOf[r])
             hit == Releases(r, row)
  <2>1. /\ pc[r] = "free" /\ Claiming(r) /\ SlotOf[r] \notin freed[r]
        /\ row = table[SlotOf[r]] /\ Releasing(r) /\ UNCHANGED <<clock, now>>
    BY <1>7 DEF FreeExpired, LoopOf, Claiming, Visible
  <2>2. attempt[r] = 0
    BY <2>1 DEF Releasing
  <2>3. NextAttempt(r, IF hit THEN freed[r] \cup {SlotOf[r]} ELSE freed[r])
    BY <1>7 DEF FreeExpired
  <2>4. /\ pc'[r] = "insert" /\ attempt'[r] = 1 /\ table' = table
        /\ freed'[r] = IF hit THEN freed[r] \cup {SlotOf[r]} ELSE freed[r]
    BY <2>2, <2>3 DEF NextAttempt, MaxClaimAttempts
  <2>5. ~ hit /\ row # NONE => row.expires >= now[r] + Margin
    BY <2>1 DEF Releases, Expired, Releasing
  <2>6. QED
    BY <1>1, <1>2, <1>3, <2>1, <2>4, <2>5 DEF LoopOf, Claiming, Lost
<1>8. CASE Run(r) \/ StoreResponse(r) \/ Commit(r) \/ \E s \in Slots : PruneExpired(r, s)
  BY <1>8 DEF Run, StoreResponse, Commit, PruneExpired, Finish, LoopOf, Claiming
<1>9. CASE Abort(r)
  BY <1>9 DEF Abort, Rollback, Finish, LoopOf, Claiming
<1>10. QED
  BY <1>4, <1>5, <1>6, <1>7, <1>8, <1>9 DEF Step

(* Whoever moves, the bounds of every attempt stay true.                   *)
LEMMA LoopStep ==
  ASSUME IInv, AliveInv, LoopInv, [Next]_vars
  PROVE  LoopInv'
<1> SUFFICES ASSUME NEW r \in Requests PROVE LoopOf(r)'
  BY DEF LoopInv
<1>1. LoopOf(r)
  BY DEF LoopInv
<1>2. CASE Begin(r) \/ Step(r) \/ Abort(r)
  BY <1>1, <1>2, LoopMoves
<1>3. CASE UNCHANGED <<pc[r], now[r], attempt[r], found[r], freed[r]>>
  BY <1>1, <1>3, LoopKept
<1>4. ASSUME NEW q \in Requests, q # r, Begin(q) \/ Step(q) \/ Abort(q)
      PROVE  UNCHANGED <<pc[r], now[r], attempt[r], found[r], freed[r]>>
  <2> USE <1>4 DEF IInv, TypeOK, Goto
  <2>1. CASE Begin(q) \/ InsertClaim(q) \/ Run(q) \/ StoreResponse(q)
    BY <2>1 DEF Begin, InsertClaim, Run, StoreResponse
  <2>2. CASE FindRecord(q)
    BY <2>2 DEF FindRecord, NextAttempt, Replay, Rollback, Finish
  <2>3. CASE FreeExpired(q)
    BY <2>3 DEF FreeExpired, NextAttempt, Rollback, Finish
  <2>4. CASE Commit(q) \/ Abort(q) \/ \E s \in Slots : PruneExpired(q, s)
    BY <2>4 DEF Commit, Abort, PruneExpired, Rollback, Finish
  <2>5. QED
    BY <1>4, <2>1, <2>2, <2>3, <2>4 DEF Step
<1>5. CASE Tick \/ UNCHANGED vars
  BY <1>3, <1>5 DEF Tick, vars
<1>6. QED
  BY <1>2, <1>3, <1>4, <1>5 DEF Next, Terminated

(* Nobody is answered for lack of attempts.                                *)
LEMMA AnsweredStep ==
  ASSUME IInv, AliveInv, LoopInv, ClaimNeverExhausted, [Next]_vars
  PROVE  ClaimNeverExhausted'
<1> USE NoneAssumption DEF IInv, TypeOK, ClaimNeverExhausted
<1>1. CASE UNCHANGED answer
  BY <1>1
<1>2. ASSUME NEW r \in Requests, NEW a \in Answers, a.kind # "exhausted", Finish(r, a)
      PROVE  ClaimNeverExhausted'
  BY <1>2 DEF Finish
<1>3. ASSUME NEW r \in Requests, FindRecord(r)
      PROVE  ClaimNeverExhausted'
  <2>1. CASE Replays(r)
    <3>1. [kind |-> "replayed", resp |-> Visible(r, SlotOf[r]).resp] \in Answers
      BY <2>1 DEF Replays, Answers
    <3>2. QED
      BY <1>2, <2>1, <3>1 DEF Replays
  <2>2. CASE Continues(r)
    BY <1>1, <2>2 DEF Continues
  <2>3. CASE RollsBack(r) /\ ~ Replays(r)
    <3>1. pc'[r] = "done" /\ pc[r] = "find"
      BY <1>3, <2>3 DEF FindRecord, RollsBack, Rollback, Finish, Goto
    <3>2. /\ Visible(r, SlotOf[r]) # NONE => Visible(r, SlotOf[r]).resp \in Requests
      BY ConstantsAssumption DEF RowInv, Visible
    <3>3. Visible(r, SlotOf[r]) = NONE /\ NextAttempt(r, freed[r])
      BY <1>3, <2>3, <3>1, <3>2 DEF FindRecord, Replay, Replays, Goto
    <3>4. attempt[r] + 1 < MaxClaimAttempts
      BY <3>1, <3>3, ThirdIsLast DEF LoopInv, MaxClaimAttempts
    <3>5. QED
      BY <3>1, <3>3, <3>4 DEF NextAttempt, Goto
  <2>4. QED
    BY <1>3, <2>1, <2>2, <2>3, FindShape
<1>4. ASSUME NEW r \in Requests, FreeExpired(r)
      PROVE  ClaimNeverExhausted'
  <2>1. attempt[r] + 1 < MaxClaimAttempts
    BY <1>4, ThirdIsLast DEF FreeExpired, LoopInv, MaxClaimAttempts
  <2>2. QED
    BY <1>1, <1>4, <2>1 DEF FreeExpired, NextAttempt
<1>5. ASSUME NEW r \in Requests, Abort(r)
      PROVE  ClaimNeverExhausted'
  <2>1. [kind |-> "failed"] \in Answers /\ [kind |-> "failed"].kind # "exhausted"
    BY DEF Answers
  <2>2. QED
    BY <1>2, <1>5, <2>1 DEF Abort, Rollback
<1>6. ASSUME NEW r \in Requests, Commit(r)
      PROVE  ClaimNeverExhausted'
  <2>1. [kind |-> "executed", resp |-> r] \in Answers
    BY DEF Answers
  <2>2. QED
    BY <1>2, <1>6, <2>1 DEF Commit
<1>7. QED
  BY <1>1, <1>3, <1>4, <1>5, <1>6
     DEF Next, Step, Terminated, Tick, vars, Begin, InsertClaim, Run, StoreResponse, PruneExpired

(* claim() never runs out of its three attempts, however many requests     *)
(* contend for the key: none is answered 500 for contention.               *)
THEOREM ThreeAttemptsSuffice == Spec => []ClaimNeverExhausted
<1> DEFINE Claims == AliveInv /\ LoopInv /\ ClaimNeverExhausted
<1>1. Init => Claims
  BY ConstantsAssumption
     DEF Init, AliveInv, LoopInv, LoopOf, Claiming, Open, ClaimNeverExhausted
<1>2. IInv /\ Claims /\ [Next]_vars => Claims'
  BY AliveStep, LoopStep, AnsweredStep
<1>3. Claims => ClaimNeverExhausted
  OBVIOUS
<1> QED
  BY <1>1, <1>2, <1>3, Invariance, PTL DEF Spec
================================================================================
