------------------------------ MODULE Idempotency ------------------------------
(***************************************************************************)
(* IdempotencyService.execute (apps/api/src/idempotency) at the grain of   *)
(* its SQL statements, run by concurrent requests against one PostgreSQL   *)
(* table at READ COMMITTED.                                                *)
(*                                                                         *)
(* The table has a unique index on (project, operation scope, key), a      *)
(* "slot" here, so the committed rows are a function of the slot.  An open *)
(* transaction owns the row it inserted (claim) and the committed rows it  *)
(* deleted (freed); both are invisible to the others until it commits, and *)
(* a statement of another transaction that meets one of them waits.        *)
(* Requests without a key do not touch the table: they are modelled with   *)
(* the mutations that use them.                                            *)
(***************************************************************************)
EXTENDS Integers, FiniteSets, Absence

CONSTANTS Requests,     \* keyed requests; a client retry is another request
          Slots,        \* (project, operation scope, key) triples
          SlotOf,       \* [Requests -> Slots]
          PartitionOf,  \* the (project, operation scope) of a slot
          Retention,    \* retentionMs, in ticks of the clock
          TxTimeout,    \* maxWait + timeout of the transaction, in ticks
          MaxTime       \* bound of the model: the clock stops here

(* IDEMPOTENCY_RETENTION_HOURS is at least one hour, a transaction lives   *)
(* at most maxWait + timeout = 15 seconds.                                 *)
ASSUME ConstantsAssumption ==
    /\ SlotOf \in [Requests -> Slots]
    /\ Retention \in Nat /\ TxTimeout \in Nat /\ MaxTime \in Nat
    /\ TxTimeout < Retention

(* Two attempts may be lost to records that come and go; in the time of a  *)
(* transaction the third is not.                                           *)
ASSUME RetriesAssumption == 3 * TxTimeout < 2 * Retention

VARIABLES clock,    \* the wall clock of `new Date()`
          table,    \* committed idempotency_records
          pc,       \* the next statement of each request
          now,      \* target.now, read before the transaction starts
          attempt,  \* the loop variable of claim()
          found,    \* id of the record findRecord returned
          claim,    \* the row this transaction inserted and did not commit yet
          freed,    \* slots whose committed row this transaction deleted
          answer,   \* how the request was answered
          effects   \* history: the mutations that committed

vars == <<clock, table, pc, now, attempt, found, claim, freed, answer, effects>>

(* Mutant: a single attempt, no retry after a release.                     *)
OneAttempt == 1

MaxClaimAttempts == 3

(* A row's id is the request that inserted it; resp names the execution    *)
(* whose status and body the row stores, NONE for a null response.         *)
Row == [id : Requests, resp : Requests \cup {NONE}, expires : Nat]

PCs == {"idle", "insert", "find", "free", "run", "store", "prune", "done"}
Answers == [kind : {"executed", "replayed"}, resp : Requests]
             \cup [kind : {"failed", "exhausted", "in_progress"}]

(* NONE is none of the values it stands in for.                            *)
ASSUME NoneAssumption == NONE \notin Requests \cup Row \cup Answers \cup Nat

Open(r) == pc[r] \notin {"idle", "done"}

(* The type invariant: what a record, a request in flight and an answer     *)
(* can be, the retries of claim() staying below its bound.                 *)
TypeOK ==
    /\ clock \in Nat
    /\ table \in [Slots -> Row \cup {NONE}]
    /\ pc \in [Requests -> PCs]
    /\ now \in [Requests -> Nat]
    /\ attempt \in [Requests -> 0 .. MaxClaimAttempts - 1]
    /\ found \in [Requests -> Requests \cup {NONE}]
    /\ claim \in [Requests -> Row \cup {NONE}]
    /\ freed \in [Requests -> SUBSET Slots]
    /\ answer \in [Requests -> Answers \cup {NONE}]
    /\ effects \subseteq [req : Requests, at : Nat, committed : Nat]

Init ==
    /\ clock = 0
    /\ table = [s \in Slots |-> NONE]
    /\ pc = [r \in Requests |-> "idle"]
    /\ now = [r \in Requests |-> 0]
    /\ attempt = [r \in Requests |-> 0]
    /\ found = [r \in Requests |-> NONE]
    /\ claim = [r \in Requests |-> NONE]
    /\ freed = [r \in Requests |-> {}]
    /\ answer = [r \in Requests |-> NONE]
    /\ effects = {}

--------------------------------------------------------------------------------
(* Row visibility and row locks at READ COMMITTED *)

Goto(r, l) == pc' = [pc EXCEPT ![r] = l]

(* The committed row a statement of r sees at slot s.                      *)
Visible(r, s) == IF s \in freed[r] THEN NONE ELSE table[s]

(* Mutants: expiry compared one tick off, and not compared at all.         *)
ExpiredEarly(row, t) == row # NONE /\ row.expires <= t + 1
ExpiredAlways(row, t) == row # NONE

Expired(row, t) == row # NONE /\ row.expires <= t

(* Others whose uncommitted insert or delete at s a write of r waits for.  *)
Deleters(r, s) == {q \in Requests \ {r} : s \in freed[q]}
Inserters(r, s) == {q \in Requests \ {r} : claim[q] # NONE /\ SlotOf[q] = s}

(* The rows deleted by pruneExpired that r has not deleted yet.            *)
Prunable(r) ==
    {s \in Slots : /\ PartitionOf[s] = PartitionOf[SlotOf[r]]
                   /\ Expired(Visible(r, s), now[r])}

(* The transactions the next statement of r is waiting for.                *)
Blockers(r) ==
    CASE pc[r] = "insert" -> Inserters(r, SlotOf[r]) \cup Deleters(r, SlotOf[r])
      [] pc[r] = "free"   -> IF Expired(Visible(r, SlotOf[r]), now[r])
                             THEN Deleters(r, SlotOf[r]) ELSE {}
      [] pc[r] = "prune"  -> IF \E s \in Prunable(r) : Deleters(r, s) = {} THEN {}
                             ELSE UNION {Deleters(r, s) : s \in Prunable(r)}
      [] OTHER            -> {}

--------------------------------------------------------------------------------
(* The end of a transaction *)

(* Mutant: the transaction is left open, its claim undecided.              *)
FinishHolding(r, a) ==
    /\ Goto(r, "done")
    /\ answer' = [answer EXCEPT ![r] = a]
    /\ UNCHANGED <<claim, freed>>

Finish(r, a) ==
    /\ Goto(r, "done")
    /\ answer' = [answer EXCEPT ![r] = a]
    /\ claim' = [claim EXCEPT ![r] = NONE]
    /\ freed' = [freed EXCEPT ![r] = {}]

CommitRows(r) ==
    table' = [s \in Slots |-> IF s = SlotOf[r] /\ claim[r] # NONE THEN claim[r]
                              ELSE Visible(r, s)]

Rollback(r, kind) ==
    /\ Finish(r, [kind |-> kind])
    /\ UNCHANGED table

--------------------------------------------------------------------------------
(* One action per statement of execute() and claim() *)

Begin(r) ==
    /\ pc[r] = "idle"
    /\ Goto(r, "insert")
    /\ now' = [now EXCEPT ![r] = clock]
    /\ UNCHANGED <<clock, table, attempt, found, claim, freed, answer, effects>>

(* Mutant: the retention is subtracted.                                    *)
ClaimedRowSwapped(r) == [id |-> r, resp |-> NONE, expires |-> now[r] - Retention]

ClaimedRow(r) == [id |-> r, resp |-> NONE, expires |-> now[r] + Retention]

(* INSERT ... ON CONFLICT DO NOTHING: waits for an undecided competitor,   *)
(* then inserts, or reports a conflict with a committed row.               *)
InsertClaim(r) ==
    /\ pc[r] = "insert"
    /\ Blockers(r) = {}
    /\ \/ /\ Visible(r, SlotOf[r]) = NONE
          /\ claim' = [claim EXCEPT ![r] = ClaimedRow(r)]
          /\ Goto(r, "run")
       \/ /\ Visible(r, SlotOf[r]) # NONE
          /\ Goto(r, "find")
          /\ UNCHANGED claim
    /\ UNCHANGED <<clock, table, now, attempt, found, freed, answer, effects>>

(* The loop head of claim(), reached with the rows fr deleted so far:      *)
(* another attempt, or the 500 after the last.                             *)
NextAttempt(r, fr) ==
    IF attempt[r] + 1 < MaxClaimAttempts
    THEN /\ Goto(r, "insert")
         /\ attempt' = [attempt EXCEPT ![r] = @ + 1]
         /\ freed' = [freed EXCEPT ![r] = fr]
         /\ UNCHANGED <<table, claim, answer>>
    ELSE Rollback(r, "exhausted") /\ UNCHANGED attempt

(* Mutant: a record is replayed however old it is.                         *)
ReplayAnyAge(r, row) ==
    /\ Finish(r, [kind |-> "replayed", resp |-> row.resp]) /\ CommitRows(r)
    /\ UNCHANGED <<attempt, found>>

(* The stored response of an unexpired record; 409 when it has none.       *)
Replay(r, row) ==
    /\ row.expires > now[r]
    /\ IF row.resp = NONE
       THEN Rollback(r, "in_progress")
       ELSE Finish(r, [kind |-> "replayed", resp |-> row.resp]) /\ CommitRows(r)
    /\ UNCHANGED <<attempt, found>>

FindRecord(r) ==
    LET row == Visible(r, SlotOf[r]) IN
    /\ pc[r] = "find"
    /\ \/ row = NONE /\ NextAttempt(r, freed[r]) /\ UNCHANGED found
       \/ row # NONE /\ Replay(r, row)
       \/ /\ Expired(row, now[r])
          /\ found' = [found EXCEPT ![r] = row.id]
          /\ Goto(r, "free")
          /\ UNCHANGED <<table, attempt, claim, freed, answer>>
    /\ UNCHANGED <<clock, now, effects>>

(* Mutant: the release goes by key, whatever record holds it by now.       *)
ReleasesByKey(r, row) == row # NONE

Releases(r, row) == Expired(row, now[r]) /\ row.id = found[r]

(* DELETE ... WHERE id = found AND expires_at <= now; the row may be gone  *)
(* or refreshed by the time it is reached, and then nothing is deleted.    *)
FreeExpired(r) ==
    LET row == Visible(r, SlotOf[r])
        hit == Releases(r, row)
    IN
    /\ pc[r] = "free"
    /\ hit => Blockers(r) = {}
    /\ NextAttempt(r, IF hit THEN freed[r] \cup {SlotOf[r]} ELSE freed[r])
    /\ UNCHANGED <<clock, now, found, effects>>

(* The mutation; what it writes is the business of the composing module.   *)
Run(r) ==
    /\ pc[r] = "run"
    /\ Goto(r, "store")
    /\ UNCHANGED <<clock, table, now, attempt, found, claim, freed, answer, effects>>

(* Mutant: the claim is committed without a response.                      *)
StoreNothing(r) ==
    /\ pc[r] = "store"
    /\ Goto(r, "prune")
    /\ UNCHANGED <<clock, table, now, attempt, found, claim, freed, answer, effects>>

(* The UPDATE sets the response of the claimed row and nothing else.       *)
StoreResponse(r) ==
    /\ pc[r] = "store"
    /\ claim' = [claim EXCEPT ![r] = [id |-> @.id, resp |-> r, expires |-> @.expires]]
    /\ Goto(r, "prune")
    /\ UNCHANGED <<clock, table, now, attempt, found, freed, answer, effects>>

(* pruneExpired locks and deletes the rows it finds one after the other.   *)
PruneExpired(r, s) ==
    /\ pc[r] = "prune"
    /\ s \in Prunable(r)
    /\ Deleters(r, s) = {}
    /\ freed' = [freed EXCEPT ![r] = @ \cup {s}]
    /\ UNCHANGED <<clock, table, pc, now, attempt, found, claim, answer, effects>>

Commit(r) ==
    /\ pc[r] = "prune"
    /\ Prunable(r) = {}
    /\ CommitRows(r)
    /\ Finish(r, [kind |-> "executed", resp |-> r])
    /\ effects' = effects \cup {[req |-> r, at |-> now[r], committed |-> clock]}
    /\ UNCHANGED <<clock, now, attempt, found>>

(* The mutation throws, the replay is refused by validateReplay, the       *)
(* statement fails, the transaction times out, or the process dies.        *)
Abort(r) ==
    /\ Open(r)
    /\ Rollback(r, "failed")
    /\ UNCHANGED <<clock, now, attempt, found, effects>>

(* r is on a cycle of waiting transactions.                                *)
Deadlocked(r) ==
    /\ Blockers(r) # {}
    /\ \E S \in SUBSET Requests :
          /\ r \in S
          /\ \A q \in S : S \cap Blockers(q) # {}
          /\ \A q \in S : \E p \in S : q \in Blockers(p)

(* PostgreSQL's deadlock detector picks a victim.                          *)
DeadlockVictim(r) == Deadlocked(r) /\ Abort(r)

(* Time passes, but an open transaction does not outlive its time-out.     *)
Tick ==
    /\ clock < MaxTime
    /\ \A r \in Requests : Open(r) => clock - now[r] < TxTimeout
    /\ clock' = clock + 1
    /\ UNCHANGED <<table, pc, now, attempt, found, claim, freed, answer, effects>>

Step(r) ==
    \/ InsertClaim(r) \/ FindRecord(r) \/ FreeExpired(r)
    \/ Run(r) \/ StoreResponse(r) \/ Commit(r)
    \/ \E s \in Slots : PruneExpired(r, s)

Terminated == (\A r \in Requests : pc[r] = "done") /\ UNCHANGED vars

Next ==
    \/ Tick
    \/ \E r \in Requests : Begin(r) \/ Step(r) \/ Abort(r)
    \/ Terminated

Spec == Init /\ [][Next]_vars

(* Node runs every request to its end and PostgreSQL resolves deadlocks.   *)
Fairness == \A r \in Requests : WF_vars(Step(r)) /\ WF_vars(DeadlockVictim(r))

FairSpec == Spec /\ Fairness

--------------------------------------------------------------------------------
(* Properties *)

(* A committed record always carries its response, so the 409 branch of    *)
(* replay() is unreachable, as the comment on it says.                     *)
CommittedCarriesResponse ==
    /\ \A s \in Slots : table[s] # NONE => table[s].resp # NONE
    /\ \A r \in Requests : answer[r] # NONE => answer[r].kind # "in_progress"

(* Two executions of one slot are a retention window apart: the second     *)
(* commits only after the window opened by the first has passed, whatever  *)
(* the interleaving of claims, releases, prunes and roll-backs.            *)
AtMostOncePerWindow ==
    \A e, f \in effects :
        e # f /\ SlotOf[e.req] = SlotOf[f.req] =>
            e.committed >= f.at + Retention \/ f.committed >= e.at + Retention

(* A replay answers with the response of a committed execution of the same *)
(* project, scope and key that was still retained when it was asked.       *)
ReplayIsFaithful ==
    \A r \in Requests :
        answer[r] # NONE /\ answer[r].kind = "replayed" =>
            \E e \in effects : /\ e.req = answer[r].resp
                               /\ SlotOf[e.req] = SlotOf[r]
                               /\ e.at + Retention > now[r]

(* claim() never runs out of its three attempts, so no request is answered *)
(* 500 because of contention on its key.                                   *)
ClaimNeverExhausted ==
    \A r \in Requests : answer[r] # NONE => answer[r].kind # "exhausted"

(* A statement may delete a committed record only after its retention      *)
(* window, and only a record of its own project and scope.                 *)
OnlyExpiredRowsRemoved ==
    [][\A s \in Slots :
          table[s] # NONE /\ table'[s] # table[s] =>
              /\ table[s].expires <= clock
              /\ \E r \in Requests : /\ pc[r] # "done" /\ pc'[r] = "done"
                                     /\ PartitionOf[SlotOf[r]] = PartitionOf[s]
      ]_vars

(* Every request that starts is answered: neither waiting for an undecided *)
(* claim nor a deadlock between releases and prunes strands it.            *)
EveryRequestAnswered ==
    \A r \in Requests : Open(r) ~> pc[r] = "done"

(* The abstract contract: a started request is one that left "idle".       *)
Contract == INSTANCE IdempotencyContract WITH
    started <- [r \in Requests |-> IF pc[r] = "idle" THEN NONE ELSE now[r]],
    outcome <- [r \in Requests |->
                   IF answer[r] = NONE THEN NONE
                   ELSE IF answer[r].kind \in {"executed", "replayed"}
                        THEN answer[r].resp ELSE "error"]

ImplementsContract == Contract!Spec
================================================================================
