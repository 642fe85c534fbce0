--------------------------- MODULE PaymentSimulation ---------------------------
(***************************************************************************)
(* The pure part of a payment's life (payment-simulation.ts and            *)
(* payment-scenario.ts): which edge is due at a given time, and how the    *)
(* requested outcome is written to, and read back from, the one nullable   *)
(* column payments.simulation_scenario.                                    *)
(* A column value is NULL or a string: [word |-> w, arg |-> NULL] stands   *)
(* for "w", and [word |-> "decline", arg |-> code] for "decline:code".     *)
(***************************************************************************)
EXTENDS Integers

CONSTANTS FailureCodes,        \* the failure_code catalog
          DefaultFailureCode,  \* what a decline without a code means
          PendingDelay,        \* pendingDelayMs, in ticks
          SettlementDelay,     \* settlementDelayMs, in ticks
          NULL                 \* SQL NULL, and an absent request field

ASSUME SimulationAssumption ==
    /\ DefaultFailureCode \in FailureCodes
    /\ PendingDelay \in Nat /\ SettlementDelay \in Nat

Scenarios == {"succeed", "decline", "timeout"}
Column == [word : Scenarios, arg : FailureCodes \cup {NULL}]
Word(w) == [word |-> w, arg |-> NULL]

Statuses == {"pending", "processing", "succeeded", "failed"}
Terminal == {"succeeded", "failed"}

ASSUME NullAssumption ==
    NULL \notin FailureCodes \cup Scenarios \cup Statuses \cup Column

(* What a create request may ask for.                                      *)
Requested == [scenario : Scenarios \cup {NULL}, code : FailureCodes \cup {NULL}]

scenarioColumnValue(scenario, code) ==
    CASE scenario = NULL      -> NULL
      [] scenario = "decline" -> [word |-> "decline",
                                  arg |-> IF code \in FailureCodes THEN code
                                          ELSE DefaultFailureCode]
      [] OTHER                -> Word(scenario)

DefaultIntent == [scenario |-> "succeed", code |-> NULL]

(* Anything not recognised is a default success.                           *)
parseSimulationScenario(raw) ==
    CASE raw = NULL -> DefaultIntent
      [] raw = Word("decline") -> [scenario |-> "decline", code |-> DefaultFailureCode]
      [] raw # NULL /\ raw.word = "decline" /\ raw.arg \in FailureCodes ->
             [scenario |-> "decline", code |-> raw.arg]
      [] raw \in {Word("succeed"), Word("timeout")} -> [scenario |-> raw.word, code |-> NULL]
      [] OTHER -> DefaultIntent

(* The status the next due edge leads to, NULL when no edge is due.        *)
scheduledTransition(status, createdAt, now, scenario) ==
    CASE status = "pending" /\ now - createdAt >= PendingDelay -> "processing"
      [] /\ status = "processing"
         /\ scenario # "timeout"
         /\ now - createdAt >= PendingDelay + SettlementDelay ->
             IF scenario = "decline" THEN "failed" ELSE "succeeded"
      [] OTHER -> NULL

(* Mutant: the requested code is forgotten.                                *)
defaultCodeOnly(to, intent) == IF to = "failed" THEN DefaultFailureCode ELSE NULL

(* The code the edge to `to` writes: only the failed edge writes one.      *)
edgeFailureCode(to, intent) ==
    IF to # "failed" THEN NULL
    ELSE IF intent.code = NULL THEN DefaultFailureCode ELSE intent.code
================================================================================
