-------------------------- MODULE IdempotencyContract --------------------------
(***************************************************************************)
(* What the idempotency capability promises (ADR-0004, the header comment  *)
(* of IdempotencyService): for one (project, operation scope, key) slot a  *)
(* mutation takes effect at most once per retention window, and every      *)
(* other answer is either the stored answer of an execution that was still *)
(* retained when the request started, or an error with no effect at all.   *)
(* No transactions, no rows, no locks: the detailed module Idempotency is  *)
(* shown to implement this one.                                            *)
(***************************************************************************)
EXTENDS Integers

CONSTANTS Requests,   \* HTTP requests that carry an Idempotency-Key
          Slots,      \* (project, operation scope, key) triples
          SlotOf,     \* the slot each request addresses
          Retention,  \* retention window, in clock ticks
          NONE        \* the null value

VARIABLES clock,      \* wall clock
          started,    \* when each request was received, NONE before that
          effects,    \* executions that took effect
          outcome     \* what each request was answered, NONE before that

contractVars == <<clock, started, effects, outcome>>

Effect == [req : Requests, at : Nat, committed : Nat]

(* The executions of one slot whose answers a request received at t may be *)
(* given instead of executing again.                                       *)
Retained(s, t) == {e \in effects : SlotOf[e.req] = s /\ e.at + Retention > t}

Pending(r) == started[r] # NONE /\ outcome[r] = NONE

Init ==
    /\ clock = 0
    /\ started = [r \in Requests |-> NONE]
    /\ effects = {}
    /\ outcome = [r \in Requests |-> NONE]

Tick ==
    /\ clock' = clock + 1
    /\ UNCHANGED <<started, effects, outcome>>

Receive(r) ==
    /\ started[r] = NONE
    /\ started' = [started EXCEPT ![r] = clock]
    /\ UNCHANGED <<clock, effects, outcome>>

(* Executing is legal only when no execution of the slot is retained.      *)
Execute(r) ==
    /\ Pending(r)
    /\ Retained(SlotOf[r], clock) = {}
    /\ effects' = effects \cup {[req |-> r, at |-> started[r], committed |-> clock]}
    /\ outcome' = [outcome EXCEPT ![r] = r]
    /\ UNCHANGED <<clock, started>>

(* A replay answers with exactly the execution it stands for.              *)
Replay(r) ==
    /\ Pending(r)
    /\ \E e \in Retained(SlotOf[r], started[r]) :
           outcome' = [outcome EXCEPT ![r] = e.req]
    /\ UNCHANGED <<clock, started, effects>>

Refuse(r) ==
    /\ Pending(r)
    /\ outcome' = [outcome EXCEPT ![r] = "error"]
    /\ UNCHANGED <<clock, started, effects>>

Next ==
    \/ Tick
    \/ \E r \in Requests : Receive(r) \/ Execute(r) \/ Replay(r) \/ Refuse(r)

Spec == Init /\ [][Next]_contractVars
================================================================================
