---------------------------- MODULE PaymentLifecycle ----------------------------
(***************************************************************************)
(* What a payment promises to its observers, without clocks, passes or     *)
(* snapshots: it moves pending -> processing -> succeeded | failed along   *)
(* the outcome fixed at creation, a terminal status is final, and the one  *)
(* terminal event appears together with the terminal status.               *)
(***************************************************************************)
EXTENDS Integers

CONSTANTS Payments, Outcomes
\* Outcomes: what a payment can be fated to - "succeeded", "failed" or "never"

VARIABLES status,  \* of each payment; "absent" before it is created
          fate,    \* the outcome chosen when it was created
          emitted  \* how many terminal events of each type it has produced

lifecycleVars == <<status, fate, emitted>>

TerminalTypes == {"succeeded", "failed"}

Init ==
    /\ status = [p \in Payments |-> "absent"]
    /\ fate = [p \in Payments |-> "never"]
    /\ emitted = [p \in Payments |-> [t \in TerminalTypes |-> 0]]

Create(p) ==
    /\ status[p] = "absent"
    /\ status' = [status EXCEPT ![p] = "pending"]
    /\ \E f \in Outcomes : fate' = [fate EXCEPT ![p] = f]
    /\ UNCHANGED emitted

Process(p) ==
    /\ status[p] = "pending"
    /\ status' = [status EXCEPT ![p] = "processing"]
    /\ UNCHANGED <<fate, emitted>>

Settle(p) ==
    /\ status[p] = "processing"
    /\ fate[p] # "never"
    /\ status' = [status EXCEPT ![p] = fate[p]]
    /\ emitted' = [emitted EXCEPT ![p][fate[p]] = @ + 1]
    /\ UNCHANGED fate

Next == \E p \in Payments : Create(p) \/ Process(p) \/ Settle(p)

Spec == Init /\ [][Next]_lifecycleVars
================================================================================
