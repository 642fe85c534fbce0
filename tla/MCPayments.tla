------------------------------- MODULE MCPayments -------------------------------
(* Instances of Payments: which outcomes the create requests ask for.      *)
EXTENDS Payments

CONSTANTS insufficient, declined

Succeed == [scenario |-> NULL, code |-> NULL]
Decline == [scenario |-> "decline", code |-> insufficient]
Timeout == [scenario |-> "timeout", code |-> NULL]

AllOutcomes == {Succeed, Decline, Timeout}
OnlySuccess == {Succeed}
SuccessOrTimeout == {Succeed, Timeout}
================================================================================
