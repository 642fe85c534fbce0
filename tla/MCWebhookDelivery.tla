--------------------------- MODULE MCWebhookDelivery ---------------------------
(* Instances of WebhookDelivery: what the endpoints can answer.            *)
EXTENDS WebhookDelivery

CONSTANTS v, w

RealEndpoint == [d \in Deliveries |-> {"accepted", "refusal", "throttled"}]
AlwaysDown == [d \in Deliveries |-> {"unreachable"}]
DownAndReject == [d \in Deliveries |-> IF d = 1 THEN {"busy"} ELSE {"rejected"}]
================================================================================
