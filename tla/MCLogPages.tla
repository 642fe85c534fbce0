------------------------------- MODULE MCLogPages -------------------------------
(* An instance of LogPages: two projects of one organization.              *)
EXTENDS LogPages

OneOrganization == [to \in Routes |-> "org"]
=================================================================================
