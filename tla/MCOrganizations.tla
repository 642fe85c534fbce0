---------------------------- MODULE MCOrganizations ----------------------------
(* An instance of Organizations alone: one organization, two accounts.     *)
EXTENDS Organizations

CONSTANTS ann, bob, call1, call2
================================================================================
