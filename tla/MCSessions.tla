------------------------------ MODULE MCSessions -------------------------------
(* An instance of Sessions alone: one browser with two tabs.               *)
EXTENDS Sessions

CONSTANTS tab1, tab2, fetch1
================================================================================
