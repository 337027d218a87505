------------------------------- MODULE MCPolling -------------------------------
(* An instance of Polling: one engine and its two workers. *)
EXTENDS Polling

CONSTANT e1

OneEngine == [w \in Workers |-> e1]
================================================================================
