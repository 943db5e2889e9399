----------------------------- MODULE MCDataExchange -----------------------------
(* Two outputs with values 0 and 1, and requests below, within and above. *)
EXTENDS DataExchange, TLC

RequestedValues == -1 .. 2
================================================================================
