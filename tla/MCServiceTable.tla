----------------------------- MODULE MCServiceTable -----------------------------
(* Instances of ServiceTable small enough to fill. *)
EXTENDS ServiceTable, TLC

TwoObjects == {"s1", "s2"}
================================================================================
