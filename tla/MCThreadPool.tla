------------------------------ MODULE MCThreadPool ------------------------------
(* Two workers of the pool and four tasks. *)
EXTENDS ThreadPool

CONSTANTS w1, w2
TwoWorkers == {w1, w2}
================================================================================
