-------------------------------- MODULE MCSession -------------------------------
(* A device with two services, and up to three faults. *)
EXTENDS Session
================================================================================
