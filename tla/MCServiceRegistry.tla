--------------------------- MODULE MCServiceRegistry ---------------------------
(* Instances of ServiceRegistry. *)
EXTENDS ServiceRegistry, TLC

Objects == Client \X (1 .. IdSpace - 1)
================================================================================
