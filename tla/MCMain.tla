--------------------------------- MODULE MCMain ---------------------------------
(* One worker, and queues for a single message. *)
EXTENDS Main

CONSTANT w1
OneWorker == {w1}
================================================================================
