------------------------------ MODULE MCConHandler ------------------------------
(* Instances of ConHandler: who connects from where. *)
EXTENDS ConHandler, TLC

\* The device of c1 is seen at two addresses; it may present itself as c2.
TwoAddresses == {<<1, "c1">>, <<2, "c1">>}

OneDevice == {<<1, "c1">>}

WorkerSymmetry == Permutations(Worker)
================================================================================
