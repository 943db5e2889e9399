------------------------------ MODULE IdAllocator ------------------------------
(***************************************************************************)
(* What the rest of the server relies on when it uses the service table    *)
(* (ServiceTable.cpp): an id belongs to at most one holder at a time.  A   *)
(* caller is granted an id nobody holds, then either gives it back or      *)
(* publishes one service under it; a published service can be looked up    *)
(* by its id until it is withdrawn, and nothing else takes it away.        *)
(* ServiceTable.tla is shown to implement this specification.              *)
(***************************************************************************)
CONSTANTS Ids,       \* the ids that can be granted
          Service,   \* service objects
          nullptr    \* "no service": not a member of Service

VARIABLES held,      \* ids granted and not yet published or given back
          published  \* the service registered under each id, or nullptr

vars == <<held, published>>

Available(id) == id \notin held /\ published[id] = nullptr

Init == /\ held = {}
        /\ published = [id \in Ids |-> nullptr]

\* Any id nobody holds may be granted.
Grant(id) == /\ Available(id)
             /\ held' = held \union {id}
             /\ UNCHANGED published

GiveBack(id) == /\ id \in held
                /\ held' = held \ {id}
                /\ UNCHANGED published

Publish(id, service) == /\ id \in held
                        /\ held' = held \ {id}
                        /\ published' = [published EXCEPT ![id] = service]

Withdraw(id) == /\ published[id] # nullptr
                /\ published' = [published EXCEPT ![id] = nullptr]
                /\ UNCHANGED held

Next == \E id \in Ids : \/ Grant(id)
                        \/ GiveBack(id)
                        \/ \E service \in Service : Publish(id, service)
                        \/ Withdraw(id)

Spec == Init /\ [][Next]_vars
================================================================================
