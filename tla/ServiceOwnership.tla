--------------------------- MODULE ServiceOwnership ----------------------------
(***************************************************************************)
(* What clients rely on when they register services at the same time       *)
(* (client.cpp:20-32, :83-124): an id is one client's from the DESC until  *)
(* its service is unregistered, nobody else can give it back, register a   *)
(* service under it or take the service away, and it comes to another      *)
(* client only after it has been free.                                     *)
(*                                                                         *)
(* ServiceRegistry.tla is shown to implement this specification: there     *)
(* each of these steps is one of several that a thread takes between the   *)
(* steps of others.                                                        *)
(***************************************************************************)
CONSTANTS Client, Ids

VARIABLES held,     \* per client: ids granted for services not yet registered
          offered,  \* per client: ids under which others find its services
          lost      \* ids granted to a registration that ended without them

vars == <<held, offered, lost>>

Of(c) == held[c] \union offered[c]
Available(id) == id \notin lost /\ \A c \in Client : id \notin Of(c)

Init == /\ held = [c \in Client |-> {}]
        /\ offered = [c \in Client |-> {}]
        /\ lost = {}

Grant(c, id) == /\ Available(id)
                /\ held' = [held EXCEPT ![c] = @ \union {id}]
                /\ UNCHANGED <<offered, lost>>

GiveBack(c, id) == /\ id \in held[c]
                   /\ held' = [held EXCEPT ![c] = @ \ {id}]
                   /\ UNCHANGED <<offered, lost>>

Publish(c, id) == /\ id \in held[c]
                  /\ held' = [held EXCEPT ![c] = @ \ {id}]
                  /\ offered' = [offered EXCEPT ![c] = @ \union {id}]
                  /\ UNCHANGED lost

Withdraw(c, id) == /\ id \in offered[c]
                   /\ offered' = [offered EXCEPT ![c] = @ \ {id}]
                   /\ UNCHANGED <<held, lost>>

\* A registration ends and does not give back what it holds; it loses all of it.
Lose(c) == /\ held' = [held EXCEPT ![c] = {}]
           /\ lost' = lost \union held[c]
           /\ UNCHANGED offered

Next == \E c \in Client :
          \/ Lose(c)
          \/ \E id \in Ids : Grant(c, id) \/ GiveBack(c, id) \/ Publish(c, id) \/ Withdraw(c, id)

Spec == Init /\ [][Next]_vars
================================================================================
