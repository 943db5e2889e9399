------------------------------ MODULE ServiceTable ------------------------------
(***************************************************************************)
(* The table of registered services (ServiceTable.h, ServiceTable.cpp).    *)
(*                                                                         *)
(* The table hands out service ids and keeps the registered services.      *)
(* Every operation runs under the table's own mutex, so each is one        *)
(* action.  An operation returns what Candidate, Found or GetService says  *)
(* in the state it is taken from.                                          *)
(***************************************************************************)
EXTENDS Naturals, Sequences

CONSTANTS IdSpace,   \* number of values of unsigned char: 256 in the code
          Service,   \* service objects
          nullptr

ASSUME IdSpaceAssumption == IdSpace \in Nat /\ IdSpace >= 2
ASSUME NullAssumption == nullptr \notin Service

VARIABLES services,  \* std::vector<Service*>; the slot of id is services[id+1]
          free,      \* std::list of released ids, reused oldest first
          reserved   \* std::list of reserved ids: how often each id is in it,
                     \* since its order is never observed

tableVars == <<services, free, reserved>>

Byte == 0 .. IdSpace - 1   \* unsigned char
Ids == Byte \ {0}          \* 0 is the answer "no id left"

TableInit ==
  /\ services = <<nullptr>>
  /\ free = <<>>
  /\ reserved = [id \in Byte |-> 0]

GetService(id) == IF id >= Len(services) THEN nullptr ELSE services[id + 1]

(***************************************************************************)
(* reserve().  With no released id the vector grows by one.  Candidate is  *)
(* an unsigned char, so the size is truncated, and the test                *)
(* "candidate > 255" can never hold: its branch is unreachable.            *)
(***************************************************************************)
Candidate == IF free = <<>> THEN Len(services) % IdSpace ELSE Head(free)

Resized(n) == [i \in 1 .. n |-> IF i <= Len(services) THEN services[i]
                                                      ELSE nullptr]

ReserveNew ==
  /\ free = <<>>
  /\ services' = Resized(Candidate + 1)
  /\ reserved' = [reserved EXCEPT ![Candidate] = @ + 1]
  /\ UNCHANGED free

ReserveReleasedKeepsFree ==   \* pop_front forgotten
  /\ free # <<>>
  /\ reserved' = [reserved EXCEPT ![Candidate] = @ + 1]
  /\ UNCHANGED <<services, free>>

ReserveReleased ==
  /\ free # <<>>
  /\ free' = Tail(free)
  /\ reserved' = [reserved EXCEPT ![Candidate] = @ + 1]
  /\ UNCHANGED services

Reserve == ReserveNew \/ ReserveReleased

\* unreserve() and push() first look num up in the reserved list.
Found(num) == reserved[num] > 0

Unreserve(num) ==
  /\ Found(num)
  /\ reserved' = [reserved EXCEPT ![num] = @ - 1]
  /\ free' = Append(free, num)
  /\ UNCHANGED services

(***************************************************************************)
(* push().  If num is beyond the end of the vector, services[num] writes   *)
(* to spare capacity of the vector: the table does not show it, and a      *)
(* later resize overwrites it.                                             *)
(***************************************************************************)
PushKeepsReservation(service, num) ==   \* reserved.erase forgotten
  /\ Found(num)
  /\ services' = [services EXCEPT ![num + 1] = service]
  /\ UNCHANGED <<free, reserved>>

Push(service, num) ==
  /\ Found(num)
  /\ reserved' = [reserved EXCEPT ![num] = @ - 1]
  /\ services' = [services EXCEPT ![num + 1] = service]
  /\ UNCHANGED free

Remove(num) ==
  /\ GetService(num) # nullptr
  /\ services' = [services EXCEPT ![num + 1] = nullptr]
  /\ free' = Append(free, num)
  /\ UNCHANGED reserved

(***************************************************************************)
(* Any caller may call any operation with any argument: the table itself   *)
(* has to reject what does not fit.  A call that finds nothing returns     *)
(* false and changes nothing, a stuttering step.                           *)
(***************************************************************************)
OtherCalls ==
  \E num \in Byte : \/ Unreserve(num)
                    \/ \E service \in Service : Push(service, num)
                    \/ Remove(num)

TableNext == Reserve \/ OtherCalls

TableSpec == TableInit /\ [][TableNext]_tableVars

(***************************************************************************)
(* The regime the table is meant for: an id is requested only while one of *)
(* the IdSpace-1 ids is neither reserved nor in use.                       *)
(***************************************************************************)
InUse(id) == reserved[id] > 0 \/ GetService(id) # nullptr
Room == \E id \in Ids : ~InUse(id)

RoomNext == \/ Room /\ Reserve
            \/ OtherCalls

RoomSpec == TableInit /\ [][RoomNext]_tableVars

--------------------------------------------------------------------------------
TableTypeOK ==
  /\ services \in Seq(Service \union {nullptr})
  /\ free \in Seq(Byte)
  /\ reserved \in [Byte -> Nat]

(***************************************************************************)
(* Slot 0 is never handed out: 0 is what reserve() returns for "no id".    *)
(***************************************************************************)
SlotZeroUnused ==
  /\ Len(services) \in 1 .. IdSpace
  /\ services[1] = nullptr
  /\ reserved[0] = 0

\* A reserved id is reserved once, inside the vector, and has no service yet.
ReservedOnce ==
  \A id \in Byte : Found(id) => /\ reserved[id] = 1
                                /\ id < Len(services)
                                /\ services[id + 1] = nullptr

\* A released id is inside the vector, not in use, and released only once.
ReleasedOnce ==
  /\ \A i \in 1 .. Len(free) : /\ free[i] \in Ids
                               /\ free[i] < Len(services)
                               /\ reserved[free[i]] = 0
                               /\ services[free[i] + 1] = nullptr
  /\ \A i, j \in 1 .. Len(free) : free[i] = free[j] => i = j

\* No id inside the vector is forgotten: it is in use or waits for reuse.
NothingForgotten ==
  \A id \in Ids : id < Len(services) =>
    InUse(id) \/ \E i \in 1 .. Len(free) : free[i] = id

(***************************************************************************)
(* Each id of the table is in exactly one of the three places it can be:   *)
(* reserved, released, or holding a service.  Double allocation, a double  *)
(* release and a lost id would each break it (ServiceTable.cpp:11-70).     *)
(***************************************************************************)
TableInv == /\ TableTypeOK
            /\ SlotZeroUnused
            /\ ReservedOnce
            /\ ReleasedOnce
            /\ NothingForgotten

(***************************************************************************)
(* The comment in reserve(), ServiceTable.cpp:18-19: "If free is empty,    *)
(* there are no gaps in services table.  Also reserved are always part of  *)
(* services table."                                                        *)
(***************************************************************************)
ReservedArePartOfTable ==
  /\ free = <<>> => \A id \in Ids : id < Len(services) => InUse(id)
  /\ \A id \in Byte : Found(id) => id < Len(services)

(***************************************************************************)
(* The table grants an id only while nobody holds it, and a registered     *)
(* service stays where getService() finds it until remove() takes it away. *)
(***************************************************************************)
Allocator == INSTANCE IdAllocator WITH
               held      <- {id \in Ids : Found(id)},
               published <- [id \in Ids |-> GetService(id)]

ImplementsAllocator == Allocator!Spec
================================================================================
