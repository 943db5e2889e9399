-------------------------- MODULE ServiceTable_proofs --------------------------
(***************************************************************************)
(* TLAPS proofs about ServiceTable, for every IdSpace >= 2 and every set   *)
(* of services.  TableInv is inductive in the regime RoomSpec; the         *)
(* refinement of IdAllocator follows from it.                              *)
(***************************************************************************)
EXTENDS ServiceTable, TLAPS

\* The truncation to unsigned char does not change a size that fits.
LEMMA ModOfSmaller ==
  ASSUME NEW n \in Nat, NEW m \in Nat, n < m
  PROVE  n % m = n
OBVIOUS

(***************************************************************************)
(* While an id is unused, a request either reuses a released id or extends *)
(* the vector without truncation.                                          *)
(***************************************************************************)
LEMMA CandidateIsFresh ==
  ASSUME TableInv, Room
  PROVE  /\ Candidate \in Ids
         /\ ~InUse(Candidate)
         /\ free = <<>> => Candidate = Len(services)
         /\ free # <<>> => Candidate < Len(services)
<1> USE IdSpaceAssumption DEF TableInv, TableTypeOK, SlotZeroUnused, Byte, Ids
<1>1. CASE free = <<>>
  <2>1. PICK id \in Ids : ~InUse(id)
    BY DEF Room
  <2>2. id >= Len(services)
    BY <1>1, <2>1 DEF NothingForgotten
  <2>3. Len(services) \in Nat /\ Len(services) >= 1 /\ Len(services) < IdSpace
    BY <2>2
  <2>4. Len(services) % IdSpace = Len(services)
    BY <2>3, ModOfSmaller
  <2>5. Candidate = Len(services)
    BY <1>1, <2>4 DEF Candidate
  <2>6. Candidate \in Ids
    BY <2>3, <2>5
  <2>7. ~InUse(Candidate)
    BY <2>3, <2>5, <2>6 DEF InUse, GetService, ReservedOnce, Found
  <2> QED
    BY <1>1, <2>5, <2>6, <2>7
<1>2. CASE free # <<>>
  <2>1. Len(free) \in Nat /\ Len(free) >= 1 /\ Candidate = free[1]
    BY <1>2 DEF Candidate
  <2> QED
    BY <1>2, <2>1 DEF ReleasedOnce, InUse, GetService
<1> QED
  BY <1>1, <1>2

\* The empty table: no id is anywhere.
LEMMA InitInv == TableInit => TableInv
BY IdSpaceAssumption
   DEF TableInit, TableInv, TableTypeOK, SlotZeroUnused, ReservedOnce,
       ReleasedOnce, NothingForgotten, Byte, Ids, Found

\* A new id enters the reserved list; the vector has grown by one.
LEMMA ReserveNewInv == TableInv /\ Room /\ ReserveNew => TableInv'
<1> SUFFICES ASSUME TableInv, Room, ReserveNew
             PROVE  TableInv'
  OBVIOUS
<1> USE IdSpaceAssumption
<1> DEFINE n == Len(services)
<1>1. /\ Candidate = n /\ n \in Ids
      /\ n \in Nat /\ n >= 1 /\ n < IdSpace
  BY CandidateIsFresh DEF ReserveNew, Ids, Byte
<1>2. /\ services \in Seq(Service \union {nullptr})
      /\ services' = [i \in 1 .. n + 1 |-> IF i <= n THEN services[i] ELSE nullptr]
  BY <1>1 DEF ReserveNew, Resized, TableInv, TableTypeOK
<1>3. /\ services' \in Seq(Service \union {nullptr})
      /\ Len(services') = n + 1
      /\ \A i \in 1 .. n : services'[i] = services[i]
      /\ services'[n + 1] = nullptr
  BY <1>1, <1>2
<1>4. /\ free = <<>> /\ free' = <<>>
      /\ reserved \in [Byte -> Nat]
      /\ reserved' = [reserved EXCEPT ![n] = @ + 1]
      /\ reserved[n] = 0
  BY <1>1, CandidateIsFresh
     DEF ReserveNew, TableInv, TableTypeOK, InUse, Ids, Byte
<1>5. TableTypeOK'
  BY <1>1, <1>3, <1>4 DEF TableTypeOK, Ids
<1>6. SlotZeroUnused'
  BY <1>1, <1>3, <1>4 DEF SlotZeroUnused, TableInv, Byte
<1>7. ReservedOnce'
  <2> SUFFICES ASSUME NEW id \in Byte, reserved'[id] > 0
               PROVE  /\ reserved'[id] = 1
                      /\ id < n + 1
                      /\ services'[id + 1] = nullptr
    BY <1>3 DEF ReservedOnce, Found
  <2>1. CASE id = n
    BY <2>1, <1>1, <1>3, <1>4
  <2>2. CASE id # n
    <3>1. reserved'[id] = reserved[id]
      BY <2>2, <1>4
    <3>2. /\ reserved[id] = 1
          /\ id \in Nat /\ id < n
          /\ services[id + 1] = nullptr
      BY <3>1 DEF TableInv, ReservedOnce, Found, Byte
    <3> QED
      BY <3>1, <3>2, <1>1, <1>3
  <2> QED
    BY <2>1, <2>2
<1>8. ReleasedOnce'
  BY <1>4 DEF ReleasedOnce
<1>9. NothingForgotten'
  <2> SUFFICES ASSUME NEW id \in Ids, id < n + 1
               PROVE  InUse(id)'
    BY <1>3 DEF NothingForgotten
  <2>1. CASE id = n
    BY <2>1, <1>1, <1>4 DEF InUse, Ids
  <2>2. CASE id < n
    <3>1. id \in Byte /\ id \in Nat /\ InUse(id)
      BY <2>2, <1>4 DEF TableInv, NothingForgotten, Ids, Byte
    <3>2. GetService(id)' = GetService(id)
      BY <1>1, <1>3, <2>2, <3>1 DEF GetService
    <3>3. reserved'[id] = reserved[id]
      BY <1>4, <2>2, <3>1
    <3> QED
      BY <3>1, <3>2, <3>3 DEF InUse
  <2> QED
    BY <2>1, <2>2, <1>1 DEF Ids, Byte
<1> QED
  BY <1>5, <1>6, <1>7, <1>8, <1>9 DEF TableInv

\* A released id leaves the front of free for the reserved list.
LEMMA ReserveReleasedInv == TableInv /\ ReserveReleased => TableInv'
<1> SUFFICES ASSUME TableInv, ReserveReleased
             PROVE  TableInv'
  OBVIOUS
<1> USE IdSpaceAssumption DEF TableInv, Byte, Ids
<1> DEFINE c == free[1]
<1>1. /\ free \in Seq(Byte) /\ Len(free) \in Nat /\ Len(free) >= 1
      /\ Candidate = c /\ free' = Tail(free)
  BY DEF ReserveReleased, TableTypeOK, Candidate
<1>0. Len(free) \in Nat /\ Len(free) >= 1
  BY <1>1
<1>2. /\ Len(free') = Len(free) - 1
      /\ free' \in Seq(Byte)
      /\ \A i \in 1 .. Len(free') : free'[i] = free[i + 1]
  BY <1>1
<1>3. /\ c \in Ids /\ c < Len(services) /\ reserved[c] = 0
      /\ services[c + 1] = nullptr
      /\ \A i \in 1 .. Len(free) : free[i] = c => i = 1
  BY <1>1 DEF ReleasedOnce
<1>4. /\ services' = services
      /\ reserved \in [Byte -> Nat]
      /\ reserved' = [reserved EXCEPT ![c] = @ + 1]
  BY <1>1 DEF ReserveReleased, TableTypeOK
<1>5. TableTypeOK'
  BY <1>2, <1>3, <1>4 DEF TableTypeOK
<1>6. SlotZeroUnused'
  BY <1>3, <1>4 DEF SlotZeroUnused
<1>7. ReservedOnce'
  BY <1>3, <1>4 DEF ReservedOnce, Found
<1>8. ReleasedOnce'
  <2>1. ASSUME NEW i \in 1 .. Len(free')
        PROVE  /\ i + 1 \in 1 .. Len(free) /\ free'[i] = free[i + 1]
               /\ free'[i] # c
    BY <1>0, <1>2, <1>3
  <2>2. ASSUME NEW i \in 1 .. Len(free')
        PROVE  /\ free'[i] \in Ids
               /\ free'[i] < Len(services)
               /\ reserved'[free'[i]] = 0
               /\ services'[free'[i] + 1] = nullptr
    <3>1. PICK id \in Ids : /\ free[i + 1] = id /\ id # c
                            /\ id < Len(services)
                            /\ reserved[id] = 0 /\ services[id + 1] = nullptr
      BY <2>1, ZenonT(30) DEF ReleasedOnce
    <3>2. reserved'[id] = 0
      BY <3>1, <1>4
    <3> QED
      BY <2>1, <3>1, <3>2, <1>4
  <2>3. ASSUME NEW i \in 1 .. Len(free'), NEW j \in 1 .. Len(free'),
               free'[i] = free'[j]
        PROVE  i = j
    <3>1. free[i + 1] = free[j + 1]
      BY <2>1, <2>3
    <3>2. i + 1 = j + 1
      BY <2>1, <3>1 DEF ReleasedOnce
    <3> QED
      BY <3>2, <1>0
  <2> QED
    BY <2>2, <2>3, <1>4 DEF ReleasedOnce
<1>9. NothingForgotten'
  <2> SUFFICES ASSUME NEW id \in Ids, id < Len(services), ~InUse(id)'
               PROVE  \E i \in 1 .. Len(free') : free'[i] = id
    BY <1>4 DEF NothingForgotten
  <2>1. id # c /\ ~InUse(id)
    BY <1>3, <1>4 DEF InUse, GetService
  <2>2. PICK i \in 1 .. Len(free) : free[i] = id
    BY <2>1 DEF NothingForgotten
  <2>3. i - 1 \in 1 .. Len(free') /\ free'[i - 1] = id
    BY <1>1, <1>2, <2>1, <2>2
  <2> QED
    BY <2>3
<1> QED
  BY <1>5, <1>6, <1>7, <1>8, <1>9
\* A position of a sequence that has grown by one is the last or an old one.
LEMMA LastOrBefore ==
  \A m, n : n \in Nat /\ m = n + 1 =>
    \A i \in 1 .. m : i = n + 1 \/ i \in 1 .. n
OBVIOUS

(***************************************************************************)
(* unreserve() and remove() both release one id: it was in use, and from   *)
(* now on waits at the end of the list of released ids.                    *)
(***************************************************************************)
LEMMA ReleaseInv ==
  ASSUME TableInv, NEW num \in Byte,
         InUse(num), num # 0, num < Len(services),
         free' \in Seq(Byte), Len(free') = Len(free) + 1,
         \A i \in 1 .. Len(free) : free'[i] = free[i],
         free'[Len(free) + 1] = num,
         reserved' \in [Byte -> Nat],
         services' \in Seq(Service \union {nullptr}),
         Len(services') = Len(services),
         reserved'[num] = 0, services'[num + 1] = nullptr,
         \A id \in Byte \ {num} : reserved'[id] = reserved[id],
         \A i \in 1 .. Len(services) : i # num + 1 => services'[i] = services[i]
  PROVE  TableInv'
<1> USE IdSpaceAssumption DEF TableInv, Byte, Ids
<1>1. Len(free) \in Nat
  BY DEF TableTypeOK
<1>2. \A i \in 1 .. Len(free) : free[i] # num
  <2> SUFFICES ASSUME NEW i \in 1 .. Len(free), free[i] = num
               PROVE  FALSE
    OBVIOUS
  <2>1. reserved[num] = 0 /\ services[num + 1] = nullptr
    BY ZenonT(60) DEF ReleasedOnce
  <2> QED
    BY <2>1 DEF InUse, GetService
<1>3. ASSUME NEW id \in Byte \ {num}
      PROVE  InUse(id)' <=> InUse(id)
  <2>1. reserved'[id] = reserved[id]
    OBVIOUS
  <2>2. GetService(id)' = GetService(id)
    BY DEF GetService, SlotZeroUnused
  <2> QED
    BY <2>1, <2>2, Zenon DEF InUse
<1>4. TableTypeOK'
  BY <1>1 DEF TableTypeOK
<1>5. SlotZeroUnused'
  BY DEF SlotZeroUnused
<1>6. ReservedOnce'
  <2> SUFFICES ASSUME NEW id \in Byte, reserved'[id] > 0
               PROVE  /\ reserved'[id] = 1
                      /\ id < Len(services)
                      /\ services'[id + 1] = nullptr
    BY DEF ReservedOnce, Found
  <2>1. id # num /\ reserved'[id] = reserved[id]
    OBVIOUS
  <2>2. reserved[id] = 1 /\ id < Len(services) /\ services[id + 1] = nullptr
    BY <2>1 DEF ReservedOnce, Found
  <2> QED
    BY <2>1, <2>2, SMTT(30) DEF SlotZeroUnused
<1>7. ReleasedOnce'
  <2>1. ASSUME NEW i \in 1 .. Len(free')
        PROVE  /\ free'[i] \in Ids
               /\ free'[i] < Len(services)
               /\ reserved'[free'[i]] = 0
               /\ services'[free'[i] + 1] = nullptr
    <3>1. CASE i = Len(free) + 1
      BY <3>1, <1>1
    <3>2. CASE i \in 1 .. Len(free)
      <4>1. PICK id \in Ids : /\ free[i] = id /\ id # num
                             /\ id < Len(services)
                             /\ reserved[id] = 0 /\ services[id + 1] = nullptr
        BY <3>2, <1>2 DEF ReleasedOnce
      <4>2. free'[i] = id
        BY <3>2, <4>1, <1>1
      <4>3. reserved'[id] = 0
        BY <4>1
      <4>4. id + 1 \in 1 .. Len(services) /\ id + 1 # num + 1
        BY <4>1 DEF SlotZeroUnused
      <4>5. services'[id + 1] = nullptr
        BY <4>1, <4>4
      <4> QED
        BY <4>1, <4>2, <4>3, <4>5
    <3>3. i = Len(free) + 1 \/ i \in 1 .. Len(free)
      BY <1>1, LastOrBefore, Zenon
    <3> QED
      BY <3>1, <3>2, <3>3
  <2>2. ASSUME NEW i \in 1 .. Len(free'), NEW j \in 1 .. Len(free'),
               free'[i] = free'[j]
        PROVE  i = j
    <3>1. /\ i = Len(free) + 1 \/ i \in 1 .. Len(free)
          /\ j = Len(free) + 1 \/ j \in 1 .. Len(free)
      BY <1>1, LastOrBefore, Zenon
    <3>2. CASE i \in 1 .. Len(free) /\ j \in 1 .. Len(free)
      <4>1. free[i] = free[j]
        BY <2>2, <3>2, Zenon
      <4> QED
        BY <3>2, <4>1 DEF ReleasedOnce
    <3>3. CASE i = Len(free) + 1 /\ j \in 1 .. Len(free)
      BY <2>2, <3>3, <1>2, Zenon
    <3>4. CASE i \in 1 .. Len(free) /\ j = Len(free) + 1
      BY <2>2, <3>4, <1>2, Zenon
    <3> QED
      BY <3>1, <3>2, <3>3, <3>4, Zenon
  <2> QED
    BY <2>1, <2>2 DEF ReleasedOnce
<1>8. NothingForgotten'
  <2> SUFFICES ASSUME NEW id \in Ids, id < Len(services), ~InUse(id)'
               PROVE  \E i \in 1 .. Len(free') : free'[i] = id
    BY DEF NothingForgotten
  <2>1. CASE id = num
    <3>1. Len(free) + 1 \in 1 .. Len(free')
      BY <1>1
    <3> QED
      BY <2>1, <3>1, Zenon
  <2>2. CASE id # num
    <3>1. PICK i \in 1 .. Len(free) : free[i] = id
      BY <2>2, <1>3 DEF NothingForgotten
    <3>2. i \in 1 .. Len(free') /\ free'[i] = id
      BY <3>1, <1>1
    <3> QED
      BY <3>2, Zenon
  <2> QED
    BY <2>1, <2>2
<1> QED
  BY <1>4, <1>5, <1>6, <1>7, <1>8

\* free.push_back(num) keeps what free held.
LEMMA Appended ==
  ASSUME free \in Seq(Byte), NEW num \in Byte, free' = Append(free, num)
  PROVE  /\ free' \in Seq(Byte) /\ Len(free') = Len(free) + 1
         /\ \A i \in 1 .. Len(free) : free'[i] = free[i]
         /\ free'[Len(free) + 1] = num
OBVIOUS

\* unreserve(): a reserved id is released.
LEMMA UnreserveInv ==
  ASSUME TableInv, NEW num \in Byte, Unreserve(num)
  PROVE  TableInv'
<1> USE IdSpaceAssumption DEF TableInv
<1>1. /\ reserved[num] = 1 /\ num < Len(services)
      /\ services[num + 1] = nullptr /\ num # 0
      /\ reserved \in [Byte -> Nat]
      /\ services \in Seq(Service \union {nullptr})
  BY DEF Unreserve, Found, ReservedOnce, SlotZeroUnused, TableTypeOK
<1>2. /\ services' = services /\ free' = Append(free, num)
      /\ reserved' = [reserved EXCEPT ![num] = @ - 1]
  BY DEF Unreserve
<1>3. /\ reserved' \in [Byte -> Nat] /\ reserved'[num] = 0
      /\ \A id \in Byte \ {num} : reserved'[id] = reserved[id]
      /\ InUse(num)
  BY <1>1, <1>2 DEF InUse
<1>4. free \in Seq(Byte)
  BY DEF TableTypeOK
<1> QED
  BY <1>1, <1>2, <1>3, <1>4, Appended, ReleaseInv

\* remove(): a published id is released.
LEMMA RemoveInv ==
  ASSUME TableInv, NEW num \in Byte, Remove(num)
  PROVE  TableInv'
<1> USE IdSpaceAssumption DEF TableInv
<1>1. /\ num < Len(services) /\ services[num + 1] # nullptr
      /\ num \in Nat /\ num # 0 /\ InUse(num)
      /\ reserved \in [Byte -> Nat]
      /\ services \in Seq(Service \union {nullptr})
  BY DEF Remove, GetService, SlotZeroUnused, TableTypeOK, InUse, Byte
<1>2. reserved[num] = 0
  BY <1>1 DEF ReservedOnce, Found
<1>3. /\ services' = [services EXCEPT ![num + 1] = nullptr]
      /\ free' = Append(free, num) /\ reserved' = reserved
  BY DEF Remove
<1>4. /\ services' \in Seq(Service \union {nullptr})
      /\ Len(services') = Len(services)
      /\ services'[num + 1] = nullptr
      /\ \A i \in 1 .. Len(services) : i # num + 1 => services'[i] = services[i]
  BY <1>1, <1>3
<1>5. free \in Seq(Byte)
  BY DEF TableTypeOK
<1> QED
  BY <1>1, <1>2, <1>3, <1>4, <1>5, Appended, ReleaseInv

\* push(): a reserved id becomes the place of a service.
LEMMA PushInv ==
  ASSUME TableInv, NEW num \in Byte, NEW service \in Service, Push(service, num)
  PROVE  TableInv'
<1> USE IdSpaceAssumption, NullAssumption DEF TableInv, Byte, Ids
<1>1. /\ reserved[num] = 1 /\ num < Len(services)
      /\ services[num + 1] = nullptr /\ num # 0 /\ num \in Nat
      /\ reserved \in [Byte -> Nat]
      /\ services \in Seq(Service \union {nullptr})
  BY DEF Push, Found, ReservedOnce, SlotZeroUnused, TableTypeOK
<1>2. /\ services' = [services EXCEPT ![num + 1] = service]
      /\ free' = free
      /\ reserved' = [reserved EXCEPT ![num] = @ - 1]
  BY DEF Push
<1>3. /\ services' \in Seq(Service \union {nullptr})
      /\ Len(services') = Len(services)
      /\ services'[num + 1] = service
      /\ \A i \in 1 .. Len(services) : i # num + 1 => services'[i] = services[i]
  BY <1>1, <1>2
<1>4. /\ reserved' \in [Byte -> Nat] /\ reserved'[num] = 0
      /\ \A id \in Byte \ {num} : reserved'[id] = reserved[id]
  BY <1>1, <1>2
<1>5. \A i \in 1 .. Len(free) : free[i] # num
  BY <1>1 DEF ReleasedOnce
<1>6. ASSUME NEW id \in Ids
      PROVE  InUse(id)' <=> InUse(id)
  <2>1. CASE id = num
    BY <2>1, <1>1, <1>3, NullAssumption DEF InUse, GetService
  <2>2. CASE id # num
    <3>1. reserved'[id] = reserved[id]
      BY <2>2, <1>4
    <3>2. GetService(id)' = GetService(id)
      BY <2>2, <1>3 DEF GetService
    <3> QED
      BY <3>1, <3>2 DEF InUse
  <2> QED
    BY <2>1, <2>2
<1>7. TableTypeOK'
  BY <1>2, <1>3, <1>4 DEF TableTypeOK
<1>8. SlotZeroUnused'
  BY <1>1, <1>3, <1>4 DEF SlotZeroUnused
<1>9. ReservedOnce'
  <2> SUFFICES ASSUME NEW id \in Byte, reserved'[id] > 0
               PROVE  /\ reserved'[id] = 1
                      /\ id < Len(services)
                      /\ services'[id + 1] = nullptr
    BY <1>3 DEF ReservedOnce, Found
  <2>1. id # num /\ reserved'[id] = reserved[id]
    BY <1>4
  <2>2. reserved[id] = 1 /\ id < Len(services) /\ services[id + 1] = nullptr
    BY <2>1 DEF ReservedOnce, Found
  <2> QED
    BY <1>3, <2>1, <2>2 DEF SlotZeroUnused
<1>10. ReleasedOnce'
  BY <1>1, <1>2, <1>3, <1>4, <1>5 DEF ReleasedOnce
<1>11. NothingForgotten'
  BY <1>2, <1>3, <1>6 DEF NothingForgotten
<1> QED
  BY <1>7, <1>8, <1>9, <1>10, <1>11
(***************************************************************************)
(* Type correctness and the three-way partition of the ids, in every       *)
(* reachable state of the regime the table is meant for.                   *)
(***************************************************************************)
LEMMA NextInv == TableInv /\ [RoomNext]_tableVars => TableInv'
<1> SUFFICES ASSUME TableInv, [RoomNext]_tableVars
             PROVE  TableInv'
  OBVIOUS
<1>1. CASE Room /\ ReserveNew
  BY <1>1, ReserveNewInv
<1>2. CASE Room /\ ReserveReleased
  BY <1>2, ReserveReleasedInv
<1>3. ASSUME NEW num \in Byte, Unreserve(num)
      PROVE  TableInv'
  BY <1>3, UnreserveInv
<1>4. ASSUME NEW num \in Byte, NEW service \in Service, Push(service, num)
      PROVE  TableInv'
  BY <1>4, PushInv
<1>5. ASSUME NEW num \in Byte, Remove(num)
      PROVE  TableInv'
  BY <1>5, RemoveInv
<1>6. CASE UNCHANGED tableVars
  BY <1>6 DEF tableVars, TableInv, TableTypeOK, SlotZeroUnused, ReservedOnce,
              ReleasedOnce, NothingForgotten, InUse, GetService, Found
<1> QED
  BY <1>1, <1>2, <1>3, <1>4, <1>5, <1>6 DEF RoomNext, Reserve, OtherCalls

\* No id is allocated twice, released twice or lost (TableInv), whatever the
\* calls, as long as a request is made only while an id is unused.
THEOREM TableInvariant == RoomSpec => []TableInv
<1>1. RoomSpec => TableInit /\ [][RoomNext]_tableVars
  BY DEF RoomSpec
<1> QED
  BY <1>1, InitInv, NextInv, PTL

\* The comment of reserve() holds as long as the vector is never truncated.
THEOREM CommentHolds == RoomSpec => []ReservedArePartOfTable
<1>1. TableInv => ReservedArePartOfTable
  <2> SUFFICES ASSUME TableInv
               PROVE  ReservedArePartOfTable
    OBVIOUS
  <2>1. \A id \in Byte : Found(id) => id < Len(services)
    BY DEF TableInv, ReservedOnce
  <2>2. free = <<>> => \A id \in Ids : id < Len(services) => InUse(id)
    BY DEF TableInv, NothingForgotten
  <2> QED
    BY <2>1, <2>2 DEF ReservedArePartOfTable
<1> QED
  BY <1>1, TableInvariant, PTL

--------------------------------------------------------------------------------
(***************************************************************************)
(* Refinement: under the mapping of ServiceTable.tla each operation is one *)
(* step of IdAllocator.                                                    *)
(***************************************************************************)
heldIds == {id \in Ids : Found(id)}
publishedAt == [id \in Ids |-> GetService(id)]

\* No id is held and none is published.
LEMMA InitRefines == TableInit => Allocator!Init
<1> SUFFICES ASSUME TableInit
             PROVE  /\ heldIds = {}
                    /\ publishedAt = [id \in Ids |-> nullptr]
  BY DEF Allocator!Init, heldIds, publishedAt
<1>1. heldIds = {}
  BY DEF TableInit, heldIds, Found, Ids
<1>2. \A id \in Ids : GetService(id) = nullptr
  BY IdSpaceAssumption DEF TableInit, GetService, Ids, Byte
<1> QED
  BY <1>1, <1>2 DEF publishedAt

\* Once the mapped state is known as functions of the ids, the steps of the
\* allocator are equations about one id.
LEMMA GrantStep ==
  ASSUME TableInv, NEW c \in Ids, ~InUse(c),
         \A id \in Ids : GetService(id)' = GetService(id),
         reserved' = [reserved EXCEPT ![c] = @ + 1]
  PROVE  Allocator!Grant(c)
<1>1. reserved \in [Byte -> Nat] /\ c \in Byte
  BY DEF TableInv, TableTypeOK, Ids
<1>2. heldIds' = heldIds \union {c}
  BY <1>1 DEF heldIds, Found, Ids
<1>3. publishedAt' = publishedAt
  BY DEF publishedAt
<1>4. c \notin heldIds /\ publishedAt[c] = nullptr
  BY DEF InUse, heldIds, publishedAt, Found
<1> QED
  BY <1>2, <1>3, <1>4 DEF Allocator!Grant, Allocator!Available, heldIds, publishedAt

\* A reserve() hands out an id that is neither held nor published.
LEMMA ReserveGrants ==
  ASSUME TableInv, Room, Reserve
  PROVE  Candidate \in Ids /\ Allocator!Grant(Candidate)
<1> DEFINE c == Candidate
<1>1. c \in Ids /\ ~InUse(c)
  BY CandidateIsFresh
<1>2. reserved' = [reserved EXCEPT ![c] = @ + 1]
  BY DEF Reserve, ReserveNew, ReserveReleased
<1>3. \A id \in Ids : GetService(id)' = GetService(id)
  <2>1. CASE ReserveReleased
    BY <2>1 DEF ReserveReleased, GetService
  <2>2. CASE ReserveNew
    <3>1. c = Len(services) /\ c \in Nat
      BY <1>1, <2>2, CandidateIsFresh DEF ReserveNew, Ids, Byte
    <3>2. services' = [i \in 1 .. c + 1 |-> IF i <= c THEN services[i] ELSE nullptr]
      BY <3>1, <2>2 DEF ReserveNew, Resized
    <3>3. Len(services') = c + 1
      BY <3>1, <3>2
    <3>4. ASSUME NEW id \in Ids
          PROVE  GetService(id)' = GetService(id)
      <4>1. id \in Nat
        BY IdSpaceAssumption DEF Ids, Byte
      <4> HIDE DEF c
      <4> QED
        BY <3>1, <3>2, <3>3, <4>1 DEF GetService
    <3> QED
      BY <3>4
  <2> QED
    BY <2>1, <2>2 DEF Reserve
<1> QED
  BY <1>1, <1>2, <1>3, GrantStep

\* unreserve() takes back an id that was held.
LEMMA UnreserveGivesBack ==
  ASSUME TableInv, NEW num \in Byte, Unreserve(num)
  PROVE  num \in Ids /\ Allocator!GiveBack(num)
<1>1. /\ reserved \in [Byte -> Nat] /\ num \in Ids
      /\ reserved[num] = 1 /\ reserved' = [reserved EXCEPT ![num] = @ - 1]
  BY DEF Unreserve, TableInv, TableTypeOK, ReservedOnce, SlotZeroUnused, Found, Ids
<1>2. heldIds' = heldIds \ {num} /\ num \in heldIds
  BY <1>1 DEF heldIds, Found, Ids
<1>3. publishedAt' = publishedAt
  BY DEF publishedAt, Unreserve, GetService
<1> QED
  BY <1>1, <1>2, <1>3 DEF Allocator!GiveBack, heldIds, publishedAt

\* One slot of the vector written is one id of GetService overwritten.
LEMMA SlotWritten ==
  ASSUME services \in Seq(Service \union {nullptr}),
         NEW num \in Ids, num < Len(services), NEW value,
         services' = [services EXCEPT ![num + 1] = value]
  PROVE  publishedAt' = [publishedAt EXCEPT ![num] = value]
<1>1. Ids \subseteq Nat
  BY IdSpaceAssumption DEF Ids, Byte
<1>2. Len(services') = Len(services) /\ Len(services) \in Nat
  OBVIOUS
<1>3. \A id \in Ids : GetService(id)' = IF id = num THEN value ELSE GetService(id)
  BY <1>1, <1>2 DEF GetService
<1> QED
  BY <1>3 DEF publishedAt

\* push() turns a held id into a published one.
LEMMA PushPublishes ==
  ASSUME TableInv, NEW num \in Byte, NEW service \in Service, Push(service, num)
  PROVE  num \in Ids /\ Allocator!Publish(num, service)
<1>1. /\ reserved \in [Byte -> Nat] /\ num \in Ids
      /\ reserved[num] = 1 /\ reserved' = [reserved EXCEPT ![num] = @ - 1]
      /\ num < Len(services)
  BY DEF Push, TableInv, TableTypeOK, ReservedOnce, SlotZeroUnused, Found, Ids
<1>2. heldIds' = heldIds \ {num} /\ num \in heldIds
  BY <1>1 DEF heldIds, Found, Ids
<1>3. publishedAt' = [publishedAt EXCEPT ![num] = service]
  BY <1>1, SlotWritten DEF publishedAt, Push, TableInv, TableTypeOK
<1> QED
  BY <1>1, <1>2, <1>3 DEF Allocator!Publish, heldIds, publishedAt

\* remove() withdraws a published id.
LEMMA RemoveWithdraws ==
  ASSUME TableInv, NEW num \in Byte, Remove(num)
  PROVE  num \in Ids /\ Allocator!Withdraw(num)
<1>1. num \in Ids /\ num < Len(services) /\ GetService(num) # nullptr
  BY IdSpaceAssumption DEF Remove, GetService, TableInv, SlotZeroUnused, Ids, Byte
<1>2. heldIds' = heldIds
  BY DEF heldIds, Found, Remove
<1>3. publishedAt' = [publishedAt EXCEPT ![num] = nullptr]
  BY <1>1, SlotWritten DEF publishedAt, Remove, TableInv, TableTypeOK
<1> QED
  BY <1>1, <1>2, <1>3 DEF Allocator!Withdraw, heldIds, publishedAt

\* Every call on the table is a step of the allocator, or changes nothing it sees.
LEMMA NextRefines ==
  TableInv /\ [RoomNext]_tableVars => [Allocator!Next]_Allocator!vars
<1> SUFFICES ASSUME TableInv, [RoomNext]_tableVars
             PROVE  Allocator!Next \/ UNCHANGED Allocator!vars
  OBVIOUS
<1>1. CASE Room /\ Reserve
  BY <1>1, ReserveGrants DEF Allocator!Next
<1>2. ASSUME NEW num \in Byte, Unreserve(num)
      PROVE  Allocator!Next
  BY <1>2, UnreserveGivesBack DEF Allocator!Next
<1>3. ASSUME NEW num \in Byte, NEW service \in Service, Push(service, num)
      PROVE  Allocator!Next
  BY <1>3, PushPublishes DEF Allocator!Next
<1>4. ASSUME NEW num \in Byte, Remove(num)
      PROVE  Allocator!Next
  BY <1>4, RemoveWithdraws DEF Allocator!Next
<1>5. CASE UNCHANGED tableVars
  BY <1>5 DEF tableVars, Allocator!vars, Found, GetService
<1> QED
  BY <1>1, <1>2, <1>3, <1>4, <1>5 DEF RoomNext, OtherCalls

\* The table implements the allocator: an id is granted only while nobody
\* holds it, and a registered service stays findable until it is removed.
THEOREM Refinement == RoomSpec => ImplementsAllocator
<1>1. RoomSpec => TableInit /\ [][RoomNext]_tableVars
  BY DEF RoomSpec
<1>2. Allocator!Init /\ [][Allocator!Next]_Allocator!vars => ImplementsAllocator
  BY DEF ImplementsAllocator, Allocator!Spec
<1> QED
  BY <1>1, <1>2, InitRefines, NextRefines, TableInvariant, PTL
================================================================================
