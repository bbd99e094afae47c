--------------------------- MODULE PackingProofs ---------------------------
(* Theorems about Packing for every number of sessions, items, packages    *)
(* and packers, and about Shipping, on the invariant of the packing task   *)
(* it ships.                                                               *)
EXTENDS Shipping, SumTheorems, SequenceTheorems

-----------------------------------------------------------------------------
(* The inductive invariant *)

(* The handlers that ask for an open task. *)
TaskHandlers == {"start", "cancel", "assign", "createPackage", "close", "add"}

(* A packer writes only items it has locked: what it has written of one is *)
(* the committed quantity and what it adds, within what is required.       *)
LockInv ==
    \A s \in Sessions, i \in Items :
        /\ holder[i] = s => kind[s] = "add"
        /\ added[s][i] > 0 =>
             /\ holder[i] = s
             /\ own[s][i] = packed[i] + added[s][i]
             /\ own[s][i] <= Required[i]

(* The lines still to pack are above every item the packer has locked. *)
OrderInv ==
    \A s \in Sessions :
        /\ InLockOrder(lines[s])
        /\ \A i \in Items, n \in 1..Len(lines[s]) : holder[i] = s => i <= lines[s][n].item

(* How far a request can be. *)
SessionInv ==
    \A s \in Sessions :
        /\ kind[s] \in {"add", "close"} => package[s] \in Packages
        /\ kind[s] = "assign" => user[s] \in Staff
        /\ opened[s] => kind[s] \in {"add", "close"}
        /\ verdict[s] # "none" => kind[s] = "add" /\ opened[s] /\ lines[s] = <<>>
        /\ verdict[s] = "PACKED" => \A i \in Items : RowFor(s, i) = Required[i]

(* Before the task is created nothing is packed and nobody works on it. *)
CreationInv ==
    task = "none" =>
        packed = Zero /\ \A s \in Sessions : kind[s] \notin TaskHandlers

(* What a request has checked is still so. *)
StillValid(s) ==
    /\ kind[s] = "createTask" => task = "none"
    /\ kind[s] \in TaskHandlers => Open
    /\ kind[s] = "start" => task = "PENDING"
    /\ kind[s] \in {"start", "createPackage", "close", "add"} => MayWork(user[s])
    /\ kind[s] = "cancelOrder" => so = "CONFIRMED"
    /\ opened[s] => pkg[package[s]] = "OPEN"
    /\ verdict[s] # "none" => verdict[s] = StatusOf([i \in Items |-> RowFor(s, i)])

(* Unless another request has committed since it began. *)
FreshInv == \A s \in Sessions : ~outdated[s] => StillValid(s)

(* The inductive strengthening: the properties, and what each request has  *)
(* checked, locked and written.                                            *)
PackingInv ==
    /\ TypeOK /\ QuantitiesAgree /\ StatusTellsProgress
    /\ LockInv /\ OrderInv /\ SessionInv /\ CreationInv /\ FreshInv

-----------------------------------------------------------------------------
(* Working data of requests *)

(* Assigning a quantity to one item of one session changes no other.       *)
LEMMA ItemUpdate ==
    ASSUME NEW f \in [Sessions -> [Items -> Nat]], NEW s \in Sessions, NEW i \in Items,
           NEW v \in Nat, NEW g, g = [f EXCEPT ![s][i] = v]
    PROVE  /\ g \in [Sessions -> [Items -> Nat]]
           /\ \A t \in Sessions, j \in Items :
                g[t][j] = IF t = s /\ j = i THEN v ELSE f[t][j]
  OBVIOUS

(* The quantities the packages hold of an item are natural numbers. *)
LEMMA ZeroType == Zero \in [Items -> Nat] /\ \A i \in Items : Zero[i] = 0
  BY DEF Zero

(* Sums over all items of quantities. *)
LEMMA SumItems ==
    ASSUME NEW q \in [Items -> Nat]
    PROVE  Sum(q) \in Nat
  BY SumNat, PackingAssumption DEF Sum

(* The units of a task that packs no more than is required, and at least   *)
(* as much in all, are complete: the test of recalculated totals decides   *)
(* item by item.                                                           *)
LEMMA TotalsDecide ==
    ASSUME NEW q \in [Items -> Nat], \A i \in Items : q[i] <= Required[i]
    PROVE  StatusOf(q) = "PACKED" <=> \A i \in Items : q[i] = Required[i]
  <1>1. IsFiniteSet(Items) /\ Required \in [Items -> Nat]
    BY PackingAssumption
  <1>2. Sum(q) \in Nat /\ Sum(Required) \in Nat
    BY <1>1, SumItems
  <1>3. StatusOf(q) = "PACKED" <=> Sum(q) >= Sum(Required)
    BY DEF StatusOf
  <1>4. ASSUME Sum(q) >= Sum(Required) PROVE \A i \in Items : q[i] = Required[i]
    <2>1. \A i \in Items : q[i] \in Int /\ Required[i] \in Int /\ q[i] <= Required[i]
      BY <1>1
    <2>2. SumFunctionOnSet(q, Items) >= SumFunctionOnSet(Required, Items)
      BY <1>4 DEF Sum
    <2>3. QED
      BY <1>1, <2>1, <2>2, SumMonotone
  <1>5. ASSUME \A i \in Items : q[i] = Required[i] PROVE Sum(q) >= Sum(Required)
    <2>1. q = Required
      BY <1>1, <1>5
    <2>2. QED
      BY <2>1, <1>2
  <1>6. QED
    BY <1>3, <1>4, <1>5

(* The status computed from the items is one of a task under way. *)
LEMMA StatusOfType == \A q : StatusOf(q) \in {"PACKED", "PARTIALLY_PACKED", "IN_PROGRESS"}
  BY DEF StatusOf

(* A task item as a request reads it. *)
LEMMA RowForType ==
    ASSUME TypeOK, NEW s \in Sessions
    PROVE  [i \in Items |-> RowFor(s, i)] \in [Items -> Nat]
  BY DEF TypeOK, RowFor

-----------------------------------------------------------------------------
(* The steps keep the inductive invariant *)

(* A request that is accepted has locked and written nothing yet. *)
LEMMA BeginKeeps ==
    ASSUME PackingInv, NEW s \in Sessions, NEW handler,
           NEW u \in Staff \union {Manager}, NEW p \in Packages \union {NoPackage},
           NEW ls \in Seq(Line), InLockOrder(ls), Begin(s, handler, u, p, ls),
           handler \in {"add", "close"} => p \in Packages,
           handler = "assign" => u \in Staff,
           handler = "createTask" => task = "none",
           handler \in TaskHandlers => Open,
           handler = "start" => task = "PENDING",
           handler \in {"start", "createPackage", "close", "add"} => MayWork(u),
           handler = "cancelOrder" => so = "CONFIRMED"
    PROVE  PackingInv'
  <1> USE DEF PackingInv
  <1>0. /\ kind[s] = "none" /\ handler \in Handlers
        /\ kind' = [kind EXCEPT ![s] = handler] /\ user' = [user EXCEPT ![s] = u]
        /\ package' = [package EXCEPT ![s] = p] /\ lines' = [lines EXCEPT ![s] = ls]
        /\ served' = served + 1
        /\ UNCHANGED <<so, task, packed, pkg, packedBy, contents, holder, opened, own, added,
                       verdict, outdated, stale>>
    BY DEF Begin, tables, history
  <1>1. TypeOK'
    BY <1>0 DEF TypeOK
  <1>2. QuantitiesAgree' /\ StatusTellsProgress'
    BY <1>0 DEF QuantitiesAgree, PackedWithinRequired, PackagesHoldWhatIsPacked,
                StatusTellsProgress, PackedMeansComplete, CompleteMeansPacked, Complete
  <1>3. \A i \in Items : holder[i] # s /\ added[s][i] = 0
    BY <1>0 DEF LockInv, TypeOK
  <1>4. LockInv'
    BY <1>0, <1>3 DEF LockInv, TypeOK
  <1>5. OrderInv'
    <2> SUFFICES ASSUME NEW t \in Sessions
                 PROVE  /\ InLockOrder(lines'[t])
                        /\ \A i \in Items, n \in 1..Len(lines'[t]) :
                             holder'[i] = t => i <= lines'[t][n].item
      BY DEF OrderInv, InLockOrder
    <2>1. CASE t = s
      BY <2>1, <1>0, <1>3 DEF TypeOK
    <2>2. CASE t # s
      BY <2>2, <1>0 DEF OrderInv, TypeOK
    <2>3. QED
      BY <2>1, <2>2
  <1>6. ~opened[s] /\ verdict[s] = "none"
    BY <1>0 DEF SessionInv
  <1>7. SessionInv'
    BY <1>0, <1>6 DEF SessionInv, TypeOK, RowFor
  <1>8. CreationInv'
    BY <1>0 DEF CreationInv, TypeOK, Open
  <1>9. FreshInv'
    <2> SUFFICES ASSUME NEW t \in Sessions, ~outdated[t] PROVE StillValid(t)'
      BY <1>0 DEF FreshInv
    <2>1. CASE t = s
      BY <2>1, <1>0, <1>6 DEF StillValid, TypeOK, Open, MayWork
    <2>2. CASE t # s
      <3>1. StillValid(t)
        BY DEF FreshInv
      <3>2. /\ kind'[t] = kind[t] /\ user'[t] = user[t] /\ package'[t] = package[t]
            /\ \A i \in Items : RowFor(t, i)' = RowFor(t, i)
        BY <2>2, <1>0 DEF TypeOK, RowFor
      <3>3. [i \in Items |-> RowFor(t, i)]' = [i \in Items |-> RowFor(t, i)]
        BY <3>2
      <3>4. QED
        BY <3>1, <3>2, <3>3, <1>0 DEF StillValid, Open, MayWork
    <2>3. QED
      BY <2>1, <2>2
  <1>10. QED
    BY <1>1, <1>2, <1>4, <1>5, <1>7, <1>8, <1>9

(* A step that leaves the tables and the locks as they are, and what every *)
(* other request has checked and written.                                  *)
LEMMA QuietTables ==
    ASSUME UNCHANGED <<tables, stale>>, QuantitiesAgree, StatusTellsProgress
    PROVE  QuantitiesAgree' /\ StatusTellsProgress'
  BY DEF QuantitiesAgree, PackedWithinRequired, PackagesHoldWhatIsPacked, tables,
         StatusTellsProgress, PackedMeansComplete, CompleteMeansPacked, Complete

(* What another request has checked stays valid while the tables stay. *)
LEMMA OthersStillValid ==
    ASSUME TypeOK, NEW t \in Sessions, StillValid(t), UNCHANGED tables,
           kind'[t] = kind[t], user'[t] = user[t], package'[t] = package[t],
           opened'[t] = opened[t], own'[t] = own[t], added'[t] = added[t],
           verdict'[t] = verdict[t]
    PROVE  StillValid(t)'
  <1>1. [i \in Items |-> RowFor(t, i)]' = [i \in Items |-> RowFor(t, i)]
    BY DEF RowFor, tables
  <1>2. QED
    BY <1>1 DEF StillValid, Open, MayWork, tables

(* The package is looked at and found open. *)
LEMMA ReadPackageKeeps ==
    ASSUME PackingInv, NEW s \in Sessions, ReadPackage(s)
    PROVE  PackingInv'
  <1> USE DEF PackingInv
  <1>0. /\ kind[s] \in {"add", "close"} /\ ~opened[s] /\ pkg[package[s]] = "OPEN"
        /\ opened' = [opened EXCEPT ![s] = TRUE]
        /\ UNCHANGED <<tables, holder, kind, user, package, lines, own, added, verdict,
                       served, outdated, stale>>
    BY DEF ReadPackage, Usable, history
  <1>1. TypeOK'
    BY <1>0 DEF TypeOK, tables
  <1>2. QuantitiesAgree' /\ StatusTellsProgress'
    BY <1>0, QuietTables
  <1>3. LockInv' /\ OrderInv' /\ CreationInv'
    BY <1>0 DEF LockInv, OrderInv, InLockOrder, CreationInv, tables
  <1>4. verdict[s] = "none"
    BY <1>0 DEF SessionInv
  <1>5. SessionInv'
    BY <1>0, <1>4 DEF SessionInv, TypeOK, RowFor, tables
  <1>6. FreshInv'
    <2> SUFFICES ASSUME NEW t \in Sessions, ~outdated[t] PROVE StillValid(t)'
      BY <1>0 DEF FreshInv
    <2>1. StillValid(t)
      BY DEF FreshInv
    <2>2. CASE t = s
      BY <2>1, <2>2, <1>0, <1>4 DEF StillValid, TypeOK, Open, MayWork, tables
    <2>3. CASE t # s
      BY <2>1, <2>3, <1>0, OthersStillValid DEF TypeOK
    <2>4. QED
      BY <2>2, <2>3
  <1>7. QED
    BY <1>1, <1>2, <1>3, <1>5, <1>6

(* An item is locked, checked against what remains of it, and written. *)
LEMMA PackItemKeeps ==
    ASSUME PackingInv, NEW s \in Sessions, PackItem(s)
    PROVE  PackingInv'
  <1> USE DEF PackingInv
  <1> DEFINE l == Head(lines[s])
             v == RowFor(s, l.item) + l.quantity
             w == added[s][l.item] + l.quantity
  <1>0. /\ kind[s] = "add" /\ opened[s] /\ lines[s] # <<>>
        /\ holder[l.item] \in {NoSession, s} /\ l.quantity <= Required[l.item] - RowFor(s, l.item)
        /\ holder' = [holder EXCEPT ![l.item] = s]
        /\ own' = [own EXCEPT ![s][l.item] = v]
        /\ added' = [added EXCEPT ![s][l.item] = w]
        /\ lines' = [lines EXCEPT ![s] = Tail(@)]
        /\ UNCHANGED <<tables, kind, user, package, opened, verdict, served, outdated, stale>>
    BY DEF PackItem, Fits, Free, history
  <1>1. /\ l \in Line /\ l = lines[s][1] /\ 1 \in 1..Len(lines[s]) /\ Len(lines[s]) \in Nat
        /\ Tail(lines[s]) \in Seq(Line) /\ Len(Tail(lines[s])) = Len(lines[s]) - 1
        /\ \A n \in 1..Len(Tail(lines[s])) :
             n + 1 \in 1..Len(lines[s]) /\ Tail(lines[s])[n] = lines[s][n + 1]
    <2>1. lines[s] \in Seq(Line)
      BY DEF TypeOK
    <2>2. QED
      BY <2>1, <1>0, HeadTailProperties, EmptySeq, LenProperties
  <1> HIDE DEF l
  <1>2. l.item \in Items /\ l.quantity \in Nat /\ l.quantity > 0 /\ RowFor(s, l.item) \in Nat
        /\ Required[l.item] \in Nat /\ v \in Nat /\ w \in Nat /\ w > 0 /\ v <= Required[l.item]
    <2>1. l.item \in Items /\ l.quantity \in Nat /\ l.quantity > 0
      BY <1>1 DEF Line
    <2>2. Required[l.item] \in Nat
      BY <2>1, PackingAssumption
    <2>3. RowFor(s, l.item) \in Nat /\ added[s][l.item] \in Nat
      BY <2>1 DEF TypeOK, RowFor
    <2>4. QED
      BY <2>1, <2>2, <2>3, <1>0
  <1>3. /\ own' \in [Sessions -> [Items -> Nat]]
        /\ \A t \in Sessions, j \in Items :
             own'[t][j] = IF t = s /\ j = l.item THEN v ELSE own[t][j]
    <2> HIDE DEF v
    <2>1. QED
      BY <1>0, <1>2, ItemUpdate DEF TypeOK
  <1>4. /\ added' \in [Sessions -> [Items -> Nat]]
        /\ \A t \in Sessions, j \in Items :
             added'[t][j] = IF t = s /\ j = l.item THEN w ELSE added[t][j]
    <2> HIDE DEF w
    <2>1. QED
      BY <1>0, <1>2, ItemUpdate DEF TypeOK
  <1>5. v = packed[l.item] + w
    BY <1>2 DEF LockInv, RowFor, TypeOK
  <1> HIDE DEF v, w
  <1>6. TypeOK'
    BY <1>0, <1>1, <1>2, <1>3, <1>4 DEF TypeOK, tables
  <1>7. QuantitiesAgree' /\ StatusTellsProgress'
    BY <1>0, QuietTables
  <1>8. LockInv'
    <2> SUFFICES ASSUME NEW t \in Sessions, NEW j \in Items
                 PROVE  /\ holder'[j] = t => kind'[t] = "add"
                        /\ added'[t][j] > 0 =>
                             /\ holder'[j] = t
                             /\ own'[t][j] = packed'[j] + added'[t][j]
                             /\ own'[t][j] <= Required[j]
      BY DEF LockInv
    <2>1. CASE j = l.item
      <3>1. holder'[j] = s
        BY <2>1, <1>0 DEF TypeOK
      <3>2. t # s => added[t][j] = 0
        <4>1. t # s => holder[j] # t
          BY <2>1, <1>0, PackingAssumption
        <4>2. added[t][j] \in Nat
          BY DEF TypeOK
        <4>3. QED
          BY <4>1, <4>2 DEF LockInv
      <3>3. QED
        BY <2>1, <3>1, <3>2, <1>0, <1>2, <1>3, <1>4, <1>5 DEF tables
    <2>2. CASE j # l.item
      <3>1. holder'[j] = holder[j]
        BY <2>2, <1>0 DEF TypeOK
      <3>2. QED
        BY <2>2, <3>1, <1>0, <1>3, <1>4 DEF tables, LockInv
    <2>3. QED
      BY <2>1, <2>2
  <1>9. OrderInv'
    <2> SUFFICES ASSUME NEW t \in Sessions
                 PROVE  /\ InLockOrder(lines'[t])
                        /\ \A i \in Items, n \in 1..Len(lines'[t]) :
                             holder'[i] = t => i <= lines'[t][n].item
      BY DEF OrderInv, InLockOrder
    <2>1. CASE t # s
      <3>1. lines'[t] = lines[t] /\ \A i \in Items : holder'[i] = t => holder[i] = t
        BY <2>1, <1>0, <1>2 DEF TypeOK
      <3>2. QED
        BY <3>1 DEF OrderInv
    <2>2. CASE t = s
      <3>1. lines'[s] = Tail(lines[s])
        BY <1>0 DEF TypeOK
      <3>2. \A i, j \in 1..Len(lines[s]) : i < j => lines[s][i].item <= lines[s][j].item
        <4>1. DOMAIN lines[s] = 1..Len(lines[s])
          BY LenProperties DEF TypeOK
        <4>2. QED
          BY <4>1 DEF OrderInv, InLockOrder
      <3>3. InLockOrder(lines'[s])
        <4>1. DOMAIN Tail(lines[s]) = 1..Len(Tail(lines[s]))
          BY <1>1, LenProperties
        <4>2. \A i, j \in 1..Len(Tail(lines[s])) :
                i < j => Tail(lines[s])[i].item <= Tail(lines[s])[j].item
          BY <1>1, <3>2
        <4>3. QED
          BY <3>1, <4>1, <4>2 DEF InLockOrder
      <3>4. ASSUME NEW i \in Items, NEW n \in 1..Len(lines'[s]), holder'[i] = s
            PROVE  i <= lines'[s][n].item
        <4>1. n + 1 \in 1..Len(lines[s]) /\ lines'[s][n] = lines[s][n + 1] /\ 1 < n + 1
          BY <1>1, <3>1
        <4>2. CASE i = l.item
          BY <4>1, <4>2, <1>1, <3>2
        <4>3. CASE i # l.item
          <5>1. holder[i] = s
            BY <4>3, <3>4, <1>0 DEF TypeOK
          <5>2. QED
            BY <5>1, <4>1 DEF OrderInv
        <4>4. QED
          BY <4>2, <4>3
      <3>5. QED
        BY <2>2, <3>3, <3>4
    <2>3. QED
      BY <2>1, <2>2
  <1>10. verdict[s] = "none"
    BY <1>0 DEF SessionInv
  <1>11. \A t \in Sessions \ {s} : /\ \A i \in Items : RowFor(t, i)' = RowFor(t, i)
                                   /\ own'[t] = own[t] /\ added'[t] = added[t]
    BY <1>0, <1>3, <1>4 DEF RowFor, tables, TypeOK
  <1>12. SessionInv'
    BY <1>0, <1>10, <1>11 DEF SessionInv, TypeOK, tables
  <1>13. CreationInv'
    BY <1>0 DEF CreationInv, tables
  <1>14. FreshInv'
    <2> SUFFICES ASSUME NEW t \in Sessions, ~outdated[t] PROVE StillValid(t)'
      BY <1>0 DEF FreshInv
    <2>1. StillValid(t)
      BY DEF FreshInv
    <2>2. CASE t = s
      BY <2>1, <2>2, <1>0, <1>10 DEF StillValid, TypeOK, Open, MayWork, tables
    <2>3. CASE t # s
      BY <2>1, <2>3, <1>0, <1>11, OthersStillValid DEF TypeOK
    <2>4. QED
      BY <2>2, <2>3
  <1>15. QED
    BY <1>6, <1>7, <1>8, <1>9, <1>12, <1>13, <1>14

(* The status is computed from what the request reads. *)
LEMMA ReadItemsKeeps ==
    ASSUME PackingInv, NEW s \in Sessions, ReadItems(s)
    PROVE  PackingInv'
  <1> USE DEF PackingInv
  <1> DEFINE q == [i \in Items |-> RowFor(s, i)]
  <1>0. /\ kind[s] = "add" /\ opened[s] /\ lines[s] = <<>>
        /\ verdict' = [verdict EXCEPT ![s] = StatusOf(q)]
        /\ UNCHANGED <<tables, holder, kind, user, package, lines, opened, own, added,
                       served, outdated, stale>>
    BY DEF ReadItems, history
  <1>1. q \in [Items -> Nat] /\ StatusOf(q) \in {"PACKED", "PARTIALLY_PACKED", "IN_PROGRESS"}
    BY RowForType, StatusOfType
  <1>2. StatusOf(q) = "PACKED" => \A i \in Items : RowFor(s, i) = Required[i]
    <2>1. \A i \in Items : RowFor(s, i) <= Required[i]
      BY DEF LockInv, RowFor, QuantitiesAgree, PackedWithinRequired
    <2>2. \A i \in Items : q[i] = RowFor(s, i)
      OBVIOUS
    <2> HIDE DEF q
    <2>3. QED
      BY <1>1, <2>1, <2>2, TotalsDecide
  <1>3. TypeOK'
    BY <1>0, <1>1 DEF TypeOK, tables, PackingStatus
  <1>4. QuantitiesAgree' /\ StatusTellsProgress'
    BY <1>0, QuietTables
  <1>5. LockInv' /\ OrderInv' /\ CreationInv'
    BY <1>0 DEF LockInv, OrderInv, InLockOrder, CreationInv, tables
  <1>6. \A t \in Sessions : \A i \in Items : RowFor(t, i)' = RowFor(t, i)
    BY <1>0 DEF RowFor, tables
  <1>7. SessionInv'
    <2> SUFFICES ASSUME NEW t \in Sessions
                 PROVE  /\ kind'[t] \in {"add", "close"} => package'[t] \in Packages
                        /\ kind'[t] = "assign" => user'[t] \in Staff
                        /\ opened'[t] => kind'[t] \in {"add", "close"}
                        /\ verdict'[t] # "none" => kind'[t] = "add" /\ opened'[t] /\ lines'[t] = <<>>
                        /\ verdict'[t] = "PACKED" => \A i \in Items : RowFor(t, i)' = Required[i]
      BY DEF SessionInv
    <2>1. CASE t = s
      BY <2>1, <1>0, <1>1, <1>2, <1>6 DEF SessionInv, TypeOK
    <2>2. CASE t # s
      BY <2>2, <1>0, <1>6 DEF SessionInv, TypeOK
    <2>3. QED
      BY <2>1, <2>2
  <1>8. FreshInv'
    <2> SUFFICES ASSUME NEW t \in Sessions, ~outdated[t] PROVE StillValid(t)'
      BY <1>0 DEF FreshInv
    <2>1. StillValid(t)
      BY DEF FreshInv
    <2>2. CASE t = s
      <3>1. [i \in Items |-> RowFor(s, i)]' = q
        BY <1>6
      <3>2. verdict'[s] = StatusOf([i \in Items |-> RowFor(s, i)]')
        BY <1>0, <3>1 DEF TypeOK
      <3>3. verdict'[s] = StatusOf([i \in Items |-> RowFor(s, i)])'
        BY <3>2 DEF StatusOf, Sum
      <3>4. QED
        BY <2>1, <2>2, <3>3, <1>0 DEF StillValid, TypeOK, Open, MayWork, tables
    <2>3. CASE t # s
      BY <2>1, <2>3, <1>0, OthersStillValid DEF TypeOK
    <2>4. QED
      BY <2>2, <2>3
  <1>9. QED
    BY <1>3, <1>4, <1>5, <1>7, <1>8

-----------------------------------------------------------------------------
(* The end of a request *)

(* The working data of the request are gone, those of the others stay. *)
LEMMA EndData ==
    ASSUME TypeOK, NEW s \in Sessions, End(s)
    PROVE  /\ holder' \in [Items -> Sessions \union {NoSession}]
           /\ kind' \in [Sessions -> Handlers \union {"none"}]
           /\ user' \in [Sessions -> Staff \union {Manager}]
           /\ package' \in [Sessions -> Packages \union {NoPackage}]
           /\ lines' \in [Sessions -> Seq(Line)]
           /\ opened' \in [Sessions -> BOOLEAN]
           /\ own' \in [Sessions -> [Items -> Nat]]
           /\ added' \in [Sessions -> [Items -> Nat]]
           /\ verdict' \in [Sessions -> PackingStatus \union {"none"}]
           /\ served' \in Nat
           /\ kind'[s] = "none" /\ ~opened'[s] /\ verdict'[s] = "none" /\ lines'[s] = <<>>
           /\ \A i \in Items : added'[s][i] = 0 /\ holder'[i] # s
           /\ \A t \in Sessions \ {s} :
                /\ kind'[t] = kind[t] /\ user'[t] = user[t] /\ package'[t] = package[t]
                /\ lines'[t] = lines[t] /\ opened'[t] = opened[t] /\ own'[t] = own[t]
                /\ added'[t] = added[t] /\ verdict'[t] = verdict[t]
                /\ \A i \in Items : holder'[i] = t <=> holder[i] = t
  <1>1. <<>> \in Seq(Line)
    BY EmptySeq
  <1>2. /\ holder' \in [Items -> Sessions \union {NoSession}]
        /\ \A i \in Items : holder'[i] # s
        /\ \A t \in Sessions \ {s} : \A i \in Items : holder'[i] = t <=> holder[i] = t
    BY PackingAssumption DEF End, TypeOK
  <1>3. /\ own' \in [Sessions -> [Items -> Nat]] /\ added' \in [Sessions -> [Items -> Nat]]
        /\ \A i \in Items : added'[s][i] = 0
        /\ \A t \in Sessions \ {s} : own'[t] = own[t] /\ added'[t] = added[t]
    BY ZeroType DEF End, TypeOK
  <1>4. QED
    BY <1>1, <1>2, <1>3 DEF End, TypeOK

(* What the other requests hold stays explained when the quantities they   *)
(* have not locked grow within what is required.                           *)
LEMMA EndKeeps ==
    ASSUME PackingInv, NEW s \in Sessions, End(s), packed' \in [Items -> Nat],
           \A i \in Items : packed[i] <= packed'[i] /\ packed'[i] <= Required[i],
           \A i \in Items, t \in Sessions \ {s} : holder[i] = t => packed'[i] = packed[i]
    PROVE  LockInv' /\ OrderInv' /\ SessionInv'
  <1> USE DEF PackingInv
  <1>0. /\ \A i \in Items : ~(added'[s][i] > 0) /\ holder'[i] # s
        /\ \A t \in Sessions : t # s =>
             /\ kind'[t] = kind[t] /\ package'[t] = package[t] /\ lines'[t] = lines[t]
             /\ opened'[t] = opened[t] /\ own'[t] = own[t] /\ added'[t] = added[t]
             /\ verdict'[t] = verdict[t] /\ user'[t] = user[t]
             /\ \A i \in Items : holder'[i] = t <=> holder[i] = t
    BY EndData
  <1>1. LockInv'
    <2> SUFFICES ASSUME NEW t \in Sessions, NEW i \in Items
                 PROVE  /\ holder'[i] = t => kind'[t] = "add"
                        /\ added'[t][i] > 0 =>
                             /\ holder'[i] = t
                             /\ own'[t][i] = packed'[i] + added'[t][i]
                             /\ own'[t][i] <= Required[i]
      BY DEF LockInv
    <2>1. CASE t = s
      BY <2>1, <1>0
    <2>2. CASE t # s
      <3>1. /\ kind'[t] = kind[t] /\ own'[t] = own[t] /\ added'[t] = added[t]
            /\ holder'[i] = t <=> holder[i] = t
        BY <2>2, <1>0
      <3>2. holder[i] = t => packed'[i] = packed[i]
        BY <2>2
      <3>3. /\ holder[i] = t => kind[t] = "add"
            /\ added[t][i] > 0 =>
                 /\ holder[i] = t
                 /\ own[t][i] = packed[i] + added[t][i]
                 /\ own[t][i] <= Required[i]
        BY DEF LockInv
      <3>4. QED
        BY <3>1, <3>2, <3>3
    <2>3. QED
      BY <2>1, <2>2
  <1>2. OrderInv'
    <2> SUFFICES ASSUME NEW t \in Sessions
                 PROVE  /\ InLockOrder(lines'[t])
                        /\ \A i \in Items, n \in 1..Len(lines'[t]) :
                             holder'[i] = t => i <= lines'[t][n].item
      BY DEF OrderInv, InLockOrder
    <2>1. CASE t = s
      BY <2>1, EndData, EmptySeq DEF InLockOrder
    <2>2. CASE t # s
      <3>1. lines'[t] = lines[t] /\ \A i \in Items : holder'[i] = t <=> holder[i] = t
        BY <2>2, <1>0
      <3>2. QED
        BY <3>1 DEF OrderInv
    <2>3. QED
      BY <2>1, <2>2
  <1>3. SessionInv'
    <2> SUFFICES ASSUME NEW t \in Sessions
                 PROVE  /\ kind'[t] \in {"add", "close"} => package'[t] \in Packages
                        /\ kind'[t] = "assign" => user'[t] \in Staff
                        /\ opened'[t] => kind'[t] \in {"add", "close"}
                        /\ verdict'[t] # "none" =>
                             kind'[t] = "add" /\ opened'[t] /\ lines'[t] = <<>>
                        /\ verdict'[t] = "PACKED" => \A i \in Items : RowFor(t, i)' = Required[i]
      BY DEF SessionInv
    <2>1. CASE t = s
      BY <2>1, EndData
    <2>2. CASE t # s
      <3>1. ASSUME NEW i \in Items, RowFor(t, i) = Required[i]
            PROVE  RowFor(t, i)' = Required[i]
        <4>1. own'[t] = own[t] /\ added'[t] = added[t]
          BY <2>2, <1>0
        <4>2. CASE added[t][i] > 0
          BY <4>1, <4>2, <3>1 DEF RowFor
        <4>3. CASE ~(added[t][i] > 0)
          <5>1. packed[i] = Required[i] /\ packed[i] \in Nat /\ packed'[i] \in Nat
            BY <4>3, <3>1 DEF RowFor, TypeOK
          <5>2. packed'[i] = Required[i]
            BY <5>1
          <5>3. QED
            BY <5>2, <4>1, <4>3 DEF RowFor
        <4>4. QED
          BY <4>2, <4>3
      <3>2. /\ kind'[t] = kind[t] /\ package'[t] = package[t] /\ lines'[t] = lines[t]
            /\ user'[t] = user[t] /\ opened'[t] = opened[t] /\ verdict'[t] = verdict[t]
        BY <2>2, <1>0
      <3>3. QED
        BY <3>1, <3>2 DEF SessionInv
    <2>3. QED
      BY <2>1, <2>2
  <1>4. QED
    BY <1>1, <1>2, <1>3

(* After a commit only requests that have not begun count as up to date. *)
LEMMA CommitFresh ==
    ASSUME TypeOK, SessionInv, NEW s \in Sessions, Commit(s)
    PROVE  /\ FreshInv'
           /\ outdated' \in [Sessions -> BOOLEAN] /\ stale' \in BOOLEAN
           /\ ~stale' => ~stale /\ ~outdated[s]
  <1>1. ASSUME NEW t \in Sessions, ~outdated'[t] PROVE StillValid(t)'
    <2>1. End(s) /\ outdated' = [u \in Sessions |-> u # s /\ kind[u] # "none"]
      BY DEF Commit
    <2>2. kind'[t] = "none" /\ ~opened'[t] /\ verdict'[t] = "none"
      <3>1. CASE t = s
        BY <2>1, <3>1, EndData
      <3>2. CASE t # s
        BY <2>1, <3>2, <1>1, EndData DEF SessionInv
      <3>3. QED
        BY <3>1, <3>2
    <2>3. QED
      BY <2>2 DEF StillValid, TaskHandlers
  <1>2. outdated' \in [Sessions -> BOOLEAN] /\ stale' \in BOOLEAN
    BY DEF Commit, TypeOK
  <1>3. ~stale' => ~stale /\ ~outdated[s]
    BY DEF Commit, TypeOK
  <1>4. QED
    BY <1>1, <1>2, <1>3 DEF FreshInv

(* A request that writes no quantities, and does not complete the task. *)
LEMMA CommitKeeps ==
    ASSUME PackingInv, NEW s \in Sessions, Commit(s), UNCHANGED <<packed, contents>>,
           so' \in SalesOrderStatus, task' \in PackingStatus \union {"none"},
           pkg' \in [Packages -> PackageStatus], packedBy' \in Staff \union {NoPacker},
           task' = "PACKED" => task = "PACKED",
           task' = "none" => task = "none",
           ~stale /\ ~outdated[s] /\ task' # task => task' = "CANCELLED" \/ ~Complete
    PROVE  PackingInv'
  <1> USE DEF PackingInv
  <1>1. End(s)
    BY DEF Commit
  <1>2. TypeOK'
    BY <1>1, EndData, CommitFresh DEF TypeOK
  <1>3. QuantitiesAgree'
    BY DEF QuantitiesAgree, PackedWithinRequired, PackagesHoldWhatIsPacked
  <1>4. StatusTellsProgress'
    <2>1. PackedMeansComplete'
      BY DEF StatusTellsProgress, PackedMeansComplete, Complete
    <2>2. ASSUME ~stale' PROVE CompleteMeansPacked'
      <3>1. ~stale /\ ~outdated[s]
        BY <2>2, CommitFresh
      <3>2. QED
        BY <3>1 DEF StatusTellsProgress, CompleteMeansPacked, Complete
    <2>3. QED
      BY <2>1, <2>2 DEF StatusTellsProgress
  <1>5. LockInv' /\ OrderInv' /\ SessionInv'
    <2>1. \A i \in Items : packed[i] <= packed'[i] /\ packed'[i] <= Required[i]
      BY DEF QuantitiesAgree, PackedWithinRequired, TypeOK
    <2>2. QED
      BY <1>1, <1>2, <2>1, EndKeeps DEF TypeOK
  <1>6. CreationInv'
    <2> SUFFICES ASSUME task' = "none"
                 PROVE  packed' = Zero /\ \A t \in Sessions : kind'[t] \notin TaskHandlers
      BY DEF CreationInv
    <2>1. packed = Zero /\ \A t \in Sessions : kind[t] \notin TaskHandlers
      BY DEF CreationInv
    <2>2. \A t \in Sessions : kind'[t] \in {kind[t], "none"}
      BY <1>1, EndData
    <2>3. QED
      BY <2>1, <2>2 DEF TaskHandlers
  <1>7. QED
    BY <1>2, <1>3, <1>4, <1>5, <1>6, CommitFresh

(* A request that gives up leaves the tables alone. *)
LEMMA RollbackKeeps ==
    ASSUME PackingInv, NEW s \in Sessions, Rollback(s)
    PROVE  PackingInv'
  <1> USE DEF PackingInv
  <1>1. End(s) /\ UNCHANGED <<tables, stale>> /\ outdated' = [outdated EXCEPT ![s] = FALSE]
    BY DEF Rollback
  <1>2. TypeOK'
    BY <1>1, EndData DEF TypeOK, tables
  <1>3. QuantitiesAgree' /\ StatusTellsProgress'
    BY <1>1, QuietTables
  <1>4. LockInv' /\ OrderInv' /\ SessionInv'
    <2>1. \A i \in Items : packed[i] <= packed'[i] /\ packed'[i] <= Required[i]
      BY <1>1 DEF QuantitiesAgree, PackedWithinRequired, TypeOK, tables
    <2>2. QED
      BY <1>1, <2>1, EndKeeps DEF TypeOK, tables
  <1>5. CreationInv'
    <2>1. \A t \in Sessions : kind'[t] \in {kind[t], "none"}
      BY <1>1, EndData
    <2>2. QED
      BY <2>1, <1>1 DEF CreationInv, TaskHandlers, tables
  <1>6. FreshInv'
    <2> SUFFICES ASSUME NEW t \in Sessions, ~outdated'[t] PROVE StillValid(t)'
      BY DEF FreshInv
    <2>1. CASE t = s
      <3>1. kind'[s] = "none" /\ ~opened'[s] /\ verdict'[s] = "none"
        BY <1>1, EndData
      <3>2. QED
        BY <2>1, <3>1 DEF StillValid, TaskHandlers
    <2>2. CASE t # s
      <3>1. StillValid(t)
        BY <2>2, <1>1 DEF FreshInv, TypeOK
      <3>2. QED
        BY <2>2, <3>1, <1>1, EndData, OthersStillValid
    <2>3. QED
      BY <2>1, <2>2
  <1>7. QED
    BY <1>2, <1>3, <1>4, <1>5, <1>6

(* The packed lines are written: the task, its items and the package move  *)
(* together.                                                               *)
LEMMA AddPackageItemsKeeps ==
    ASSUME PackingInv, NEW s \in Sessions, AddPackageItems(s)
    PROVE  PackingInv'
  <1> USE DEF PackingInv
  <1> DEFINE q == [i \in Items |-> RowFor(s, i)]
             k == package[s]
  <1>0. /\ verdict[s] # "none" /\ task' = verdict[s] /\ packed' = q
        /\ contents' = [contents EXCEPT ![k] = [i \in Items |-> @[i] + added[s][i]]]
        /\ End(s) /\ Commit(s) /\ UNCHANGED <<so, pkg, packedBy>>
    BY DEF AddPackageItems, Commit
  <1>1. q \in [Items -> Nat] /\ packed' \in [Items -> Nat]
    BY <1>0, RowForType
  <1>2. k \in Packages
    BY <1>0 DEF SessionInv
  <1>3. ASSUME NEW i \in Items
        PROVE  /\ packed[i] \in Nat /\ added[s][i] \in Nat
               /\ packed'[i] = packed[i] + added[s][i]
               /\ packed'[i] <= Required[i]
               /\ holder[i] # s => packed'[i] = packed[i]
    <2>1. packed[i] \in Nat /\ added[s][i] \in Nat /\ packed'[i] = RowFor(s, i)
      BY <1>0 DEF TypeOK
    <2>2. packed[i] <= Required[i]
      BY DEF QuantitiesAgree, PackedWithinRequired
    <2>3. added[s][i] > 0 =>
            holder[i] = s /\ own[s][i] = packed[i] + added[s][i] /\ own[s][i] <= Required[i]
      BY DEF LockInv
    <2>4. QED
      BY <2>1, <2>2, <2>3 DEF RowFor
  <1>4. /\ contents' \in [Packages -> [Items -> Nat]]
        /\ \A i \in Items : contents'[k][i] = contents[k][i] + added[s][i]
        /\ \A p \in Packages \ {k} : contents'[p] = contents[p]
    BY <1>0, <1>2, <1>3 DEF TypeOK
  <1> HIDE DEF q, k
  <1>5. TypeOK'
    BY <1>0, <1>1, <1>4, EndData, CommitFresh DEF TypeOK
  <1>6. QuantitiesAgree'
    <2>1. ASSUME NEW i \in Items
          PROVE  packed'[i] =
                   SumFunctionOnSet([p \in Packages |-> contents'[p][i]], Packages)
      <3> DEFINE f == [p \in Packages |-> contents[p][i]]
                 g == [p \in Packages |-> contents'[p][i]]
      <3>1. \A p \in Packages : f[p] \in Nat /\ g[p] \in Nat
        BY <1>4 DEF TypeOK
      <3>2. \A p \in Packages \ {k} : g[p] = f[p]
        BY <1>4
      <3>3. g[k] - f[k] = added[s][i]
        BY <1>2, <1>3, <1>4, <3>1
      <3>4. packed[i] = SumFunctionOnSet(f, Packages)
        BY DEF QuantitiesAgree, PackagesHoldWhatIsPacked
      <3> HIDE DEF f, g
      <3>5. SumFunctionOnSet(g, Packages) = SumFunctionOnSet(f, Packages) + (g[k] - f[k])
        BY <1>2, <3>1, <3>2, SumUpdate, PackingAssumption
      <3>6. packed'[i] = SumFunctionOnSet(g, Packages)
        BY <1>3, <3>3, <3>4, <3>5
      <3>7. QED
        BY <3>6 DEF g
    <2>2. QED
      BY <1>3, <2>1 DEF QuantitiesAgree, PackedWithinRequired, PackagesHoldWhatIsPacked
  <1>7. StatusTellsProgress'
    <2>1. PackedMeansComplete'
      <3>1. task' = "PACKED" => \A i \in Items : RowFor(s, i) = Required[i]
        BY <1>0 DEF SessionInv
      <3>2. QED
        BY <1>0, <3>1 DEF PackedMeansComplete, Complete, q
    <2>2. ASSUME ~stale', Complete' PROVE task' \in {"PACKED", "CANCELLED"}
      <3>1. ~outdated[s]
        BY <1>0, <2>2, CommitFresh
      <3>2. verdict[s] = StatusOf(q)
        BY <1>0, <3>1 DEF FreshInv, StillValid, q
      <3>3. \A i \in Items : q[i] = Required[i]
        BY <1>0, <2>2 DEF Complete
      <3>4. \A i \in Items : q[i] <= Required[i]
        BY <1>0, <1>3
      <3>5. StatusOf(q) = "PACKED"
        BY <1>1, <3>3, <3>4, TotalsDecide
      <3>6. QED
        BY <1>0, <3>2, <3>5
    <2>3. QED
      BY <2>1, <2>2 DEF StatusTellsProgress, CompleteMeansPacked
  <1>8. LockInv' /\ OrderInv' /\ SessionInv'
    <2>1. \A i \in Items : packed[i] <= packed'[i] /\ packed'[i] <= Required[i]
      BY <1>3
    <2>2. \A i \in Items, t \in Sessions \ {s} : holder[i] = t => packed'[i] = packed[i]
      BY <1>3
    <2>3. QED
      BY <1>0, <1>1, <2>1, <2>2, EndKeeps
  <1>9. CreationInv'
    BY <1>0 DEF CreationInv
  <1>10. QED
    BY <1>0, <1>5, <1>6, <1>7, <1>8, <1>9, CommitFresh

(* A new task, or one nobody has worked on, has something to pack. *)
LEMMA NotYetComplete ==
    ASSUME PackingInv, ~stale, task \in {"none", "PENDING"}
    PROVE  ~Complete
  <1>1. CASE task = "none"
    <2>1. PICK i \in Items : TRUE
      BY PackingAssumption
    <2>2. packed[i] = 0 /\ Required[i] # 0
      BY <1>1, ZeroType, PackingAssumption DEF PackingInv, CreationInv
    <2>3. QED
      BY <2>2 DEF Complete
  <1>2. CASE task = "PENDING"
    BY <1>2 DEF PackingInv, StatusTellsProgress, CompleteMeansPacked
  <1>3. QED
    BY <1>1, <1>2

-----------------------------------------------------------------------------
(* Every step of a request *)

(* A handler accepted for a packer or a manager. *)
LEMMA BeginWorkKeeps ==
    ASSUME PackingInv, NEW s \in Sessions, NEW handler \in TaskHandlers \ {"cancel", "assign"},
           NEW p \in Packages \union {NoPackage}, NEW ls \in Seq(Line), InLockOrder(ls),
           BeginWork(s, handler, p, ls), Open,
           handler \in {"add", "close"} => p \in Packages,
           handler = "start" => task = "PENDING"
    PROVE  PackingInv'
  <1>1. PICK u \in Staff \union {Manager} : MayWork(u) /\ Begin(s, handler, u, p, ls)
    BY DEF BeginWork
  <1>2. handler \notin {"createTask", "cancelOrder", "assign"}
    BY DEF TaskHandlers
  <1>3. QED
    BY <1>1, <1>2, BeginKeeps

(* Every request that is accepted. *)
LEMMA BeginsKeep ==
    ASSUME PackingInv, NEW s \in Sessions,
           \/ BeginCreateTask(s) \/ BeginStart(s) \/ BeginCancel(s) \/ BeginAssign(s)
           \/ BeginCreatePackage(s) \/ BeginClose(s) \/ BeginAdd(s) \/ BeginCancelOrder(s)
    PROVE  PackingInv'
  <1>1. <<>> \in Seq(Line) /\ InLockOrder(<<>>)
    BY EmptySeq DEF InLockOrder
  <1>2. CASE BeginCreateTask(s)
    BY <1>1, <1>2, BeginKeeps DEF BeginCreateTask, TaskHandlers
  <1>3. CASE BeginStart(s)
    BY <1>1, <1>3, BeginWorkKeeps DEF BeginStart, TaskHandlers, Open
  <1>4. CASE BeginCancel(s)
    BY <1>1, <1>4, BeginKeeps DEF BeginCancel, TaskHandlers
  <1>5. CASE BeginAssign(s)
    BY <1>1, <1>5, BeginKeeps DEF BeginAssign, TaskHandlers
  <1>6. CASE BeginCreatePackage(s)
    BY <1>1, <1>6, BeginWorkKeeps DEF BeginCreatePackage, TaskHandlers
  <1>7. CASE BeginClose(s)
    BY <1>1, <1>7, BeginWorkKeeps DEF BeginClose, TaskHandlers
  <1>8. CASE BeginAdd(s)
    <2>1. PICK p \in Packages, n \in 1..MaxLines :
            \E ls \in [1..n -> {l \in [item: Items, quantity: 1..MaxLines] :
                                  l.quantity <= Required[l.item]}] :
              Open /\ InLockOrder(ls) /\ BeginWork(s, "add", p, ls)
      BY <1>8 DEF BeginAdd
    <2>2. PICK ls \in [1..n -> {l \in [item: Items, quantity: 1..MaxLines] :
                                  l.quantity <= Required[l.item]}] :
            Open /\ InLockOrder(ls) /\ BeginWork(s, "add", p, ls)
      BY <2>1
    <2>3. ls \in Seq(Line)
      <3>1. n \in Nat /\ ls \in [1..n -> Line]
        BY PackingAssumption DEF Line
      <3>2. QED
        BY <3>1, SeqDef
    <2>4. QED
      BY <2>2, <2>3, BeginWorkKeeps DEF TaskHandlers
  <1>9. CASE BeginCancelOrder(s)
    BY <1>1, <1>9, BeginKeeps DEF BeginCancelOrder, TaskHandlers
  <1>10. QED
    BY <1>2, <1>3, <1>4, <1>5, <1>6, <1>7, <1>8, <1>9

(* Every request that writes its rows and ends. *)
LEMMA CommitsKeep ==
    ASSUME PackingInv, NEW s \in Sessions,
           \/ CreateTask(s) \/ StartPacking(s) \/ CancelTask(s) \/ AssignPacker(s)
           \/ CreatePackage(s) \/ ClosePackage(s) \/ AddPackageItems(s) \/ CancelOrder(s)
    PROVE  PackingInv'
  <1>0. /\ so \in SalesOrderStatus /\ task \in PackingStatus \union {"none"}
        /\ pkg \in [Packages -> PackageStatus] /\ packedBy \in Staff \union {NoPacker}
        /\ user[s] \in Staff \union {Manager}
    BY DEF PackingInv, TypeOK
  <1>1. CASE CreateTask(s)
    <2>1. ~stale => ~Complete
      BY <1>1, NotYetComplete DEF CreateTask
    <2>2. QED
      BY <1>0, <1>1, <2>1, CommitKeeps DEF CreateTask, PackingStatus
  <1>2. CASE StartPacking(s)
    <2>1. kind[s] = "start" /\ task' = "IN_PROGRESS" /\ Commit(s)
          /\ UNCHANGED <<so, packed, pkg, packedBy, contents>>
      BY <1>2 DEF StartPacking, SetTaskStatus
    <2>2. ~stale /\ ~outdated[s] => ~Complete
      BY <2>1, NotYetComplete DEF PackingInv, FreshInv, StillValid
    <2>3. QED
      BY <1>0, <2>1, <2>2, CommitKeeps DEF PackingStatus
  <1>3. CASE CancelTask(s)
    BY <1>0, <1>3, CommitKeeps DEF CancelTask, SetTaskStatus, PackingStatus
  <1>4. CASE AssignPacker(s)
    <2>1. user[s] \in Staff
      BY <1>4 DEF AssignPacker, PackingInv, SessionInv
    <2>2. QED
      BY <1>0, <1>4, <2>1, CommitKeeps DEF AssignPacker
  <1>5. CASE CreatePackage(s)
    <2>1. PICK p \in Packages : pkg' = [pkg EXCEPT ![p] = "OPEN"] /\ Commit(s)
            /\ UNCHANGED <<so, task, packed, packedBy, contents>>
      BY <1>5 DEF CreatePackage
    <2>2. pkg' \in [Packages -> PackageStatus]
      BY <1>0, <2>1 DEF PackageStatus
    <2>3. QED
      BY <1>0, <2>1, <2>2, CommitKeeps
  <1>6. CASE ClosePackage(s)
    <2>1. pkg' = [pkg EXCEPT ![package[s]] = "PACKED"] /\ Commit(s)
            /\ UNCHANGED <<so, task, packed, packedBy, contents>>
      BY <1>6 DEF ClosePackage
    <2>2. pkg' \in [Packages -> PackageStatus]
      BY <1>0, <2>1 DEF PackageStatus
    <2>3. QED
      BY <1>0, <2>1, <2>2, CommitKeeps
  <1>7. CASE AddPackageItems(s)
    BY <1>7, AddPackageItemsKeeps
  <1>8. CASE CancelOrder(s)
    BY <1>0, <1>8, CommitKeeps DEF CancelOrder, SalesOrderStatus
  <1>9. QED
    BY <1>1, <1>2, <1>3, <1>4, <1>5, <1>6, <1>7, <1>8

(* Every step of one session keeps the invariant. *)
LEMMA StepKeeps ==
    ASSUME PackingInv, NEW s \in Sessions, Step(s)
    PROVE  PackingInv'
  BY BeginsKeep, CommitsKeep, ReadPackageKeeps, PackItemKeeps, ReadItemsKeeps DEF Step

(* A step that changes nothing keeps it. *)
LEMMA StutterKeeps ==
    ASSUME PackingInv, UNCHANGED vars
    PROVE  PackingInv'
  <1> USE DEF PackingInv, vars, tables, request, history
  <1>1. \A s \in Sessions : [i \in Items |-> RowFor(s, i)]' = [i \in Items |-> RowFor(s, i)]
    BY DEF RowFor
  <1>2. TypeOK' /\ LockInv' /\ OrderInv' /\ CreationInv' /\ QuantitiesAgree'
        /\ StatusTellsProgress'
    BY DEF TypeOK, LockInv, OrderInv, InLockOrder, CreationInv, QuantitiesAgree,
           PackedWithinRequired, PackagesHoldWhatIsPacked, StatusTellsProgress,
           PackedMeansComplete, CompleteMeansPacked, Complete
  <1>3. SessionInv'
    BY DEF SessionInv, RowFor
  <1>4. FreshInv'
    BY OthersStillValid DEF FreshInv
  <1>5. QED
    BY <1>2, <1>3, <1>4

(* Before the first request everything agrees. *)
LEMMA InitKeeps == ASSUME Init PROVE PackingInv
  <1> USE DEF Init
  <1>0. /\ <<>> \in Seq(Line)
        /\ \A s \in Sessions, i \in Items : ~(added[s][i] > 0) /\ holder[i] # s
    BY EmptySeq, PackingAssumption, ZeroType
  <1>1. TypeOK
    BY <1>0, ZeroType DEF TypeOK, SalesOrderStatus, PackingStatus, PackageStatus
  <1>2. QuantitiesAgree
    <2>1. PackedWithinRequired
      BY ZeroType, PackingAssumption DEF PackedWithinRequired
    <2>2. ASSUME NEW i \in Items
          PROVE  SumFunctionOnSet([p \in Packages |-> contents[p][i]], Packages) = 0
      <3> DEFINE f == [p \in Packages |-> contents[p][i]]
      <3>1. \A p \in Packages : f[p] = 0
        BY ZeroType
      <3> HIDE DEF f
      <3>2. SumFunctionOnSet(f, Packages) = 0
        BY <3>1, SumAllZero, PackingAssumption
      <3>3. QED
        BY <3>2 DEF f
    <2>3. QED
      BY <2>1, <2>2, ZeroType DEF QuantitiesAgree, PackagesHoldWhatIsPacked
  <1>3. StatusTellsProgress
    BY DEF StatusTellsProgress, PackedMeansComplete, CompleteMeansPacked
  <1>4. LockInv
    BY <1>0 DEF LockInv
  <1>5. OrderInv
    BY <1>0 DEF OrderInv, InLockOrder
  <1>6. SessionInv /\ CreationInv
    BY DEF SessionInv, CreationInv, TaskHandlers
  <1>7. FreshInv
    BY DEF FreshInv, StillValid, TaskHandlers
  <1>8. QED
    BY <1>1, <1>2, <1>3, <1>4, <1>5, <1>6, <1>7 DEF PackingInv

-----------------------------------------------------------------------------
(* Theorems *)

(* The inductive invariant holds throughout every behaviour. *)
THEOREM PackingInvariant == Spec => []PackingInv
  <1>1. ASSUME PackingInv, [Next]_vars PROVE PackingInv'
    BY <1>1, StepKeeps, RollbackKeeps, StutterKeeps DEF Next, Quiescent
  <1>2. QED
    BY InitKeeps, <1>1, PTL DEF Spec

(* Every variable of the packing task keeps the shape of its columns and   *)
(* working data.                                                           *)
THEOREM PackingTypeCorrect == Spec => []TypeOK
  <1>1. PackingInv => TypeOK
    BY DEF PackingInv
  <1>2. QED
    BY PackingInvariant, <1>1, PTL

(* The row locks of addPackageItems: no item is packed beyond what was     *)
(* picked, and the packages hold exactly what the task says is packed.     *)
THEOREM PackingQuantitiesAgree == Spec => []QuantitiesAgree
  <1>1. PackingInv => QuantitiesAgree
    BY DEF PackingInv
  <1>2. QED
    BY PackingInvariant, <1>1, PTL

(* The status recalculated at the end of addPackageItems: a PACKED task is *)
(* complete, and as long as no request commits on an outdated read a       *)
(* complete task is PACKED.                                                *)
THEOREM StatusSound == Spec => []StatusTellsProgress
  <1>1. PackingInv => StatusTellsProgress
    BY DEF PackingInv
  <1>2. QED
    BY PackingInvariant, <1>1, PTL

(* The sort by packingTaskItemId: a packer waits only for items above all  *)
(* it has locked, so packers never wait for each other in a circle.        *)
THEOREM LocksTakenUpward == Spec => []WaitsUpward
  <1>1. ASSUME PackingInv PROVE WaitsUpward
    <2> SUFFICES ASSUME NEW s \in Sessions, NEW i \in Items, NEW j \in Items,
                        WaitsFor(s, i), holder[j] = s
                 PROVE  j < i
      BY DEF WaitsUpward
    <2>1. lines[s] \in Seq(Line) /\ lines[s] # <<>> /\ Head(lines[s]).item = i /\ holder[i] # s
      BY <1>1 DEF WaitsFor, Free, PackingInv, TypeOK
    <2>2. 1 \in 1..Len(lines[s]) /\ lines[s][1].item = i
      BY <2>1, HeadTailProperties, EmptySeq, LenProperties
    <2>3. j <= i
      BY <1>1, <2>2 DEF PackingInv, OrderInv
    <2>4. j # i /\ i \in Int /\ j \in Int
      BY <2>1, PackingAssumption
    <2>5. QED
      BY <2>3, <2>4
  <1>2. QED
    BY PackingInvariant, <1>1, PTL

-----------------------------------------------------------------------------
(* What is closed stays closed *)

(* A commit on an up-to-date read still has what its request has checked,  *)
(* and is made for the task's packer or a manager.                         *)
LEMMA CommitIsUpToDate ==
    ASSUME PackingInv, NEW s \in Sessions, Commit(s), ~stale'
    PROVE  StillValid(s) /\ OnlyThePackerWrites
  <1>1. StillValid(s)
    BY CommitFresh DEF PackingInv, FreshInv
  <1>2. ASSUME NEW t \in Sessions, kind[t] \in {"start", "createPackage", "close", "add"},
               kind'[t] = "none"
        PROVE  user[t] \in {packedBy, Manager}
    <2>1. t = s
      BY <1>2, EndData DEF PackingInv, Commit
    <2>2. QED
      BY <1>1, <1>2, <2>1 DEF StillValid, MayWork, PackingInv, TypeOK
  <1>3. QED
    BY <1>1, <1>2 DEF OnlyThePackerWrites

(* Every commit on an up-to-date read spares finished tasks and closed     *)
(* packages.                                                               *)
LEMMA CommitsSettled ==
    ASSUME PackingInv, NEW s \in Sessions, ~stale',
           \/ CreateTask(s) \/ StartPacking(s) \/ CancelTask(s) \/ AssignPacker(s)
           \/ CreatePackage(s) \/ ClosePackage(s) \/ AddPackageItems(s) \/ CancelOrder(s)
    PROVE  FinishedTaskFrozen /\ ClosedPackageFrozen /\ OnlyThePackerWrites
  <1>0. pkg \in [Packages -> PackageStatus] /\ contents \in [Packages -> [Items -> Nat]]
    BY DEF PackingInv, TypeOK
  <1>1. Commit(s)
    BY DEF CreateTask, StartPacking, CancelTask, SetTaskStatus, AssignPacker, CreatePackage,
           ClosePackage, AddPackageItems, CancelOrder
  <1>2. StillValid(s) /\ OnlyThePackerWrites
    BY <1>1, CommitIsUpToDate
  <1>3. CASE CreateTask(s)
    BY <1>2, <1>3 DEF CreateTask, FinishedTaskFrozen, ClosedPackageFrozen
  <1>4. CASE StartPacking(s) \/ CancelTask(s)
    BY <1>2, <1>4 DEF StartPacking, CancelTask, SetTaskStatus, StillValid, TaskHandlers, Open,
                      FinishedTaskFrozen, ClosedPackageFrozen
  <1>5. CASE AssignPacker(s)
    BY <1>2, <1>5 DEF AssignPacker, StillValid, TaskHandlers, Open, FinishedTaskFrozen,
                      ClosedPackageFrozen
  <1>6. CASE CreatePackage(s)
    <2>1. FinishedTaskFrozen
      BY <1>2, <1>6 DEF CreatePackage, StillValid, TaskHandlers, Open, FinishedTaskFrozen
    <2>2. ClosedPackageFrozen
      BY <1>0, <1>6 DEF CreatePackage, ClosedPackageFrozen
    <2>3. QED
      BY <1>2, <2>1, <2>2
  <1>7. CASE ClosePackage(s)
    <2>1. FinishedTaskFrozen
      BY <1>2, <1>7 DEF ClosePackage, StillValid, TaskHandlers, Open, FinishedTaskFrozen
    <2>2. ClosedPackageFrozen
      BY <1>0, <1>7 DEF ClosePackage, ClosedPackageFrozen
    <2>3. QED
      BY <1>2, <2>1, <2>2
  <1>8. CASE AddPackageItems(s)
    <2>1. kind[s] = "add" /\ opened[s]
      BY <1>8 DEF AddPackageItems, PackingInv, SessionInv
    <2>2. Open /\ pkg[package[s]] = "OPEN"
      BY <1>2, <2>1 DEF StillValid, TaskHandlers
    <2>3. FinishedTaskFrozen
      BY <2>2 DEF Open, FinishedTaskFrozen
    <2>4. ClosedPackageFrozen
      BY <1>0, <1>8, <2>2 DEF AddPackageItems, ClosedPackageFrozen
    <2>5. QED
      BY <1>2, <2>3, <2>4
  <1>9. CASE CancelOrder(s)
    BY <1>2, <1>9 DEF CancelOrder, FinishedTaskFrozen, ClosedPackageFrozen
  <1>10. QED
    BY <1>3, <1>4, <1>5, <1>6, <1>7, <1>8, <1>9

(* A step that leaves the tables alone settles nothing anew. *)
LEMMA QuietSettled ==
    ASSUME UNCHANGED tables
    PROVE  FinishedTaskFrozen /\ ClosedPackageFrozen /\ OnlyThePackerWrites
  BY DEF tables, FinishedTaskFrozen, ClosedPackageFrozen, OnlyThePackerWrites

(* No step undoes what is closed as long as none commits on an outdated    *)
(* read.                                                                   *)
LEMMA StepSettled ==
    ASSUME PackingInv, NEW s \in Sessions, Step(s), ~stale'
    PROVE  FinishedTaskFrozen /\ ClosedPackageFrozen /\ OnlyThePackerWrites
  <1>1. CASE \/ BeginCreateTask(s) \/ BeginStart(s) \/ BeginCancel(s) \/ BeginAssign(s)
             \/ BeginCreatePackage(s) \/ BeginClose(s) \/ BeginAdd(s) \/ BeginCancelOrder(s)
             \/ ReadPackage(s) \/ PackItem(s) \/ ReadItems(s)
    <2>1. UNCHANGED tables
      BY <1>1 DEF BeginCreateTask, BeginStart, BeginCancel, BeginAssign, BeginCreatePackage,
                  BeginClose, BeginAdd, BeginCancelOrder, BeginWork, Begin, ReadPackage,
                  PackItem, ReadItems
    <2>2. QED
      BY <2>1, QuietSettled
  <1>2. CASE \/ CreateTask(s) \/ StartPacking(s) \/ CancelTask(s) \/ AssignPacker(s)
             \/ CreatePackage(s) \/ ClosePackage(s) \/ AddPackageItems(s) \/ CancelOrder(s)
    BY <1>2, CommitsSettled
  <1>3. QED
    BY <1>1, <1>2 DEF Step

(* A completed or cancelled task is never started, assigned or packed      *)
(* again, a closed package never changes, and nothing is written for a     *)
(* packer who has lost the task: up to the first commit on an outdated     *)
(* read, whatever requests run at the same time.                           *)
THEOREM ClosedIsSettled == Spec => ClosedStaysClosed
  <1>1. ASSUME PackingInv, [Next]_vars
        PROVE  [~stale' => FinishedTaskFrozen /\ ClosedPackageFrozen
                             /\ OnlyThePackerWrites]_vars
    <2>1. CASE UNCHANGED vars
      BY <2>1
    <2>2. CASE Next
      <3>1. CASE \E s \in Sessions : Step(s)
        BY <1>1, <3>1, StepSettled
      <3>2. CASE (\E s \in Sessions : Rollback(s)) \/ Quiescent
        <4>1. UNCHANGED tables
          BY <3>2 DEF Rollback, Quiescent, vars
        <4>2. QED
          BY <4>1, QuietSettled
      <3>3. QED
        BY <2>2, <3>1, <3>2 DEF Next
    <2>3. QED
      BY <1>1, <2>1, <2>2
  <1>2. QED
    BY PackingInvariant, <1>1, PTL DEF Spec, ClosedStaysClosed

-----------------------------------------------------------------------------
(* The inductive invariant of Shipping *)

(* The requests of ShippingService. *)
ShippingHandlers == {"ship", "status", "inform"}

(* What a request's first read has found and no commit can undo: packing   *)
(* is complete, or there is a shipment.                                    *)
FoundInv ==
    \A s \in Sessions :
        /\ kind[s] = "ship" => Complete
        /\ kind[s] = "status" => shipment # "none" /\ target[s] \in ShipmentStatus
        /\ kind[s] = "inform" => shipment # "none"

(* What a request has checked of the shipment and its order is still so. *)
ShipmentStillValid(s) ==
    /\ kind[s] = "ship" => Shippable
    /\ kind[s] = "status" => Allowed(shipment, target[s])
    /\ kind[s] = "inform" => Editable

(* Unless another request has committed since it began. *)
ShipmentFreshInv == \A s \in Sessions : ~outdated[s] => ShipmentStillValid(s)

(* The invariant of the packing task, the properties of the shipment, and  *)
(* what its requests have found and checked.                               *)
ShippingInv ==
    /\ PackingInv
    /\ ShippingTypeOK /\ ShippedComplete /\ OrderFollowsShipment
    /\ FoundInv /\ ShipmentFreshInv

-----------------------------------------------------------------------------
(* Steps of the packing task *)

(* What no step of the packing task, or end of a request, does to          *)
(* shipments: it opens no shipping request, a request of theirs that still *)
(* counts as up to date has seen the tables as they are, and the order is  *)
(* at most cancelled while it is CONFIRMED.                                *)
LeavesShipments ==
    /\ \A t \in Sessions : kind'[t] \in ShippingHandlers =>
         /\ kind'[t] = kind[t]
         /\ ~outdated'[t] => UNCHANGED tables /\ ~outdated[t]
    /\ \A i \in Items : packed[i] <= packed'[i]
    /\ ~stale' => ~stale /\ (so' = so \/ (so = "CONFIRMED" /\ so' = "CANCELLED"))

(* A commit ends its request and outdates all the others. *)
LEMMA CommitEnds ==
    ASSUME PackingInv, NEW s \in Sessions, Commit(s)
    PROVE  /\ \A t \in Sessions : kind'[t] # "none" => kind'[t] = kind[t] /\ outdated'[t]
           /\ kind'[s] = "none"
           /\ ~stale' => ~stale /\ ~outdated[s]
  <1>1. TypeOK /\ SessionInv /\ End(s)
    BY DEF PackingInv, Commit
  <1>2. \A t \in Sessions \ {s} : kind'[t] = kind[t]
    BY <1>1, EndData
  <1>3. kind'[s] = "none"
    BY <1>1, EndData
  <1>4. outdated' = [t \in Sessions |-> t # s /\ kind[t] # "none"]
    BY DEF Commit
  <1>5. ~stale' => ~stale /\ ~outdated[s]
    BY <1>1, CommitFresh
  <1>6. QED
    BY <1>2, <1>3, <1>4, <1>5

(* No step of the packing task interferes with shipments beyond that. *)
LEMMA StepLeavesShipments ==
    ASSUME PackingInv, NEW s \in Sessions, Step(s)
    PROVE  LeavesShipments
  <1>0. packed \in [Items -> Nat] /\ kind \in [Sessions -> Handlers \union {"none"}]
    BY DEF PackingInv, TypeOK
  <1>1. CASE \/ BeginCreateTask(s) \/ BeginStart(s) \/ BeginCancel(s) \/ BeginAssign(s)
             \/ BeginCreatePackage(s) \/ BeginClose(s) \/ BeginAdd(s) \/ BeginCancelOrder(s)
    <2>1. PICK handler \in {"createTask", "start", "cancel", "assign", "createPackage", "close",
                            "add", "cancelOrder"} :
            kind' = [kind EXCEPT ![s] = handler] /\ UNCHANGED <<tables, outdated, stale>>
      BY <1>1 DEF BeginCreateTask, BeginStart, BeginCancel, BeginAssign, BeginCreatePackage,
                  BeginClose, BeginAdd, BeginCancelOrder, BeginWork, Begin, history
    <2>2. \A t \in Sessions : kind'[t] \in ShippingHandlers => kind'[t] = kind[t]
      BY <1>0, <2>1 DEF ShippingHandlers
    <2>3. QED
      BY <1>0, <2>1, <2>2 DEF LeavesShipments, tables
  <1>2. CASE ReadPackage(s) \/ PackItem(s) \/ ReadItems(s)
    <2>1. UNCHANGED <<tables, kind, outdated, stale>>
      BY <1>2 DEF ReadPackage, PackItem, ReadItems, history
    <2>2. QED
      BY <1>0, <2>1 DEF LeavesShipments, tables
  <1>3. CASE \/ CreateTask(s) \/ StartPacking(s) \/ CancelTask(s) \/ AssignPacker(s)
             \/ CreatePackage(s) \/ ClosePackage(s) \/ AddPackageItems(s) \/ CancelOrder(s)
    <2>1. Commit(s)
      BY <1>3 DEF CreateTask, StartPacking, CancelTask, SetTaskStatus, AssignPacker,
                  CreatePackage, ClosePackage, AddPackageItems, CancelOrder
    <2>2. \A t \in Sessions : kind'[t] # "none" => kind'[t] = kind[t] /\ outdated'[t]
      BY <2>1, CommitEnds
    <2>3. \A i \in Items : packed[i] <= packed'[i]
      <3>1. CASE AddPackageItems(s)
        <4>1. ASSUME NEW i \in Items PROVE packed[i] <= RowFor(s, i)
          BY DEF PackingInv, TypeOK, LockInv, RowFor
        <4>2. QED
          BY <3>1, <4>1 DEF AddPackageItems
      <3>2. CASE ~AddPackageItems(s)
        <4>1. packed' = packed
          BY <1>3, <3>2 DEF CreateTask, StartPacking, CancelTask, SetTaskStatus, AssignPacker,
                            CreatePackage, ClosePackage, CancelOrder
        <4>2. QED
          BY <1>0, <4>1
      <3>3. QED
        BY <3>1, <3>2
    <2>4. ASSUME ~stale' PROVE so' = so \/ (so = "CONFIRMED" /\ so' = "CANCELLED")
      <3>1. CASE CancelOrder(s)
        <4>1. StillValid(s)
          BY <2>1, <2>4, CommitIsUpToDate
        <4>2. QED
          BY <3>1, <4>1 DEF CancelOrder, StillValid
      <3>2. CASE ~CancelOrder(s)
        BY <1>3, <3>2 DEF CreateTask, StartPacking, CancelTask, SetTaskStatus, AssignPacker,
                          CreatePackage, ClosePackage, AddPackageItems
      <3>3. QED
        BY <3>1, <3>2
    <2>5. ~stale' => ~stale
      BY <2>1, CommitEnds
    <2>6. QED
      BY <2>2, <2>3, <2>4, <2>5 DEF LeavesShipments, ShippingHandlers
  <1>4. QED
    BY <1>1, <1>2, <1>3 DEF Step

(* Neither does a request that is rolled back. *)
LEMMA RollbackLeavesShipments ==
    ASSUME PackingInv, NEW s \in Sessions, Rollback(s)
    PROVE  LeavesShipments
  <1>1. TypeOK /\ End(s) /\ UNCHANGED <<tables, stale>>
        /\ outdated' = [outdated EXCEPT ![s] = FALSE]
    BY DEF PackingInv, Rollback
  <1>2. kind'[s] = "none" /\ \A t \in Sessions \ {s} : kind'[t] = kind[t]
    BY <1>1, EndData
  <1>3. packed \in [Items -> Nat] /\ outdated \in [Sessions -> BOOLEAN]
    BY <1>1 DEF TypeOK
  <1>4. \A i \in Items : packed[i] <= packed'[i]
    BY <1>1, <1>3 DEF tables
  <1>5. QED
    BY <1>1, <1>2, <1>3, <1>4 DEF LeavesShipments, ShippingHandlers, tables

(* What is complete stays complete: quantities only grow, within what is   *)
(* required.                                                               *)
LEMMA CompleteStays ==
    ASSUME PackingInv, PackingInv', \A i \in Items : packed[i] <= packed'[i], Complete
    PROVE  Complete'
  <1>1. ASSUME NEW i \in Items PROVE packed'[i] = Required[i]
    <2>1. packed[i] = Required[i] /\ packed'[i] <= Required[i] /\ packed'[i] \in Nat
      BY DEF PackingInv, TypeOK, QuantitiesAgree, PackedWithinRequired, Complete
    <2>2. Required[i] \in Nat
      BY PackingAssumption
    <2>3. QED
      BY <2>1, <2>2
  <1>2. QED
    BY <1>1 DEF Complete

(* The invariant is kept by steps that leave the shipment alone. *)
LEMMA LeavingKeeps ==
    ASSUME ShippingInv, PackingInv', LeavesShipments, UNCHANGED shippingTables,
           target' \in [Sessions -> ShipmentStatus \union {"none"}],
           \A t \in Sessions : kind'[t] \in ShippingHandlers => target'[t] = target[t]
    PROVE  ShippingInv'
  <1> USE DEF ShippingInv
  <1>1. ShippingTypeOK'
    BY DEF ShippingTypeOK, shippingTables, PackingInv
  <1>2. Complete => Complete'
    BY CompleteStays DEF LeavesShipments
  <1>3. ShippedComplete'
    BY <1>2 DEF ShippedComplete, shippingTables
  <1>4. OrderFollowsShipment'
    BY DEF OrderFollowsShipment, LeavesShipments, shippingTables
  <1>5. FoundInv'
    BY <1>2 DEF FoundInv, LeavesShipments, ShippingHandlers, shippingTables
  <1>6. ShipmentFreshInv'
    <2> SUFFICES ASSUME NEW t \in Sessions, ~outdated'[t] PROVE ShipmentStillValid(t)'
      BY DEF ShipmentFreshInv
    <2>1. CASE kind'[t] \in ShippingHandlers
      <3>1. kind'[t] = kind[t] /\ UNCHANGED tables /\ ~outdated[t] /\ target'[t] = target[t]
        BY <2>1 DEF LeavesShipments
      <3>2. ShipmentStillValid(t)
        BY <3>1 DEF ShipmentFreshInv
      <3>3. QED
        BY <3>1, <3>2 DEF ShipmentStillValid, Shippable, ReadyToShip, Allowed, Editable,
                          tables, shippingTables
    <2>2. CASE kind'[t] \notin ShippingHandlers
      BY <2>2 DEF ShipmentStillValid, ShippingHandlers
    <2>3. QED
      BY <2>1, <2>2
  <1>7. QED
    BY <1>1, <1>3, <1>4, <1>5, <1>6

-----------------------------------------------------------------------------
(* Steps of the shipment *)

(* A shipping request is accepted: it has just seen what it checked. *)
LEMMA BeginShippingKeeps ==
    ASSUME ShippingInv, NEW s \in Sessions, NEW handler \in ShippingHandlers,
           Begin(s, handler, Manager, NoPackage, <<>>), UNCHANGED shippingTables,
           target' \in [Sessions -> ShipmentStatus \union {"none"}],
           \A t \in Sessions \ {s} : target'[t] = target[t],
           handler = "ship" => Shippable,
           handler = "status" => target'[s] \in ShipmentStatus /\ Allowed(shipment, target'[s]),
           handler = "inform" => Editable
    PROVE  ShippingInv'
  <1> USE DEF ShippingInv
  <1>0. /\ kind' = [kind EXCEPT ![s] = handler]
        /\ kind \in [Sessions -> Handlers \union {"none"}]
        /\ UNCHANGED <<so, task, packed, shipment, information, outdated, stale>>
    BY DEF Begin, tables, history, shippingTables, PackingInv, TypeOK
  <1>1. PackingInv'
    <2>1. <<>> \in Seq(Line) /\ InLockOrder(<<>>)
      BY EmptySeq DEF InLockOrder
    <2>2. QED
      BY <2>1, BeginKeeps DEF ShippingHandlers, TaskHandlers
  <1>2. ShippingTypeOK' /\ ShippedComplete' /\ OrderFollowsShipment'
    BY <1>0, <1>1 DEF ShippingTypeOK, ShippedComplete, OrderFollowsShipment, PackingInv, Complete
  <1>3. kind'[s] = handler /\ \A t \in Sessions \ {s} : kind'[t] = kind[t]
    BY <1>0
  <1>4. FoundInv'
    <2>1. handler = "ship" => Complete'
      <3>1. ASSUME handler = "ship", NEW i \in Items PROVE packed[i] = Required[i]
        <4>1. packed[i] >= Required[i] /\ packed[i] <= Required[i] /\ packed[i] \in Nat
          BY <3>1 DEF Shippable, ReadyToShip, PackingInv, TypeOK, QuantitiesAgree,
                      PackedWithinRequired
        <4>2. Required[i] \in Nat
          BY PackingAssumption
        <4>3. QED
          BY <4>1, <4>2
      <3>2. QED
        BY <1>0, <3>1 DEF Complete
    <2>2. handler = "status" => shipment # "none"
      BY DEF Allowed
    <2>3. handler = "inform" => shipment # "none"
      BY DEF Editable
    <2>4. Complete => Complete'
      BY <1>0 DEF Complete
    <2>5. QED
      BY <1>0, <1>3, <2>1, <2>2, <2>3, <2>4 DEF FoundInv
  <1>5. ShipmentFreshInv'
    <2> SUFFICES ASSUME NEW t \in Sessions, ~outdated[t] PROVE ShipmentStillValid(t)'
      BY <1>0 DEF ShipmentFreshInv
    <2>1. CASE t = s
      BY <2>1, <1>0, <1>3 DEF ShipmentStillValid, Shippable, ReadyToShip, Allowed, Editable
    <2>2. CASE t # s
      <3>1. ShipmentStillValid(t)
        BY DEF ShipmentFreshInv
      <3>2. QED
        BY <3>1, <2>2, <1>0, <1>3 DEF ShipmentStillValid, Shippable, ReadyToShip, Allowed, Editable
    <2>3. QED
      BY <2>1, <2>2
  <1>6. QED
    BY <1>1, <1>2, <1>4, <1>5

(* A shipping request that commits leaves the packing task as it is, and   *)
(* no request that is still open counts as up to date.                     *)
LEMMA ShippingCommitKeeps ==
    ASSUME ShippingInv, NEW s \in Sessions, Commit(s), so' \in SalesOrderStatus,
           UNCHANGED <<task, packed, pkg, packedBy, contents>>,
           shipment' \in ShipmentStatus, information' \in Nat,
           target' \in [Sessions -> ShipmentStatus \union {"none"}],
           \A t \in Sessions \ {s} : target'[t] = target[t],
           Complete, OrderFollowsShipment'
    PROVE  ShippingInv'
  <1> USE DEF ShippingInv
  <1>1. PackingInv'
    <2>1. /\ task' \in PackingStatus \union {"none"} /\ pkg' \in [Packages -> PackageStatus]
          /\ packedBy' \in Staff \union {NoPacker}
      BY DEF PackingInv, TypeOK
    <2>2. QED
      BY <2>1, CommitKeeps
  <1>2. ShippingTypeOK'
    BY <1>1 DEF ShippingTypeOK, PackingInv
  <1>3. Complete'
    BY DEF Complete
  <1>4. kind'[s] = "none" /\ \A t \in Sessions : kind'[t] # "none" => kind'[t] = kind[t] /\ outdated'[t]
    BY CommitEnds
  <1>5. shipment' # "none"
    BY DEF ShipmentStatus
  <1>6. FoundInv'
    BY <1>3, <1>4, <1>5 DEF FoundInv
  <1>7. ShipmentFreshInv'
    BY <1>4 DEF ShipmentFreshInv, ShipmentStillValid
  <1>8. QED
    BY <1>1, <1>2, <1>3, <1>6, <1>7 DEF ShippedComplete

(* What a shipping request that commits on an up-to-date read has checked. *)
LEMMA ShippingIsUpToDate ==
    ASSUME ShippingInv, NEW s \in Sessions, Commit(s), ~stale'
    PROVE  ShipmentStillValid(s) /\ ~stale
  BY CommitEnds DEF ShippingInv, ShipmentFreshInv

(* The shipment is created. *)
LEMMA CreateShipmentKeeps ==
    ASSUME ShippingInv, NEW s \in Sessions, CreateShipment(s)
    PROVE  ShippingInv'
  <1>1. /\ kind[s] = "ship" /\ Commit(s) /\ shipment' = "READY" /\ so' = "SHIPPED"
        /\ UNCHANGED <<task, packed, pkg, packedBy, contents, information, target>>
    BY DEF CreateShipment
  <1>2. Complete
    BY <1>1 DEF ShippingInv, FoundInv
  <1>3. OrderFollowsShipment'
    BY <1>1 DEF OrderFollowsShipment
  <1>4. /\ information' \in Nat /\ target' \in [Sessions -> ShipmentStatus \union {"none"}]
        /\ so' \in SalesOrderStatus /\ shipment' \in ShipmentStatus
    BY <1>1 DEF ShippingInv, ShippingTypeOK, SalesOrderStatus, ShipmentStatus
  <1>5. QED
    BY <1>1, <1>2, <1>3, <1>4, ShippingCommitKeeps

(* The shipment moves on, and its order with it. *)
LEMMA UpdateShipmentStatusKeeps ==
    ASSUME ShippingInv, NEW s \in Sessions, UpdateShipmentStatus(s)
    PROVE  ShippingInv'
  <1>1. /\ kind[s] = "status" /\ Commit(s) /\ shipment' = target[s]
        /\ so' = OrderAfter(target[s], so) /\ target' = [target EXCEPT ![s] = "none"]
        /\ UNCHANGED <<task, packed, pkg, packedBy, contents, information>>
    BY DEF UpdateShipmentStatus
  <1>2. Complete /\ target[s] \in ShipmentStatus
    BY <1>1 DEF ShippingInv, FoundInv, ShippedComplete
  <1>3. ASSUME ~stale'
        PROVE  /\ so' = "DELIVERED" <=> shipment' = "DELIVERED"
               /\ so' = "SHIPPED" <=> shipment' \notin {"none", "DELIVERED"}
    <2>1. Allowed(shipment, target[s]) /\ ~stale
      BY <1>1, <1>3, ShippingIsUpToDate DEF ShipmentStillValid
    <2>2. so = "SHIPPED"
      BY <2>1 DEF ShippingInv, OrderFollowsShipment, Allowed
    <2>3. QED
      BY <1>1, <2>1, <2>2 DEF OrderAfter, Allowed
  <1>4. /\ information' \in Nat /\ target' \in [Sessions -> ShipmentStatus \union {"none"}]
        /\ so' \in SalesOrderStatus
    BY <1>1, <1>2 DEF ShippingInv, ShippingTypeOK, TypeOK, OrderAfter, SalesOrderStatus
  <1>5. \A t \in Sessions \ {s} : target'[t] = target[t]
    BY <1>1 DEF ShippingInv, ShippingTypeOK
  <1>6. QED
    BY <1>1, <1>2, <1>3, <1>4, <1>5, ShippingCommitKeeps DEF OrderFollowsShipment

(* Carrier and address are changed. *)
LEMMA UpdateShipmentKeeps ==
    ASSUME ShippingInv, NEW s \in Sessions, UpdateShipment(s)
    PROVE  ShippingInv'
  <1>1. /\ kind[s] = "inform" /\ Commit(s) /\ information' = information + 1
        /\ UNCHANGED <<tables, shipment, target>>
    BY DEF UpdateShipment
  <1>2. Complete /\ shipment # "none"
    BY <1>1 DEF ShippingInv, FoundInv, ShippedComplete
  <1>3. OrderFollowsShipment'
    BY <1>1, ShippingIsUpToDate DEF ShippingInv, OrderFollowsShipment, tables
  <1>4. /\ information' \in Nat /\ target' \in [Sessions -> ShipmentStatus \union {"none"}]
        /\ so' \in SalesOrderStatus /\ shipment' \in ShipmentStatus
        /\ UNCHANGED <<task, packed, pkg, packedBy, contents>>
    BY <1>1, <1>2 DEF ShippingInv, ShippingTypeOK, TypeOK, tables
  <1>5. QED
    BY <1>1, <1>2, <1>3, <1>4, ShippingCommitKeeps

-----------------------------------------------------------------------------
(* Theorems *)

(* Before the first request there is no shipment. *)
LEMMA ShippingInitKeeps == ASSUME ShippingInit PROVE ShippingInv
  <1>1. PackingInv
    BY InitKeeps DEF ShippingInit
  <1>2. ShippingTypeOK /\ ShippedComplete /\ OrderFollowsShipment
    BY <1>1 DEF ShippingInit, Init, ShippingTypeOK, ShippedComplete, OrderFollowsShipment, PackingInv
  <1>3. FoundInv /\ ShipmentFreshInv
    BY DEF ShippingInit, Init, FoundInv, ShipmentFreshInv, ShipmentStillValid
  <1>4. QED
    BY <1>1, <1>2, <1>3 DEF ShippingInv

(* Every step keeps the invariant. *)
LEMMA ShippingNextKeeps ==
    ASSUME ShippingInv, [ShippingNext]_allVars
    PROVE  ShippingInv'
  <1>0. PackingInv /\ target \in [Sessions -> ShipmentStatus \union {"none"}]
    BY DEF ShippingInv, ShippingTypeOK
  <1>1. CASE UNCHANGED allVars
    <2>1. PackingInv'
      BY <1>0, <1>1, StutterKeeps DEF allVars
    <2>2. LeavesShipments
      BY <1>0, <1>1 DEF LeavesShipments, allVars, vars, tables, request, history, PackingInv, TypeOK
    <2>3. QED
      BY <1>0, <1>1, <2>1, <2>2, LeavingKeeps DEF allVars, shippingTables
  <1>2. ASSUME NEW s \in Sessions, BeginShip(s) PROVE ShippingInv'
    BY <1>0, <1>2, BeginShippingKeeps DEF BeginShip, ShippingHandlers
  <1>3. ASSUME NEW s \in Sessions, BeginStatus(s) PROVE ShippingInv'
    <2>1. PICK new \in ShipmentStatus :
            /\ Allowed(shipment, new) /\ target' = [target EXCEPT ![s] = new]
            /\ Begin(s, "status", Manager, NoPackage, <<>>) /\ UNCHANGED shippingTables
      BY <1>3 DEF BeginStatus
    <2>2. /\ target' \in [Sessions -> ShipmentStatus \union {"none"}] /\ target'[s] = new
          /\ \A t \in Sessions \ {s} : target'[t] = target[t]
      BY <1>0, <2>1
    <2>3. QED
      BY <2>1, <2>2, BeginShippingKeeps DEF ShippingHandlers
  <1>4. ASSUME NEW s \in Sessions, BeginInform(s) PROVE ShippingInv'
    BY <1>0, <1>4, BeginShippingKeeps DEF BeginInform, ShippingHandlers
  <1>5. ASSUME NEW s \in Sessions,
               CreateShipment(s) \/ UpdateShipmentStatus(s) \/ UpdateShipment(s)
        PROVE  ShippingInv'
    BY <1>5, CreateShipmentKeeps, UpdateShipmentStatusKeeps, UpdateShipmentKeeps
  <1>6. ASSUME NEW s \in Sessions, Step(s), UNCHANGED <<shippingTables, target>>
        PROVE  ShippingInv'
    <2>1. PackingInv' /\ LeavesShipments
      BY <1>0, <1>6, StepKeeps, StepLeavesShipments
    <2>2. QED
      BY <1>0, <1>6, <2>1, LeavingKeeps
  <1>7. ASSUME NEW s \in Sessions, Abandon(s) PROVE ShippingInv'
    <2>1. PackingInv' /\ LeavesShipments
      BY <1>0, <1>7, RollbackKeeps, RollbackLeavesShipments DEF Abandon
    <2>2. kind'[s] = "none"
      BY <1>0, <1>7, EndData DEF Abandon, Rollback, PackingInv
    <2>3. /\ target' \in [Sessions -> ShipmentStatus \union {"none"}]
          /\ \A t \in Sessions : kind'[t] \in ShippingHandlers => target'[t] = target[t]
      BY <1>0, <1>7, <2>2 DEF Abandon, ShippingHandlers
    <2>4. QED
      BY <1>7, <2>1, <2>3, LeavingKeeps DEF Abandon
  <1>8. CASE Quiescent /\ UNCHANGED <<shippingTables, target>>
    BY <1>1, <1>8 DEF Quiescent, allVars, shippingTables
  <1>9. QED
    BY <1>1, <1>2, <1>3, <1>4, <1>5, <1>6, <1>7, <1>8 DEF ShippingNext

(* The inductive invariant holds throughout every behaviour. *)
THEOREM ShippingInvariant == ShippingSpec => []ShippingInv
  BY ShippingInitKeeps, ShippingNextKeeps, PTL DEF ShippingSpec

(* Every variable of the shipment and its packing task keeps its shape. *)
THEOREM ShippingTypeCorrect == ShippingSpec => []ShippingTypeOK
  <1>1. ShippingInv => ShippingTypeOK
    BY DEF ShippingInv
  <1>2. QED
    BY ShippingInvariant, <1>1, PTL

(* createShipment's check of the packed task: whatever is committed        *)
(* between it and the write, a shipped order is packed completely, and     *)
(* stays so.                                                               *)
THEOREM NothingLeavesIncomplete == ShippingSpec => []ShippedComplete
  <1>1. ShippingInv => ShippedComplete
    BY DEF ShippingInv
  <1>2. QED
    BY ShippingInvariant, <1>1, PTL

(* The order's status says where its shipment is, up to the first commit   *)
(* on an outdated read: an order with a shipment is never cancelled.       *)
THEOREM OrderTellsShipment == ShippingSpec => []OrderFollowsShipment
  <1>1. ShippingInv => OrderFollowsShipment
    BY DEF ShippingInv
  <1>2. QED
    BY ShippingInvariant, <1>1, PTL

-----------------------------------------------------------------------------
(* The life of a shipment *)

(* What a step may do to a shipment and its order. *)
MovesOn ==
    /\ <<shipment, shipment'>> \in
         {<<"none", "READY">>, <<"READY", "SHIPPED">>, <<"READY", "CANCELLED">>,
          <<"SHIPPED", "IN_TRANSIT">>, <<"IN_TRANSIT", "DELIVERED">>,
          <<shipment, shipment>>}
    /\ shipment # "READY" => information' = information
    /\ so \in {"CANCELLED", "DELIVERED"} => so' = so

(* Every step on an up-to-date read moves the shipment on. *)
LEMMA ShippingStepMovesOn ==
    ASSUME ShippingInv, ShippingNext, ~stale'
    PROVE  MovesOn
  <1>0. PackingInv
    BY DEF ShippingInv
  <1>1. ASSUME NEW s \in Sessions, BeginShip(s) \/ BeginStatus(s) \/ BeginInform(s)
        PROVE  MovesOn
    <2>1. UNCHANGED <<so, shipment, information>>
      BY <1>1 DEF BeginShip, BeginStatus, BeginInform, Begin, tables, shippingTables
    <2>2. QED
      BY <2>1 DEF MovesOn
  <1>2. ASSUME NEW s \in Sessions, CreateShipment(s) PROVE MovesOn
    <2>1. ShipmentStillValid(s) /\ ~stale
      BY <1>2, ShippingIsUpToDate DEF CreateShipment
    <2>2. so \notin {"CANCELLED", "DELIVERED"}
      BY <1>2, <2>1 DEF CreateShipment, ShipmentStillValid, Shippable, ShippingInv,
                        OrderFollowsShipment
    <2>3. QED
      BY <1>2, <2>2 DEF CreateShipment, MovesOn
  <1>3. ASSUME NEW s \in Sessions, UpdateShipmentStatus(s) PROVE MovesOn
    <2>1. Allowed(shipment, target[s]) /\ ~stale
      BY <1>3, ShippingIsUpToDate DEF UpdateShipmentStatus, ShipmentStillValid
    <2>2. so = "SHIPPED"
      BY <2>1 DEF ShippingInv, OrderFollowsShipment, Allowed
    <2>3. QED
      BY <1>3, <2>1, <2>2 DEF UpdateShipmentStatus, Allowed, MovesOn
  <1>4. ASSUME NEW s \in Sessions, UpdateShipment(s) PROVE MovesOn
    <2>1. shipment = "READY"
      BY <1>4, ShippingIsUpToDate DEF UpdateShipment, ShipmentStillValid, Editable
    <2>2. QED
      BY <1>4, <2>1 DEF UpdateShipment, tables, MovesOn
  <1>5. ASSUME LeavesShipments, UNCHANGED shippingTables PROVE MovesOn
    BY <1>5 DEF LeavesShipments, shippingTables, MovesOn
  <1>6. ASSUME NEW s \in Sessions, Step(s), UNCHANGED <<shippingTables, target>>
        PROVE  MovesOn
    BY <1>0, <1>5, <1>6, StepLeavesShipments
  <1>7. ASSUME NEW s \in Sessions, Abandon(s) PROVE MovesOn
    BY <1>0, <1>5, <1>7, RollbackLeavesShipments DEF Abandon
  <1>8. CASE Quiescent /\ UNCHANGED <<shippingTables, target>>
    BY <1>8 DEF Quiescent, vars, tables, shippingTables, MovesOn
  <1>9. QED
    BY <1>1, <1>2, <1>3, <1>4, <1>6, <1>7, <1>8 DEF ShippingNext

(* updateShipmentStatus's table of transitions and updateShipment's check: *)
(* a shipment never goes back, what left keeps its address, and a          *)
(* cancelled or delivered order stays so, up to the first commit on an     *)
(* outdated read.                                                          *)
THEOREM ShipmentsMoveOn == ShippingSpec => ShipmentLifeCycle
  <1>1. ASSUME ShippingInv, [ShippingNext]_allVars
        PROVE  [~stale' => MovesOn]_allVars
    BY <1>1, ShippingStepMovesOn
  <1>2. QED
    BY ShippingInvariant, <1>1, PTL DEF ShippingSpec, ShipmentLifeCycle, MovesOn
=============================================================================
