-------------------------- MODULE FulfilmentProofs --------------------------
(* Theorems about Fulfilment for every number of sessions, orders and      *)
(* products, and every opening stock.                                      *)
EXTENDS Fulfilment, SumTheorems

-----------------------------------------------------------------------------
(* The inductive invariant *)

(* The handlers that work on an order, and those on its picking task. *)
OrderHandlers == {"cancel", "createTask", "assign", "start", "pick"}
TaskHandlers == {"assign", "start", "pick"}

(* The rows of an order before it is created, before its task is created,  *)
(* and after: the task asks for every unit that is still reserved.         *)
OrderInv ==
    \A o \in Orders :
        /\ so[o] = "none" =>
             /\ task[o] = "none"
             /\ \A p \in Products : quantity[o][p] = 0 /\ reservation[o][p] = "none"
             /\ \A s \in Sessions : order[s] # o
        /\ task[o] = "none" => \A p \in Products : required[o][p] = 0
        /\ task[o] # "none" =>
             \A p \in Products : reservation[o][p] = "ACTIVE" => required[o][p] = quantity[o][p]

(* What requests know of the task: a picker that has locked it knows what  *)
(* is picked; the others only what they have read.                         *)
WorkInv ==
    \A s \in Sessions :
        /\ kind[s] \in OrderHandlers => order[s] \in Orders
        /\ toLock[s] => kind[s] = "pick"
        /\ kind[s] \in TaskHandlers => task[order[s]] # "none"
        /\ kind[s] = "pick" /\ ~toLock[s] =>
             taskHolder[order[s]] = s /\ base[s] = picked[order[s]]
        /\ kind[s] \in {"assign", "start"} /\ order[s] \notin crossed => OpenTask(order[s])
        /\ \A t \in Sessions : t # s /\ order[t] = order[s] => order[s] \in crossed \union {NoOrder}

(* What createPickingTask has read of the reservations: since then some    *)
(* may have been released, but none has become ACTIVE.                     *)
CreateTaskInv ==
    \A s \in Sessions :
        kind[s] = "createTask" =>
            /\ Asked(qty[s]) # {}
            /\ \A p \in Products :
                 /\ qty[s][p] \in {0, quantity[order[s]][p]}
                 /\ reservation[order[s]][p] = "ACTIVE" => qty[s][p] = quantity[order[s]][p]

(* A stock row that was there to lock is held from the check of its line   *)
(* to the commit, and what a creation has found available still is, but    *)
(* for what other creations have promised without the lock.                *)
StockLockInv ==
    \A s \in Sessions, p \in Products :
        qty[s][p] > 0 /\ p \notin wanted[s] =>
            /\ kind[s] = "pick" => stockHolder[p] = s
            /\ kind[s] = "create" /\ p \notin bare[s] =>
                 /\ stockHolder[p] = s
                 /\ Reserved(p) + qty[s][p] <= InStock(p) + unlocked[p]

(* Nothing was ordered, picked or found available of a product that has no *)
(* stock row: what a pick locks exists.                                    *)
RowInv ==
    \A p \in Products :
        stock[p] = Absent =>
            /\ \A o \in Orders : quantity[o][p] = 0
            /\ \A s \in Sessions :
                 /\ base[s][p] = 0
                 /\ kind[s] = "create" /\ qty[s][p] > 0 => p \in wanted[s]

(* The inductive strengthening: the properties, the rows of an order at    *)
(* each stage, and what each request has read and locked.                  *)
FulfilmentInv ==
    /\ TypeOK /\ PickedWithinOrdered /\ ReservationsSettled /\ PromisesCovered
    /\ TaskFollowsPicks
    /\ OrderInv /\ WorkInv /\ CreateTaskInv /\ StockLockInv /\ RowInv

-----------------------------------------------------------------------------
(* What is reserved and what is promised of a product *)

(* Reservations and promises are integers. *)
LEMMA LineTypes ==
    ASSUME TypeOK
    PROVE  \A o \in Orders, p \in Products :
             ActiveQuantity(o, p) \in Nat /\ Promised(o, p) \in Int
  BY DEF TypeOK, ActiveQuantity, Promised

(* Totals over all orders. *)
LEMMA TotalTypes ==
    ASSUME TypeOK, NEW p \in Products
    PROVE  Reserved(p) \in Nat /\ PromisedOf(p) \in Int
  <1> DEFINE f == [o \in Orders |-> ActiveQuantity(o, p)]
             g == [o \in Orders |-> Promised(o, p)]
  <1>1. \A o \in Orders : f[o] \in Nat /\ g[o] \in Int
    BY LineTypes
  <1>2. Reserved(p) = SumFunctionOnSet(f, Orders) /\ PromisedOf(p) = SumFunctionOnSet(g, Orders)
    BY DEF Reserved, PromisedOf
  <1> HIDE DEF f, g
  <1>3. SumFunctionOnSet(f, Orders) \in Nat
    BY <1>1, SumNat, FulfilmentAssumption
  <1>4. SumFunctionOnSet(g, Orders) \in Int
    BY <1>1, SumType, FulfilmentAssumption
  <1>5. QED
    BY <1>2, <1>3, <1>4

(* Less reserved of every order is less reserved in all. *)
LEMMA ReservedShrinks ==
    ASSUME TypeOK, TypeOK', NEW p \in Products,
           \A o \in Orders : ActiveQuantity(o, p)' <= ActiveQuantity(o, p)
    PROVE  Reserved(p)' <= Reserved(p) /\ Reserved(p)' \in Nat
  <1> DEFINE f == [o \in Orders |-> ActiveQuantity(o, p)]
             g == [o \in Orders |-> ActiveQuantity(o, p)']
  <1>1. \A o \in Orders : f[o] \in Nat /\ g[o] \in Nat /\ g[o] <= f[o]
    BY DEF TypeOK, ActiveQuantity
  <1>2. Reserved(p) = SumFunctionOnSet(f, Orders) /\ Reserved(p)' = SumFunctionOnSet(g, Orders)
    BY DEF Reserved, ActiveQuantity
  <1> HIDE DEF f, g
  <1>3. QED
    <2>1. SumFunctionOnSet(g, Orders) <= SumFunctionOnSet(f, Orders)
      BY <1>1, SumMonotone, FulfilmentAssumption
    <2>2. SumFunctionOnSet(g, Orders) \in Nat
      BY <1>1, SumNat, FulfilmentAssumption
    <2>3. QED
      BY <1>2, <2>1, <2>2

(* Less promised by every order is less promised in all. *)
LEMMA PromisedShrinks ==
    ASSUME TypeOK, TypeOK', NEW p \in Products,
           \A o \in Orders : Promised(o, p)' <= Promised(o, p)
    PROVE  PromisedOf(p)' <= PromisedOf(p) /\ PromisedOf(p)' \in Int
  <1> DEFINE f == [o \in Orders |-> Promised(o, p)]
             g == [o \in Orders |-> Promised(o, p)']
  <1>1. \A o \in Orders : f[o] \in Int /\ g[o] \in Int /\ g[o] <= f[o]
    BY DEF TypeOK, Promised
  <1>2. PromisedOf(p) = SumFunctionOnSet(f, Orders) /\ PromisedOf(p)' = SumFunctionOnSet(g, Orders)
    BY DEF PromisedOf, Promised
  <1> HIDE DEF f, g
  <1>3. SumFunctionOnSet(g, Orders) <= SumFunctionOnSet(f, Orders)
    BY <1>1, SumMonotone, FulfilmentAssumption
  <1>4. SumFunctionOnSet(g, Orders) \in Int
    BY <1>1, SumType, FulfilmentAssumption
  <1>5. QED
    BY <1>2, <1>3, <1>4

(* A step of one order changes what is promised in all by what it changes  *)
(* of that order.                                                          *)
LEMMA PromisedStep ==
    ASSUME TypeOK, TypeOK', NEW p \in Products, NEW o \in Orders,
           \A c \in Orders \ {o} : Promised(c, p)' = Promised(c, p)
    PROVE  PromisedOf(p)' = PromisedOf(p) + (Promised(o, p)' - Promised(o, p))
  <1> DEFINE f == [c \in Orders |-> Promised(c, p)]
             g == [c \in Orders |-> Promised(c, p)']
  <1>1. \A c \in Orders : f[c] \in Int /\ g[c] \in Int
    BY DEF TypeOK, Promised
  <1>2. \A c \in Orders \ {o} : g[c] = f[c]
    OBVIOUS
  <1>3. PromisedOf(p) = SumFunctionOnSet(f, Orders) /\ PromisedOf(p)' = SumFunctionOnSet(g, Orders)
    BY DEF PromisedOf, Promised
  <1>4. f[o] = Promised(o, p) /\ g[o] = Promised(o, p)'
    OBVIOUS
  <1> HIDE DEF f, g
  <1>5. SumFunctionOnSet(g, Orders) = SumFunctionOnSet(f, Orders) + (g[o] - f[o])
    BY <1>1, <1>2, SumUpdate, FulfilmentAssumption
  <1>6. QED
    BY <1>3, <1>4, <1>5

(* The same of what is reserved. *)
LEMMA ReservedStep ==
    ASSUME TypeOK, TypeOK', NEW p \in Products, NEW o \in Orders,
           \A c \in Orders \ {o} : ActiveQuantity(c, p)' = ActiveQuantity(c, p)
    PROVE  Reserved(p)' = Reserved(p) + (ActiveQuantity(o, p)' - ActiveQuantity(o, p))
  <1> DEFINE f == [c \in Orders |-> ActiveQuantity(c, p)]
             g == [c \in Orders |-> ActiveQuantity(c, p)']
  <1>1. \A c \in Orders : f[c] \in Int /\ g[c] \in Int
    BY DEF TypeOK, ActiveQuantity
  <1>2. \A c \in Orders \ {o} : g[c] = f[c]
    OBVIOUS
  <1>3. Reserved(p) = SumFunctionOnSet(f, Orders) /\ Reserved(p)' = SumFunctionOnSet(g, Orders)
    BY DEF Reserved, ActiveQuantity
  <1>4. f[o] = ActiveQuantity(o, p) /\ g[o] = ActiveQuantity(o, p)'
    OBVIOUS
  <1> HIDE DEF f, g
  <1>5. SumFunctionOnSet(g, Orders) = SumFunctionOnSet(f, Orders) + (g[o] - f[o])
    BY <1>1, <1>2, SumUpdate, FulfilmentAssumption
  <1>6. QED
    BY <1>3, <1>4, <1>5

(* What is still promised is part of what is reserved. *)
LEMMA PromisedWithinReserved ==
    ASSUME TypeOK, NEW p \in Products
    PROVE  PromisedOf(p) <= Reserved(p)
  <1> DEFINE f == [o \in Orders |-> Promised(o, p)]
             g == [o \in Orders |-> ActiveQuantity(o, p)]
  <1>1. \A o \in Orders : f[o] \in Int /\ g[o] \in Int /\ f[o] <= g[o]
    BY DEF TypeOK, Promised, ActiveQuantity
  <1>2. PromisedOf(p) = SumFunctionOnSet(f, Orders) /\ Reserved(p) = SumFunctionOnSet(g, Orders)
    BY DEF PromisedOf, Reserved
  <1> HIDE DEF f, g
  <1>3. QED
    BY <1>1, <1>2, SumMonotone, FulfilmentAssumption

(* Totals that no order's rows change. *)
LEMMA QuietTotals ==
    ASSUME UNCHANGED <<quantity, reservation, picked>>
    PROVE  \A p \in Products : Reserved(p)' = Reserved(p) /\ PromisedOf(p)' = PromisedOf(p)
  BY DEF Reserved, PromisedOf, ActiveQuantity, Promised

(* What is in stock is a natural number, and the quantity of the row if    *)
(* there is one.                                                           *)
LEMMA StockType ==
    ASSUME TypeOK, NEW p \in Products
    PROVE  /\ InStock(p) \in Nat /\ taken[p] \in Nat /\ unlocked[p] \in Nat
           /\ stock[p] # Absent => stock[p] \in Nat /\ InStock(p) = stock[p]
  BY DEF TypeOK, InStock

(* An empty payload. *)
LEMMA ZeroType == Zero \in [Products -> Nat] /\ \A p \in Products : Zero[p] = 0
  BY DEF Zero

-----------------------------------------------------------------------------
(* The end of a request *)

(* The working data of the request are gone, those of the others stay. *)
LEMMA EndData ==
    ASSUME TypeOK, NEW s \in Sessions, End(s)
    PROVE  /\ stockHolder' \in [Products -> Sessions \union {NoSession}]
           /\ taskHolder' \in [Orders -> Sessions \union {NoSession}]
           /\ kind' \in [Sessions -> Handler \union {"none"}]
           /\ order' \in [Sessions -> Orders \union {NoOrder}]
           /\ qty' \in [Sessions -> [Products -> Nat]]
           /\ base' \in [Sessions -> [Products -> Nat]]
           /\ toLock' \in [Sessions -> BOOLEAN]
           /\ wanted' \in [Sessions -> SUBSET Products]
           /\ bare' \in [Sessions -> SUBSET Products]
           /\ served' = served /\ crossed' = crossed
           /\ kind'[s] = "none" /\ order'[s] = NoOrder /\ ~toLock'[s] /\ base'[s] = Zero
           /\ \A t \in Sessions : t # s =>
                /\ kind'[t] = kind[t] /\ order'[t] = order[t] /\ qty'[t] = qty[t]
                /\ base'[t] = base[t] /\ toLock'[t] = toLock[t] /\ wanted'[t] = wanted[t]
                /\ bare'[t] = bare[t]
                /\ \A p \in Products : stockHolder[p] = t => stockHolder'[p] = t
                /\ \A o \in Orders : taskHolder[o] = t => taskHolder'[o] = t
  <1>1. /\ stockHolder' \in [Products -> Sessions \union {NoSession}]
        /\ taskHolder' \in [Orders -> Sessions \union {NoSession}]
        /\ \A t \in Sessions : t # s =>
             /\ \A p \in Products : stockHolder[p] = t => stockHolder'[p] = t
             /\ \A o \in Orders : taskHolder[o] = t => taskHolder'[o] = t
    BY DEF End, TypeOK
  <1>2. /\ qty' \in [Sessions -> [Products -> Nat]]
        /\ base' \in [Sessions -> [Products -> Nat]]
        /\ base'[s] = Zero
        /\ \A t \in Sessions : t # s => qty'[t] = qty[t] /\ base'[t] = base[t]
    BY ZeroType DEF End, TypeOK
  <1>3. /\ kind' \in [Sessions -> Handler \union {"none"}]
        /\ order' \in [Sessions -> Orders \union {NoOrder}]
        /\ toLock' \in [Sessions -> BOOLEAN]
        /\ wanted' \in [Sessions -> SUBSET Products]
        /\ bare' \in [Sessions -> SUBSET Products]
        /\ served' = served /\ crossed' = crossed
        /\ kind'[s] = "none" /\ order'[s] = NoOrder /\ ~toLock'[s]
        /\ \A t \in Sessions : t # s =>
             kind'[t] = kind[t] /\ order'[t] = order[t] /\ toLock'[t] = toLock[t]
               /\ wanted'[t] = wanted[t] /\ bare'[t] = bare[t]
    BY DEF End, TypeOK
  <1>4. QED
    BY <1>1, <1>2, <1>3

(* A request that ends keeps what the others know, if it spares what they  *)
(* hold: the task and the stock rows under their locks.                    *)
LEMMA OthersKeep ==
    ASSUME FulfilmentInv, TypeOK', NEW s \in Sessions, End(s),
           \A o \in Orders : task[o] # "none" => task'[o] # "none",
           \A t \in Sessions : t # s /\ kind[t] \in OrderHandlers =>
             /\ kind[t] = "pick" /\ ~toLock[t] => picked'[order[t]] = picked[order[t]]
             /\ order[t] \notin crossed => task'[order[t]] = task[order[t]]
             /\ quantity'[order[t]] = quantity[order[t]]
             /\ \A p \in Products :
                  reservation'[order[t]][p] = "ACTIVE" => reservation[order[t]][p] = "ACTIVE",
           \A t \in Sessions, p \in Products : t # s /\ stockHolder[p] = t =>
             /\ stock'[p] = stock[p] /\ Reserved(p)' \in Nat
             /\ \/ unlocked' = unlocked /\ Reserved(p)' <= Reserved(p)
                \/ Reserved(p)' + unlocked[p] <= Reserved(p) + unlocked'[p]
    PROVE  WorkInv' /\ CreateTaskInv' /\ StockLockInv'
  <1> USE DEF FulfilmentInv
  <1>0. /\ kind'[s] = "none" /\ order'[s] = NoOrder /\ ~toLock'[s] /\ crossed' = crossed
        /\ \A t \in Sessions : t # s =>
             /\ kind'[t] = kind[t] /\ order'[t] = order[t] /\ qty'[t] = qty[t]
             /\ base'[t] = base[t] /\ toLock'[t] = toLock[t] /\ wanted'[t] = wanted[t]
             /\ bare'[t] = bare[t]
             /\ \A p \in Products : stockHolder[p] = t => stockHolder'[p] = t
             /\ \A o \in Orders : taskHolder[o] = t => taskHolder'[o] = t
    BY EndData
  <1>1. WorkInv'
    <2> SUFFICES ASSUME NEW t \in Sessions
                 PROVE  /\ kind'[t] \in OrderHandlers => order'[t] \in Orders
                        /\ toLock'[t] => kind'[t] = "pick"
                        /\ kind'[t] \in TaskHandlers => task'[order'[t]] # "none"
                        /\ kind'[t] = "pick" /\ ~toLock'[t] =>
                             taskHolder'[order'[t]] = t /\ base'[t] = picked'[order'[t]]
                        /\ kind'[t] \in {"assign", "start"} /\ order'[t] \notin crossed' =>
                             task'[order'[t]] \notin {"none", "PICKED"}
                        /\ \A u \in Sessions : u # t /\ order'[u] = order'[t] =>
                             order'[t] \in crossed' \union {NoOrder}
      BY DEF WorkInv, OpenTask
    <2>1. CASE t = s
      BY <1>0, <2>1 DEF OrderHandlers, TaskHandlers
    <2>2. CASE t # s
      <3>1. kind[t] \in TaskHandlers => order[t] \in Orders
        BY DEF WorkInv, OrderHandlers, TaskHandlers
      <3>2. \A u \in Sessions : u # t /\ order'[u] = order'[t] =>
              order'[t] \in crossed' \union {NoOrder}
        BY <1>0, <2>2 DEF WorkInv
      <3>3. kind[t] \in TaskHandlers => task'[order[t]] # "none"
        BY <3>1 DEF WorkInv
      <3>4. kind[t] = "pick" /\ ~toLock[t] =>
              taskHolder'[order[t]] = t /\ base[t] = picked'[order[t]]
        BY <1>0, <2>2, <3>1 DEF WorkInv, OrderHandlers, TaskHandlers
      <3>5. kind[t] \in {"assign", "start"} /\ order[t] \notin crossed =>
              task'[order[t]] \notin {"none", "PICKED"}
        BY <1>0, <2>2 DEF WorkInv, OrderHandlers, OpenTask
      <3>6. (kind[t] \in OrderHandlers => order[t] \in Orders) /\ (toLock[t] => kind[t] = "pick")
        BY DEF WorkInv
      <3>7. kind'[t] = kind[t] /\ order'[t] = order[t] /\ toLock'[t] = toLock[t] /\ base'[t] = base[t]
        BY <1>0, <2>2
      <3>8. QED
        BY <1>0, <3>2, <3>3, <3>4, <3>5, <3>6, <3>7
    <2>3. QED
      BY <2>1, <2>2
  <1>2. CreateTaskInv'
    <2> SUFFICES ASSUME NEW t \in Sessions, kind'[t] = "createTask"
                 PROVE  /\ Asked(qty'[t]) # {}
                        /\ \A p \in Products :
                             /\ qty'[t][p] \in {0, quantity'[order'[t]][p]}
                             /\ reservation'[order'[t]][p] = "ACTIVE" =>
                                  qty'[t][p] = quantity'[order'[t]][p]
      BY DEF CreateTaskInv, Asked
    <2>1. t # s
      BY <1>0
    <2>2. kind[t] = "createTask" /\ kind[t] \in OrderHandlers /\ qty'[t] = qty[t] /\ order'[t] = order[t]
      BY <1>0, <2>1 DEF OrderHandlers
    <2>3. /\ quantity'[order[t]] = quantity[order[t]]
          /\ \A p \in Products :
               reservation'[order[t]][p] = "ACTIVE" => reservation[order[t]][p] = "ACTIVE"
      BY <2>1, <2>2
    <2>4. QED
      BY <2>2, <2>3 DEF CreateTaskInv
  <1>3. StockLockInv'
    <2> SUFFICES ASSUME NEW t \in Sessions, NEW p \in Products, qty'[t][p] > 0, p \notin wanted'[t]
                 PROVE  /\ kind'[t] = "pick" => stockHolder'[p] = t
                        /\ kind'[t] = "create" /\ p \notin bare'[t] =>
                             /\ stockHolder'[p] = t
                             /\ Reserved(p)' + qty'[t][p] <= InStock(p)' + unlocked'[p]
      BY DEF StockLockInv
    <2>1. CASE t = s
      BY <1>0, <2>1
    <2>2. CASE t # s
      <3>1. /\ kind'[t] = kind[t] /\ qty'[t] = qty[t] /\ wanted'[t] = wanted[t]
            /\ bare'[t] = bare[t]
        BY <1>0, <2>2
      <3>2. /\ kind[t] = "pick" => stockHolder[p] = t
            /\ kind[t] = "create" /\ p \notin bare[t] =>
                 /\ stockHolder[p] = t
                 /\ Reserved(p) + qty[t][p] <= InStock(p) + unlocked[p]
        BY <3>1 DEF StockLockInv
      <3>3. stockHolder[p] = t => stockHolder'[p] = t
        BY <1>0, <2>2
      <3>4. ASSUME kind[t] = "create", p \notin bare[t]
            PROVE  Reserved(p)' + qty[t][p] <= InStock(p)' + unlocked'[p]
        <4>1. /\ stock'[p] = stock[p] /\ Reserved(p)' \in Nat
              /\ \/ unlocked'[p] = unlocked[p] /\ Reserved(p)' <= Reserved(p)
                 \/ Reserved(p)' + unlocked[p] <= Reserved(p) + unlocked'[p]
          BY <2>2, <3>2, <3>4
        <4>2. Reserved(p) + qty[t][p] <= InStock(p) + unlocked[p]
          BY <3>2, <3>4
        <4>3. /\ Reserved(p) \in Nat /\ qty[t][p] \in Nat /\ InStock(p) \in Nat
              /\ unlocked[p] \in Nat /\ unlocked'[p] \in Nat
          <5>1. qty[t][p] \in Nat /\ unlocked'[p] \in Nat
            BY DEF TypeOK
          <5>2. QED
            BY <5>1, TotalTypes, StockType
        <4>4. InStock(p)' = InStock(p)
          BY <4>1 DEF InStock
        <4>5. QED
          BY <4>1, <4>2, <4>3, <4>4
      <3>5. QED
        BY <3>1, <3>2, <3>3, <3>4
    <2>3. QED
      BY <2>1, <2>2
  <1>4. QED
    BY <1>1, <1>2, <1>3

(* A request that ends keeps the rows that are there, if it orders nothing *)
(* of a product that has none.                                             *)
LEMMA RowsKeep ==
    ASSUME FulfilmentInv, NEW s \in Sessions, End(s),
           \A p \in Products : stock'[p] = Absent =>
             stock[p] = Absent /\ \A o \in Orders : quantity'[o][p] = 0
    PROVE  RowInv'
  <1>1. /\ kind'[s] = "none" /\ base'[s] = Zero
        /\ \A t \in Sessions : t # s =>
             /\ kind'[t] = kind[t] /\ qty'[t] = qty[t] /\ base'[t] = base[t]
             /\ wanted'[t] = wanted[t]
    BY EndData DEF FulfilmentInv
  <1>2. QED
    BY <1>1, ZeroType DEF FulfilmentInv, RowInv

(* The properties, when a step leaves the tables alone. *)
LEMMA QuietTables ==
    ASSUME FulfilmentInv, UNCHANGED <<stock, orderTables, taskTables, taken, unlocked>>,
           crossed \subseteq crossed'
    PROVE  PickedWithinOrdered' /\ ReservationsSettled' /\ PromisesCovered' /\ TaskFollowsPicks'
  <1> USE DEF FulfilmentInv, orderTables, taskTables
  <1>1. PickedWithinOrdered' /\ ReservationsSettled' /\ TaskFollowsPicks'
    BY DEF PickedWithinOrdered, ReservationsSettled, TaskFollowsPicks
  <1>2. PromisesCovered'
    BY QuietTotals DEF PromisesCovered, InStock
  <1>3. QED
    BY <1>1, <1>2

(* A request that gives up leaves the tables alone. *)
LEMMA RollbackKeeps ==
    ASSUME FulfilmentInv, NEW s \in Sessions, Rollback(s)
    PROVE  FulfilmentInv'
  <1> USE DEF FulfilmentInv
  <1>0. End(s) /\ UNCHANGED <<stock, orderTables, taskTables, taken, unlocked>>
    BY DEF Rollback
  <1>1. TypeOK'
    BY <1>0, EndData DEF TypeOK, orderTables, taskTables
  <1>2. PickedWithinOrdered' /\ ReservationsSettled' /\ PromisesCovered' /\ TaskFollowsPicks'
    BY <1>0, QuietTables, EndData
  <1>3. \A t \in Sessions : order'[t] \in {order[t], NoOrder}
    BY <1>0, EndData
  <1>4. OrderInv'
    BY <1>0, <1>3, FulfilmentAssumption DEF OrderInv, orderTables, taskTables
  <1>5. \A p \in Products : Reserved(p)' = Reserved(p) /\ Reserved(p) \in Nat
    BY <1>0, QuietTotals, TotalTypes DEF orderTables, taskTables
  <1>6. WorkInv' /\ CreateTaskInv' /\ StockLockInv'
    BY <1>0, <1>1, <1>5, OthersKeep DEF orderTables, taskTables
  <1>7. RowInv'
    BY <1>0, RowsKeep DEF RowInv, orderTables
  <1>8. QED
    BY <1>1, <1>2, <1>4, <1>6, <1>7

(* createSalesOrder: what was checked under the stock locks is promised.   *)
LEMMA CreateOrderKeeps ==
    ASSUME FulfilmentInv, NEW s \in Sessions, CreateOrder(s)
    PROVE  FulfilmentInv'
  <1> USE DEF FulfilmentInv
  <1>0. PICK o \in Orders :
          /\ kind[s] = "create" /\ wanted[s] = {} /\ so[o] = "none"
          /\ so' = [so EXCEPT ![o] = "CONFIRMED"]
          /\ quantity' = [quantity EXCEPT ![o] = qty[s]]
          /\ reservedQuantity' = [reservedQuantity EXCEPT ![o] = qty[s]]
          /\ reservation' = [reservation EXCEPT ![o] =
                               [p \in Products |-> IF qty[s][p] > 0 THEN "ACTIVE" ELSE "none"]]
          /\ unlocked' = [p \in Products |->
                IF p \in bare[s] THEN unlocked[p] + qty[s][p] ELSE unlocked[p]]
          /\ End(s)
          /\ UNCHANGED <<stock, task, required, picked, allocations, taken>>
    BY DEF CreateOrder, taskTables
  <1>1. TypeOK'
    <2>1. reservation' \in [Orders -> [Products -> ReservationStatus]]
      BY <1>0 DEF TypeOK, ReservationStatus
    <2>2. so' \in [Orders -> SalesOrderStatus]
      BY <1>0 DEF TypeOK, SalesOrderStatus
    <2>3. quantity' \in [Orders -> [Products -> Nat]]
          /\ reservedQuantity' \in [Orders -> [Products -> Nat]]
      BY <1>0 DEF TypeOK
    <2>4. unlocked' \in [Products -> Nat]
      BY <1>0 DEF TypeOK
    <2>5. QED
      BY <1>0, <2>1, <2>2, <2>3, <2>4, EndData DEF TypeOK
  <1>2. /\ task[o] = "none" /\ \A t \in Sessions : order[t] # o
        /\ \A p \in Products :
             /\ quantity[o][p] = 0 /\ reservation[o][p] = "none" /\ required[o][p] = 0
             /\ picked[o][p] = 0 /\ allocations[o][p] = 0
    BY <1>0 DEF OrderInv, PickedWithinOrdered, TypeOK
  <1>3. /\ so'[o] = "CONFIRMED" /\ quantity'[o] = qty[s]
        /\ \A p \in Products : reservation'[o][p] = IF qty[s][p] > 0 THEN "ACTIVE" ELSE "none"
        /\ \A c \in Orders \ {o} :
             so'[c] = so[c] /\ quantity'[c] = quantity[c] /\ reservation'[c] = reservation[c]
    BY <1>0 DEF TypeOK
  <1>4. PickedWithinOrdered'
    BY <1>0, <1>2, <1>3 DEF PickedWithinOrdered, TypeOK
  <1>5. ReservationsSettled'
    BY <1>0, <1>2, <1>3 DEF ReservationsSettled, TypeOK
  <1>6. TaskFollowsPicks'
    BY <1>0, EndData DEF TaskFollowsPicks
  <1>7. PromisesCovered'
    <2> SUFFICES ASSUME NEW p \in Products
                 PROVE  PromisedOf(p)' <= InStock(p) + taken[p] + unlocked'[p]
      BY <1>0 DEF PromisesCovered, InStock
    <2>1. \A c \in Orders \ {o} : Promised(c, p)' = Promised(c, p)
      BY <1>0, <1>3 DEF Promised
    <2>2. Promised(o, p) = 0 /\ Promised(o, p)' = qty[s][p] /\ qty[s][p] \in Nat
      BY <1>0, <1>2, <1>3 DEF Promised, TypeOK
    <2>3. PromisedOf(p)' = PromisedOf(p) + qty[s][p]
      <3>1. PromisedOf(p)' = PromisedOf(p) + (Promised(o, p)' - Promised(o, p))
        BY <1>1, <2>1, PromisedStep
      <3>2. QED
        BY <2>2, <3>1
    <2>4. /\ PromisedOf(p) <= InStock(p) + taken[p] + unlocked[p]
          /\ PromisedOf(p) <= Reserved(p)
      BY PromisedWithinReserved DEF PromisesCovered
    <2>5. qty[s][p] > 0 /\ p \notin bare[s] =>
            Reserved(p) + qty[s][p] <= InStock(p) + unlocked[p]
      BY <1>0 DEF StockLockInv
    <2>6. /\ Reserved(p) \in Nat /\ PromisedOf(p) \in Int
          /\ InStock(p) \in Nat /\ taken[p] \in Nat /\ unlocked[p] \in Nat
      BY TotalTypes, StockType
    <2>7. unlocked'[p] = IF p \in bare[s] THEN unlocked[p] + qty[s][p] ELSE unlocked[p]
      BY <1>0
    <2>8. QED
      BY <2>2, <2>3, <2>4, <2>5, <2>6, <2>7
  <1>8. \A t \in Sessions : order'[t] \in {order[t], NoOrder}
    BY <1>0, EndData
  <1>9. OrderInv'
    BY <1>0, <1>2, <1>3, <1>8, FulfilmentAssumption DEF OrderInv
  <1>10. ASSUME NEW t \in Sessions, NEW p \in Products, t # s, stockHolder[p] = t
         PROVE  /\ Reserved(p)' \in Nat
                /\ Reserved(p)' + unlocked[p] <= Reserved(p) + unlocked'[p]
    <2>1. qty[s][p] \in Nat /\ (p \notin bare[s] => qty[s][p] = 0)
      <3>1. qty[s] \in [Products -> Nat]
        BY DEF TypeOK
      <3>2. qty[s][p] > 0 => p \in bare[s]
        BY <1>0, <1>10 DEF StockLockInv
      <3>3. QED
        BY <3>1, <3>2
    <2>2. /\ \A c \in Orders \ {o} : ActiveQuantity(c, p)' = ActiveQuantity(c, p)
          /\ ActiveQuantity(o, p) = 0 /\ ActiveQuantity(o, p)' = qty[s][p]
      BY <2>1, <1>2, <1>3 DEF ActiveQuantity
    <2>3. Reserved(p)' = Reserved(p) + qty[s][p]
      <3>1. Reserved(p)' = Reserved(p) + (ActiveQuantity(o, p)' - ActiveQuantity(o, p))
        BY <1>1, <2>2, ReservedStep
      <3>2. QED
        BY <2>1, <2>2, <3>1
    <2>4. unlocked'[p] = IF p \in bare[s] THEN unlocked[p] + qty[s][p] ELSE unlocked[p]
      BY <1>0
    <2>5. Reserved(p) \in Nat /\ unlocked[p] \in Nat
      BY TotalTypes, StockType
    <2>6. QED
      BY <2>1, <2>3, <2>4, <2>5
  <1>11. WorkInv' /\ CreateTaskInv' /\ StockLockInv'
    <2>1. \A t \in Sessions : kind[t] \in OrderHandlers => order[t] \in Orders \ {o}
      BY <1>2 DEF WorkInv
    <2>2. QED
      BY <1>0, <1>1, <1>3, <1>10, <2>1, OthersKeep
  <1>12. RowInv'
    <2>1. ASSUME NEW p \in Products, stock'[p] = Absent
          PROVE  stock[p] = Absent /\ \A c \in Orders : quantity'[c][p] = 0
      <3>1. stock[p] = Absent
        BY <1>0, <2>1
      <3>2. qty[s][p] \in Nat /\ ~(qty[s][p] > 0)
        BY <1>0, <3>1 DEF RowInv, TypeOK
      <3>3. QED
        BY <1>3, <3>1, <3>2 DEF RowInv
    <2>2. QED
      BY <1>0, <2>1, RowsKeep
  <1>13. QED
    BY <1>1, <1>4, <1>5, <1>6, <1>7, <1>9, <1>11, <1>12

(* cancelSalesOrder: reservations are only released. *)
LEMMA CancelOrderKeeps ==
    ASSUME FulfilmentInv, NEW s \in Sessions, CancelOrder(s)
    PROVE  FulfilmentInv'
  <1> USE DEF FulfilmentInv
  <1> DEFINE o == order[s]
  <1>0. /\ kind[s] = "cancel"
        /\ so' = [so EXCEPT ![o] = "CANCELLED"]
        /\ reservedQuantity' = [reservedQuantity EXCEPT ![o] = Zero]
        /\ reservation' = [reservation EXCEPT ![o] =
                             [p \in Products |-> IF @[p] = "ACTIVE" THEN "RELEASED" ELSE @[p]]]
        /\ End(s)
        /\ UNCHANGED <<stock, quantity, task, required, picked, allocations, taken, unlocked>>
    BY DEF CancelOrder, taskTables
  <1>1. o \in Orders
    BY <1>0 DEF WorkInv, OrderHandlers
  <1> HIDE DEF o
  <1>2. TypeOK'
    <2>1. reservation' \in [Orders -> [Products -> ReservationStatus]]
      BY <1>0 DEF TypeOK, ReservationStatus
    <2>2. so' \in [Orders -> SalesOrderStatus]
      BY <1>0 DEF TypeOK, SalesOrderStatus
    <2>3. reservedQuantity' \in [Orders -> [Products -> Nat]]
      BY <1>0, ZeroType DEF TypeOK
    <2>4. QED
      BY <1>0, <2>1, <2>2, <2>3, EndData DEF TypeOK
  <1>3. /\ so'[o] = "CANCELLED"
        /\ \A c \in Orders \ {o} : so'[c] = so[c]
        /\ \A c \in Orders, p \in Products :
             reservation'[c][p] = IF c = o /\ reservation[c][p] = "ACTIVE" THEN "RELEASED"
                                  ELSE reservation[c][p]
    BY <1>0, <1>1 DEF TypeOK
  <1>4. PickedWithinOrdered' /\ TaskFollowsPicks'
    BY <1>0, EndData DEF PickedWithinOrdered, TaskFollowsPicks
  <1>5. ReservationsSettled'
    BY <1>0, <1>3 DEF ReservationsSettled
  <1>6. PromisesCovered'
    <2> SUFFICES ASSUME NEW p \in Products
                 PROVE  PromisedOf(p)' <= InStock(p) + taken[p] + unlocked[p]
      BY <1>0 DEF PromisesCovered, InStock
    <2>1. \A c \in Orders : Promised(c, p)' \in Int /\ Promised(c, p)' <= Promised(c, p)
      BY <1>0, <1>3 DEF Promised, TypeOK, PickedWithinOrdered
    <2>2. PromisedOf(p)' <= PromisedOf(p) /\ PromisedOf(p)' \in Int
      BY <1>2, <2>1, PromisedShrinks
    <2>3. PromisedOf(p) <= InStock(p) + taken[p] + unlocked[p]
      BY DEF PromisesCovered
    <2>4. PromisedOf(p) \in Int /\ InStock(p) \in Nat /\ taken[p] \in Nat /\ unlocked[p] \in Nat
      BY TotalTypes, StockType
    <2>5. QED
      BY <2>2, <2>3, <2>4
  <1>7. \A t \in Sessions : order'[t] \in {order[t], NoOrder}
    BY <1>0, EndData
  <1>8. OrderInv'
    BY <1>0, <1>3, <1>7, FulfilmentAssumption DEF OrderInv
  <1>9. ASSUME NEW p \in Products
        PROVE  Reserved(p)' <= Reserved(p) /\ Reserved(p)' \in Nat
    <2>1. \A c \in Orders : ActiveQuantity(c, p)' <= ActiveQuantity(c, p)
      BY <1>0, <1>3 DEF ActiveQuantity, TypeOK
    <2>2. QED
      BY <1>2, <2>1, ReservedShrinks
  <1>10. WorkInv' /\ CreateTaskInv' /\ StockLockInv'
    <2>1. \A t \in Sessions : kind[t] \in OrderHandlers => order[t] \in Orders
      BY DEF WorkInv
    <2>2. \A c \in Orders, p \in Products :
            reservation'[c][p] = "ACTIVE" => reservation[c][p] = "ACTIVE"
      BY <1>3
    <2>3. QED
      BY <1>0, <1>2, <1>9, <2>1, <2>2, OthersKeep
  <1>11. RowInv'
    BY <1>0, RowsKeep DEF RowInv
  <1>12. QED
    BY <1>2, <1>4, <1>5, <1>6, <1>8, <1>10, <1>11

(* createPickingTask: the task asks for what was reserved when it was read, *)
(* so for all that is reserved still.                                       *)
LEMMA CreateTaskKeeps ==
    ASSUME FulfilmentInv, NEW s \in Sessions, CreateTask(s)
    PROVE  FulfilmentInv'
  <1> USE DEF FulfilmentInv
  <1> DEFINE o == order[s]
  <1>0. /\ kind[s] = "createTask" /\ task[o] = "none"
        /\ task' = [task EXCEPT ![o] = "PENDING"]
        /\ required' = [required EXCEPT ![o] = qty[s]]
        /\ End(s)
        /\ UNCHANGED <<stock, so, quantity, reservedQuantity, reservation, picked, allocations,
                       taken, unlocked>>
    BY DEF CreateTask, orderTables
  <1>1. o \in Orders
    BY <1>0 DEF WorkInv, OrderHandlers
  <1>2. /\ Asked(qty[s]) # {}
        /\ \A p \in Products :
             /\ qty[s][p] \in {0, quantity[o][p]}
             /\ reservation[o][p] = "ACTIVE" => qty[s][p] = quantity[o][p]
    BY <1>0 DEF CreateTaskInv
  <1>3. \A t \in Sessions : kind[t] \in OrderHandlers => order[t] \in Orders
    BY DEF WorkInv
  <1>4. so[o] # "none"
    BY <1>1 DEF OrderInv
  <1> HIDE DEF o
  <1>5. TypeOK'
    <2>1. task' \in [Orders -> PickingStatus] /\ required' \in [Orders -> [Products -> Nat]]
      BY <1>0 DEF TypeOK, PickingStatus
    <2>2. QED
      BY <1>0, <2>1, EndData DEF TypeOK
  <1>6. /\ task'[o] = "PENDING" /\ required'[o] = qty[s]
        /\ \A c \in Orders \ {o} : task'[c] = task[c] /\ required'[c] = required[c]
    BY <1>0, <1>1 DEF TypeOK
  <1>7. \A p \in Products : picked[o][p] = 0
    BY <1>0, <1>1 DEF OrderInv, PickedWithinOrdered, TypeOK
  <1>8. PickedWithinOrdered'
    <2>1. \A p \in Products : quantity[o][p] \in Nat /\ qty[s][p] \in Nat
      BY <1>1 DEF TypeOK
    <2>2. \A p \in Products : 0 <= qty[s][p] /\ qty[s][p] <= quantity[o][p]
      BY <1>2, <2>1
    <2>3. \A c \in Orders, p \in Products :
            required'[c][p] = IF c = o THEN qty[s][p] ELSE required[c][p]
      BY <1>6
    <2>4. QED
      BY <1>0, <1>7, <2>2, <2>3 DEF PickedWithinOrdered
  <1>9. ReservationsSettled'
    BY <1>0 DEF ReservationsSettled
  <1>10. PromisesCovered'
    BY <1>0, QuietTotals DEF PromisesCovered, InStock
  <1>11. TaskFollowsPicks'
    <2>1. picked[o] # required'[o]
      BY <1>2, <1>6, <1>7 DEF Asked
    <2>2. QED
      BY <1>0, <1>6, <2>1, EndData DEF TaskFollowsPicks
  <1>12. \A t \in Sessions : order'[t] \in {order[t], NoOrder}
    BY <1>0, EndData
  <1>13. OrderInv'
    <2> SUFFICES ASSUME NEW c \in Orders
                 PROVE  /\ so'[c] = "none" =>
                             /\ task'[c] = "none"
                             /\ \A p \in Products : quantity'[c][p] = 0 /\ reservation'[c][p] = "none"
                             /\ \A t \in Sessions : order'[t] # c
                        /\ task'[c] = "none" => \A p \in Products : required'[c][p] = 0
                        /\ task'[c] # "none" =>
                             \A p \in Products : reservation'[c][p] = "ACTIVE" =>
                               required'[c][p] = quantity'[c][p]
      BY DEF OrderInv
    <2>1. CASE c = o
      BY <1>0, <1>2, <1>4, <1>6, <2>1
    <2>2. CASE c # o
      BY <1>0, <1>6, <1>12, <2>2, FulfilmentAssumption DEF OrderInv
    <2>3. QED
      BY <2>1, <2>2
  <1>14. \A p \in Products : Reserved(p)' = Reserved(p) /\ Reserved(p) \in Nat
    BY <1>0, QuietTotals, TotalTypes
  <1>15. WorkInv' /\ CreateTaskInv' /\ StockLockInv'
    <2>1. \A t \in Sessions : t # s /\ kind[t] \in OrderHandlers /\ order[t] \notin crossed =>
            task'[order[t]] = task[order[t]]
      <3>1. ASSUME NEW t \in Sessions, t # s, kind[t] \in OrderHandlers, order[t] \notin crossed
            PROVE  order[t] \in Orders \ {o}
        BY <1>1, <1>3, <3>1, FulfilmentAssumption DEF WorkInv, o
      <3>2. QED
        BY <1>6, <3>1
    <2>2. \A c \in Orders : task[c] # "none" => task'[c] # "none"
      BY <1>6
    <2>3. QED
      BY <1>0, <1>5, <1>14, <2>1, <2>2, OthersKeep
  <1>16. RowInv'
    BY <1>0, RowsKeep DEF RowInv
  <1>17. QED
    BY <1>5, <1>8, <1>9, <1>10, <1>11, <1>13, <1>15, <1>16

(* assignPicker and startPicking write the status they want: right unless  *)
(* another request works on the order.                                     *)
LEMMA SetTaskStatusKeeps ==
    ASSUME FulfilmentInv, NEW s \in Sessions, NEW handler \in {"assign", "start"},
           NEW status \in {"ASSIGNED", "IN_PROGRESS"}, SetTaskStatus(s, handler, status)
    PROVE  FulfilmentInv'
  <1> USE DEF FulfilmentInv
  <1> DEFINE o == order[s]
  <1>0. /\ kind[s] = handler
        /\ task' = [task EXCEPT ![o] = status]
        /\ End(s)
        /\ UNCHANGED <<stock, so, quantity, reservedQuantity, reservation, required, picked,
                       allocations, taken, unlocked>>
    BY DEF SetTaskStatus, orderTables
  <1>1. o \in Orders /\ task[o] # "none" /\ (o \notin crossed => task[o] # "PICKED")
    BY <1>0 DEF WorkInv, OrderHandlers, TaskHandlers, OpenTask
  <1>2. \A t \in Sessions : kind[t] \in OrderHandlers => order[t] \in Orders
    BY DEF WorkInv
  <1>3. \A t \in Sessions : t # s /\ order[t] \notin crossed /\ order[t] \in Orders => order[t] # o
    BY FulfilmentAssumption DEF WorkInv
  <1> HIDE DEF o
  <1>4. TypeOK'
    <2>1. task' \in [Orders -> PickingStatus]
      BY <1>0 DEF TypeOK, PickingStatus
    <2>2. QED
      BY <1>0, <2>1, EndData DEF TypeOK
  <1>5. task'[o] = status /\ \A c \in Orders \ {o} : task'[c] = task[c]
    BY <1>0, <1>1 DEF TypeOK
  <1>6. PickedWithinOrdered' /\ ReservationsSettled'
    BY <1>0 DEF PickedWithinOrdered, ReservationsSettled
  <1>7. PromisesCovered'
    BY <1>0, QuietTotals DEF PromisesCovered, InStock
  <1>8. TaskFollowsPicks'
    BY <1>0, <1>1, <1>5, EndData DEF TaskFollowsPicks
  <1>9. \A t \in Sessions : order'[t] \in {order[t], NoOrder}
    BY <1>0, EndData
  <1>10. OrderInv'
    <2>1. \A c \in Orders : task'[c] = "none" <=> task[c] = "none"
      BY <1>1, <1>5
    <2>2. QED
      BY <1>0, <1>9, <2>1, FulfilmentAssumption DEF OrderInv
  <1>11. \A p \in Products : Reserved(p)' = Reserved(p) /\ Reserved(p) \in Nat
    BY <1>0, QuietTotals, TotalTypes
  <1>12. WorkInv' /\ CreateTaskInv' /\ StockLockInv'
    <2>1. \A t \in Sessions : t # s /\ kind[t] \in OrderHandlers /\ order[t] \notin crossed =>
            task'[order[t]] = task[order[t]]
      BY <1>2, <1>3, <1>5
    <2>2. \A c \in Orders : task[c] # "none" => task'[c] # "none"
      BY <1>5
    <2>3. QED
      BY <1>0, <1>4, <1>11, <2>1, <2>2, OthersKeep
  <1>13. RowInv'
    BY <1>0, RowsKeep DEF RowInv
  <1>14. QED
    BY <1>4, <1>6, <1>7, <1>8, <1>10, <1>12, <1>13

(* What a picker may pick adds up to the task exactly when every item is   *)
(* picked: the totals of rule 6 decide item by item.                       *)
LEMMA TotalsDecide ==
    ASSUME NEW q \in [Products -> Nat], NEW r \in [Products -> Nat],
           \A p \in Products : q[p] <= r[p]
    PROVE  Sum(q) >= Sum(r) <=> q = r
  <1>1. ASSUME Sum(q) >= Sum(r) PROVE q = r
    <2>1. /\ IsFiniteSet(Products)
          /\ \A p \in Products : q[p] \in Int /\ r[p] \in Int /\ q[p] <= r[p]
      BY FulfilmentAssumption
    <2>2. SumFunctionOnSet(q, Products) >= SumFunctionOnSet(r, Products)
      BY <1>1 DEF Sum
    <2>3. \A p \in Products : q[p] = r[p]
      BY <2>1, <2>2, SumMonotone
    <2>4. QED
      BY <2>3
  <1>2. ASSUME q = r PROVE Sum(q) >= Sum(r)
    <2>1. Sum(q) \in Nat
      BY SumNat, FulfilmentAssumption DEF Sum
    <2>2. QED
      BY <1>2, <2>1
  <1>3. QED
    BY <1>1, <1>2

(* pickItems: under the task's lock the progress is the committed one, so  *)
(* the units picked, the reservations consumed and the status agree.       *)
LEMMA PickItemsKeeps ==
    ASSUME FulfilmentInv, NEW s \in Sessions, PickItems(s)
    PROVE  FulfilmentInv'
  <1> USE DEF FulfilmentInv
  <1>a. PICK o \in Orders : o = order[s]
    BY DEF PickItems, WorkInv, OrderHandlers
  <1>0. /\ kind[s] = "pick" /\ ~toLock[s] /\ wanted[s] = {}
        /\ PickAllowed(s)
        /\ stock' = [p \in Products |-> IF qty[s][p] > 0 THEN stock[p] - qty[s][p] ELSE stock[p]]
        /\ picked' = [picked EXCEPT ![o] =
                        [p \in Products |-> IF qty[s][p] > 0 THEN Now(s)[p] ELSE @[p]]]
        /\ allocations' = [allocations EXCEPT ![o] = [p \in Products |-> @[p] + qty[s][p]]]
        /\ task' = [task EXCEPT ![o] = IF Finished(s) THEN "PICKED" ELSE "PARTIALLY_PICKED"]
        /\ reservation' = [reservation EXCEPT ![o] =
              [p \in Products |-> IF @[p] = "ACTIVE" /\ (Finished(s) \/ ItemPicked(s, p))
                                  THEN "CONSUMED" ELSE @[p]]]
        /\ taken' = [p \in Products |->
              IF reservation[o][p] = "ACTIVE" THEN taken[p] ELSE taken[p] + qty[s][p]]
        /\ End(s)
        /\ UNCHANGED <<so, quantity, reservedQuantity, required, unlocked>>
    BY <1>a DEF PickItems
  <1>1. /\ task[o] # "none" /\ taskHolder[o] = s /\ base[s] = picked[o]
        /\ \A t \in Sessions : kind[t] \in OrderHandlers => order[t] \in Orders
        /\ \A t \in Sessions : t # s /\ order[t] \notin crossed /\ order[t] \in Orders =>
             order[t] # o
    BY <1>0, <1>a, FulfilmentAssumption DEF WorkInv, OrderHandlers, TaskHandlers
  <1>2. ASSUME NEW p \in Products
        PROVE  /\ qty[s][p] \in Nat /\ picked[o][p] \in Nat /\ required[o][p] \in Nat
               /\ quantity[o][p] \in Nat /\ allocations[o][p] = picked[o][p]
               /\ Now(s)[p] = picked[o][p] + qty[s][p]
               /\ picked[o][p] + qty[s][p] <= required[o][p]
               /\ required[o][p] <= quantity[o][p]
               /\ qty[s][p] > 0 => stock[p] \in Nat /\ qty[s][p] <= stock[p]
    <2>1. /\ qty[s][p] \in Nat /\ picked[o][p] \in Nat /\ required[o][p] \in Nat
          /\ quantity[o][p] \in Nat
      BY <1>1 DEF TypeOK
    <2>2. /\ allocations[o][p] = picked[o][p] /\ picked[o][p] <= required[o][p]
          /\ required[o][p] <= quantity[o][p]
      BY <1>1 DEF PickedWithinOrdered
    <2>3. qty[s][p] > 0 => qty[s][p] <= required[o][p] - picked[o][p] /\ qty[s][p] <= stock[p]
      BY <1>0, <1>1, <1>a DEF PickAllowed, Asked
    <2>4. Now(s)[p] = picked[o][p] + qty[s][p]
      BY <1>1 DEF Now
    <2>5. qty[s][p] > 0 => stock[p] # Absent
      BY <1>1, <2>1, <2>2, <2>3 DEF RowInv
    <2>6. QED
      BY <2>1, <2>2, <2>3, <2>4, <2>5, StockType
  <1>3. Finished(s) <=> Now(s) = required[o]
    <2>1. Now(s) \in [Products -> Nat]
      BY <1>1, <1>2 DEF Now
    <2>2. required[o] \in [Products -> Nat]
      BY <1>1 DEF TypeOK
    <2>3. \A p \in Products : Now(s)[p] <= required[o][p]
      BY <1>2
    <2>4. QED
      BY <1>a, <2>1, <2>2, <2>3, TotalsDecide DEF Finished
  <1>4. \A p \in Products : ItemPicked(s, p) => picked[o][p] + qty[s][p] = required[o][p]
    BY <1>a, <1>1, <1>2 DEF ItemPicked
  <1>5. \A p \in Products : ~ItemPicked(s, p) /\ qty[s][p] > 0 =>
          picked[o][p] + qty[s][p] < required[o][p]
    BY <1>a, <1>1, <1>2 DEF ItemPicked
  <1>6. \A p \in Products : reservation[o][p] = "ACTIVE" => required[o][p] = quantity[o][p]
    BY <1>1 DEF OrderInv
  <1>7. \A t \in Sessions, p \in Products : t # s /\ stockHolder[p] = t => qty[s][p] = 0
    BY <1>0, <1>2 DEF StockLockInv
  <1>b. ASSUME NEW p \in Products
        PROVE  /\ InStock(p)' = InStock(p) - qty[s][p] /\ stock'[p] \in Nat \union {Absent}
               /\ stock'[p] = Absent => stock[p] = Absent
    <2>1. stock'[p] = IF qty[s][p] > 0 THEN stock[p] - qty[s][p] ELSE stock[p]
      BY <1>0
    <2>2. qty[s][p] \in Nat /\ (qty[s][p] > 0 => stock[p] \in Nat /\ qty[s][p] <= stock[p])
      BY <1>2
    <2>3. stock[p] \in Nat \union {Absent}
      BY DEF TypeOK
    <2>4. CASE qty[s][p] > 0
      <3>1. stock'[p] = stock[p] - qty[s][p] /\ stock[p] - qty[s][p] \in Nat /\ stock[p] \in Nat
        BY <2>1, <2>2, <2>4
      <3>2. stock'[p] # Absent /\ stock[p] # Absent
        BY <3>1, FulfilmentAssumption
      <3>3. QED
        BY <3>1, <3>2 DEF InStock
    <2>5. CASE qty[s][p] = 0
      <3>1. stock'[p] = stock[p]
        BY <2>1, <2>5
      <3>2. InStock(p)' = InStock(p)
        BY <3>1 DEF InStock
      <3>3. QED
        BY <2>3, <2>5, <3>1, <3>2, StockType
    <2>6. QED
      BY <2>2, <2>4, <2>5
  <1>8. TypeOK'
    <2>1. stock' \in [Products -> Nat \union {Absent}]
      BY <1>0, <1>b
    <2>2. picked' \in [Orders -> [Products -> Nat]] /\ allocations' \in [Orders -> [Products -> Nat]]
      <3>1. [p \in Products |-> IF qty[s][p] > 0 THEN Now(s)[p] ELSE picked[o][p]]
              \in [Products -> Nat]
        BY <1>2
      <3>2. [p \in Products |-> allocations[o][p] + qty[s][p]] \in [Products -> Nat]
        BY <1>2
      <3>3. QED
        BY <1>0, <3>1, <3>2 DEF TypeOK
    <2>3. task' \in [Orders -> PickingStatus]
      BY <1>0 DEF TypeOK, PickingStatus
    <2>4. reservation' \in [Orders -> [Products -> ReservationStatus]]
      BY <1>0, <1>1 DEF TypeOK, ReservationStatus
    <2>5. taken' \in [Products -> Nat]
      BY <1>0, <1>2 DEF TypeOK
    <2>6. QED
      BY <1>0, <2>1, <2>2, <2>3, <2>4, <2>5, EndData DEF TypeOK
  <1>9. /\ task'[o] = IF Finished(s) THEN "PICKED" ELSE "PARTIALLY_PICKED"
        /\ picked'[o] = [p \in Products |-> picked[o][p] + qty[s][p]]
        /\ \A p \in Products :
             /\ picked'[o][p] = picked[o][p] + qty[s][p]
             /\ allocations'[o][p] = allocations[o][p] + qty[s][p]
             /\ reservation'[o][p] =
                  IF reservation[o][p] = "ACTIVE" /\ (Finished(s) \/ ItemPicked(s, p))
                  THEN "CONSUMED" ELSE reservation[o][p]
        /\ \A c \in Orders \ {o} :
             /\ task'[c] = task[c] /\ picked'[c] = picked[c] /\ allocations'[c] = allocations[c]
             /\ reservation'[c] = reservation[c]
    <2>1. picked'[o] = [p \in Products |-> IF qty[s][p] > 0 THEN Now(s)[p] ELSE picked[o][p]]
      BY <1>0, <1>1 DEF TypeOK
    <2>2. \A p \in Products : picked'[o][p] = picked[o][p] + qty[s][p]
      BY <1>2, <2>1
    <2>3. picked'[o] = [p \in Products |-> picked[o][p] + qty[s][p]]
      BY <2>1, <2>2
    <2>4. QED
      BY <1>0, <1>1, <2>2, <2>3 DEF TypeOK
  <1>10. Now(s) = picked'[o]
    BY <1>1, <1>9 DEF Now
  <1>11. PickedWithinOrdered'
    BY <1>0, <1>2, <1>9 DEF PickedWithinOrdered
  <1>12. \A p \in Products : Finished(s) => picked[o][p] + qty[s][p] = required[o][p]
    BY <1>2, <1>3
  <1>13. ReservationsSettled'
    <2> SUFFICES ASSUME NEW c \in Orders, NEW p \in Products
                 PROVE  /\ reservation'[c][p] = "CONSUMED" => picked'[c][p] = quantity[c][p]
                        /\ reservation'[c][p] = "ACTIVE" =>
                             so[c] = "CONFIRMED" /\ picked'[c][p] # quantity[c][p]
                        /\ reservation'[c][p] = "RELEASED" => so[c] = "CANCELLED"
      BY <1>0 DEF ReservationsSettled
    <2>1. CASE c # o
      BY <1>9, <2>1 DEF ReservationsSettled
    <2>2. CASE c = o
      <3>1. /\ reservation[o][p] = "CONSUMED" => picked[o][p] = quantity[o][p]
            /\ reservation[o][p] = "ACTIVE" => so[o] = "CONFIRMED" /\ picked[o][p] # quantity[o][p]
            /\ reservation[o][p] = "RELEASED" => so[o] = "CANCELLED"
        BY <2>2 DEF ReservationsSettled
      <3>2. reservation'[o][p] = "CONSUMED" => picked'[o][p] = quantity[o][p]
        BY <1>2, <1>4, <1>6, <1>9, <1>12, <3>1
      <3>3. reservation'[o][p] = "ACTIVE" =>
              so[o] = "CONFIRMED" /\ picked'[o][p] # quantity[o][p]
        BY <1>2, <1>5, <1>6, <1>9, <3>1
      <3>4. reservation'[o][p] = "RELEASED" => so[o] = "CANCELLED"
        BY <1>9, <3>1
      <3>5. QED
        BY <2>2, <3>2, <3>3, <3>4
    <2>3. QED
      BY <2>1, <2>2
  <1>14. PromisesCovered'
    <2> SUFFICES ASSUME NEW p \in Products
                 PROVE  PromisedOf(p)' <= InStock(p)' + taken'[p] + unlocked[p]
      BY <1>0 DEF PromisesCovered
    <2>1. \A c \in Orders \ {o} : Promised(c, p)' = Promised(c, p)
      BY <1>0, <1>9 DEF Promised
    <2>2. PromisedOf(p)' = PromisedOf(p) + (Promised(o, p)' - Promised(o, p))
      BY <1>1, <1>8, <2>1, PromisedStep
    <2>3. /\ PromisedOf(p) <= InStock(p) + taken[p] + unlocked[p]
          /\ PromisedOf(p) \in Int
          /\ taken[p] \in Nat /\ InStock(p) \in Nat /\ unlocked[p] \in Nat
      BY TotalTypes, StockType DEF PromisesCovered
    <2>4. InStock(p)' = InStock(p) - qty[s][p]
      BY <1>b
    <2>5. CASE reservation[o][p] = "ACTIVE"
      <3>1. taken'[p] = taken[p]
        BY <1>0, <2>5
      <3>2. Promised(o, p) = quantity[o][p] - picked[o][p]
        BY <2>5 DEF Promised
      <3>3. Promised(o, p)' = quantity[o][p] - (picked[o][p] + qty[s][p])
        BY <1>0, <1>2, <1>4, <1>6, <1>9, <1>12, <2>5 DEF Promised
      <3>4. QED
        BY <1>2, <2>2, <2>3, <2>4, <3>1, <3>2, <3>3
    <2>6. CASE reservation[o][p] # "ACTIVE"
      <3>1. taken'[p] = taken[p] + qty[s][p]
        BY <1>0, <2>6
      <3>2. Promised(o, p) = 0 /\ Promised(o, p)' = 0
        BY <1>9, <2>6 DEF Promised
      <3>3. QED
        BY <1>2, <2>2, <2>3, <2>4, <3>1, <3>2
    <2>7. QED
      BY <2>5, <2>6
  <1>15. TaskFollowsPicks'
    BY <1>0, <1>3, <1>9, <1>10, EndData DEF TaskFollowsPicks
  <1>16. \A t \in Sessions : order'[t] \in {order[t], NoOrder}
    BY <1>0, EndData
  <1>17. OrderInv'
    <2>1. \A c \in Orders : task'[c] = "none" <=> task[c] = "none"
      BY <1>1, <1>9
    <2>2. \A c \in Orders, p \in Products :
            /\ reservation'[c][p] = "ACTIVE" => reservation[c][p] = "ACTIVE"
            /\ reservation[c][p] = "none" => reservation'[c][p] = "none"
      BY <1>9
    <2>3. \A c \in Orders : \A t \in Sessions : order'[t] = c => order[t] = c
      BY <1>16, FulfilmentAssumption
    <2>4. so' = so /\ quantity' = quantity /\ required' = required
      BY <1>0
    <2>5. QED
      BY <2>1, <2>2, <2>3, <2>4 DEF OrderInv
  <1>18. ASSUME NEW p \in Products
         PROVE  Reserved(p)' <= Reserved(p) /\ Reserved(p)' \in Nat
    <2>1. \A c \in Orders : ActiveQuantity(c, p)' <= ActiveQuantity(c, p)
      BY <1>0, <1>9 DEF ActiveQuantity, TypeOK
    <2>2. QED
      BY <1>8, <2>1, ReservedShrinks
  <1>19. WorkInv' /\ CreateTaskInv' /\ StockLockInv'
    <2>1. \A t \in Sessions : t # s /\ kind[t] \in OrderHandlers /\ order[t] \notin crossed =>
            task'[order[t]] = task[order[t]]
      BY <1>1, <1>9
    <2>2. \A c \in Orders : task[c] # "none" => task'[c] # "none"
      BY <1>9
    <2>3. ASSUME NEW t \in Sessions, t # s, kind[t] = "pick", ~toLock[t]
          PROVE  picked'[order[t]] = picked[order[t]]
      <3>1. taskHolder[order[t]] = t /\ order[t] \in Orders
        BY <2>3 DEF WorkInv, OrderHandlers
      <3>2. order[t] # o
        BY <1>1, <2>3, <3>1
      <3>3. QED
        BY <1>9, <3>1, <3>2
    <2>4. \A c \in Orders, p \in Products :
            reservation'[c][p] = "ACTIVE" => reservation[c][p] = "ACTIVE"
      BY <1>9
    <2>5. \A t \in Sessions, p \in Products : t # s /\ stockHolder[p] = t => stock'[p] = stock[p]
      BY <1>0, <1>7
    <2>6. \A t \in Sessions : t # s /\ kind[t] \in OrderHandlers =>
            /\ kind[t] = "pick" /\ ~toLock[t] => picked'[order[t]] = picked[order[t]]
            /\ order[t] \notin crossed => task'[order[t]] = task[order[t]]
            /\ quantity'[order[t]] = quantity[order[t]]
            /\ \A p \in Products :
                 reservation'[order[t]][p] = "ACTIVE" => reservation[order[t]][p] = "ACTIVE"
      BY <1>0, <1>1, <2>1, <2>3, <2>4
    <2>7. End(s)
      BY <1>0
    <2>8. QED
      BY <1>0, <1>8, <1>18, <2>2, <2>5, <2>6, <2>7, OthersKeep
  <1>20. RowInv'
    BY <1>0, <1>b, RowsKeep DEF RowInv
  <1>21. QED
    BY <1>8, <1>11, <1>13, <1>14, <1>15, <1>17, <1>19, <1>20

-----------------------------------------------------------------------------
(* The first reads, the locks and the movements *)

(* A request that is accepted has read rows of an order that exists.       *)
LEMMA BeginKeeps ==
    ASSUME FulfilmentInv, NEW s \in Sessions, NEW handler \in Handler,
           NEW o \in Orders \union {NoOrder}, NEW q \in [Products -> Nat],
           NEW lockTask \in BOOLEAN, NEW ps \in SUBSET Products,
           Begin(s, handler, o, q, lockTask, ps),
           handler \in OrderHandlers => o \in Orders,
           lockTask <=> handler = "pick",
           handler \in TaskHandlers => OpenTask(o),
           o \in Orders => so[o] # "none",
           handler = "createTask" =>
             Asked(q) # {} /\ \A p \in Products : q[p] = ActiveQuantity(o, p),
           handler \in {"create", "pick"} => ps = Asked(q)
    PROVE  FulfilmentInv'
  <1> USE DEF FulfilmentInv
  <1>0. /\ kind[s] = "none" /\ served' = served + 1
        /\ kind' = [kind EXCEPT ![s] = handler] /\ order' = [order EXCEPT ![s] = o]
        /\ qty' = [qty EXCEPT ![s] = q] /\ toLock' = [toLock EXCEPT ![s] = lockTask]
        /\ wanted' = [wanted EXCEPT ![s] = ps]
        /\ crossed' = crossed \union {c \in {o} \ {NoOrder} : \E t \in Sessions : order[t] = c}
        /\ UNCHANGED <<stock, so, quantity, reservedQuantity, reservation, task, required, picked,
                       allocations, stockHolder, taskHolder, base, bare, taken, unlocked>>
    BY DEF Begin, orderTables, taskTables, locks
  <1>1. TypeOK'
    BY <1>0 DEF TypeOK
  <1>2. PickedWithinOrdered' /\ ReservationsSettled' /\ PromisesCovered' /\ TaskFollowsPicks'
    BY <1>0, QuietTables DEF orderTables, taskTables
  <1>3. /\ kind'[s] = handler /\ order'[s] = o /\ qty'[s] = q /\ toLock'[s] = lockTask
        /\ wanted'[s] = ps
        /\ \A t \in Sessions : t # s =>
             /\ kind'[t] = kind[t] /\ order'[t] = order[t] /\ qty'[t] = qty[t]
             /\ toLock'[t] = toLock[t] /\ wanted'[t] = wanted[t]
    BY <1>0 DEF TypeOK
  <1>4. OrderInv'
    BY <1>0, <1>3 DEF OrderInv
  <1>5. WorkInv'
    <2> SUFFICES ASSUME NEW t \in Sessions
                 PROVE  /\ kind'[t] \in OrderHandlers => order'[t] \in Orders
                        /\ toLock'[t] => kind'[t] = "pick"
                        /\ kind'[t] \in TaskHandlers => task'[order'[t]] # "none"
                        /\ kind'[t] = "pick" /\ ~toLock'[t] =>
                             taskHolder'[order'[t]] = t /\ base'[t] = picked'[order'[t]]
                        /\ kind'[t] \in {"assign", "start"} /\ order'[t] \notin crossed' =>
                             task'[order'[t]] \notin {"none", "PICKED"}
                        /\ \A u \in Sessions : u # t /\ order'[u] = order'[t] =>
                             order'[t] \in crossed' \union {NoOrder}
      BY DEF WorkInv, OpenTask
    <2>1. \A u \in Sessions : u # t /\ order'[u] = order'[t] =>
            order'[t] \in crossed' \union {NoOrder}
      <3> SUFFICES ASSUME NEW u \in Sessions, u # t, order'[u] = order'[t]
                   PROVE  order'[t] \in crossed' \union {NoOrder}
        OBVIOUS
      <3>1. CASE t = s \/ u = s
        BY <1>0, <1>3, <3>1
      <3>2. CASE t # s /\ u # s
        BY <1>0, <1>3, <3>2 DEF WorkInv
      <3>3. QED
        BY <3>1, <3>2
    <2>2. CASE t = s
      BY <1>0, <1>3, <2>1, <2>2 DEF OpenTask, TaskHandlers
    <2>3. CASE t # s
      <3>1. order[t] \notin crossed' => order[t] \notin crossed
        BY <1>0
      <3>2. /\ kind'[t] = kind[t] /\ order'[t] = order[t] /\ toLock'[t] = toLock[t]
            /\ base' = base /\ task' = task /\ taskHolder' = taskHolder /\ picked' = picked
        BY <1>0, <1>3, <2>3
      <3>3. /\ kind[t] \in OrderHandlers => order[t] \in Orders
            /\ toLock[t] => kind[t] = "pick"
            /\ kind[t] \in TaskHandlers => task[order[t]] # "none"
            /\ kind[t] = "pick" /\ ~toLock[t] =>
                 taskHolder[order[t]] = t /\ base[t] = picked[order[t]]
            /\ kind[t] \in {"assign", "start"} /\ order[t] \notin crossed =>
                 task[order[t]] \notin {"none", "PICKED"}
        BY DEF WorkInv, OpenTask
      <3>4. QED
        BY <2>1, <3>1, <3>2, <3>3
    <2>4. QED
      BY <2>2, <2>3
  <1>6. CreateTaskInv'
    <2> SUFFICES ASSUME NEW t \in Sessions, kind'[t] = "createTask"
                 PROVE  /\ Asked(qty'[t]) # {}
                        /\ \A p \in Products :
                             /\ qty'[t][p] \in {0, quantity[order'[t]][p]}
                             /\ reservation[order'[t]][p] = "ACTIVE" =>
                                  qty'[t][p] = quantity[order'[t]][p]
      BY <1>0 DEF CreateTaskInv, Asked
    <2>1. CASE t = s
      BY <1>3, <2>1 DEF ActiveQuantity
    <2>2. CASE t # s
      BY <1>3, <2>2 DEF CreateTaskInv
    <2>3. QED
      BY <2>1, <2>2
  <1>7. StockLockInv'
    <2>1. \A p \in Products : Reserved(p)' = Reserved(p)
      BY <1>0, QuietTotals
    <2> SUFFICES ASSUME NEW t \in Sessions, NEW p \in Products, qty'[t][p] > 0, p \notin wanted'[t]
                 PROVE  /\ kind'[t] = "pick" => stockHolder[p] = t
                        /\ kind'[t] = "create" /\ p \notin bare[t] =>
                             /\ stockHolder[p] = t
                             /\ Reserved(p) + qty'[t][p] <= InStock(p) + unlocked[p]
      BY <1>0, <2>1 DEF StockLockInv, InStock
    <2>2. CASE t = s
      BY <1>3, <2>2 DEF Asked
    <2>3. CASE t # s
      BY <1>3, <2>3 DEF StockLockInv
    <2>4. QED
      BY <2>2, <2>3
  <1>8. RowInv'
    BY <1>0, <1>3 DEF RowInv, Asked
  <1>9. QED
    BY <1>1, <1>2, <1>4, <1>5, <1>6, <1>7, <1>8

(* Every handler's first read. *)
LEMMA BeginsKeep ==
    ASSUME FulfilmentInv, NEW s \in Sessions,
           \/ BeginCreate(s) \/ BeginCancel(s) \/ BeginCreateTask(s)
           \/ BeginAssign(s) \/ BeginStart(s) \/ BeginPick(s) \/ BeginFirst(s)
    PROVE  FulfilmentInv'
  <1> USE DEF OrderHandlers, TaskHandlers, Handler
  <1>1. /\ \A ps : Payloads(ps) \subseteq [Products -> Nat]
        /\ \A q \in [Products -> Nat] : Asked(q) \in SUBSET Products
        /\ Zero \in [Products -> Nat] /\ {} \in SUBSET Products /\ FALSE \in BOOLEAN
    BY ZeroType, FulfilmentAssumption DEF Payloads, Asked
  <1>2. \A o \in Orders : OpenTask(o) => so[o] # "none"
    BY DEF FulfilmentInv, OrderInv, OpenTask
  <1>3. CASE BeginCreate(s)
    <2>1. PICK q \in Payloads(Products) : Begin(s, "create", NoOrder, q, FALSE, Asked(q))
      BY <1>3 DEF BeginCreate
    <2>2. q \in [Products -> Nat] /\ Asked(q) \in SUBSET Products
      BY <1>1
    <2>3. QED
      BY <2>1, <2>2, BeginKeeps, FulfilmentAssumption
  <1>4. CASE BeginCancel(s)
    <2>1. PICK o \in Orders : so[o] = "CONFIRMED" /\ Begin(s, "cancel", o, Zero, FALSE, {})
      BY <1>4 DEF BeginCancel
    <2>2. QED
      BY <1>1, <2>1, BeginKeeps
  <1>5. CASE BeginCreateTask(s)
    <2>1. PICK o \in Orders :
            /\ so[o] = "CONFIRMED" /\ task[o] = "none"
            /\ Asked([p \in Products |-> ActiveQuantity(o, p)]) # {}
            /\ Begin(s, "createTask", o, [p \in Products |-> ActiveQuantity(o, p)], FALSE, {})
      BY <1>5 DEF BeginCreateTask
    <2>2. PICK q : q = [p \in Products |-> ActiveQuantity(o, p)]
      OBVIOUS
    <2>3. q \in [Products -> Nat] /\ \A p \in Products : q[p] = ActiveQuantity(o, p)
      BY <2>2, LineTypes DEF FulfilmentInv
    <2>4. Asked(q) # {} /\ Begin(s, "createTask", o, q, FALSE, {}) /\ so[o] # "none"
      BY <2>1, <2>2
    <2>5. QED
      BY <1>1, <2>3, <2>4, BeginKeeps
  <1>6. CASE BeginAssign(s)
    <2>1. PICK o \in Orders : OpenTask(o) /\ Begin(s, "assign", o, Zero, FALSE, {})
      BY <1>6 DEF BeginAssign
    <2>2. QED
      BY <1>1, <1>2, <2>1, BeginKeeps
  <1>7. CASE BeginStart(s)
    <2>1. PICK o \in Orders : OpenTask(o) /\ Begin(s, "start", o, Zero, FALSE, {})
      BY <1>7 DEF BeginStart
    <2>2. QED
      BY <1>1, <1>2, <2>1, BeginKeeps
  <1>8. CASE BeginPick(s)
    <2>0. PICK o \in Orders : \E q \in Payloads(Asked(required[o])) :
            OpenTask(o) /\ Begin(s, "pick", o, q, TRUE, Asked(q))
      BY <1>8 DEF BeginPick
    <2>1. PICK q \in Payloads(Asked(required[o])) :
            OpenTask(o) /\ Begin(s, "pick", o, q, TRUE, Asked(q))
      BY <2>0
    <2>2. q \in [Products -> Nat] /\ Asked(q) \in SUBSET Products
      BY <1>1
    <2>3. QED
      BY <1>2, <2>1, <2>2, BeginKeeps
  <1>9. CASE BeginFirst(s)
    <2>1. PICK p \in Products, n \in 1..MaxQty :
            Begin(s, "post", NoOrder, [Zero EXCEPT ![p] = n], FALSE, {})
      BY <1>9 DEF BeginFirst
    <2>2. PICK q : q = [Zero EXCEPT ![p] = n]
      OBVIOUS
    <2>3. q \in [Products -> Nat]
      BY <1>1, <2>2, FulfilmentAssumption
    <2>4. Begin(s, "post", NoOrder, q, FALSE, {})
      BY <2>1, <2>2
    <2>5. QED
      BY <1>1, <2>3, <2>4, BeginKeeps, FulfilmentAssumption
  <1>10. QED
    BY <1>3, <1>4, <1>5, <1>6, <1>7, <1>8, <1>9

(* What the other requests know does not depend on a step that takes locks *)
(* nobody holds and leaves the tables alone.                               *)
LEMMA QuietWork ==
    ASSUME FulfilmentInv,
           UNCHANGED <<stock, so, quantity, reservedQuantity, reservation, task, required, picked,
                       allocations, kind, order, qty, taken, crossed, unlocked>>
    PROVE  /\ PickedWithinOrdered' /\ ReservationsSettled' /\ PromisesCovered'
           /\ TaskFollowsPicks' /\ OrderInv' /\ CreateTaskInv'
           /\ \A p \in Products : Reserved(p)' = Reserved(p) /\ InStock(p)' = InStock(p)
  <1>1. PickedWithinOrdered' /\ ReservationsSettled' /\ PromisesCovered' /\ TaskFollowsPicks'
    BY QuietTables DEF orderTables, taskTables
  <1>2. OrderInv' /\ CreateTaskInv'
    BY DEF FulfilmentInv, OrderInv, CreateTaskInv, Asked
  <1>3. QED
    BY <1>1, <1>2, QuietTotals DEF InStock

(* createSalesOrder has the stock row before it looks at what is available, *)
(* if there is one.                                                        *)
LEMMA CheckLineKeeps ==
    ASSUME FulfilmentInv, NEW s \in Sessions, CheckLine(s)
    PROVE  FulfilmentInv'
  <1> USE DEF FulfilmentInv
  <1>0. PICK p \in Products :
          /\ kind[s] = "create" /\ stockHolder[p] = NoSession /\ stock[p] # Absent
          /\ qty[s][p] <= Available(p, InStock(p))
          /\ stockHolder' = [stockHolder EXCEPT ![p] = s]
          /\ wanted' = [wanted EXCEPT ![s] = @ \ {p}]
          /\ UNCHANGED <<stock, so, quantity, reservedQuantity, reservation, task, required,
                         picked, allocations, taskHolder, kind, order, qty, base, toLock, bare,
                         served, taken, crossed, unlocked>>
    BY DEF CheckLine, orderTables, taskTables, history
  <1>1. TypeOK'
    BY <1>0 DEF TypeOK
  <1>2. /\ PickedWithinOrdered' /\ ReservationsSettled' /\ PromisesCovered'
        /\ TaskFollowsPicks' /\ OrderInv' /\ CreateTaskInv'
        /\ \A r \in Products : Reserved(r)' = Reserved(r) /\ InStock(r)' = InStock(r)
    BY <1>0, QuietWork
  <1>3. WorkInv' /\ RowInv'
    BY <1>0 DEF WorkInv, OpenTask, RowInv, TypeOK
  <1>4. StockLockInv'
    <2> SUFFICES ASSUME NEW t \in Sessions, NEW r \in Products, qty[t][r] > 0, r \notin wanted'[t]
                 PROVE  /\ kind[t] = "pick" => stockHolder'[r] = t
                        /\ kind[t] = "create" /\ r \notin bare[t] =>
                             /\ stockHolder'[r] = t
                             /\ Reserved(r) + qty[t][r] <= InStock(r) + unlocked[r]
      BY <1>0, <1>2 DEF StockLockInv
    <2>1. CASE t = s /\ r = p
      <3>1. stockHolder'[p] = s
        BY <1>0 DEF TypeOK
      <3>2. /\ Reserved(p) \in Nat /\ InStock(p) \in Nat /\ qty[s][p] \in Nat
            /\ unlocked[p] \in Nat
        BY TotalTypes, StockType DEF TypeOK
      <3>3. Reserved(p) + qty[s][p] <= InStock(p) + unlocked[p]
        BY <1>0, <2>1, <3>2 DEF Available
      <3>4. QED
        BY <2>1, <3>1, <3>3
    <2>2. CASE ~(t = s /\ r = p)
      <3>1. r \notin wanted[t]
        BY <1>0, <2>2 DEF TypeOK
      <3>2. stockHolder[r] = t => stockHolder'[r] = t
        BY <1>0, FulfilmentAssumption DEF TypeOK
      <3>3. QED
        BY <3>1, <3>2 DEF StockLockInv
    <2>3. QED
      BY <2>1, <2>2
  <1>5. QED
    BY <1>1, <1>2, <1>3, <1>4

(* A creation that found no row to lock checks the line all the same: what *)
(* it knows of the product is only that its row exists by then.            *)
LEMMA CheckBareKeeps ==
    ASSUME FulfilmentInv, NEW s \in Sessions,
           FindNoRow(s) \/ ReadStock(s) \/ CheckReserved(s)
    PROVE  FulfilmentInv'
  <1> USE DEF FulfilmentInv
  <1>0. /\ kind[s] = "create"
        /\ UNCHANGED <<stock, so, quantity, reservedQuantity, reservation, task, required,
                       picked, allocations, stockHolder, taskHolder, kind, order, qty, toLock,
                       served, taken, crossed, unlocked>>
    BY DEF FindNoRow, ReadStock, CheckReserved, orderTables, taskTables, locks, history
  <1>1. PICK p \in Products :
          \/ bare' = [bare EXCEPT ![s] = @ \union {p}] /\ UNCHANGED <<base, wanted>>
          \/ /\ InStock(p) > 0 /\ base' = [base EXCEPT ![s][p] = InStock(p)]
             /\ UNCHANGED <<bare, wanted>>
          \/ /\ p \in bare[s] /\ base[s][p] > 0 /\ wanted' = [wanted EXCEPT ![s] = @ \ {p}]
             /\ UNCHANGED <<bare, base>>
    BY DEF FindNoRow, ReadStock, CheckReserved, TypeOK
  <1>2. /\ PickedWithinOrdered' /\ ReservationsSettled' /\ PromisesCovered'
        /\ TaskFollowsPicks' /\ OrderInv' /\ CreateTaskInv'
        /\ \A r \in Products : Reserved(r)' = Reserved(r) /\ InStock(r)' = InStock(r)
    BY <1>0, QuietWork
  <1>3. /\ \A t \in Sessions : t # s =>
             base'[t] = base[t] /\ bare'[t] = bare[t] /\ wanted'[t] = wanted[t]
        /\ bare[s] \subseteq bare'[s]
        /\ \A r \in wanted[s] \ wanted'[s] : r \in bare[s] /\ base[s][r] > 0
        /\ \A r \in Products : base'[s][r] # base[s][r] => InStock(r) > 0
        /\ bare' \in [Sessions -> SUBSET Products] /\ wanted' \in [Sessions -> SUBSET Products]
        /\ base' \in [Sessions -> [Products -> Nat]]
    <2>0. InStock(p) \in Nat
      BY StockType
    <2>1. CASE bare' = [bare EXCEPT ![s] = @ \union {p}] /\ UNCHANGED <<base, wanted>>
      BY <2>1 DEF TypeOK
    <2>2. CASE InStock(p) > 0 /\ base' = [base EXCEPT ![s][p] = InStock(p)]
               /\ UNCHANGED <<bare, wanted>>
      BY <2>0, <2>2 DEF TypeOK
    <2>3. CASE p \in bare[s] /\ base[s][p] > 0 /\ wanted' = [wanted EXCEPT ![s] = @ \ {p}]
               /\ UNCHANGED <<bare, base>>
      BY <2>3 DEF TypeOK
    <2>4. QED
      BY <1>1, <2>1, <2>2, <2>3
  <1>4. TypeOK'
    BY <1>0, <1>3 DEF TypeOK
  <1>5. WorkInv'
    BY <1>0, <1>3 DEF WorkInv, OpenTask
  <1>6. StockLockInv'
    <2> SUFFICES ASSUME NEW t \in Sessions, NEW r \in Products, qty[t][r] > 0, r \notin wanted'[t]
                 PROVE  /\ kind[t] = "pick" => stockHolder[r] = t
                        /\ kind[t] = "create" /\ r \notin bare'[t] =>
                             /\ stockHolder[r] = t
                             /\ Reserved(r) + qty[t][r] <= InStock(r) + unlocked[r]
      BY <1>0, <1>2 DEF StockLockInv
    <2>1. CASE r \in wanted[t]
      BY <1>0, <1>3, <2>1
    <2>2. CASE r \notin wanted[t]
      BY <1>3, <2>2 DEF StockLockInv
    <2>3. QED
      BY <2>1, <2>2
  <1>7. RowInv'
    <2> SUFFICES ASSUME NEW r \in Products, stock[r] = Absent
                 PROVE  /\ \A o \in Orders : quantity[o][r] = 0
                        /\ \A t \in Sessions :
                             /\ base'[t][r] = 0
                             /\ kind[t] = "create" /\ qty[t][r] > 0 => r \in wanted'[t]
      BY <1>0 DEF RowInv
    <2>1. InStock(r) = 0
      BY DEF InStock
    <2>2. /\ \A o \in Orders : quantity[o][r] = 0
          /\ \A t \in Sessions :
               base[t][r] = 0 /\ (kind[t] = "create" /\ qty[t][r] > 0 => r \in wanted[t])
      BY DEF RowInv
    <2>3. QED
      BY <1>3, <2>1, <2>2
  <1>8. QED
    BY <1>2, <1>4, <1>5, <1>6, <1>7

(* pickItems locks the task and reads the progress under the lock. *)
LEMMA LockTaskKeeps ==
    ASSUME FulfilmentInv, NEW s \in Sessions, LockTask(s)
    PROVE  FulfilmentInv'
  <1> USE DEF FulfilmentInv
  <1>a. PICK o \in Orders : o = order[s]
    BY DEF LockTask, WorkInv, OrderHandlers
  <1>0. /\ toLock[s] /\ taskHolder[o] = NoSession
        /\ taskHolder' = [taskHolder EXCEPT ![o] = s]
        /\ toLock' = [toLock EXCEPT ![s] = FALSE]
        /\ base' = [base EXCEPT ![s] = picked[o]]
        /\ UNCHANGED <<stock, so, quantity, reservedQuantity, reservation, task, required,
                       picked, allocations, stockHolder, kind, order, qty, wanted, bare, served,
                       taken, crossed, unlocked>>
    BY <1>a DEF LockTask, orderTables, taskTables, history
  <1>1. TypeOK'
    BY <1>0 DEF TypeOK
  <1>2. /\ PickedWithinOrdered' /\ ReservationsSettled' /\ PromisesCovered'
        /\ TaskFollowsPicks' /\ OrderInv' /\ CreateTaskInv'
        /\ \A r \in Products : Reserved(r)' = Reserved(r) /\ InStock(r)' = InStock(r)
    BY <1>0, QuietWork
  <1>3. StockLockInv'
    BY <1>0, <1>2 DEF StockLockInv
  <1>4. /\ ~toLock'[s] /\ base'[s] = picked[o] /\ taskHolder'[o] = s
        /\ \A t \in Sessions : t # s => toLock'[t] = toLock[t] /\ base'[t] = base[t]
        /\ \A t \in Sessions, c \in Orders : taskHolder[c] = t => taskHolder'[c] = t
    BY <1>0, FulfilmentAssumption DEF TypeOK
  <1>5. WorkInv'
    <2> SUFFICES ASSUME NEW t \in Sessions
                 PROVE  /\ kind[t] \in OrderHandlers => order[t] \in Orders
                        /\ toLock'[t] => kind[t] = "pick"
                        /\ kind[t] \in TaskHandlers => task[order[t]] # "none"
                        /\ kind[t] = "pick" /\ ~toLock'[t] =>
                             taskHolder'[order[t]] = t /\ base'[t] = picked[order[t]]
                        /\ kind[t] \in {"assign", "start"} /\ order[t] \notin crossed => OpenTask(order[t])
                        /\ \A u \in Sessions : u # t /\ order[u] = order[t] =>
                             order[t] \in crossed \union {NoOrder}
      BY <1>0 DEF WorkInv, OpenTask
    <2>1. CASE t = s
      BY <1>a, <1>4, <2>1 DEF WorkInv
    <2>2. CASE t # s
      BY <1>4, <2>2 DEF WorkInv, OrderHandlers
    <2>3. QED
      BY <2>1, <2>2
  <1>6. RowInv'
    <2>1. \A p \in Products : stock[p] = Absent => picked[o][p] = 0
      BY <1>a DEF RowInv, PickedWithinOrdered, TypeOK
    <2>2. QED
      BY <1>0, <1>4, <2>1 DEF RowInv
  <1>7. QED
    BY <1>1, <1>2, <1>3, <1>5, <1>6

(* pickItems locks the stock row of each product it picks. *)
LEMMA LockStockKeeps ==
    ASSUME FulfilmentInv, NEW s \in Sessions, LockStock(s)
    PROVE  FulfilmentInv'
  <1> USE DEF FulfilmentInv
  <1>0. PICK p \in Products :
          /\ kind[s] = "pick" /\ stockHolder[p] = NoSession
          /\ stockHolder' = [stockHolder EXCEPT ![p] = s]
          /\ wanted' = [wanted EXCEPT ![s] = @ \ {p}]
          /\ UNCHANGED <<stock, so, quantity, reservedQuantity, reservation, task, required,
                         picked, allocations, taskHolder, kind, order, qty, base, toLock, bare,
                         served, taken, crossed, unlocked>>
    BY DEF LockStock, orderTables, taskTables, history
  <1>1. TypeOK'
    BY <1>0 DEF TypeOK
  <1>2. /\ PickedWithinOrdered' /\ ReservationsSettled' /\ PromisesCovered'
        /\ TaskFollowsPicks' /\ OrderInv' /\ CreateTaskInv'
        /\ \A r \in Products : Reserved(r)' = Reserved(r) /\ InStock(r)' = InStock(r)
    BY <1>0, QuietWork
  <1>3. WorkInv' /\ RowInv'
    BY <1>0 DEF WorkInv, OpenTask, RowInv, TypeOK
  <1>4. StockLockInv'
    <2> SUFFICES ASSUME NEW t \in Sessions, NEW r \in Products, qty[t][r] > 0, r \notin wanted'[t]
                 PROVE  /\ kind[t] = "pick" => stockHolder'[r] = t
                        /\ kind[t] = "create" /\ r \notin bare[t] =>
                             /\ stockHolder'[r] = t
                             /\ Reserved(r) + qty[t][r] <= InStock(r) + unlocked[r]
      BY <1>0, <1>2 DEF StockLockInv
    <2>1. CASE t = s /\ r = p
      BY <1>0, <2>1 DEF TypeOK
    <2>2. CASE ~(t = s /\ r = p)
      <3>1. r \notin wanted[t]
        BY <1>0, <2>2 DEF TypeOK
      <3>2. stockHolder[r] = t => stockHolder'[r] = t
        BY <1>0, FulfilmentAssumption DEF TypeOK
      <3>3. QED
        BY <3>1, <3>2 DEF StockLockInv
    <2>3. QED
      BY <2>1, <2>2
  <1>5. QED
    BY <1>1, <1>2, <1>3, <1>4

(* adjustStockTx waits for the stock row: no request that has checked it   *)
(* sees it change, and what leaves it is not promised to anyone.           *)
LEMMA PostMovementKeeps ==
    ASSUME FulfilmentInv, PostMovement
    PROVE  FulfilmentInv'
  <1> USE DEF FulfilmentInv
  <1>0. PICK p \in Products, q \in -MaxQty..MaxQty :
          /\ served' = served + 1 /\ stock[p] # Absent /\ stockHolder[p] = NoSession
          /\ stock[p] + q >= 0
          /\ stock' = [stock EXCEPT ![p] = @ + q]
          /\ taken' = [taken EXCEPT ![p] = IF q < 0 THEN @ - q ELSE @]
          /\ UNCHANGED <<so, quantity, reservedQuantity, reservation, task, required, picked,
                         allocations, stockHolder, taskHolder, kind, order, qty, base, toLock,
                         wanted, bare, crossed, unlocked>>
    BY DEF PostMovement, orderTables, taskTables, locks, request
  <1>1. q \in Int /\ stock[p] \in Nat /\ taken[p] \in Nat /\ InStock(p) = stock[p]
    BY <1>0, StockType, FulfilmentAssumption
  <1>2. /\ stock'[p] = stock[p] + q /\ taken'[p] = IF q < 0 THEN taken[p] - q ELSE taken[p]
        /\ \A r \in Products \ {p} : stock'[r] = stock[r] /\ taken'[r] = taken[r]
    BY <1>0 DEF TypeOK
  <1>3. stock[p] + q \in Nat /\ (IF q < 0 THEN taken[p] - q ELSE taken[p]) \in Nat
    BY <1>0, <1>1
  <1>4. stock'[p] # Absent /\ InStock(p)' = stock[p] + q
    BY <1>2, <1>3, FulfilmentAssumption DEF InStock
  <1>5. TypeOK'
    <2>1. stock' \in [Products -> Nat \union {Absent}] /\ taken' \in [Products -> Nat]
      BY <1>0, <1>3 DEF TypeOK
    <2>2. QED
      BY <1>0, <2>1 DEF TypeOK
  <1>6. \A r \in Products : Reserved(r)' = Reserved(r) /\ PromisedOf(r)' = PromisedOf(r)
    BY <1>0, QuietTotals
  <1>7. PromisesCovered'
    <2> SUFFICES ASSUME NEW r \in Products
                 PROVE  PromisedOf(r) <= InStock(r)' + taken'[r] + unlocked[r]
      BY <1>0, <1>6 DEF PromisesCovered
    <2>1. /\ PromisedOf(r) <= InStock(r) + taken[r] + unlocked[r]
          /\ PromisedOf(r) \in Int /\ unlocked[r] \in Nat
      BY TotalTypes, StockType DEF PromisesCovered
    <2>2. InStock(r) \in Nat /\ taken[r] \in Nat
      BY StockType
    <2>3. CASE r = p
      BY <1>1, <1>2, <1>4, <2>1, <2>3
    <2>4. CASE r # p
      BY <1>2, <2>1, <2>4 DEF InStock
    <2>5. QED
      BY <2>3, <2>4
  <1>8. PickedWithinOrdered' /\ ReservationsSettled' /\ TaskFollowsPicks' /\ OrderInv'
        /\ CreateTaskInv' /\ WorkInv'
    BY <1>0 DEF PickedWithinOrdered, ReservationsSettled, TaskFollowsPicks, OrderInv,
                CreateTaskInv, Asked, WorkInv, OpenTask
  <1>9. StockLockInv'
    <2> SUFFICES ASSUME NEW t \in Sessions, NEW r \in Products, qty[t][r] > 0, r \notin wanted[t]
                 PROVE  /\ kind[t] = "pick" => stockHolder[r] = t
                        /\ kind[t] = "create" /\ r \notin bare[t] =>
                             /\ stockHolder[r] = t
                             /\ Reserved(r) + qty[t][r] <= InStock(r)' + unlocked[r]
      BY <1>0, <1>6 DEF StockLockInv
    <2>1. stockHolder[r] = t => InStock(r)' = InStock(r)
      BY <1>0, <1>2, FulfilmentAssumption DEF InStock
    <2>2. QED
      BY <2>1 DEF StockLockInv
  <1>10. RowInv'
    BY <1>0, <1>2, <1>4 DEF RowInv
  <1>11. QED
    BY <1>5, <1>7, <1>8, <1>9, <1>10

(* The upsert of a first movement waits for the row if there is one by     *)
(* then, and what it overwrites counts as taken.                           *)
LEMMA WriteFirstKeeps ==
    ASSUME FulfilmentInv, NEW s \in Sessions, WriteFirst(s)
    PROVE  FulfilmentInv'
  <1> USE DEF FulfilmentInv
  <1>0. PICK p \in Products :
          /\ qty[s][p] > 0 /\ stockHolder[p] = NoSession
          /\ stock' = [stock EXCEPT ![p] = qty[s][p]]
          /\ taken' = [taken EXCEPT ![p] = IF InStock(p) > qty[s][p] THEN @ + InStock(p) - qty[s][p]
                                           ELSE @]
          /\ End(s)
          /\ UNCHANGED <<so, quantity, reservedQuantity, reservation, task, required, picked,
                         allocations, unlocked>>
    BY DEF WriteFirst, Asked, orderTables, taskTables
  <1>1. qty[s][p] \in Nat /\ taken[p] \in Nat /\ InStock(p) \in Nat
    BY StockType DEF TypeOK
  <1>2. /\ stock'[p] = qty[s][p]
        /\ taken'[p] = IF InStock(p) > qty[s][p] THEN taken[p] + InStock(p) - qty[s][p] ELSE taken[p]
        /\ \A r \in Products \ {p} : stock'[r] = stock[r] /\ taken'[r] = taken[r]
    BY <1>0 DEF TypeOK
  <1>3. stock'[p] # Absent /\ InStock(p)' = qty[s][p]
    BY <1>1, <1>2, FulfilmentAssumption DEF InStock
  <1>4. TypeOK'
    <2>1. (IF InStock(p) > qty[s][p] THEN taken[p] + InStock(p) - qty[s][p] ELSE taken[p]) \in Nat
      BY <1>1
    <2>2. stock' \in [Products -> Nat \union {Absent}] /\ taken' \in [Products -> Nat]
      BY <1>0, <1>1, <2>1 DEF TypeOK
    <2>3. QED
      BY <1>0, <2>2, EndData DEF TypeOK
  <1>5. \A r \in Products :
          /\ Reserved(r)' = Reserved(r) /\ Reserved(r) \in Nat
          /\ PromisedOf(r)' = PromisedOf(r)
    BY <1>0, QuietTotals, TotalTypes
  <1>6. PromisesCovered'
    <2> SUFFICES ASSUME NEW r \in Products
                 PROVE  PromisedOf(r) <= InStock(r)' + taken'[r] + unlocked[r]
      BY <1>0, <1>5 DEF PromisesCovered
    <2>1. /\ PromisedOf(r) <= InStock(r) + taken[r] + unlocked[r]
          /\ PromisedOf(r) \in Int /\ unlocked[r] \in Nat
      BY TotalTypes, StockType DEF PromisesCovered
    <2>2. CASE r = p
      BY <1>1, <1>2, <1>3, <2>1, <2>2
    <2>3. CASE r # p
      BY <1>2, <2>1, <2>3 DEF InStock
    <2>4. QED
      BY <2>2, <2>3
  <1>7. PickedWithinOrdered' /\ ReservationsSettled' /\ TaskFollowsPicks'
    BY <1>0, EndData DEF PickedWithinOrdered, ReservationsSettled, TaskFollowsPicks
  <1>8. OrderInv'
    <2>1. \A t \in Sessions : order'[t] \in {order[t], NoOrder}
      BY <1>0, EndData
    <2>2. QED
      BY <1>0, <2>1, FulfilmentAssumption DEF OrderInv
  <1>9. WorkInv' /\ CreateTaskInv' /\ StockLockInv'
    <2>1. \A t \in Sessions, r \in Products : t # s /\ stockHolder[r] = t => stock'[r] = stock[r]
      BY <1>0, <1>2, FulfilmentAssumption
    <2>2. QED
      BY <1>0, <1>4, <1>5, <2>1, OthersKeep
  <1>10. RowInv'
    BY <1>0, <1>2, <1>3, RowsKeep DEF RowInv
  <1>11. QED
    BY <1>4, <1>6, <1>7, <1>8, <1>9, <1>10

(* A step that changes nothing keeps it. *)
LEMMA StutterKeeps ==
    ASSUME FulfilmentInv, UNCHANGED vars
    PROVE  FulfilmentInv'
  <1> USE DEF FulfilmentInv, vars, orderTables, taskTables, locks, request, history
  <1>1. TypeOK'
    BY DEF TypeOK
  <1>2. /\ PickedWithinOrdered' /\ ReservationsSettled' /\ PromisesCovered'
        /\ TaskFollowsPicks' /\ OrderInv' /\ CreateTaskInv'
        /\ \A r \in Products : Reserved(r)' = Reserved(r) /\ InStock(r)' = InStock(r)
    BY QuietWork
  <1>3. WorkInv' /\ StockLockInv' /\ RowInv'
    BY <1>2 DEF WorkInv, OpenTask, StockLockInv, RowInv
  <1>4. QED
    BY <1>1, <1>2, <1>3

(* Before the first request nothing is reserved or promised. *)
LEMMA InitKeeps == ASSUME Init PROVE FulfilmentInv
  <1> USE DEF Init
  <1>1. TypeOK
    BY ZeroType, FulfilmentAssumption DEF TypeOK, SalesOrderStatus, ReservationStatus, PickingStatus
  <1>2. PickedWithinOrdered /\ ReservationsSettled /\ TaskFollowsPicks
    BY ZeroType DEF PickedWithinOrdered, ReservationsSettled, TaskFollowsPicks
  <1>3. PromisesCovered
    <2> SUFFICES ASSUME NEW p \in Products
                 PROVE  PromisedOf(p) <= InStock(p) + taken[p] + unlocked[p]
      BY DEF PromisesCovered
    <2> DEFINE f == [o \in Orders |-> Promised(o, p)]
    <2>1. \A o \in Orders : f[o] = 0
      BY DEF Promised
    <2>2. PromisedOf(p) = SumFunctionOnSet(f, Orders)
      BY DEF PromisedOf
    <2> HIDE DEF f
    <2>3. PromisedOf(p) = 0
      BY <2>1, <2>2, SumAllZero, FulfilmentAssumption
    <2>4. QED
      BY <1>1, <2>3, StockType
  <1>4. OrderInv
    BY ZeroType, FulfilmentAssumption DEF OrderInv
  <1>5. WorkInv /\ CreateTaskInv /\ StockLockInv /\ RowInv
    BY ZeroType DEF RowInv, WorkInv, CreateTaskInv, StockLockInv, OrderHandlers, TaskHandlers
  <1>6. QED
    BY <1>1, <1>2, <1>3, <1>4, <1>5 DEF FulfilmentInv

(* Every step of every request, and every movement. *)
LEMMA NextKeeps == ASSUME FulfilmentInv, Next PROVE FulfilmentInv'
  <1>1. ASSUME NEW s \in Sessions, AssignPicker(s) \/ StartPicking(s)
        PROVE  FulfilmentInv'
    BY <1>1, SetTaskStatusKeeps DEF AssignPicker, StartPicking
  <1>2. QED
    BY <1>1, BeginsKeep, CheckLineKeeps, CheckBareKeeps, LockTaskKeeps, LockStockKeeps,
       CreateOrderKeeps, WriteFirstKeeps, CancelOrderKeeps, CreateTaskKeeps, PickItemsKeeps, RollbackKeeps, PostMovementKeeps,
       StutterKeeps DEF Next, Quiescent

-----------------------------------------------------------------------------
(* Theorems *)

(* The inductive invariant holds throughout every behaviour. *)
THEOREM FulfilmentInvariant == Spec => []FulfilmentInv
  <1>1. ASSUME FulfilmentInv, [Next]_vars PROVE FulfilmentInv'
    BY <1>1, NextKeeps, StutterKeeps
  <1>2. QED
    BY InitKeeps, <1>1, PTL DEF Spec

(* Every variable keeps the shape of its columns: no stock, reserved or    *)
(* picked quantity is ever negative.                                       *)
THEOREM FulfilmentTypeCorrect == Spec => []TypeOK
  <1>1. FulfilmentInv => TypeOK
    BY DEF FulfilmentInv
  <1>2. QED
    BY FulfilmentInvariant, <1>1, PTL

(* The task lock of pickItems: no number of pickers takes more than the    *)
(* task asks for, nor the task more than was ordered.                      *)
THEOREM NeverOverPicked == Spec => []PickedWithinOrdered
  <1>1. FulfilmentInv => PickedWithinOrdered
    BY DEF FulfilmentInv
  <1>2. QED
    BY FulfilmentInvariant, <1>1, PTL

(* Cancelling, creating the task and picking in any order leave every      *)
(* reservation consumed by its picks, released by its cancellation, or     *)
(* ACTIVE for a confirmed order with units still to pick.                  *)
THEOREM EveryReservationSettled == Spec => []ReservationsSettled
  <1>1. FulfilmentInv => ReservationsSettled
    BY DEF FulfilmentInv
  <1>2. QED
    BY FulfilmentInvariant, <1>1, PTL

(* The stock locks of createSalesOrder: what is promised of a product is   *)
(* in stock, but for the units that left it otherwise than by picking what *)
(* was reserved and for units promised by creations that found no row to   *)
(* lock.                                                                   *)
THEOREM NoUnitSoldTwice == Spec => []PromisesCovered
  <1>1. FulfilmentInv => PromisesCovered
    BY DEF FulfilmentInv
  <1>2. QED
    BY FulfilmentInvariant, <1>1, PTL

(* The status pickItems derives from the totals is right item by item, but *)
(* for orders that two requests worked on at once.                         *)
THEOREM TaskStatusSound == Spec => []TaskFollowsPicks
  <1>1. FulfilmentInv => TaskFollowsPicks
    BY DEF FulfilmentInv
  <1>2. QED
    BY FulfilmentInvariant, <1>1, PTL
=============================================================================
