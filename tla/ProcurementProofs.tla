------------------------- MODULE ProcurementProofs -------------------------
(* Theorems about Procurement for every number of sessions and products,   *)
(* and receipts of any length.                                             *)
EXTENDS Procurement, SumTheorems, SequenceTheorems

-----------------------------------------------------------------------------
(* The inductive invariant *)

(* Before the order is created nothing is received and nobody works on it. *)
CreationInv ==
    status = "none" => received = Zero /\ receipts = Zero /\ \A s \in Sessions : kind[s] = "none"

(* What receiveGoods has read inside its transaction: as long as the items *)
(* are not replaced, what is ordered is what it read, and every line of    *)
(* the receipt fits into what it read.                                     *)
ReadInv ==
    \A s \in Sessions :
        fresh[s] =>
            /\ kind[s] = "receive"
            /\ po[s].edition <= edition
            /\ po[s].edition = edition => po[s].ordered = ordered
            /\ \A i \in DOMAIN lines[s] : LineFits(lines[s][i], po[s].ordered, po[s].received)

(* What a request has checked is still so. *)
StillValid(s) ==
    /\ kind[s] = "update" => status \in Updatable
    /\ kind[s] \in {"approve", "reject"} => status = "PENDING"
    /\ kind[s] = "cancel" => status \in Cancellable
    /\ kind[s] = "receive" => status \in Receivable
    /\ fresh[s] => po[s] = Order

(* Unless another request has committed since it read. *)
FreshInv == \A s \in Sessions : ~outdated[s] => StillValid(s)

(* The inductive strengthening: the properties, and what each request has  *)
(* read.                                                                   *)
ProcurementInv ==
    /\ TypeOK /\ ReceiptsAddUp
    /\ CreationInv /\ ReadInv /\ FreshInv

-----------------------------------------------------------------------------
(* The lines of a receipt *)

ReceiptLine == [product: Products, quantity: Nat \ {0}]
Lines == Seq(ReceiptLine)

(* Every line names a product and a positive quantity. *)
LEMMA LineIn ==
    ASSUME NEW ls \in Lines, NEW i \in DOMAIN ls
    PROVE  ls[i].product \in Products /\ ls[i].quantity \in Nat \ {0}
  <1>1. i \in 1..Len(ls)
    BY LenProperties DEF Lines
  <1>2. ls[i] \in ReceiptLine
    BY <1>1, ElementOfSeq DEF Lines
  <1>3. QED
    BY <1>2 DEF ReceiptLine

(* The last line about a product is one of the lines, and 0 only if there  *)
(* is none; then the lines about it add up to nothing.                     *)
LEMMA LastLineIn ==
    ASSUME NEW ls \in Lines, NEW p \in Products
    PROVE  /\ LastLine(ls, p) \in Nat
           /\ LastLine(ls, p) > 0 =>
                \E i \in DOMAIN ls : ls[i].product = p /\ ls[i].quantity = LastLine(ls, p)
           /\ LastLine(ls, p) = 0 => LineSum(ls, p) = 0
  <1> DEFINE at == {i \in DOMAIN ls : ls[i].product = p}
             f == [i \in DOMAIN ls |-> IF ls[i].product = p THEN ls[i].quantity ELSE 0]
  <1>1. DOMAIN ls = 1..Len(ls) /\ Len(ls) \in Nat
    BY LenProperties DEF Lines
  <1>2. IsFiniteSet(DOMAIN ls)
    BY <1>1, FS_Interval
  <1>3. \A i \in DOMAIN ls : ls[i].product \in Products /\ ls[i].quantity \in Nat \ {0}
    BY LineIn
  <1>4. LastLine(ls, p) = IF at = {} THEN 0 ELSE ls[Max(at)].quantity
    BY DEF LastLine
  <1>5. CASE at = {}
    <2>1. \A i \in DOMAIN f : f[i] = 0
      BY <1>5
    <2>2. DOMAIN f = DOMAIN ls /\ LineSum(ls, p) = SumFunctionOnSet(f, DOMAIN f)
      BY DEF LineSum, SumFunction
    <2> HIDE DEF f
    <2>3. LineSum(ls, p) = 0
      BY <1>2, <2>1, <2>2, SumAllZero
    <2>4. QED
      BY <1>4, <1>5, <2>3
  <1>6. CASE at # {}
    <2>1. IsFiniteSet(at) /\ at \subseteq Int
      BY <1>1, <1>2, FS_Subset
    <2> HIDE DEF at
    <2>2. Max(at) \in at
      BY <1>6, <2>1, MaxIn
    <2>3. Max(at) \in DOMAIN ls /\ ls[Max(at)].product = p
      BY <2>2 DEF at
    <2>4. QED
      BY <1>3, <1>4, <1>6, <2>3
  <1>7. QED
    BY <1>5, <1>6

(* What the lines about a product add up to. *)
LEMMA LineSumType ==
    ASSUME NEW ls \in Lines, NEW p \in Products
    PROVE  LineSum(ls, p) \in Nat
  <1> DEFINE f == [i \in DOMAIN ls |-> IF ls[i].product = p THEN ls[i].quantity ELSE 0]
  <1>1. DOMAIN ls = 1..Len(ls) /\ Len(ls) \in Nat
    BY LenProperties DEF Lines
  <1>2. IsFiniteSet(DOMAIN ls)
    BY <1>1, FS_Interval
  <1>3. \A i \in DOMAIN ls : f[i] \in Nat
    BY LineIn
  <1>4. DOMAIN f = DOMAIN ls /\ LineSum(ls, p) = SumFunctionOnSet(f, DOMAIN f)
    BY DEF LineSum, SumFunction
  <1> HIDE DEF f
  <1>5. QED
    BY <1>2, <1>3, <1>4, SumNat

(* Nothing of every product. *)
LEMMA ZeroType ==
    /\ Zero \in [Products -> Nat] /\ \A p \in Products : Zero[p] = 0
    /\ \A q \in [Products -> Nat] : (\A p \in Products : q[p] = 0) => q = Zero
  BY DEF Zero

-----------------------------------------------------------------------------
(* The steps keep the inductive invariant *)

(* A request that is accepted has read an order that exists. *)
LEMMA BeginKeeps ==
    ASSUME ProcurementInv, NEW s \in Sessions, NEW handler \in Kind, NEW allowed,
           NEW items \in [Products -> Nat], NEW ls \in Lines,
           Begin(s, handler, allowed, items, ls),
           "none" \notin allowed,
           handler = "update" => allowed = Updatable,
           handler \in {"approve", "reject"} => allowed = {"PENDING"},
           handler = "cancel" => allowed = Cancellable,
           handler = "receive" => allowed = Receivable
    PROVE  ProcurementInv'
  <1> USE DEF ProcurementInv
  <1>0. /\ kind[s] = "none" /\ status \in allowed /\ served' = served + 1
        /\ kind' = [kind EXCEPT ![s] = handler]
        /\ payload' = [payload EXCEPT ![s] = items]
        /\ lines' = [lines EXCEPT ![s] = ls]
        /\ UNCHANGED <<status, ordered, received, edition, receipts, fresh, po, outdated, stale,
                       twice>>
    BY DEF Begin, tables, history
  <1>1. TypeOK'
    <2>1. lines \in [Sessions -> Lines]
      BY DEF TypeOK, Lines, ReceiptLine
    <2>2. lines' \in [Sessions -> Lines]
      BY <1>0, <2>1
    <2>3. /\ kind' \in [Sessions -> Kind] /\ payload' \in [Sessions -> [Products -> Nat]]
          /\ served' \in Nat
      BY <1>0 DEF TypeOK
    <2>4. QED
      BY <1>0, <2>2, <2>3 DEF TypeOK, Lines, ReceiptLine
  <1>2. ReceiptsAddUp'
    BY <1>0 DEF ReceiptsAddUp, ReceivedWithinOrdered, ReceivedMatchesReceipts,
                StatusFollowsReceipts, Complete, Started
  <1>3. CreationInv'
    BY <1>0 DEF CreationInv
  <1>4. ~fresh[s]
    BY <1>0 DEF ReadInv
  <1>5. /\ kind'[s] = handler
        /\ \A t \in Sessions : t # s => kind'[t] = kind[t] /\ lines'[t] = lines[t]
    BY <1>0 DEF TypeOK
  <1>6. ReadInv'
    BY <1>0, <1>4, <1>5 DEF ReadInv
  <1>7. FreshInv'
    <2> SUFFICES ASSUME NEW t \in Sessions, ~outdated[t] PROVE StillValid(t)'
      BY <1>0 DEF FreshInv
    <2>1. CASE t = s
      BY <1>0, <1>4, <1>5, <2>1 DEF StillValid
    <2>2. CASE t # s
      <3>1. StillValid(t)
        BY DEF FreshInv
      <3>2. QED
        BY <1>0, <1>5, <2>2, <3>1 DEF StillValid, Order
    <2>3. QED
      BY <2>1, <2>2
  <1>8. QED
    BY <1>1, <1>2, <1>3, <1>6, <1>7

(* Every handler's first read. *)
LEMMA BeginsKeep ==
    ASSUME ProcurementInv, NEW s \in Sessions,
           \/ BeginUpdate(s) \/ BeginApprove(s) \/ BeginReject(s) \/ BeginCancel(s)
           \/ BeginReceive(s)
    PROVE  ProcurementInv'
  <1> USE DEF Kind, Updatable, Cancellable, Receivable
  <1>1. <<>> \in Lines /\ Zero \in [Products -> Nat]
    BY ZeroType, EmptySeq DEF Lines
  <1>2. CASE BeginUpdate(s)
    <2>1. PICK items \in Items : Begin(s, "update", Updatable, items, <<>>)
      BY <1>2 DEF BeginUpdate
    <2>2. items \in [Products -> Nat]
      BY ProcurementAssumption DEF Items
    <2>3. QED
      BY <1>1, <2>1, <2>2, BeginKeeps
  <1>3. CASE BeginApprove(s)
    BY <1>1, <1>3, BeginKeeps DEF BeginApprove
  <1>4. CASE BeginReject(s)
    BY <1>1, <1>4, BeginKeeps DEF BeginReject
  <1>5. CASE BeginCancel(s)
    BY <1>1, <1>5, BeginKeeps DEF BeginCancel
  <1>6. CASE BeginReceive(s)
    <2>1. PICK ls \in Receipts : Begin(s, "receive", Receivable, Zero, ls)
      BY <1>6 DEF BeginReceive
    <2>2. PICK n \in 1..MaxLines : ls \in [1..n -> [product: Products, quantity: LineQuantity]]
      BY DEF Receipts
    <2>3. n \in Nat /\ ls \in [1..n -> ReceiptLine]
      BY <2>2, ProcurementAssumption DEF LineQuantity, ReceiptLine
    <2>4. ls \in Lines
      BY <2>3, SeqDef DEF Lines
    <2>5. QED
      BY <1>1, <2>1, <2>4, BeginKeeps
  <1>7. QED
    BY <1>2, <1>3, <1>4, <1>5, <1>6

(* receiveGoods reads the order again inside its transaction. *)
LEMMA ReadOrderKeeps ==
    ASSUME ProcurementInv, NEW s \in Sessions, ReadOrder(s)
    PROVE  ProcurementInv'
  <1> USE DEF ProcurementInv
  <1>0. /\ kind[s] = "receive" /\ status \in Receivable
        /\ \A i \in DOMAIN lines[s] : LineFits(lines[s][i], ordered, received)
        /\ fresh' = [fresh EXCEPT ![s] = TRUE]
        /\ po' = [po EXCEPT ![s] = Order]
        /\ outdated' = [outdated EXCEPT ![s] = FALSE]
        /\ UNCHANGED <<status, ordered, received, edition, receipts, kind, payload, lines, served,
                       stale, twice>>
    BY DEF ReadOrder, tables
  <1>1. /\ Order \in [ordered: [Products -> Nat], received: [Products -> Nat], edition: Nat]
        /\ Order.ordered = ordered /\ Order.received = received /\ Order.edition = edition
    BY DEF TypeOK, Order
  <1>2. TypeOK'
    BY <1>0, <1>1 DEF TypeOK
  <1>3. ReceiptsAddUp' /\ CreationInv'
    BY <1>0 DEF ReceiptsAddUp, ReceivedWithinOrdered, ReceivedMatchesReceipts,
                StatusFollowsReceipts, Complete, Started, CreationInv
  <1>4. /\ fresh'[s] /\ po'[s] = Order
        /\ \A t \in Sessions : t # s =>
             fresh'[t] = fresh[t] /\ po'[t] = po[t] /\ outdated'[t] = outdated[t]
    BY <1>0 DEF TypeOK
  <1>5. ReadInv'
    <2> SUFFICES ASSUME NEW t \in Sessions, fresh'[t]
                 PROVE  /\ kind[t] = "receive"
                        /\ po'[t].edition <= edition
                        /\ po'[t].edition = edition => po'[t].ordered = ordered
                        /\ \A i \in DOMAIN lines[t] :
                             LineFits(lines[t][i], po'[t].ordered, po'[t].received)
      BY <1>0 DEF ReadInv, LineFits
    <2>1. CASE t = s
      BY <1>0, <1>1, <1>4, <2>1 DEF TypeOK
    <2>2. CASE t # s
      BY <1>4, <2>2 DEF ReadInv
    <2>3. QED
      BY <2>1, <2>2
  <1>6. FreshInv'
    <2> SUFFICES ASSUME NEW t \in Sessions, ~outdated'[t] PROVE StillValid(t)'
      BY DEF FreshInv
    <2>1. Order' = Order
      BY <1>0 DEF Order
    <2>2. CASE t = s
      BY <1>0, <1>4, <2>1, <2>2 DEF StillValid
    <2>3. CASE t # s
      <3>1. StillValid(t)
        BY <1>4, <2>3 DEF FreshInv
      <3>2. QED
        BY <1>0, <1>4, <2>1, <2>3, <3>1 DEF StillValid
    <2>4. QED
      BY <2>2, <2>3
  <1>7. QED
    BY <1>2, <1>3, <1>5, <1>6

-----------------------------------------------------------------------------
(* The end of a request *)

(* The working data of the request are gone, those of the others stay. *)
LEMMA EndData ==
    ASSUME TypeOK, NEW s \in Sessions, End(s)
    PROVE  /\ kind' \in [Sessions -> Kind]
           /\ payload' \in [Sessions -> [Products -> Nat]]
           /\ lines' \in [Sessions -> Lines]
           /\ fresh' \in [Sessions -> BOOLEAN]
           /\ po' \in [Sessions -> [ordered: [Products -> Nat], received: [Products -> Nat],
                                    edition: Nat]]
           /\ served' = served
           /\ kind'[s] = "none" /\ ~fresh'[s]
           /\ \A t \in Sessions : t # s =>
                /\ kind'[t] = kind[t] /\ payload'[t] = payload[t] /\ lines'[t] = lines[t]
                /\ fresh'[t] = fresh[t] /\ po'[t] = po[t]
  <1>1. <<>> \in Lines /\ Zero \in [Products -> Nat] /\ "none" \in Kind
        /\ Unread \in [ordered: [Products -> Nat], received: [Products -> Nat], edition: Nat]
    BY ZeroType, EmptySeq DEF Lines, Kind, Unread
  <1>2. QED
    BY <1>1 DEF End, TypeOK, Lines, ReceiptLine

(* After a commit only requests that have not begun count as up to date. *)
LEMMA CommitFresh ==
    ASSUME TypeOK, ReadInv, NEW s \in Sessions, Commit(s)
    PROVE  /\ FreshInv'
           /\ outdated' \in [Sessions -> BOOLEAN] /\ stale' \in BOOLEAN
           /\ ~stale' => ~stale /\ ~outdated[s]
  <1>0. End(s) /\ outdated' = [u \in Sessions |-> u # s /\ kind[u] # "none"]
        /\ stale' = (stale \/ outdated[s])
    BY DEF Commit
  <1>1. ASSUME NEW t \in Sessions, ~outdated'[t] PROVE StillValid(t)'
    <2>1. kind'[t] = "none" /\ ~fresh'[t]
      <3>1. CASE t = s
        BY <1>0, <3>1, EndData
      <3>2. CASE t # s
        BY <1>0, <1>1, <3>2, EndData DEF ReadInv
      <3>3. QED
        BY <3>1, <3>2
    <2>2. QED
      BY <2>1 DEF StillValid
  <1>2. outdated' \in [Sessions -> BOOLEAN]
    BY <1>0
  <1>3. stale' \in BOOLEAN /\ (~stale' => ~stale /\ ~outdated[s])
    BY <1>0 DEF TypeOK
  <1>4. QED
    BY <1>1, <1>2, <1>3 DEF FreshInv

(* What the other requests have read survives the end of a request that    *)
(* changes the items only together with their edition.                     *)
LEMMA OthersRead ==
    ASSUME ProcurementInv, NEW s \in Sessions, End(s), edition' \in Nat, edition <= edition',
           edition' = edition => ordered' = ordered
    PROVE  ReadInv'
  <1> USE DEF ProcurementInv
  <1> SUFFICES ASSUME NEW t \in Sessions, fresh'[t]
               PROVE  /\ kind'[t] = "receive"
                      /\ po'[t].edition <= edition'
                      /\ po'[t].edition = edition' => po'[t].ordered = ordered'
                      /\ \A i \in DOMAIN lines'[t] :
                           LineFits(lines'[t][i], po'[t].ordered, po'[t].received)
    BY DEF ReadInv, LineFits
  <1>1. t # s
    BY EndData
  <1>2. kind'[t] = kind[t] /\ fresh[t] /\ po'[t] = po[t] /\ lines'[t] = lines[t]
    BY <1>1, EndData
  <1>3. po[t].edition \in Nat /\ edition \in Nat
    BY DEF TypeOK
  <1>4. /\ kind[t] = "receive" /\ po[t].edition <= edition
        /\ po[t].edition = edition => po[t].ordered = ordered
        /\ \A i \in DOMAIN lines[t] : LineFits(lines[t][i], po[t].ordered, po[t].received)
    BY <1>2 DEF ReadInv
  <1>5. po[t].edition = edition' => edition' = edition
    BY <1>3, <1>4
  <1>6. po[t].edition <= edition'
    BY <1>3, <1>4
  <1>7. QED
    BY <1>2, <1>4, <1>5, <1>6

-----------------------------------------------------------------------------
(* The writes *)

(* createPurchaseOrder: nothing is received of a new order, and nobody     *)
(* works on it yet.                                                        *)
LEMMA CreateOrderKeeps ==
    ASSUME ProcurementInv, CreateOrder
    PROVE  ProcurementInv'
  <1> USE DEF ProcurementInv
  <1>0. /\ status = "none" /\ status' = "PENDING" /\ ordered' \in Items /\ served' = served + 1
        /\ UNCHANGED <<received, edition, receipts, kind, payload, lines, fresh, po, outdated,
                       stale, twice>>
    BY DEF CreateOrder, request, history
  <1>1. ordered' \in [Products -> Nat]
    BY <1>0, ProcurementAssumption DEF Items
  <1>2. /\ \A p \in Products : received[p] = 0 /\ receipts[p] = 0
        /\ \A s \in Sessions : kind[s] = "none" /\ ~fresh[s]
    BY <1>0, ZeroType DEF CreationInv, ReadInv
  <1>3. TypeOK'
    <2>1. status' \in PurchaseOrderStatus /\ served' \in Nat
      BY <1>0 DEF TypeOK, PurchaseOrderStatus
    <2>2. QED
      BY <1>0, <1>1, <2>1 DEF TypeOK
  <1>4. ReceiptsAddUp'
    BY <1>0, <1>1, <1>2 DEF ReceiptsAddUp, ReceivedWithinOrdered, ReceivedMatchesReceipts,
                            StatusFollowsReceipts, Complete, Started
  <1>5. CreationInv' /\ ReadInv' /\ FreshInv'
    BY <1>0, <1>2 DEF CreationInv, ReadInv, FreshInv, StillValid
  <1>6. QED
    BY <1>3, <1>4, <1>5

(* updatePurchaseOrder: the new items are those of an order that nothing   *)
(* was received of, unless the read was outdated.                          *)
LEMMA UpdateOrderKeeps ==
    ASSUME ProcurementInv, NEW s \in Sessions, UpdateOrder(s)
    PROVE  ProcurementInv'
  <1> USE DEF ProcurementInv
  <1>0. /\ kind[s] = "update" /\ ordered' = payload[s] /\ received' = Zero
        /\ edition' = edition + 1 /\ Commit(s) /\ End(s)
        /\ UNCHANGED <<status, receipts, twice>>
    BY DEF UpdateOrder, Commit
  <1>1. edition \in Nat /\ edition' \in Nat /\ edition <= edition' /\ edition' # edition
    BY <1>0 DEF TypeOK
  <1>2. TypeOK'
    <2>1. ordered' \in [Products -> Nat] /\ received' \in [Products -> Nat]
      BY <1>0, ZeroType DEF TypeOK
    <2>2. QED
      BY <1>0, <1>1, <2>1, EndData, CommitFresh DEF TypeOK, Lines, ReceiptLine
  <1>3. \A p \in Products : received'[p] = 0
    BY <1>0, ZeroType
  <1>4. ~stale' => ~stale /\ status = "PENDING" /\ \A p \in Products : received[p] = 0
    <2> SUFFICES ASSUME ~stale'
                 PROVE  ~stale /\ status = "PENDING" /\ \A p \in Products : received[p] = 0
      OBVIOUS
    <2>1. ~stale /\ ~outdated[s]
      BY <1>0, CommitFresh
    <2>2. status = "PENDING"
      BY <1>0, <2>1 DEF FreshInv, StillValid, Updatable
    <2>3. ~Started
      BY <2>1, <2>2 DEF ReceiptsAddUp, StatusFollowsReceipts
    <2>4. QED
      BY <2>1, <2>2, <2>3 DEF Started, TypeOK
  <1>5. ReceiptsAddUp'
    <2>1. ReceivedWithinOrdered'
      BY <1>2, <1>3 DEF ReceivedWithinOrdered, TypeOK
    <2>2. ReceivedMatchesReceipts'
      BY <1>0, <1>3, <1>4 DEF ReceiptsAddUp, ReceivedMatchesReceipts
    <2>3. StatusFollowsReceipts'
      BY <1>0, <1>3, <1>4 DEF StatusFollowsReceipts, Started
    <2>4. QED
      BY <2>1, <2>2, <2>3 DEF ReceiptsAddUp
  <1>6. CreationInv'
    BY <1>0 DEF CreationInv
  <1>7. ReadInv'
    BY <1>0, <1>1, OthersRead
  <1>8. QED
    BY <1>0, <1>2, <1>5, <1>6, <1>7, CommitFresh

(* approve, reject and cancel: on an up-to-date read nothing was received. *)
LEMMA SetStatusKeeps ==
    ASSUME ProcurementInv, NEW s \in Sessions, NEW handler \in {"approve", "reject", "cancel"},
           NEW new \in {"APPROVED", "REJECTED", "CANCELLED"}, SetStatus(s, handler, new)
    PROVE  ProcurementInv'
  <1> USE DEF ProcurementInv
  <1>0. /\ kind[s] = handler /\ status' = new /\ Commit(s) /\ End(s)
        /\ UNCHANGED <<ordered, received, edition, receipts, twice>>
    BY DEF SetStatus, Commit
  <1>1. TypeOK'
    <2>1. status' \in PurchaseOrderStatus
      BY <1>0 DEF PurchaseOrderStatus
    <2>2. QED
      BY <1>0, <2>1, EndData, CommitFresh DEF TypeOK, Lines, ReceiptLine
  <1>2. ReceivedWithinOrdered'
    BY <1>0 DEF ReceiptsAddUp, ReceivedWithinOrdered
  <1>3. ReceivedMatchesReceipts'
    BY <1>0, CommitFresh DEF ReceiptsAddUp, ReceivedMatchesReceipts
  <1>4. StatusFollowsReceipts'
    <2> SUFFICES ASSUME ~stale' PROVE ~Started
      BY <1>0 DEF StatusFollowsReceipts, Started
    <2>1. ~stale /\ ~outdated[s]
      BY <1>0, CommitFresh
    <2>2. status \in {"PENDING", "APPROVED"}
      BY <1>0, <2>1 DEF FreshInv, StillValid, Cancellable
    <2>3. QED
      BY <2>1, <2>2 DEF ReceiptsAddUp, StatusFollowsReceipts
  <1>5. CreationInv'
    BY <1>0 DEF CreationInv
  <1>6. ReadInv'
    <2>1. edition \in Nat /\ edition' = edition /\ edition <= edition'
      BY <1>0 DEF TypeOK
    <2>2. QED
      BY <1>0, <2>1, OthersRead
  <1>7. QED
    BY <1>0, <1>1, <1>2, <1>3, <1>4, <1>5, <1>6, CommitFresh DEF ReceiptsAddUp

(* What a receipt writes of a product: within what is ordered, and on an   *)
(* up-to-date read the received quantity plus its last line.               *)
LEMMA ReceivedNow ==
    ASSUME ProcurementInv, NEW s \in Sessions, kind[s] = "receive", fresh[s],
           edition = po[s].edition, NEW p \in Products
    PROVE  /\ LastLine(lines[s], p) \in Nat /\ LineSum(lines[s], p) \in Nat
           /\ LastLine(lines[s], p) = 0 => LineSum(lines[s], p) = 0
           /\ NewReceived(s, p) \in Nat /\ po[s].received[p] \in Nat
           /\ LastLine(lines[s], p) > 0 => NewReceived(s, p) <= ordered[p]
           /\ ~outdated[s] => NewReceived(s, p) = received[p] + LastLine(lines[s], p)
  <1> USE DEF ProcurementInv
  <1>1. lines[s] \in Lines /\ po[s].received[p] \in Nat
    BY DEF TypeOK, Lines, ReceiptLine
  <1>2. /\ LastLine(lines[s], p) \in Nat /\ LineSum(lines[s], p) \in Nat
        /\ LastLine(lines[s], p) = 0 => LineSum(lines[s], p) = 0
    BY <1>1, LastLineIn, LineSumType
  <1>3. po[s].ordered = ordered
    BY DEF ReadInv
  <1>4. ASSUME LastLine(lines[s], p) > 0 PROVE NewReceived(s, p) <= ordered[p]
    <2>1. PICK i \in DOMAIN lines[s] :
            lines[s][i].product = p /\ lines[s][i].quantity = LastLine(lines[s], p)
      BY <1>1, <1>4, LastLineIn
    <2>2. LineFits(lines[s][i], po[s].ordered, po[s].received)
      BY DEF ReadInv
    <2>3. QED
      BY <1>3, <2>1, <2>2 DEF LineFits, NewReceived
  <1>5. ~outdated[s] => po[s].received = received
    BY DEF FreshInv, StillValid, Order
  <1>6. QED
    BY <1>1, <1>2, <1>4, <1>5 DEF NewReceived

(* receiveGoods: quantities and status are computed from the order as read, *)
(* whose items are still there; on an up-to-date read they agree.           *)
LEMMA ReceiveGoodsKeeps ==
    ASSUME ProcurementInv, NEW s \in Sessions, ReceiveGoods(s)
    PROVE  ProcurementInv'
  <1> USE DEF ProcurementInv
  <1> DEFINE now == [p \in Products |-> NewReceived(s, p)]
             last(p) == LastLine(lines[s], p)
             sum(p) == LineSum(lines[s], p)
  <1>0. /\ kind[s] = "receive" /\ fresh[s] /\ edition = po[s].edition
        /\ receipts' = [p \in Products |-> receipts[p] + sum(p)]
        /\ received' = [p \in Products |-> IF last(p) > 0 THEN now[p] ELSE received[p]]
        /\ status' = StatusAfter(po[s].ordered, now)
        /\ twice' = (twice \/ \E p \in Products : last(p) # sum(p))
        /\ Commit(s) /\ End(s)
        /\ UNCHANGED <<ordered, edition>>
    BY DEF ReceiveGoods, Commit
  <1>1. \A p \in Products :
          /\ last(p) \in Nat /\ sum(p) \in Nat /\ (last(p) = 0 => sum(p) = 0)
          /\ now[p] \in Nat
          /\ last(p) > 0 => now[p] <= ordered[p]
          /\ ~outdated[s] => now[p] = received[p] + last(p)
    BY <1>0, ReceivedNow
  <1>2. po[s].ordered = ordered
    BY <1>0 DEF ReadInv
  <1>3. \A p \in Products : /\ receipts'[p] = receipts[p] + sum(p)
                            /\ received'[p] = IF last(p) > 0 THEN now[p] ELSE received[p]
    BY <1>0
  <1> HIDE DEF now, last, sum
  <1>4. TypeOK'
    <2>0. \A p \in Products : receipts[p] \in Nat /\ received[p] \in Nat
      BY DEF TypeOK
    <2>1. receipts' \in [Products -> Nat] /\ received' \in [Products -> Nat]
      BY <1>0, <1>1, <2>0
    <2>2. status' \in PurchaseOrderStatus /\ twice' \in BOOLEAN
      BY <1>0 DEF StatusAfter, PurchaseOrderStatus, TypeOK
    <2>3. QED
      BY <1>0, <2>1, <2>2, EndData, CommitFresh DEF TypeOK, Lines, ReceiptLine
  <1>5. ReceivedWithinOrdered'
    BY <1>0, <1>1, <1>3 DEF ReceiptsAddUp, ReceivedWithinOrdered
  <1>6. ~stale' => ~stale /\ \A p \in Products : received'[p] = received[p] + last(p)
                             /\ now[p] = received'[p]
    <2> SUFFICES ASSUME ~stale', NEW p \in Products
                 PROVE  ~stale /\ received'[p] = received[p] + last(p) /\ now[p] = received'[p]
      BY <1>0, CommitFresh
    <2>1. ~stale /\ ~outdated[s]
      BY <1>0, CommitFresh
    <2>2. received[p] \in Nat
      BY DEF TypeOK
    <2>3. QED
      BY <1>1, <1>3, <2>1, <2>2
  <1>7. ReceivedMatchesReceipts'
    <2> SUFFICES ASSUME ~stale', ~twice', NEW p \in Products PROVE received'[p] = receipts'[p]
      BY DEF ReceivedMatchesReceipts
    <2>1. ~twice /\ last(p) = sum(p)
      BY <1>0 DEF TypeOK
    <2>2. received[p] = receipts[p]
      BY <1>6, <2>1 DEF ReceiptsAddUp, ReceivedMatchesReceipts
    <2>3. QED
      BY <1>3, <1>6, <2>1, <2>2
  <1>8. StatusFollowsReceipts'
    <2> SUFFICES ASSUME ~stale'
                 PROVE  /\ status' = "RECEIVED" => Complete'
                        /\ status' = "PARTIALLY_RECEIVED" => Started' /\ ~Complete'
                        /\ status' \notin {"none", "RECEIVED", "PARTIALLY_RECEIVED"} => ~Started'
      BY DEF StatusFollowsReceipts
    <2>1. \A p \in Products : now[p] = received'[p]
      BY <1>6
    <2>2. \A p \in Products : received'[p] \in Nat /\ ordered'[p] \in Nat
                              /\ received'[p] <= ordered'[p]
      BY <1>4, <1>5 DEF TypeOK, ReceivedWithinOrdered
    <2>3. Complete' <=> \A p \in Products : now[p] >= ordered[p]
      BY <1>0, <2>1, <2>2 DEF Complete
    <2>4. Started' <=> \E p \in Products : now[p] > 0
      BY <2>1 DEF Started
    <2>5. QED
      BY <1>0, <1>2, <2>3, <2>4 DEF StatusAfter
  <1>9. CreationInv'
    BY <1>0 DEF CreationInv, StatusAfter
  <1>10. ReadInv'
    <2>1. edition \in Nat /\ edition' = edition /\ edition <= edition'
      BY <1>0 DEF TypeOK
    <2>2. QED
      BY <1>0, <2>1, OthersRead
  <1>11. QED
    BY <1>0, <1>4, <1>5, <1>7, <1>8, <1>9, <1>10, CommitFresh DEF ReceiptsAddUp

(* A request that gives up leaves the tables alone. *)
LEMMA RollbackKeeps ==
    ASSUME ProcurementInv, NEW s \in Sessions, Rollback(s)
    PROVE  ProcurementInv'
  <1> USE DEF ProcurementInv
  <1>0. End(s) /\ outdated' = [outdated EXCEPT ![s] = FALSE]
        /\ UNCHANGED <<status, ordered, received, edition, receipts, stale, twice>>
    BY DEF Rollback, tables
  <1>1. TypeOK'
    <2>1. outdated' \in [Sessions -> BOOLEAN]
      BY <1>0 DEF TypeOK
    <2>2. QED
      BY <1>0, <2>1, EndData DEF TypeOK, Lines, ReceiptLine
  <1>2. ReceiptsAddUp'
    BY <1>0 DEF ReceiptsAddUp, ReceivedWithinOrdered, ReceivedMatchesReceipts,
                StatusFollowsReceipts, Complete, Started
  <1>3. CreationInv'
    <2>1. \A t \in Sessions : kind'[t] \in {kind[t], "none"}
      BY <1>0, EndData
    <2>2. QED
      BY <1>0, <2>1 DEF CreationInv
  <1>4. ReadInv'
    <2>1. edition \in Nat /\ edition' = edition /\ edition <= edition'
      BY <1>0 DEF TypeOK
    <2>2. QED
      BY <1>0, <2>1, OthersRead
  <1>5. FreshInv'
    <2> SUFFICES ASSUME NEW t \in Sessions, ~outdated'[t] PROVE StillValid(t)'
      BY DEF FreshInv
    <2>1. CASE t = s
      BY <1>0, <2>1, EndData DEF StillValid
    <2>2. CASE t # s
      <3>1. StillValid(t)
        BY <1>0, <2>2 DEF FreshInv, TypeOK
      <3>2. kind'[t] = kind[t] /\ fresh'[t] = fresh[t] /\ po'[t] = po[t] /\ Order' = Order
        BY <1>0, <2>2, EndData DEF Order
      <3>3. QED
        BY <1>0, <3>1, <3>2 DEF StillValid
    <2>3. QED
      BY <2>1, <2>2
  <1>6. QED
    BY <1>1, <1>2, <1>3, <1>4, <1>5

(* A step that changes nothing keeps it. *)
LEMMA StutterKeeps ==
    ASSUME ProcurementInv, UNCHANGED vars
    PROVE  ProcurementInv'
  <1> USE DEF ProcurementInv, vars, tables, request, history
  <1>1. TypeOK' /\ ReceiptsAddUp' /\ CreationInv'
    BY DEF TypeOK, ReceiptsAddUp, ReceivedWithinOrdered, ReceivedMatchesReceipts,
           StatusFollowsReceipts, Complete, Started, CreationInv
  <1>2. ReadInv' /\ FreshInv'
    BY DEF ReadInv, LineFits, FreshInv, StillValid, Order
  <1>3. QED
    BY <1>1, <1>2

(* Before the order exists. *)
LEMMA InitKeeps == ASSUME Init PROVE ProcurementInv
  <1> USE DEF Init
  <1>1. /\ <<>> \in Lines
        /\ Unread \in [ordered: [Products -> Nat], received: [Products -> Nat], edition: Nat]
    BY ZeroType, EmptySeq DEF Lines, Unread
  <1>2. TypeOK
    BY <1>1, ZeroType DEF TypeOK, Kind, PurchaseOrderStatus, Lines, ReceiptLine
  <1>3. ReceiptsAddUp
    BY ZeroType DEF ReceiptsAddUp, ReceivedWithinOrdered, ReceivedMatchesReceipts,
                    StatusFollowsReceipts
  <1>4. CreationInv /\ ReadInv /\ FreshInv
    BY DEF CreationInv, ReadInv, FreshInv, StillValid
  <1>5. QED
    BY <1>2, <1>3, <1>4 DEF ProcurementInv

(* Every step of every request. *)
LEMMA NextKeeps == ASSUME ProcurementInv, Next PROVE ProcurementInv'
  <1>1. ASSUME NEW s \in Sessions, ApproveOrder(s) \/ RejectOrder(s) \/ CancelOrder(s)
        PROVE  ProcurementInv'
    BY <1>1, SetStatusKeeps DEF ApproveOrder, RejectOrder, CancelOrder
  <1>2. QED
    BY <1>1, CreateOrderKeeps, BeginsKeep, ReadOrderKeeps, UpdateOrderKeeps, ReceiveGoodsKeeps,
       RollbackKeeps, StutterKeeps DEF Next, Idle

-----------------------------------------------------------------------------
(* The life cycle *)

(* What a step on up-to-date reads may do to the order. *)
OnCycle ==
    /\ Follows(status, status')
    /\ status \notin {"none", "PENDING"} => ordered' = ordered
    /\ status \in {"REJECTED", "CANCELLED"} => receipts' = receipts

(* A decision, or an update, on what was checked. *)
LEMMA DecisionsOnCycle ==
    ASSUME ProcurementInv, NEW s \in Sessions, ~stale',
           UpdateOrder(s) \/ ApproveOrder(s) \/ RejectOrder(s) \/ CancelOrder(s)
    PROVE  OnCycle
  <1>1. Commit(s)
    BY DEF UpdateOrder, ApproveOrder, RejectOrder, CancelOrder, SetStatus
  <1>2. StillValid(s)
    BY <1>1, CommitFresh DEF ProcurementInv, FreshInv
  <1>3. CASE UpdateOrder(s)
    BY <1>2, <1>3 DEF UpdateOrder, StillValid, Updatable, OnCycle, Follows
  <1>4. CASE ApproveOrder(s) \/ RejectOrder(s)
    BY <1>2, <1>4 DEF ApproveOrder, RejectOrder, SetStatus, StillValid, OnCycle, Follows
  <1>5. CASE CancelOrder(s)
    BY <1>2, <1>5 DEF CancelOrder, SetStatus, StillValid, Cancellable, OnCycle, Follows
  <1>6. QED
    BY <1>3, <1>4, <1>5

(* A receipt takes the order forward: what was received stays received.    *)
LEMMA ReceiptsOnCycle ==
    ASSUME ProcurementInv, NEW s \in Sessions, ~stale', ReceiveGoods(s)
    PROVE  OnCycle
  <1>0. /\ kind[s] = "receive" /\ fresh[s] /\ edition = po[s].edition /\ Commit(s)
        /\ status' = StatusAfter(po[s].ordered, [p \in Products |-> NewReceived(s, p)])
        /\ UNCHANGED ordered
    BY DEF ReceiveGoods
  <1>1. ~stale /\ ~outdated[s]
    BY <1>0, CommitFresh DEF ProcurementInv
  <1>2. status \in Receivable
    BY <1>0, <1>1 DEF ProcurementInv, FreshInv, StillValid
  <1>3. status' \in {"RECEIVED", "PARTIALLY_RECEIVED", "APPROVED"}
    BY <1>0 DEF StatusAfter
  <1>4. ASSUME status = "PARTIALLY_RECEIVED" PROVE status' # "APPROVED"
    <2>1. PICK p \in Products : received[p] > 0
      BY <1>1, <1>4 DEF ProcurementInv, ReceiptsAddUp, StatusFollowsReceipts, Started
    <2>2. NewReceived(s, p) > 0
      <3>1. NewReceived(s, p) = received[p] + LastLine(lines[s], p) /\ LastLine(lines[s], p) \in Nat
        BY <1>0, <1>1, ReceivedNow
      <3>2. received[p] \in Nat
        BY DEF ProcurementInv, TypeOK
      <3>3. QED
        BY <2>1, <3>1, <3>2
    <2>3. QED
      BY <1>0, <2>2 DEF StatusAfter
  <1>5. QED
    BY <1>0, <1>2, <1>3, <1>4 DEF Receivable, OnCycle, Follows

(* A step that leaves the order alone. *)
LEMMA QuietOnCycle ==
    ASSUME UNCHANGED tables
    PROVE  OnCycle
  BY DEF tables, OnCycle, Follows

-----------------------------------------------------------------------------
(* Theorems *)

(* The inductive invariant holds throughout every behaviour. *)
THEOREM ProcurementInvariant == Spec => []ProcurementInv
  <1>1. ASSUME ProcurementInv, [Next]_vars PROVE ProcurementInv'
    BY <1>1, NextKeeps, StutterKeeps
  <1>2. QED
    BY InitKeeps, <1>1, PTL DEF Spec

(* Every variable keeps the shape of its columns and working data.         *)
THEOREM ProcurementTypeCorrect == Spec => []TypeOK
  <1>1. ProcurementInv => TypeOK
    BY DEF ProcurementInv
  <1>2. QED
    BY ProcurementInvariant, <1>1, PTL

(* No order is received beyond what was ordered, by whatever receipts and  *)
(* updates overlap; the items match the goods receipts, and the status     *)
(* tells how far the receipt is, up to the first commit on an outdated     *)
(* read.                                                                   *)
THEOREM ReceivingSound == Spec => []ReceiptsAddUp
  <1>1. ProcurementInv => ReceiptsAddUp
    BY DEF ProcurementInv
  <1>2. QED
    BY ProcurementInvariant, <1>1, PTL

(* An order moves along its life cycle, what was decided on stays ordered, *)
(* and nothing is received of a cancelled order, up to the first commit on *)
(* an outdated read.                                                       *)
THEOREM LifeCycleKept == Spec => LifeCycle
  <1>1. ASSUME ProcurementInv, [Next]_vars
        PROVE  [~stale' => /\ Follows(status, status')
                           /\ status \notin {"none", "PENDING"} => ordered' = ordered
                           /\ status \in {"REJECTED", "CANCELLED"} => receipts' = receipts]_vars
    <2>1. CASE UNCHANGED vars
      BY <2>1
    <2>2. CASE Next
      <3>1. CASE CreateOrder
        BY <3>1 DEF CreateOrder, Follows
      <3>2. ASSUME NEW s \in Sessions,
                   \/ BeginUpdate(s) \/ BeginApprove(s) \/ BeginReject(s) \/ BeginCancel(s)
                   \/ BeginReceive(s) \/ ReadOrder(s) \/ Rollback(s)
            PROVE  OnCycle
        <4>1. UNCHANGED tables
          BY <3>2 DEF BeginUpdate, BeginApprove, BeginReject, BeginCancel, BeginReceive, Begin,
                      ReadOrder, Rollback
        <4>2. QED
          BY <4>1, QuietOnCycle
      <3>3. ASSUME NEW s \in Sessions, ~stale',
                   \/ UpdateOrder(s) \/ ApproveOrder(s) \/ RejectOrder(s) \/ CancelOrder(s)
                   \/ ReceiveGoods(s)
            PROVE  OnCycle
        BY <1>1, <3>3, DecisionsOnCycle, ReceiptsOnCycle
      <3>4. CASE Idle
        BY <3>4, QuietOnCycle DEF Idle, vars
      <3>5. QED
        BY <2>2, <3>1, <3>2, <3>3, <3>4 DEF Next, OnCycle
    <2>3. QED
      BY <1>1, <2>1, <2>2
  <1>2. QED
    BY ProcurementInvariant, <1>1, PTL DEF Spec, LifeCycle
=============================================================================
