--------------------------- MODULE BinStockProofs ---------------------------
(* Theorems about BinStock for every number of sessions, bins and          *)
(* products, and every bound.                                              *)
EXTENDS BinStock, SumTheorems, SequenceTheorems

-----------------------------------------------------------------------------
(* The inductive invariant *)

(* What the payload of each handler looks like, and which validations can  *)
(* be left of it.                                                          *)
Shape(handler, cs, cks, ps) ==
    /\ handler = "none" => cs = <<>> /\ cks = <<>>
    /\ handler = "allocate" =>
         /\ Len(cs) = 1 /\ cs[1].by > 0
         /\ cks \in {<<"total", "unallocated", "capacity">>,
                     <<"unallocated", "capacity">>, <<"capacity">>, <<>>}
    /\ handler = "deallocate" =>
         /\ Len(cs) = 1 /\ cs[1].by < 0
         /\ cks \in {<<"source">>, <<>>}
    /\ handler = "transfer" =>
         /\ Len(cs) = 2
         /\ cs[1].by < 0 /\ cs[2].by = -cs[1].by
         /\ Bin(cs[1]) # Bin(cs[2]) /\ Product(cs[1]) = Product(cs[2])
         /\ cks \in {<<"source", "capacity">>, <<"capacity">>, <<>>}
    /\ handler = "pick" =>
         /\ \A i \in 1..Len(cs) : cs[i].by < 0
         /\ cks = <<>> /\ ps \subseteq StockRowsOf(cs)
    /\ handler # "pick" => ps = {}

(* A session writes after its validations and its stock locks. *)
ShapeInv ==
    \A s \in Sessions :
        /\ Shape(kind[s], changes[s], checks[s], wanted[s])
        /\ done[s] <= Len(changes[s])
        /\ checks[s] # <<>> \/ wanted[s] # {} => done[s] = 0

(* The bin rows a session holds are those it has written; the stock rows a *)
(* pick holds are those of its payload below the ones it still wants.      *)
LockInv ==
    \A s \in Sessions :
        /\ \A r \in Rows : holder[r] = s <=> \E i \in 1..done[s] : changes[s][i].row = r
        /\ \A p \in Products :
             stockHolder[p] = s <=>
               kind[s] = "pick" /\ p \in StockRowsOf(changes[s]) /\ p \notin wanted[s]
        /\ \A p \in Products, o \in wanted[s] : stockHolder[p] = s => p < o

(* The effect of the first n changes on a row, a product and a bin. *)
RowNet(cs, r, n) ==
    SumFunctionOnSet([i \in 1..n |-> IF cs[i].row = r THEN cs[i].by ELSE 0], 1..n)
ProductNet(cs, p, n) ==
    SumFunctionOnSet([i \in 1..n |-> IF Product(cs[i]) = p THEN cs[i].by ELSE 0], 1..n)
BinNet(cs, b, n) ==
    SumFunctionOnSet([i \in 1..n |-> IF Bin(cs[i]) = b THEN cs[i].by ELSE 0], 1..n)

(* What a session has written is the committed quantity and its own        *)
(* changes; a pick takes no bin row and no stock row below zero.           *)
OwnInv ==
    \A s \in Sessions :
        /\ \A r \in Rows : holder[r] = s =>
             /\ own[s][r] = loc[r] + RowNet(changes[s], r, done[s])
             /\ kind[s] = "pick" => own[s][r] >= 0
        /\ \A p \in Products :
             kind[s] = "pick" => stock[p] + ProductNet(changes[s], p, done[s]) >= 0

(* What two open requests both name is crossed. *)
NamedInv ==
    \A s, t \in Sessions :
        s # t => Named(changes[s]) \intersect Named(changes[t]) \subseteq crossed

(* What a request has validated is still so, unless it was crossed. *)
SourceValid(s) ==
    /\ kind[s] \in {"deallocate", "transfer"} /\ checks[s] \in {<<"capacity">>, <<>>}
    /\ ~({Bin(First(s)), Product(First(s))} \subseteq crossed)
    => loc[First(s).row] >= -First(s).by

UnallocatedValid(s) ==
    kind[s] = "allocate" /\ Product(First(s)) \notin crossed =>
        LET p == Product(First(s))
        IN  /\ checks[s] = <<"unallocated", "capacity">> => total[s] <= stock[p] + taken[p]
            /\ checks[s] \in {<<"capacity">>, <<>>} =>
                 Allocated(p) + First(s).by <= stock[p] + taken[p]

CapacityValid(s) ==
    kind[s] \in {"allocate", "transfer"} /\ Bin(Last(s)) \notin crossed =>
        /\ room[s] = capacity[Bin(Last(s))]
        /\ checks[s] = <<>> => Used(Bin(Last(s))) + Last(s).by <= room[s]

ValidInv ==
    \A s \in Sessions : SourceValid(s) /\ UnallocatedValid(s) /\ CapacityValid(s)

(* The inductive strengthening: the properties, and what each request has  *)
(* locked, written and validated.                                          *)
BinStockInv ==
    /\ TypeOK /\ AuditExplainsBins /\ BalancesSound
    /\ ShapeInv /\ LockInv /\ OwnInv /\ NamedInv /\ ValidInv

-----------------------------------------------------------------------------
(* What a list of changes adds up to *)

(* The model's operators are these, on the session's payload. *)
LEMMA NetDef ==
    ASSUME NEW s, NEW n
    PROVE  /\ \A r : Net(s, r, n) = RowNet(changes[s], r, n)
           /\ \A p : NetOfProduct(s, p, n) = ProductNet(changes[s], p, n)
  BY DEF Net, NetOfProduct, RowNet, ProductNet

(* The entries of a payload. *)
LEMMA ChangeType ==
    ASSUME NEW cs \in Seq(Change), NEW i \in 1..Len(cs)
    PROVE  /\ cs[i].row \in Rows /\ cs[i].by \in Int
           /\ Bin(cs[i]) \in Bins /\ Product(cs[i]) \in Products
           /\ cs[i].row = <<Bin(cs[i]), Product(cs[i])>>
  <1>1. cs[i] \in Change
    BY ElementOfSeq
  <1>2. QED
    BY <1>1 DEF Change, Rows, Bin, Product

(* Every change is to a whole number of units, and so are their sums. *)
LEMMA NetType ==
    ASSUME NEW cs \in Seq(Change), NEW n \in 0..Len(cs)
    PROVE  /\ \A r : RowNet(cs, r, n) \in Int
           /\ \A p : ProductNet(cs, p, n) \in Int
           /\ \A b : BinNet(cs, b, n) \in Int
  <1>1. \A i \in 1..n : cs[i].by \in Int
    <2>1. Len(cs) \in Nat
      BY LenProperties
    <2>2. 1..n \subseteq 1..Len(cs)
      BY <2>1
    <2>3. QED
      BY <2>2, ChangeType
  <1>2. IsFiniteSet(1..n)
    BY FS_Interval
  <1>3. ASSUME NEW f, \A i \in 1..n : f[i] \in Int
        PROVE  SumFunctionOnSet(f, 1..n) \in Int
    BY <1>2, <1>3, SumType
  <1>4. ASSUME NEW r PROVE RowNet(cs, r, n) \in Int
    BY <1>1, <1>3 DEF RowNet
  <1>5. ASSUME NEW p PROVE ProductNet(cs, p, n) \in Int
    BY <1>1, <1>3 DEF ProductNet
  <1>6. ASSUME NEW b PROVE BinNet(cs, b, n) \in Int
    BY <1>1, <1>3 DEF BinNet
  <1>7. QED
    BY <1>4, <1>5, <1>6

(* Nothing written has no effect. *)
LEMMA NetNone ==
    ASSUME NEW cs
    PROVE  /\ \A r : RowNet(cs, r, 0) = 0
           /\ \A p : ProductNet(cs, p, 0) = 0
           /\ \A b : BinNet(cs, b, 0) = 0
  <1>1. 1..0 = {}
    OBVIOUS
  <1>2. QED
    BY <1>1, SumEmpty DEF RowNet, ProductNet, BinNet

(* One change more. *)
LEMMA NetStep ==
    ASSUME NEW cs \in Seq(Change), NEW n \in Nat, n < Len(cs)
    PROVE  /\ \A r : RowNet(cs, r, n+1)
                       = RowNet(cs, r, n) + (IF cs[n+1].row = r THEN cs[n+1].by ELSE 0)
           /\ \A p : ProductNet(cs, p, n+1)
                       = ProductNet(cs, p, n) + (IF Product(cs[n+1]) = p THEN cs[n+1].by ELSE 0)
           /\ \A b : BinNet(cs, b, n+1)
                       = BinNet(cs, b, n) + (IF Bin(cs[n+1]) = b THEN cs[n+1].by ELSE 0)
  <1>1. \A i \in 1..n+1 : cs[i].by \in Int
    <2>1. Len(cs) \in Nat
      BY LenProperties
    <2>2. 1..n+1 \subseteq 1..Len(cs)
      BY <2>1
    <2>3. QED
      BY <2>2, ChangeType
  <1>2. ASSUME NEW r
        PROVE  RowNet(cs, r, n+1)
                 = RowNet(cs, r, n) + (IF cs[n+1].row = r THEN cs[n+1].by ELSE 0)
    <2> DEFINE f == [i \in 1..n |-> IF cs[i].row = r THEN cs[i].by ELSE 0]
               g == [i \in 1..n+1 |-> IF cs[i].row = r THEN cs[i].by ELSE 0]
    <2>1. /\ \A i \in 1..n+1 : g[i] \in Int
          /\ \A i \in 1..n : f[i] = g[i]
          /\ g[n+1] = IF cs[n+1].row = r THEN cs[n+1].by ELSE 0
      BY <1>1
    <2>2. RowNet(cs, r, n+1) = SumFunctionOnSet(g, 1..n+1)
          /\ RowNet(cs, r, n) = SumFunctionOnSet(f, 1..n)
      BY DEF RowNet
    <2> HIDE DEF f, g
    <2>3. SumFunctionOnSet(g, 1..n+1) = SumFunctionOnSet(f, 1..n) + g[n+1]
      BY <2>1, SumUpTo
    <2>4. QED
      BY <2>1, <2>2, <2>3
  <1>3. ASSUME NEW p
        PROVE  ProductNet(cs, p, n+1)
                 = ProductNet(cs, p, n) + (IF Product(cs[n+1]) = p THEN cs[n+1].by ELSE 0)
    <2> DEFINE f == [i \in 1..n |-> IF Product(cs[i]) = p THEN cs[i].by ELSE 0]
               g == [i \in 1..n+1 |-> IF Product(cs[i]) = p THEN cs[i].by ELSE 0]
    <2>1. /\ \A i \in 1..n+1 : g[i] \in Int
          /\ \A i \in 1..n : f[i] = g[i]
          /\ g[n+1] = IF Product(cs[n+1]) = p THEN cs[n+1].by ELSE 0
      BY <1>1
    <2>2. ProductNet(cs, p, n+1) = SumFunctionOnSet(g, 1..n+1)
          /\ ProductNet(cs, p, n) = SumFunctionOnSet(f, 1..n)
      BY DEF ProductNet
    <2> HIDE DEF f, g
    <2>3. SumFunctionOnSet(g, 1..n+1) = SumFunctionOnSet(f, 1..n) + g[n+1]
      BY <2>1, SumUpTo
    <2>4. QED
      BY <2>1, <2>2, <2>3
  <1>4. ASSUME NEW b
        PROVE  BinNet(cs, b, n+1)
                 = BinNet(cs, b, n) + (IF Bin(cs[n+1]) = b THEN cs[n+1].by ELSE 0)
    <2> DEFINE f == [i \in 1..n |-> IF Bin(cs[i]) = b THEN cs[i].by ELSE 0]
               g == [i \in 1..n+1 |-> IF Bin(cs[i]) = b THEN cs[i].by ELSE 0]
    <2>1. /\ \A i \in 1..n+1 : g[i] \in Int
          /\ \A i \in 1..n : f[i] = g[i]
          /\ g[n+1] = IF Bin(cs[n+1]) = b THEN cs[n+1].by ELSE 0
      BY <1>1
    <2>2. BinNet(cs, b, n+1) = SumFunctionOnSet(g, 1..n+1)
          /\ BinNet(cs, b, n) = SumFunctionOnSet(f, 1..n)
      BY DEF BinNet
    <2> HIDE DEF f, g
    <2>3. SumFunctionOnSet(g, 1..n+1) = SumFunctionOnSet(f, 1..n) + g[n+1]
      BY <2>1, SumUpTo
    <2>4. QED
      BY <2>1, <2>2, <2>3
  <1>5. QED
    BY <1>2, <1>3, <1>4

(* Changes elsewhere have no effect. *)
LEMMA NetElsewhere ==
    ASSUME NEW cs, NEW n \in Nat
    PROVE  /\ \A r : (\A i \in 1..n : cs[i].row # r) => RowNet(cs, r, n) = 0
           /\ \A p : (\A i \in 1..n : Product(cs[i]) # p) => ProductNet(cs, p, n) = 0
           /\ \A b : (\A i \in 1..n : Bin(cs[i]) # b) => BinNet(cs, b, n) = 0
  <1>1. IsFiniteSet(1..n)
    BY FS_Interval
  <1>2. ASSUME NEW f, \A i \in 1..n : f[i] = 0
        PROVE  SumFunctionOnSet(f, 1..n) = 0
    BY <1>1, <1>2, SumAllZero
  <1>3. ASSUME NEW r, \A i \in 1..n : cs[i].row # r
        PROVE  RowNet(cs, r, n) = 0
    BY <1>2, <1>3 DEF RowNet
  <1>4. ASSUME NEW p, \A i \in 1..n : Product(cs[i]) # p
        PROVE  ProductNet(cs, p, n) = 0
    BY <1>2, <1>4 DEF ProductNet
  <1>5. ASSUME NEW b, \A i \in 1..n : Bin(cs[i]) # b
        PROVE  BinNet(cs, b, n) = 0
    BY <1>2, <1>5 DEF BinNet
  <1>6. QED
    BY <1>3, <1>4, <1>5

(* What a payload does to the bins of a product is what it does to the     *)
(* product.                                                                *)
LEMMA NetOverBins ==
    ASSUME NEW cs \in Seq(Change), NEW n \in 0..Len(cs), NEW p \in Products
    PROVE  SumFunctionOnSet([b \in Bins |-> RowNet(cs, <<b, p>>, n)], Bins) = ProductNet(cs, p, n)
  <1> DEFINE F == [b \in Bins |->
                    [i \in 1..n |-> IF cs[i].row = <<b, p>> THEN cs[i].by ELSE 0]]
             G == [i \in 1..n |-> SumFunctionOnSet([b \in Bins |-> F[b][i]], Bins)]
             H == [i \in 1..n |-> IF Product(cs[i]) = p THEN cs[i].by ELSE 0]
  <1>1. IsFiniteSet(1..n) /\ IsFiniteSet(Bins)
    BY FS_Interval, BinStockAssumption
  <1>2. ASSUME NEW i \in 1..n
        PROVE  /\ cs[i].by \in Int /\ Bin(cs[i]) \in Bins
               /\ cs[i].row = <<Bin(cs[i]), Product(cs[i])>>
    <2>1. Len(cs) \in Nat
      BY LenProperties
    <2>2. i \in 1..Len(cs)
      BY <2>1
    <2>3. QED
      BY <2>2, ChangeType
  <1>3. \A b \in Bins, i \in 1..n : F[b][i] \in Int
    BY <1>2
  <1>4. SumFunctionOnSet([b \in Bins |-> SumFunctionOnSet(F[b], 1..n)], Bins)
          = SumFunctionOnSet(G, 1..n)
    <2> HIDE DEF F
    <2>1. QED
      BY <1>1, <1>3, SumSwap
  <1>5. ASSUME NEW i \in 1..n
        PROVE  G[i] = H[i]
    <2> DEFINE f == [b \in Bins |-> F[b][i]]
    <2>1. \A b \in Bins : f[b] = IF b = Bin(cs[i]) /\ Product(cs[i]) = p THEN cs[i].by ELSE 0
      BY <1>2
    <2>2. G[i] = SumFunctionOnSet(f, Bins) /\ H[i] = IF Product(cs[i]) = p THEN cs[i].by ELSE 0
      OBVIOUS
    <2> HIDE DEF f, G, H
    <2>3. CASE Product(cs[i]) = p
      <3>1. f[Bin(cs[i])] = cs[i].by /\ cs[i].by \in Int /\ Bin(cs[i]) \in Bins
            /\ \A b \in Bins \ {Bin(cs[i])} : f[b] = 0
        BY <1>2, <2>1, <2>3
      <3>2. SumFunctionOnSet(f, Bins) = f[Bin(cs[i])]
        BY <1>1, <3>1, SumSingle
      <3>3. QED
        BY <2>2, <2>3, <3>1, <3>2
    <2>4. CASE Product(cs[i]) # p
      <3>1. \A b \in Bins : f[b] = 0
        BY <2>1, <2>4
      <3>2. SumFunctionOnSet(f, Bins) = 0
        BY <1>1, <3>1, SumAllZero
      <3>3. QED
        BY <2>2, <2>4, <3>2
    <2>5. QED
      BY <2>3, <2>4
  <1>6. SumFunctionOnSet(G, 1..n) = SumFunctionOnSet(H, 1..n)
    <2>1. \A i \in 1..n : H[i] \in Int
      BY <1>2
    <2>2. \A i \in 1..n : G[i] \in Int /\ G[i] = H[i]
      <3> HIDE DEF G, H
      <3>1. QED
        BY <1>5, <2>1
    <2> HIDE DEF G, H
    <2>3. QED
      BY <1>1, <2>2, SumEqual
  <1>7. [b \in Bins |-> SumFunctionOnSet(F[b], 1..n)] = [b \in Bins |-> RowNet(cs, <<b, p>>, n)]
    BY DEF RowNet
  <1>8. QED
    <2> HIDE DEF F, G
    <2>1. SumFunctionOnSet(H, 1..n) = ProductNet(cs, p, n)
      BY DEF ProductNet
    <2> HIDE DEF H
    <2>2. QED
      BY <1>4, <1>6, <1>7, <2>1

(* What a payload does to the products in a bin is what it does to the bin. *)
LEMMA NetOverProducts ==
    ASSUME NEW cs \in Seq(Change), NEW n \in 0..Len(cs), NEW b \in Bins
    PROVE  SumFunctionOnSet([p \in Products |-> RowNet(cs, <<b, p>>, n)], Products)
             = BinNet(cs, b, n)
  <1> DEFINE F == [p \in Products |->
                    [i \in 1..n |-> IF cs[i].row = <<b, p>> THEN cs[i].by ELSE 0]]
             G == [i \in 1..n |-> SumFunctionOnSet([p \in Products |-> F[p][i]], Products)]
             H == [i \in 1..n |-> IF Bin(cs[i]) = b THEN cs[i].by ELSE 0]
  <1>1. IsFiniteSet(1..n) /\ IsFiniteSet(Products)
    BY FS_Interval, BinStockAssumption
  <1>2. ASSUME NEW i \in 1..n
        PROVE  /\ cs[i].by \in Int /\ Product(cs[i]) \in Products
               /\ cs[i].row = <<Bin(cs[i]), Product(cs[i])>>
    <2>1. Len(cs) \in Nat
      BY LenProperties
    <2>2. i \in 1..Len(cs)
      BY <2>1
    <2>3. QED
      BY <2>2, ChangeType
  <1>3. \A p \in Products, i \in 1..n : F[p][i] \in Int
    BY <1>2
  <1>4. SumFunctionOnSet([p \in Products |-> SumFunctionOnSet(F[p], 1..n)], Products)
          = SumFunctionOnSet(G, 1..n)
    <2> HIDE DEF F
    <2>1. QED
      BY <1>1, <1>3, SumSwap
  <1>5. ASSUME NEW i \in 1..n
        PROVE  G[i] = H[i]
    <2> DEFINE f == [p \in Products |-> F[p][i]]
    <2>1. \A p \in Products : f[p] = IF p = Product(cs[i]) /\ Bin(cs[i]) = b THEN cs[i].by ELSE 0
      BY <1>2
    <2>2. G[i] = SumFunctionOnSet(f, Products) /\ H[i] = IF Bin(cs[i]) = b THEN cs[i].by ELSE 0
      OBVIOUS
    <2> HIDE DEF f, G, H
    <2>3. CASE Bin(cs[i]) = b
      <3>1. f[Product(cs[i])] = cs[i].by /\ cs[i].by \in Int /\ Product(cs[i]) \in Products
            /\ \A p \in Products \ {Product(cs[i])} : f[p] = 0
        BY <1>2, <2>1, <2>3
      <3>2. SumFunctionOnSet(f, Products) = f[Product(cs[i])]
        BY <1>1, <3>1, SumSingle
      <3>3. QED
        BY <2>2, <2>3, <3>1, <3>2
    <2>4. CASE Bin(cs[i]) # b
      <3>1. \A p \in Products : f[p] = 0
        BY <2>1, <2>4
      <3>2. SumFunctionOnSet(f, Products) = 0
        BY <1>1, <3>1, SumAllZero
      <3>3. QED
        BY <2>2, <2>4, <3>2
    <2>5. QED
      BY <2>3, <2>4
  <1>6. SumFunctionOnSet(G, 1..n) = SumFunctionOnSet(H, 1..n)
    <2>1. \A i \in 1..n : H[i] \in Int
      BY <1>2
    <2>2. \A i \in 1..n : G[i] \in Int /\ G[i] = H[i]
      <3> HIDE DEF G, H
      <3>1. QED
        BY <1>5, <2>1
    <2> HIDE DEF G, H
    <2>3. QED
      BY <1>1, <2>2, SumEqual
  <1>7. [p \in Products |-> SumFunctionOnSet(F[p], 1..n)]
          = [p \in Products |-> RowNet(cs, <<b, p>>, n)]
    BY DEF RowNet
  <1>8. QED
    <2> HIDE DEF F, G
    <2>1. SumFunctionOnSet(H, 1..n) = BinNet(cs, b, n)
      BY DEF BinNet
    <2> HIDE DEF H
    <2>2. QED
      BY <1>4, <1>6, <1>7, <2>1

-----------------------------------------------------------------------------
(* Requests *)

(* The payload of an open request is not empty, and names the bin and the  *)
(* product of each of its changes.                                         *)
LEMMA NamedIn ==
    ASSUME NEW cs, NEW i \in 1..Len(cs)
    PROVE  Bin(cs[i]) \in Named(cs) /\ Product(cs[i]) \in Named(cs)
  BY DEF Named, Bin, Product

(* A row that is not named, by its bin or by its product, is not changed.  *)
LEMMA RowNotNamed ==
    ASSUME NEW cs \in Seq(Change), NEW n \in 0..Len(cs)
    PROVE  /\ \A r : ~({r[1], r[2]} \subseteq Named(cs)) => RowNet(cs, r, n) = 0
           /\ \A p : p \notin Named(cs) => ProductNet(cs, p, n) = 0
           /\ \A b : b \notin Named(cs) => BinNet(cs, b, n) = 0
  <1>1. Len(cs) \in Nat /\ n \in Nat /\ 1..n \subseteq 1..Len(cs)
    BY LenProperties
  <1>2. \A i \in 1..n : cs[i].row[1] \in Named(cs) /\ cs[i].row[2] \in Named(cs)
    BY <1>1, NamedIn DEF Bin, Product
  <1>3. ASSUME NEW r, ~({r[1], r[2]} \subseteq Named(cs))
        PROVE  \A i \in 1..n : cs[i].row # r
    BY <1>2, <1>3
  <1>4. QED
    BY <1>1, <1>2, <1>3, NetElsewhere DEF Bin, Product

(* What a request has validated stays so when it and the tables it looks   *)
(* at stay as they are.                                                    *)
LEMMA ValidKept ==
    ASSUME NEW t \in Sessions, SourceValid(t), UnallocatedValid(t), CapacityValid(t),
           kind'[t] = kind[t], changes'[t] = changes[t], checks'[t] = checks[t],
           total'[t] = total[t], room'[t] = room[t],
           UNCHANGED <<stock, loc, capacity, taken>>, crossed \subseteq crossed'
    PROVE  SourceValid(t)' /\ UnallocatedValid(t)' /\ CapacityValid(t)'
  <1>1. SourceValid(t)'
    BY DEF SourceValid, First, Bin, Product
  <1>2. UnallocatedValid(t)'
    BY DEF UnallocatedValid, First, Product, Allocated
  <1>3. CapacityValid(t)'
    BY DEF CapacityValid, Last, Bin, Used
  <1>4. QED
    BY <1>1, <1>2, <1>3

(* Starting a request. *)
LEMMA BeginStep ==
    ASSUME BinStockInv, NEW s \in Sessions, NEW h \in Kind \ {"none"},
           NEW cs \in Seq(Change), cs # <<>>, NEW ps \in SUBSET Products,
           Shape(h, cs, ChecksOf(h), ps), h = "pick" => ps = StockRowsOf(cs),
           ChecksOf(h) \in Seq(Check), Begin(s, h, cs, ps)
    PROVE  BinStockInv'
  <1> USE DEF BinStockInv
  <1>1. /\ kind[s] = "none" /\ done[s] = 0
        /\ \A t \in Sessions \ {s} :
             /\ kind'[t] = kind[t] /\ changes'[t] = changes[t] /\ checks'[t] = checks[t]
             /\ wanted'[t] = wanted[t] /\ room'[t] = room[t]
        /\ kind'[s] = h /\ changes'[s] = cs /\ checks'[s] = ChecksOf(h) /\ wanted'[s] = ps
        /\ room'[s] = capacity[Bin(cs[Len(cs)])]
        /\ crossed' = crossed \union (Named(cs) \intersect NamedByOpen)
        /\ UNCHANGED <<tables, locks, done, total, own, taken>>
    <2>1. kind[s] = "none"
      BY DEF Begin
    <2>2. done[s] = 0
      <3>1. Len(changes[s]) = 0 /\ done[s] \in Nat /\ done[s] <= Len(changes[s])
        BY <2>1 DEF ShapeInv, Shape, TypeOK
      <3>2. QED
        BY <3>1
    <2>3. QED
      BY <2>1, <2>2 DEF Begin, TypeOK, Bin
  <1>2. Len(cs) \in Nat \ {0} /\ Bin(cs[Len(cs)]) \in Bins /\ Named(cs) \subseteq Bins \union Products
    <2>1. Len(cs) \in Nat \ {0}
      BY LenProperties, EmptySeq
    <2>2. \A i \in 1..Len(cs) : Bin(cs[i]) \in Bins /\ Product(cs[i]) \in Products
      BY ChangeType
    <2>3. QED
      BY <2>1, <2>2 DEF Named, Bin, Product
  <1>3. TypeOK'
    <2>1. capacity[Bin(cs[Len(cs)])] \in Nat
      BY <1>2 DEF TypeOK
    <2>2. /\ kind' \in [Sessions -> Kind] /\ changes' \in [Sessions -> Seq(Change)]
          /\ checks' \in [Sessions -> Seq(Check)] /\ wanted' \in [Sessions -> SUBSET Products]
      BY DEF Begin, TypeOK
    <2>3. room' \in [Sessions -> Nat]
      BY <2>1 DEF Begin, TypeOK, Bin
    <2>4. served' \in Nat /\ crossed' \subseteq Bins \union Products
      BY <1>2 DEF Begin, TypeOK
    <2>5. QED
      BY <2>2, <2>3, <2>4 DEF Begin, TypeOK, tables, locks
  <1>4. AuditExplainsBins' /\ BalancesSound'
    BY <1>1 DEF AuditExplainsBins, BalancesSound, BinsNonNegative, AllocatedWithinTotal,
                TotalNonNegative, Allocated, tables
  <1>5. ShapeInv'
    <2>1. ASSUME NEW t \in Sessions
          PROVE  /\ Shape(kind'[t], changes'[t], checks'[t], wanted'[t])
                 /\ done'[t] <= Len(changes'[t])
                 /\ checks'[t] # <<>> \/ wanted'[t] # {} => done'[t] = 0
      <3>1. CASE t = s
        BY <1>1, <1>2, <3>1
      <3>2. CASE t # s
        BY <1>1, <3>2 DEF ShapeInv
      <3>3. QED
        BY <3>1, <3>2
    <2>2. QED
      BY <2>1 DEF ShapeInv
  <1>6. LockInv'
    <2>1. ASSUME NEW t \in Sessions
          PROVE  /\ \A r \in Rows : holder'[r] = t <=> \E i \in 1..done'[t] : changes'[t][i].row = r
                 /\ \A p \in Products :
                      stockHolder'[p] = t <=>
                        kind'[t] = "pick" /\ p \in StockRowsOf(changes'[t]) /\ p \notin wanted'[t]
                 /\ \A p \in Products, o \in wanted'[t] : stockHolder'[p] = t => p < o
      <3>1. CASE t = s
        BY <1>1, <3>1 DEF LockInv, locks
      <3>2. CASE t # s
        BY <1>1, <3>2 DEF LockInv, locks
      <3>3. QED
        BY <3>1, <3>2
    <2>2. QED
      BY <2>1 DEF LockInv
  <1>7. OwnInv'
    <2>1. ASSUME NEW t \in Sessions, NEW r \in Rows, holder'[r] = t
          PROVE  /\ own'[t][r] = loc'[r] + RowNet(changes'[t], r, done'[t])
                 /\ kind'[t] = "pick" => own'[t][r] >= 0
      <3>1. t # s
        BY <2>1, <1>1 DEF LockInv, locks
      <3>2. QED
        BY <1>1, <2>1, <3>1 DEF OwnInv, locks, tables
    <2>2. ASSUME NEW t \in Sessions, NEW p \in Products, kind'[t] = "pick"
          PROVE  stock'[p] + ProductNet(changes'[t], p, done'[t]) >= 0
      <3>1. CASE t = s
        <4>1. ProductNet(changes'[t], p, done'[t]) = 0
          BY <1>1, <3>1, NetNone
        <4>2. stock'[p] \in Int /\ stock'[p] >= 0
          BY <1>1 DEF tables, TypeOK, BalancesSound, TotalNonNegative
        <4>3. QED
          BY <4>1, <4>2
      <3>2. CASE t # s
        BY <1>1, <2>2, <3>2 DEF OwnInv, tables
      <3>3. QED
        BY <3>1, <3>2
    <2>3. QED
      BY <2>1, <2>2 DEF OwnInv
  <1>8. NamedInv'
    <2>1. \A t \in Sessions : Named(changes[t]) \subseteq NamedByOpen
      BY DEF NamedByOpen
    <2>2. ASSUME NEW t \in Sessions, NEW u \in Sessions, t # u
          PROVE  Named(changes'[t]) \intersect Named(changes'[u]) \subseteq crossed'
      <3>1. CASE t = s
        BY <1>1, <2>1, <2>2, <3>1
      <3>2. CASE u = s
        BY <1>1, <2>1, <2>2, <3>2
      <3>3. CASE t # s /\ u # s
        BY <1>1, <2>2, <3>3 DEF NamedInv
      <3>4. QED
        BY <3>1, <3>2, <3>3
    <2>3. QED
      BY <2>2 DEF NamedInv, Named
  <1>9. ValidInv'
    <2>1. ASSUME NEW t \in Sessions, t # s
          PROVE  SourceValid(t)' /\ UnallocatedValid(t)' /\ CapacityValid(t)'
      BY <1>1, <2>1, ValidKept DEF ValidInv, tables
    <2>2. SourceValid(s)' /\ UnallocatedValid(s)'
      BY <1>1 DEF SourceValid, UnallocatedValid, ChecksOf
    <2>3. CapacityValid(s)'
      <3>1. kind'[s] \in {"allocate", "transfer"} => checks'[s] # <<>>
        BY <1>1 DEF ChecksOf
      <3>2. room'[s] = capacity'[Bin(Last(s)')]
        BY <1>1 DEF Last, tables
      <3>3. QED
        BY <3>1, <3>2 DEF CapacityValid, Bin
    <2>4. QED
      BY <2>1, <2>2, <2>3 DEF ValidInv
  <1>10. QED
    BY <1>3, <1>4, <1>5, <1>6, <1>7, <1>8, <1>9

(* The payloads of the four handlers have the shape asked for. *)
LEMMA BeginsStep ==
    ASSUME BinStockInv, NEW s \in Sessions,
           BeginAllocate(s) \/ BeginDeallocate(s) \/ BeginTransfer(s) \/ BeginPick(s)
    PROVE  BinStockInv'
  <1>1. 1..MaxQty \subseteq Nat \ {0} /\ MaxUnits \in Nat
    BY BinStockAssumption
  <1>2. CASE BeginAllocate(s)
    <2>1. PICK r \in Rows, q \in 1..MaxQty : Begin(s, "allocate", <<[row |-> r, by |-> q]>>, {})
      BY <1>2 DEF BeginAllocate
    <2> DEFINE cs == <<[row |-> r, by |-> q]>>
    <2>2. q \in Nat \ {0}
      BY <1>1
    <2>3. cs \in Seq(Change) /\ cs # <<>> /\ Len(cs) = 1 /\ cs[1].by > 0
      BY <2>2 DEF Change
    <2>4. ChecksOf("allocate") \in Seq(Check) /\ "allocate" \in Kind \ {"none"}
          /\ {} \in SUBSET Products
      BY DEF ChecksOf, Check, Kind
    <2>5. Shape("allocate", cs, ChecksOf("allocate"), {})
      <3> HIDE DEF cs
      <3>1. QED
        BY <2>3 DEF Shape, ChecksOf
    <2> HIDE DEF cs
    <2>6. QED
      BY <2>1, <2>3, <2>4, <2>5, BeginStep DEF cs
  <1>3. CASE BeginDeallocate(s)
    <2>1. PICK r \in Rows, q \in 1..MaxQty : Begin(s, "deallocate", <<[row |-> r, by |-> -q]>>, {})
      BY <1>3 DEF BeginDeallocate
    <2> DEFINE cs == <<[row |-> r, by |-> -q]>>
    <2>2. q \in Nat \ {0}
      BY <1>1
    <2>3. cs \in Seq(Change) /\ cs # <<>> /\ Len(cs) = 1 /\ cs[1].by < 0
      BY <2>2 DEF Change
    <2>4. ChecksOf("deallocate") \in Seq(Check) /\ "deallocate" \in Kind \ {"none"}
          /\ {} \in SUBSET Products
      BY DEF ChecksOf, Check, Kind
    <2>5. Shape("deallocate", cs, ChecksOf("deallocate"), {})
      <3> HIDE DEF cs
      <3>1. QED
        BY <2>3 DEF Shape, ChecksOf
    <2> HIDE DEF cs
    <2>6. QED
      BY <2>1, <2>3, <2>4, <2>5, BeginStep DEF cs
  <1>4. CASE BeginTransfer(s)
    <2>1. PICK p \in Products, from \in Bins, to \in Bins, q \in 1..MaxQty :
            /\ from # to
            /\ Begin(s, "transfer", <<[row |-> <<from, p>>, by |-> -q],
                                      [row |-> <<to, p>>, by |-> q]>>, {})
      BY <1>4 DEF BeginTransfer
    <2> DEFINE cs == <<[row |-> <<from, p>>, by |-> -q], [row |-> <<to, p>>, by |-> q]>>
    <2>2. q \in Nat \ {0}
      BY <1>1
    <2>3. /\ cs \in Seq(Change) /\ cs # <<>> /\ Len(cs) = 2
          /\ cs[1].by < 0 /\ cs[2].by = -cs[1].by
          /\ Bin(cs[1]) # Bin(cs[2]) /\ Product(cs[1]) = Product(cs[2])
      BY <2>1, <2>2 DEF Change, Rows, Bin, Product
    <2>4. ChecksOf("transfer") \in Seq(Check) /\ "transfer" \in Kind \ {"none"}
          /\ {} \in SUBSET Products
      BY DEF ChecksOf, Check, Kind
    <2>5. Shape("transfer", cs, ChecksOf("transfer"), {})
      <3> HIDE DEF cs
      <3>1. QED
        BY <2>3 DEF Shape, ChecksOf
    <2> HIDE DEF cs
    <2>6. QED
      BY <2>1, <2>3, <2>4, <2>5, BeginStep DEF cs
  <1>5. CASE BeginPick(s)
    <2>1. PICK n \in 1..MaxUnits : \E units \in [1..n -> [row: Rows, by: {-q : q \in 1..MaxQty}]] :
            Begin(s, "pick", units, StockRowsOf(units))
      BY <1>5 DEF BeginPick
    <2>2. PICK units \in [1..n -> [row: Rows, by: {-q : q \in 1..MaxQty}]] :
            Begin(s, "pick", units, StockRowsOf(units))
      BY <2>1
    <2>3. n \in Nat \ {0}
      BY <1>1
    <2>4. \A i \in 1..n : units[i] \in Change /\ units[i].by < 0
      <3>1. \A d \in {-q : q \in 1..MaxQty} : d \in Int /\ d < 0
        BY <1>1
      <3>2. QED
        BY <3>1 DEF Change
    <2>5. units \in Seq(Change) /\ Len(units) = n /\ units # <<>>
      <3>1. units \in [1..n -> Change]
        BY <2>4
      <3>2. QED
        BY <2>3, <3>1
    <2>6. StockRowsOf(units) \in SUBSET Products
      BY <2>5, ChangeType DEF StockRowsOf, Product
    <2>7. Shape("pick", units, ChecksOf("pick"), StockRowsOf(units))
      BY <2>4, <2>5 DEF Shape, ChecksOf
    <2>8. ChecksOf("pick") \in Seq(Check) /\ "pick" \in Kind \ {"none"}
      BY DEF ChecksOf, Kind
    <2>9. QED
      BY <2>2, <2>5, <2>6, <2>7, <2>8, BeginStep
  <1>6. QED
    BY <1>2, <1>3, <1>4, <1>5

(* Reading the warehouse total, or a validation that holds: the next of    *)
(* the validations is over.                                                *)
LEMMA CheckStep ==
    ASSUME BinStockInv, NEW s \in Sessions, checks[s] # <<>>,
           checks' = [checks EXCEPT ![s] = Tail(@)], total' \in [Sessions -> Int],
           \A t \in Sessions \ {s} : total'[t] = total[t],
           Shape(kind[s], changes[s], Tail(checks[s]), wanted[s]),
           SourceValid(s)', UnallocatedValid(s)', CapacityValid(s)',
           UNCHANGED <<tables, locks, kind, changes, done, room, wanted, own, served, history>>
    PROVE  BinStockInv'
  <1> USE DEF BinStockInv
  <1>1. /\ UNCHANGED <<stock, loc, capacity, audit, stockHolder, holder, kind, changes, done,
                       room, wanted, own, served, taken, crossed>>
        /\ checks[s] \in Seq(Check) /\ checks'[s] = Tail(checks[s])
        /\ \A t \in Sessions \ {s} : checks'[t] = checks[t]
    BY DEF tables, locks, history, TypeOK
  <1>2. TypeOK'
    <2>1. checks' \in [Sessions -> Seq(Check)]
      BY <1>1 DEF TypeOK
    <2>2. QED
      BY <1>1, <2>1 DEF TypeOK
  <1>3. AuditExplainsBins' /\ BalancesSound' /\ LockInv' /\ OwnInv' /\ NamedInv'
    <2>1. AuditExplainsBins' /\ BalancesSound'
      BY <1>1 DEF AuditExplainsBins, BalancesSound, BinsNonNegative, AllocatedWithinTotal,
                  TotalNonNegative, Allocated
    <2>2. LockInv' /\ OwnInv' /\ NamedInv'
      BY <1>1 DEF LockInv, OwnInv, NamedInv
    <2>3. QED
      BY <2>1, <2>2
  <1>4. ShapeInv'
    BY <1>1 DEF ShapeInv
  <1>5. ValidInv'
    <2>1. ASSUME NEW t \in Sessions, t # s
          PROVE  SourceValid(t)' /\ UnallocatedValid(t)' /\ CapacityValid(t)'
      BY <1>1, <2>1, ValidKept DEF ValidInv
    <2>2. QED
      BY <2>1 DEF ValidInv
  <1>6. QED
    BY <1>2, <1>3, <1>4, <1>5

(* Which validation is made by whom, and what is left after it. *)
LEMMA Stage ==
    ASSUME BinStockInv, NEW s \in Sessions, checks[s] # <<>>
    PROVE  /\ Head(checks[s]) = "total" =>
                kind[s] = "allocate" /\ Tail(checks[s]) = <<"unallocated", "capacity">>
           /\ Head(checks[s]) = "unallocated" =>
                /\ kind[s] = "allocate" /\ Tail(checks[s]) = <<"capacity">>
                /\ checks[s] = <<"unallocated", "capacity">>
           /\ Head(checks[s]) = "source" =>
                \/ kind[s] = "deallocate" /\ Tail(checks[s]) = <<>>
                \/ kind[s] = "transfer" /\ Tail(checks[s]) = <<"capacity">>
           /\ Head(checks[s]) = "capacity" =>
                /\ kind[s] \in {"allocate", "transfer"} /\ Tail(checks[s]) = <<>>
                /\ checks[s] = <<"capacity">>
           /\ Shape(kind[s], changes[s], Tail(checks[s]), wanted[s])
           /\ Len(changes[s]) \in {1, 2} /\ First(s) = changes[s][1]
           /\ First(s) \in Change /\ Last(s) \in Change
  <1>1. kind[s] \in Kind /\ Shape(kind[s], changes[s], checks[s], wanted[s])
        /\ changes[s] \in Seq(Change)
    BY DEF BinStockInv, ShapeInv, TypeOK
  <1>2. CASE kind[s] = "allocate"
    <2>1. checks[s] \in {<<"total", "unallocated", "capacity">>,
                         <<"unallocated", "capacity">>, <<"capacity">>}
          /\ Len(changes[s]) = 1
      BY <1>1, <1>2 DEF Shape
    <2>2. First(s) = changes[s][1] /\ Last(s) = changes[s][1] /\ changes[s][1] \in Change
      BY <1>1, <2>1, ElementOfSeq DEF First, Last
    <2>3. CASE checks[s] = <<"total", "unallocated", "capacity">>
      <3>1. Head(checks[s]) = "total" /\ Tail(checks[s]) = <<"unallocated", "capacity">>
        BY <2>3
      <3>2. QED
        BY <1>1, <1>2, <2>1, <2>2, <3>1 DEF Shape
    <2>4. CASE checks[s] = <<"unallocated", "capacity">>
      <3>1. Head(checks[s]) = "unallocated" /\ Tail(checks[s]) = <<"capacity">>
        BY <2>4
      <3>2. QED
        BY <1>1, <1>2, <2>1, <2>2, <2>4, <3>1 DEF Shape
    <2>5. CASE checks[s] = <<"capacity">>
      <3>1. Head(checks[s]) = "capacity" /\ Tail(checks[s]) = <<>>
        BY <2>5
      <3>2. QED
        BY <1>1, <1>2, <2>1, <2>2, <2>5, <3>1 DEF Shape
    <2>6. QED
      BY <2>1, <2>3, <2>4, <2>5
  <1>3. CASE kind[s] = "deallocate"
    <2>1. checks[s] = <<"source">> /\ Len(changes[s]) = 1
      BY <1>1, <1>3 DEF Shape
    <2>2. First(s) = changes[s][1] /\ Last(s) = changes[s][1] /\ changes[s][1] \in Change
      BY <1>1, <2>1, ElementOfSeq DEF First, Last
    <2>3. Head(checks[s]) = "source" /\ Tail(checks[s]) = <<>>
      BY <2>1
    <2>4. QED
      BY <1>1, <1>3, <2>1, <2>2, <2>3 DEF Shape
  <1>4. CASE kind[s] = "transfer"
    <2>1. checks[s] \in {<<"source", "capacity">>, <<"capacity">>} /\ Len(changes[s]) = 2
      BY <1>1, <1>4 DEF Shape
    <2>2. /\ First(s) = changes[s][1] /\ Last(s) = changes[s][2]
          /\ changes[s][1] \in Change /\ changes[s][2] \in Change
      BY <1>1, <2>1, ElementOfSeq DEF First, Last
    <2>3. CASE checks[s] = <<"source", "capacity">>
      <3>1. Head(checks[s]) = "source" /\ Tail(checks[s]) = <<"capacity">>
        BY <2>3
      <3>2. QED
        BY <1>1, <1>4, <2>1, <2>2, <3>1 DEF Shape
    <2>4. CASE checks[s] = <<"capacity">>
      <3>1. Head(checks[s]) = "capacity" /\ Tail(checks[s]) = <<>>
        BY <2>4
      <3>2. QED
        BY <1>1, <1>4, <2>1, <2>2, <2>4, <3>1 DEF Shape
    <2>5. QED
      BY <2>1, <2>3, <2>4
  <1>5. CASE kind[s] \in {"none", "pick"}
    BY <1>1, <1>5 DEF Shape
  <1>6. QED
    BY <1>1, <1>2, <1>3, <1>4, <1>5 DEF Kind

(* totalStock is read. *)
LEMMA ReadTotalStep ==
    ASSUME BinStockInv, NEW s \in Sessions, ReadTotal(s)
    PROVE  BinStockInv'
  <1>1. /\ checks[s] # <<>> /\ Head(checks[s]) = "total"
        /\ checks' = [checks EXCEPT ![s] = Tail(@)]
        /\ total' = [total EXCEPT ![s] = stock[Product(First(s))]]
        /\ UNCHANGED <<tables, locks, kind, changes, done, room, wanted, own, served, history>>
    BY DEF ReadTotal
  <1>2. kind[s] = "allocate" /\ Tail(checks[s]) = <<"unallocated", "capacity">>
        /\ Shape(kind[s], changes[s], Tail(checks[s]), wanted[s])
    BY <1>1, Stage
  <1>3. Product(First(s)) \in Products
    BY <1>1, Stage DEF Change, Rows, Product
  <1>4. checks'[s] = <<"unallocated", "capacity">> /\ total'[s] = stock[Product(First(s))]
        /\ total' \in [Sessions -> Int] /\ \A t \in Sessions \ {s} : total'[t] = total[t]
    BY <1>1, <1>2, <1>3 DEF BinStockInv, TypeOK
  <1>5. UNCHANGED <<stock, loc, capacity, taken, crossed, kind, changes, room>>
    BY <1>1 DEF tables, history
  <1>6. SourceValid(s)'
    BY <1>2, <1>5 DEF SourceValid
  <1>7. UnallocatedValid(s)'
    <2>1. stock[Product(First(s))] \in Int /\ taken[Product(First(s))] \in Nat
      BY <1>3 DEF BinStockInv, TypeOK
    <2>2. QED
      BY <2>1, <1>4, <1>5 DEF UnallocatedValid, First, Product
  <1>8. CapacityValid(s)'
    <2>1. CapacityValid(s)
      BY DEF BinStockInv, ValidInv
    <2>2. QED
      BY <2>1, <1>4, <1>5 DEF CapacityValid, Last, Bin
  <1>9. QED
    BY <1>1, <1>2, <1>4, <1>6, <1>7, <1>8, CheckStep

(* Each validation establishes what it has looked at. *)
LEMMA ValidateStep ==
    ASSUME BinStockInv, NEW s \in Sessions,
           CheckUnallocated(s) \/ CheckSource(s) \/ CheckCapacity(s)
    PROVE  BinStockInv'
  <1>1. /\ checks[s] # <<>>
        /\ checks' = [checks EXCEPT ![s] = Tail(@)]
        /\ UNCHANGED <<tables, locks, kind, changes, done, total, room, wanted, own, served, history>>
    BY DEF CheckUnallocated, CheckSource, CheckCapacity, Validate
  <1>2. Shape(kind[s], changes[s], Tail(checks[s]), wanted[s])
        /\ First(s) \in Change /\ Last(s) \in Change /\ checks'[s] = Tail(checks[s])
    BY <1>1, Stage DEF BinStockInv, TypeOK
  <1>3. UNCHANGED <<stock, loc, capacity, taken, crossed, kind, changes, room, total>>
        /\ total' \in [Sessions -> Int] /\ \A t \in Sessions \ {s} : total'[t] = total[t]
    BY <1>1 DEF tables, history, BinStockInv, TypeOK
  <1>4. SourceValid(s) /\ UnallocatedValid(s) /\ CapacityValid(s)
    BY DEF BinStockInv, ValidInv
  <1>5. SourceValid(s)' /\ UnallocatedValid(s)' /\ CapacityValid(s)'
    <2>1. CASE CheckUnallocated(s)
      <3>1. /\ Head(checks[s]) = "unallocated"
            /\ First(s).by <= total[s] - Allocated(Product(First(s)))
        BY <2>1 DEF CheckUnallocated, Validate
      <3>2. kind[s] = "allocate" /\ checks'[s] = <<"capacity">>
            /\ checks[s] = <<"unallocated", "capacity">>
        BY <1>1, <1>2, <3>1, Stage
      <3>3. SourceValid(s)'
        BY <3>2, <1>3 DEF SourceValid
      <3>4. UnallocatedValid(s)'
        <4> DEFINE p == Product(First(s))
        <4>1. p \in Products /\ First(s).by \in Int
          BY <1>2 DEF Change, Rows, Product
        <4>2. Allocated(p) \in Int /\ total[s] \in Int /\ stock[p] \in Int /\ taken[p] \in Nat
          <5>1. \A b \in Bins : [c \in Bins |-> loc[<<c, p>>]][b] \in Int
            BY <4>1 DEF BinStockInv, TypeOK, Rows
          <5>2. IsFiniteSet(Bins)
            BY BinStockAssumption
          <5> HIDE DEF p
          <5>3. Allocated(p) \in Int
            BY <5>1, <5>2, SumType DEF Allocated
          <5>4. QED
            BY <5>3, <4>1 DEF BinStockInv, TypeOK
        <4>3. p \notin crossed => Allocated(p) + First(s).by <= stock[p] + taken[p]
          BY <1>4, <3>1, <3>2, <4>1, <4>2 DEF UnallocatedValid
        <4>4. checks'[s] # <<"unallocated", "capacity">>
          BY <3>2
        <4>5. QED
          BY <1>3, <3>2, <4>3, <4>4 DEF UnallocatedValid, First, Product, Allocated
      <3>5. CapacityValid(s)'
        BY <3>2, <1>3, <1>4 DEF CapacityValid, Last, Bin
      <3>6. QED
        BY <3>3, <3>4, <3>5
    <2>2. CASE CheckSource(s)
      <3>1. Head(checks[s]) = "source" /\ loc[First(s).row] >= -First(s).by
        BY <2>2 DEF CheckSource, Validate
      <3>2. \/ kind[s] = "deallocate" /\ checks'[s] = <<>>
            \/ kind[s] = "transfer" /\ checks'[s] = <<"capacity">>
        BY <1>1, <1>2, <3>1, Stage
      <3>3. SourceValid(s)'
        BY <3>1, <1>3 DEF SourceValid, First, Bin, Product
      <3>4. UnallocatedValid(s)'
        BY <3>2, <1>3 DEF UnallocatedValid
      <3>5. CapacityValid(s)'
        <4>1. kind[s] = "transfer" => checks'[s] # <<>>
          BY <3>2
        <4>2. kind[s] \in {"allocate", "transfer"} => kind[s] = "transfer"
          BY <3>2
        <4>3. QED
          BY <4>1, <4>2, <1>3, <1>4 DEF CapacityValid, Last, Bin
      <3>6. QED
        BY <3>3, <3>4, <3>5
    <2>3. CASE CheckCapacity(s)
      <3>1. Head(checks[s]) = "capacity" /\ Used(Bin(Last(s))) + Last(s).by <= room[s]
        BY <2>3 DEF CheckCapacity, Validate
      <3>2. kind[s] \in {"allocate", "transfer"} /\ checks'[s] = <<>> /\ checks[s] = <<"capacity">>
        BY <1>1, <1>2, <3>1, Stage
      <3>3. SourceValid(s)'
        BY <3>2, <1>3, <1>4 DEF SourceValid, First, Bin, Product
      <3>4. UnallocatedValid(s)'
        BY <3>2, <1>3, <1>4 DEF UnallocatedValid, First, Product, Allocated
      <3>5. CapacityValid(s)'
        BY <3>1, <3>2, <1>3, <1>4 DEF CapacityValid, Last, Bin, Used
      <3>6. QED
        BY <3>3, <3>4, <3>5
    <2>4. QED
      BY <2>1, <2>2, <2>3
  <1>6. QED
    BY <1>1, <1>2, <1>3, <1>5, CheckStep

(* Locking a stock row: the next product of the payload. *)
LEMMA LockStockStep ==
    ASSUME BinStockInv, NEW s \in Sessions, LockStock(s)
    PROVE  BinStockInv'
  <1> USE DEF BinStockInv
  <1>1. PICK p \in Products :
          /\ NextStockLock(s, p)
          /\ stockHolder[p] = NoSession
          /\ stockHolder' = [stockHolder EXCEPT ![p] = s]
          /\ wanted' = [wanted EXCEPT ![s] = @ \ {p}]
          /\ UNCHANGED <<tables, holder, kind, changes, done, checks, total, room, own, served, history>>
    BY DEF LockStock
  <1>2. /\ UNCHANGED <<stock, loc, capacity, audit, holder, kind, changes, done, checks, total,
                       room, own, served, taken, crossed>>
        /\ stockHolder'[p] = s /\ \A o \in Products \ {p} : stockHolder'[o] = stockHolder[o]
        /\ wanted'[s] = wanted[s] \ {p} /\ \A t \in Sessions \ {s} : wanted'[t] = wanted[t]
        /\ p \in wanted[s] /\ \A o \in wanted[s] : p <= o
    BY <1>1 DEF tables, history, NextStockLock, TypeOK
  <1>3. kind[s] = "pick" /\ p \in StockRowsOf(changes[s])
    BY <1>2 DEF ShapeInv, Shape
  <1>4. TypeOK'
    <2>1. stockHolder' \in [Products -> Sessions \union {NoSession}]
          /\ wanted' \in [Sessions -> SUBSET Products]
      BY <1>1 DEF TypeOK
    <2>2. QED
      BY <1>2, <2>1 DEF TypeOK
  <1>5. AuditExplainsBins' /\ BalancesSound' /\ OwnInv' /\ NamedInv'
    <2>1. AuditExplainsBins' /\ BalancesSound'
      BY <1>2 DEF AuditExplainsBins, BalancesSound, BinsNonNegative, AllocatedWithinTotal,
                  TotalNonNegative, Allocated
    <2>2. OwnInv' /\ NamedInv'
      BY <1>2 DEF OwnInv, NamedInv
    <2>3. QED
      BY <2>1, <2>2
  <1>6. ShapeInv'
    <2>1. ASSUME NEW t \in Sessions
          PROVE  /\ Shape(kind'[t], changes'[t], checks'[t], wanted'[t])
                 /\ done'[t] <= Len(changes'[t])
                 /\ checks'[t] # <<>> \/ wanted'[t] # {} => done'[t] = 0
      <3>1. CASE t = s
        BY <1>2, <1>3, <3>1 DEF ShapeInv, Shape
      <3>2. CASE t # s
        BY <1>2, <3>2 DEF ShapeInv
      <3>3. QED
        BY <3>1, <3>2
    <2>2. QED
      BY <2>1 DEF ShapeInv
  <1>7. LockInv'
    <2>1. ASSUME NEW t \in Sessions
          PROVE  /\ \A r \in Rows : holder'[r] = t <=> \E i \in 1..done'[t] : changes'[t][i].row = r
      BY <1>2 DEF LockInv
    <2>2. ASSUME NEW t \in Sessions, NEW q \in Products
          PROVE  stockHolder'[q] = t <=>
                   kind'[t] = "pick" /\ q \in StockRowsOf(changes'[t]) /\ q \notin wanted'[t]
      <3>1. CASE q = p
        <4>1. CASE t = s
          BY <1>2, <1>3, <3>1, <4>1
        <4>2. CASE t # s
          <5>1. NoSession # t /\ stockHolder[p] # t
            BY <1>1, BinStockAssumption
          <5>2. ~(kind[t] = "pick" /\ p \in StockRowsOf(changes[t]) /\ p \notin wanted[t])
            BY <5>1 DEF LockInv
          <5>3. QED
            BY <1>2, <3>1, <4>2, <5>2
        <4>3. QED
          BY <4>1, <4>2
      <3>2. CASE q # p
        <4>1. q \in wanted'[t] <=> q \in wanted[t]
          BY <1>2, <3>2
        <4>2. stockHolder[q] = t <=>
                kind[t] = "pick" /\ q \in StockRowsOf(changes[t]) /\ q \notin wanted[t]
          BY DEF LockInv
        <4>3. stockHolder'[q] = stockHolder[q]
          BY <1>2, <3>2
        <4>4. kind' = kind /\ changes' = changes
          BY <1>2
        <4>5. QED
          BY <4>1, <4>2, <4>3, <4>4
      <3>3. QED
        BY <3>1, <3>2
    <2>3. ASSUME NEW t \in Sessions, NEW q \in Products, NEW o \in wanted'[t],
                 stockHolder'[q] = t
          PROVE  q < o
      <3>1. o \in wanted[t] /\ o \in Products /\ o \in Nat /\ p \in Nat
        BY <1>2, BinStockAssumption DEF TypeOK
      <3>2. CASE q = p
        BY <1>2, <2>3, <3>1, <3>2
      <3>3. CASE q # p
        BY <1>2, <2>3, <3>1, <3>3 DEF LockInv
      <3>4. QED
        BY <3>2, <3>3
    <2>4. QED
      BY <2>1, <2>2, <2>3 DEF LockInv
  <1>8. ValidInv'
    <2>1. ASSUME NEW t \in Sessions
          PROVE  SourceValid(t)' /\ UnallocatedValid(t)' /\ CapacityValid(t)'
      BY <1>2, ValidKept DEF ValidInv
    <2>2. QED
      BY <2>1 DEF ValidInv
  <1>9. QED
    BY <1>4, <1>5, <1>6, <1>7, <1>8

(* Writing the next change of a payload under the lock of its row; a pick  *)
(* looks at the row and the total first.                                   *)
LEMMA WriteStep ==
    ASSUME BinStockInv, NEW s \in Sessions, WriteChange(s) \/ PickUnit(s)
    PROVE  BinStockInv'
  <1> USE DEF BinStockInv
  <1> DEFINE c == NextChange(s)
             cs == changes[s]
             n == done[s]
  <1>1. /\ kind[s] # "none" /\ checks[s] = <<>> /\ wanted[s] = {} /\ n < Len(cs)
        /\ kind[s] = "pick" => BinCovers(s, c) /\ StockCovers(s, c)
        /\ Write(s)
    BY DEF WriteChange, PickUnit, Writing
  <1>2. cs \in Seq(Change) /\ n \in Nat /\ n + 1 \in 1..Len(cs) /\ n \in 0..Len(cs)
    <2>1. cs \in Seq(Change) /\ n \in Nat
      BY DEF TypeOK
    <2>2. Len(cs) \in Nat
      BY <2>1, LenProperties
    <2>3. QED
      BY <1>1, <2>1, <2>2
  <1>3. c = cs[n + 1] /\ c.row \in Rows /\ c.by \in Int /\ Product(c) \in Products
    <2>1. c = cs[n + 1]
      BY DEF NextChange
    <2>2. QED
      BY <1>2, <2>1, ChangeType
  <1>4. /\ holder[c.row] \in {NoSession, s}
        /\ holder'[c.row] = s /\ \A r \in Rows \ {c.row} : holder'[r] = holder[r]
        /\ own'[s][c.row] = RowFor(s, c.row) + c.by
        /\ \A r \in Rows \ {c.row} : own'[s][r] = own[s][r]
        /\ \A t \in Sessions \ {s} : own'[t] = own[t] /\ done'[t] = done[t]
        /\ done'[s] = n + 1
        /\ UNCHANGED <<stock, loc, capacity, audit, stockHolder, kind, changes, checks, total,
                       room, wanted, served, taken, crossed>>
    BY <1>1, <1>3 DEF Write, Free, TypeOK, tables, history
  <1>5. TypeOK'
    <2>1. RowFor(s, c.row) \in Int
      BY <1>3 DEF RowFor, TypeOK
    <2>2. holder' \in [Rows -> Sessions \union {NoSession}]
      BY <1>1, <1>3 DEF Write, TypeOK
    <2>3. own' \in [Sessions -> [Rows -> Int]]
      <3>1. own' = [own EXCEPT ![s][c.row] = RowFor(s, c.row) + c.by]
        BY <1>1 DEF Write
      <3>2. RowFor(s, c.row) + c.by \in Int
        BY <1>3, <2>1
      <3> HIDE DEF c
      <3>3. QED
        BY <1>3, <3>1, <3>2 DEF TypeOK
    <2>4. done' \in [Sessions -> Nat]
      BY <1>1, <1>2 DEF Write, TypeOK
    <2>5. QED
      BY <1>4, <2>2, <2>3, <2>4 DEF TypeOK
  <1>6. AuditExplainsBins' /\ BalancesSound' /\ NamedInv'
    <2>1. AuditExplainsBins' /\ BalancesSound'
      BY <1>4 DEF AuditExplainsBins, BalancesSound, BinsNonNegative, AllocatedWithinTotal,
                  TotalNonNegative, Allocated
    <2>2. NamedInv'
      BY <1>4 DEF NamedInv
    <2>3. QED
      BY <2>1, <2>2
  <1>7. ShapeInv'
    <2>1. ASSUME NEW t \in Sessions
          PROVE  /\ Shape(kind'[t], changes'[t], checks'[t], wanted'[t])
                 /\ done'[t] <= Len(changes'[t])
                 /\ checks'[t] # <<>> \/ wanted'[t] # {} => done'[t] = 0
      <3>1. CASE t = s
        BY <1>1, <1>2, <1>4, <3>1 DEF ShapeInv
      <3>2. CASE t # s
        BY <1>4, <3>2 DEF ShapeInv
      <3>3. QED
        BY <3>1, <3>2
    <2>2. QED
      BY <2>1 DEF ShapeInv
  <1> HIDE DEF c, cs, n
  <1>8. LockInv'
    <2>1. ASSUME NEW t \in Sessions, NEW r \in Rows
          PROVE  holder'[r] = t <=> \E i \in 1..done'[t] : changes'[t][i].row = r
      <3>1. holder[r] = t <=> \E i \in 1..done[t] : changes[t][i].row = r
        BY DEF LockInv
      <3>2. CASE t = s
        <4>1. 1..done'[t] = 1..n \union {n + 1}
          BY <1>2, <1>4, <3>2
        <4>2. (\E i \in 1..done'[t] : changes'[t][i].row = r)
                <=> (\E i \in 1..n : cs[i].row = r) \/ c.row = r
          BY <4>1, <1>3, <1>4, <3>2 DEF cs
        <4>3. holder'[r] = t <=> holder[r] = t \/ c.row = r
          BY <1>4, <3>2
        <4>4. QED
          BY <3>1, <3>2, <4>2, <4>3 DEF cs, n
      <3>3. CASE t # s
        <4>1. holder'[r] = t <=> holder[r] = t
          BY <1>3, <1>4, <3>3, BinStockAssumption
        <4>2. QED
          BY <1>4, <3>1, <3>3, <4>1
      <3>4. QED
        BY <3>2, <3>3
    <2>2. QED
      BY <2>1, <1>4 DEF LockInv
  <1>9. /\ \A r : RowNet(cs, r, n + 1) = RowNet(cs, r, n) + (IF c.row = r THEN c.by ELSE 0)
        /\ \A p : ProductNet(cs, p, n + 1)
                    = ProductNet(cs, p, n) + (IF Product(c) = p THEN c.by ELSE 0)
        /\ \A r : RowNet(cs, r, n) \in Int /\ RowNet(cs, r, n + 1) \in Int
        /\ \A p : ProductNet(cs, p, n) \in Int /\ ProductNet(cs, p, n + 1) \in Int
    <2>1. n < Len(cs) /\ n + 1 \in 0..Len(cs)
      BY <1>1, <1>2 DEF cs, n
    <2>2. QED
      BY <1>2, <1>3, <2>1, NetStep, NetType
  <1>10. OwnInv'
    <2>1. ASSUME NEW t \in Sessions, NEW r \in Rows, holder'[r] = t
          PROVE  /\ own'[t][r] = loc'[r] + RowNet(changes'[t], r, done'[t])
                 /\ kind'[t] = "pick" => own'[t][r] >= 0
      <3>1. CASE t # s
        <4>1. holder[r] = t
          BY <1>3, <1>4, <2>1, <3>1
        <4>2. QED
          BY <1>4, <3>1, <4>1 DEF OwnInv
      <3>2. CASE t = s /\ r = c.row
        <4>1. RowFor(s, r) = loc[r] + RowNet(cs, r, n)
          <5>1. CASE holder[r] = s
            BY <5>1 DEF RowFor, OwnInv, cs, n
          <5>2. CASE holder[r] # s
            <6>1. \A i \in 1..n : cs[i].row # r
              BY <5>2 DEF LockInv, cs, n
            <6>2. RowNet(cs, r, n) = 0
              BY <6>1, <1>2, NetElsewhere
            <6>3. QED
              BY <5>2, <6>2 DEF RowFor, TypeOK
          <5>3. QED
            BY <5>1, <5>2
        <4>2. loc[r] \in Int /\ c.by \in Int /\ RowFor(s, r) \in Int
          BY <1>3 DEF TypeOK, RowFor
        <4>3. own'[t][r] = loc'[r] + RowNet(cs, r, n + 1)
          BY <1>4, <1>9, <3>2, <4>1, <4>2
        <4>4. kind[s] = "pick" => RowFor(s, r) >= -c.by
          BY <1>1, <3>2 DEF BinCovers, c
        <4>5. kind[s] = "pick" => own'[t][r] >= 0
          BY <1>4, <3>2, <4>2, <4>4
        <4>6. QED
          BY <1>4, <3>2, <4>3, <4>5 DEF cs
      <3>3. CASE t = s /\ r # c.row
        <4>1. holder[r] = s
          BY <1>4, <2>1, <3>3
        <4>2. own[s][r] = loc[r] + RowNet(cs, r, n) /\ (kind[s] = "pick" => own[s][r] >= 0)
          BY <4>1 DEF OwnInv, cs, n
        <4>3. RowNet(cs, r, n + 1) = RowNet(cs, r, n)
          BY <1>9, <3>3
        <4>4. QED
          BY <1>4, <3>3, <4>2, <4>3 DEF cs
      <3>4. QED
        BY <3>1, <3>2, <3>3
    <2>2. ASSUME NEW t \in Sessions, NEW p \in Products, kind'[t] = "pick"
          PROVE  stock'[p] + ProductNet(changes'[t], p, done'[t]) >= 0
      <3>1. CASE t # s
        BY <1>4, <2>2, <3>1 DEF OwnInv
      <3>2. CASE t = s /\ p = Product(c)
        <4>1. stock[p] + NetOfProduct(s, p, n + 1) >= 0
          BY <1>1, <1>4, <2>2, <3>2 DEF StockCovers, c, n
        <4>2. QED
          BY <1>4, <3>2, <4>1, NetDef DEF cs
      <3>3. CASE t = s /\ p # Product(c)
        <4>1. ProductNet(cs, p, n + 1) = ProductNet(cs, p, n)
          BY <1>9, <3>3
        <4>2. stock[p] + ProductNet(cs, p, n) >= 0
          BY <1>4, <2>2, <3>3 DEF OwnInv, cs, n
        <4>3. QED
          BY <1>4, <3>3, <4>1, <4>2 DEF cs
      <3>4. QED
        BY <3>1, <3>2, <3>3
    <2>3. QED
      BY <2>1, <2>2 DEF OwnInv
  <1>11. ValidInv'
    <2>1. ASSUME NEW t \in Sessions
          PROVE  SourceValid(t)' /\ UnallocatedValid(t)' /\ CapacityValid(t)'
      BY <1>4, ValidKept DEF ValidInv
    <2>2. QED
      BY <2>1 DEF ValidInv
  <1>12. QED
    BY <1>5, <1>6, <1>7, <1>8, <1>10, <1>11

(* What is left of the other requests when one ends. *)
LEMMA EndFacts ==
    ASSUME BinStockInv, NEW s \in Sessions, End(s)
    PROVE  /\ \A t \in Sessions \ {s} :
                /\ kind'[t] = kind[t] /\ changes'[t] = changes[t] /\ done'[t] = done[t]
                /\ checks'[t] = checks[t] /\ total'[t] = total[t] /\ room'[t] = room[t]
                /\ wanted'[t] = wanted[t] /\ own'[t] = own[t]
                /\ \A r \in Rows : holder'[r] = t <=> holder[r] = t
                /\ \A p \in Products : stockHolder'[p] = t <=> stockHolder[p] = t
           /\ kind'[s] = "none" /\ changes'[s] = <<>> /\ done'[s] = 0
           /\ checks'[s] = <<>> /\ wanted'[s] = {}
           /\ \A r \in Rows : holder'[r] # s
           /\ \A p \in Products : stockHolder'[p] # s
           /\ UNCHANGED <<served, taken, crossed>>
  <1>1. NoSession \notin Sessions
    BY BinStockAssumption
  <1>2. ASSUME NEW t \in Sessions \ {s}
        PROVE  /\ kind'[t] = kind[t] /\ changes'[t] = changes[t] /\ done'[t] = done[t]
               /\ checks'[t] = checks[t] /\ total'[t] = total[t] /\ room'[t] = room[t]
               /\ wanted'[t] = wanted[t] /\ own'[t] = own[t]
               /\ \A r \in Rows : holder'[r] = t <=> holder[r] = t
               /\ \A p \in Products : stockHolder'[p] = t <=> stockHolder[p] = t
    <2>1. /\ kind'[t] = kind[t] /\ changes'[t] = changes[t] /\ done'[t] = done[t]
          /\ checks'[t] = checks[t] /\ total'[t] = total[t] /\ room'[t] = room[t]
          /\ wanted'[t] = wanted[t] /\ own'[t] = own[t]
      BY DEF End, BinStockInv, TypeOK
    <2>2. \A r \in Rows : holder'[r] = t <=> holder[r] = t
      BY <1>1 DEF End
    <2>3. \A p \in Products : stockHolder'[p] = t <=> stockHolder[p] = t
      BY <1>1 DEF End
    <2>4. QED
      BY <2>1, <2>2, <2>3
  <1>3. /\ kind'[s] = "none" /\ changes'[s] = <<>> /\ done'[s] = 0
        /\ checks'[s] = <<>> /\ wanted'[s] = {}
    BY DEF End, BinStockInv, TypeOK
  <1>4. \A r \in Rows : holder'[r] # s
    BY <1>1 DEF End
  <1>5. \A p \in Products : stockHolder'[p] # s
    BY <1>1 DEF End
  <1>6. UNCHANGED <<served, taken, crossed>>
    BY DEF End, history
  <1>7. QED
    BY <1>2, <1>3, <1>4, <1>5, <1>6

(* Ending keeps what does not depend on the tables. *)
LEMMA EndStep ==
    ASSUME BinStockInv, NEW s \in Sessions, End(s), stock' \in [Products -> Int],
           loc' \in [Rows -> Int], capacity' \in [Bins -> Nat], audit' \in [Rows -> Int]
    PROVE  TypeOK' /\ ShapeInv' /\ LockInv' /\ NamedInv'
  <1> USE DEF BinStockInv
  <1>1. TypeOK'
    <2>1. /\ stockHolder' \in [Products -> Sessions \union {NoSession}]
          /\ holder' \in [Rows -> Sessions \union {NoSession}]
      BY DEF End, TypeOK
    <2>2. /\ kind' \in [Sessions -> Kind] /\ changes' \in [Sessions -> Seq(Change)]
          /\ checks' \in [Sessions -> Seq(Check)]
      <3>1. "none" \in Kind /\ <<>> \in Seq(Change) /\ <<>> \in Seq(Check)
        BY EmptySeq DEF Kind
      <3>2. QED
        BY <3>1 DEF End, TypeOK
    <2>3. /\ done' \in [Sessions -> Nat] /\ total' \in [Sessions -> Int]
          /\ room' \in [Sessions -> Nat] /\ wanted' \in [Sessions -> SUBSET Products]
      BY DEF End, TypeOK
    <2>4. own' \in [Sessions -> [Rows -> Int]]
      <3>1. [r \in Rows |-> 0] \in [Rows -> Int]
        OBVIOUS
      <3>2. QED
        BY <3>1 DEF End, TypeOK
    <2>5. served' \in Nat /\ taken' \in [Products -> Nat] /\ crossed' \subseteq Bins \union Products
      BY DEF End, history, TypeOK
    <2>6. QED
      BY <2>1, <2>2, <2>3, <2>4, <2>5 DEF TypeOK
  <1>2. ShapeInv'
    <2>1. ASSUME NEW t \in Sessions
          PROVE  /\ Shape(kind'[t], changes'[t], checks'[t], wanted'[t])
                 /\ done'[t] <= Len(changes'[t])
                 /\ checks'[t] # <<>> \/ wanted'[t] # {} => done'[t] = 0
      <3>1. CASE t = s
        BY EndFacts, <3>1 DEF Shape
      <3>2. CASE t # s
        <4>1. /\ kind'[t] = kind[t] /\ changes'[t] = changes[t] /\ done'[t] = done[t]
              /\ checks'[t] = checks[t] /\ wanted'[t] = wanted[t]
          BY EndFacts, <3>2
        <4>2. QED
          BY <4>1 DEF ShapeInv
      <3>3. QED
        BY <3>1, <3>2
    <2>2. QED
      BY <2>1 DEF ShapeInv
  <1>3. LockInv'
    <2>1. ASSUME NEW t \in Sessions
          PROVE  /\ \A r \in Rows : holder'[r] = t <=> \E i \in 1..done'[t] : changes'[t][i].row = r
                 /\ \A p \in Products :
                      stockHolder'[p] = t <=>
                        kind'[t] = "pick" /\ p \in StockRowsOf(changes'[t]) /\ p \notin wanted'[t]
                 /\ \A p \in Products, o \in wanted'[t] : stockHolder'[p] = t => p < o
      <3>1. CASE t = s
        BY EndFacts, <3>1
      <3>2. CASE t # s
        <4>1. /\ kind'[t] = kind[t] /\ changes'[t] = changes[t] /\ done'[t] = done[t]
              /\ wanted'[t] = wanted[t]
              /\ \A r \in Rows : holder'[r] = t <=> holder[r] = t
              /\ \A p \in Products : stockHolder'[p] = t <=> stockHolder[p] = t
          BY EndFacts, <3>2
        <4>2. QED
          BY <4>1 DEF LockInv
      <3>3. QED
        BY <3>1, <3>2
    <2>2. QED
      BY <2>1 DEF LockInv
  <1>4. NamedInv'
    <2>1. Named(<<>>) = {}
      BY DEF Named
    <2>2. ASSUME NEW t \in Sessions, NEW u \in Sessions, t # u
          PROVE  Named(changes'[t]) \intersect Named(changes'[u]) \subseteq crossed'
      <3>1. CASE t = s \/ u = s
        BY EndFacts, <2>1, <3>1
      <3>2. CASE t # s /\ u # s
        BY EndFacts, <2>2, <3>2 DEF NamedInv
      <3>3. QED
        BY <3>1, <3>2
    <2>3. QED
      BY <2>2 DEF NamedInv, Named
  <1>5. QED
    BY <1>1, <1>2, <1>3, <1>4

(* A request that ends without effect. *)
LEMMA RollbackStep ==
    ASSUME BinStockInv, NEW s \in Sessions, Rollback(s)
    PROVE  BinStockInv'
  <1> USE DEF BinStockInv
  <1>1. End(s) /\ UNCHANGED <<stock, loc, capacity, audit>>
    BY DEF Rollback, tables
  <1>2. TypeOK' /\ ShapeInv' /\ LockInv' /\ NamedInv'
    BY <1>1, EndStep DEF TypeOK
  <1>3. AuditExplainsBins' /\ BalancesSound'
    BY <1>1, EndFacts DEF AuditExplainsBins, BalancesSound, BinsNonNegative,
                          AllocatedWithinTotal, TotalNonNegative, Allocated
  <1>4. OwnInv'
    <2>1. ASSUME NEW t \in Sessions
          PROVE  /\ \A r \in Rows : holder'[r] = t =>
                      /\ own'[t][r] = loc'[r] + RowNet(changes'[t], r, done'[t])
                      /\ kind'[t] = "pick" => own'[t][r] >= 0
                 /\ \A p \in Products :
                      kind'[t] = "pick" => stock'[p] + ProductNet(changes'[t], p, done'[t]) >= 0
      <3>1. CASE t = s
        BY <1>1, EndFacts, <3>1
      <3>2. CASE t # s
        BY <1>1, EndFacts, <3>2 DEF OwnInv
      <3>3. QED
        BY <3>1, <3>2
    <2>2. QED
      BY <2>1 DEF OwnInv
  <1>5. ValidInv'
    <2>1. ASSUME NEW t \in Sessions
          PROVE  SourceValid(t)' /\ UnallocatedValid(t)' /\ CapacityValid(t)'
      <3>1. CASE t = s
        BY <1>1, EndFacts, <3>1 DEF SourceValid, UnallocatedValid, CapacityValid
      <3>2. CASE t # s
        BY <1>1, EndFacts, <3>2, ValidKept DEF ValidInv
      <3>3. QED
        BY <3>1, <3>2
    <2>2. QED
      BY <2>1 DEF ValidInv
  <1>6. QED
    BY <1>2, <1>3, <1>4, <1>5

(* A posting to the warehouse total. *)
LEMMA PostMovementStep ==
    ASSUME BinStockInv, PostMovement
    PROVE  BinStockInv'
  <1> USE DEF BinStockInv
  <1>1. PICK p \in Products, q \in -MaxQty..MaxQty :
          /\ served' = served + 1
          /\ stockHolder[p] = NoSession
          /\ stock[p] + q >= 0
          /\ stock' = [stock EXCEPT ![p] = @ + q]
          /\ taken' = [taken EXCEPT ![p] = IF q < 0 THEN @ - q ELSE @]
          /\ UNCHANGED <<loc, capacity, audit, locks, request, crossed>>
    BY DEF PostMovement
  <1>2. q \in Int /\ stock[p] \in Int /\ taken[p] \in Nat
    BY BinStockAssumption DEF TypeOK
  <1>3. /\ UNCHANGED <<loc, capacity, audit, stockHolder, holder, kind, changes, done, checks,
                       total, room, wanted, own, crossed>>
        /\ stock'[p] = stock[p] + q /\ \A o \in Products \ {p} : stock'[o] = stock[o]
        /\ taken'[p] = (IF q < 0 THEN taken[p] - q ELSE taken[p])
        /\ \A o \in Products \ {p} : taken'[o] = taken[o]
    BY <1>1 DEF locks, request, TypeOK
  <1>4. TypeOK'
    <2>1. stock' \in [Products -> Int]
      BY <1>1, <1>2 DEF TypeOK
    <2>2. taken' \in [Products -> Nat]
      <3>1. (IF q < 0 THEN taken[p] - q ELSE taken[p]) \in Nat
        BY <1>2
      <3>2. QED
        BY <1>1, <3>1 DEF TypeOK
    <2>3. served' \in Nat
      BY <1>1 DEF TypeOK
    <2>4. QED
      BY <1>3, <2>1, <2>2, <2>3 DEF TypeOK
  <1>5. \A o \in Products : /\ stock[o] + taken[o] <= stock'[o] + taken'[o] /\ stock'[o] \in Int
                            /\ taken'[o] \in Nat /\ stock[o] \in Int /\ taken[o] \in Nat
    <2>1. stock[p] + taken[p] <= stock'[p] + taken'[p]
      BY <1>2, <1>3
    <2>2. \A o \in Products : /\ stock'[o] \in Int /\ taken'[o] \in Nat
                              /\ stock[o] \in Int /\ taken[o] \in Nat
      BY <1>4 DEF TypeOK
    <2>3. QED
      BY <2>1, <2>2, <1>3
  <1>6. ShapeInv' /\ LockInv' /\ NamedInv' /\ AuditExplainsBins'
    BY <1>3 DEF ShapeInv, LockInv, NamedInv, AuditExplainsBins
  <1>7. \A o \in Products : Allocated(o) \in Int
    <2>1. ASSUME NEW o \in Products PROVE Allocated(o) \in Int
      <3>1. \A b \in Bins : [c \in Bins |-> loc[<<c, o>>]][b] \in Int
        BY DEF TypeOK, Rows
      <3>2. IsFiniteSet(Bins)
        BY BinStockAssumption
      <3>3. QED
        BY <3>1, <3>2, SumType DEF Allocated
    <2>2. QED
      BY <2>1
  <1>8. BalancesSound'
    <2>1. BinsNonNegative'
      BY <1>3 DEF BalancesSound, BinsNonNegative
    <2>2. TotalNonNegative'
      BY <1>1, <1>2, <1>3 DEF BalancesSound, TotalNonNegative
    <2>3. AllocatedWithinTotal'
      <3>1. ASSUME NEW o \in Products \ crossed
            PROVE  Allocated(o) <= stock'[o] + taken'[o]
        <4>1. Allocated(o) <= stock[o] + taken[o] /\ Allocated(o) \in Int
          BY <1>7 DEF BalancesSound, AllocatedWithinTotal
        <4>2. QED
          BY <4>1, <1>5
      <3>2. QED
        BY <3>1, <1>3 DEF AllocatedWithinTotal, Allocated
    <2>4. QED
      BY <2>1, <2>2, <2>3 DEF BalancesSound
  <1>9. OwnInv'
    <2>1. ASSUME NEW t \in Sessions, NEW o \in Products, kind[t] = "pick"
          PROVE  stock'[o] + ProductNet(changes[t], o, done[t]) >= 0
      <3>1. CASE o # p
        BY <1>3, <2>1, <3>1 DEF OwnInv
      <3>2. CASE o = p
        <4>1. stockHolder[p] # t
          BY <1>1, BinStockAssumption
        <4>2. \A i \in 1..done[t] : Product(changes[t][i]) # p
          <5>1. CASE p \in wanted[t]
            BY <5>1 DEF ShapeInv
          <5>2. CASE p \notin wanted[t]
            <6>1. p \notin StockRowsOf(changes[t])
              BY <2>1, <4>1, <5>2 DEF LockInv
            <6>2. done[t] \in Nat /\ done[t] <= Len(changes[t]) /\ Len(changes[t]) \in Nat
              BY LenProperties DEF ShapeInv, TypeOK
            <6>3. QED
              BY <6>1, <6>2 DEF StockRowsOf, Product
          <5>3. QED
            BY <5>1, <5>2
        <4>3. ProductNet(changes[t], p, done[t]) = 0
          <5>1. done[t] \in Nat
            BY DEF TypeOK
          <5>2. QED
            BY <4>2, <5>1, NetElsewhere
        <4>4. stock'[p] \in Int /\ stock'[p] >= 0
          BY <1>1, <1>2, <1>3
        <4>5. QED
          BY <3>2, <4>3, <4>4
      <3>3. QED
        BY <3>1, <3>2
    <2>2. QED
      BY <2>1, <1>3 DEF OwnInv
  <1>10. ValidInv'
    <2>1. ASSUME NEW t \in Sessions
          PROVE  SourceValid(t)' /\ UnallocatedValid(t)' /\ CapacityValid(t)'
      <3>1. SourceValid(t) /\ UnallocatedValid(t) /\ CapacityValid(t)
        BY DEF ValidInv
      <3>2. SourceValid(t)'
        BY <3>1, <1>3 DEF SourceValid, First, Bin, Product
      <3>3. CapacityValid(t)'
        BY <3>1, <1>3 DEF CapacityValid, Last, Bin, Used
      <3>4. UnallocatedValid(t)'
        <4> DEFINE o == Product(First(t))
        <4>1. SUFFICES ASSUME kind[t] = "allocate", o \notin crossed
                       PROVE  /\ checks[t] = <<"unallocated", "capacity">> =>
                                   total[t] <= stock'[o] + taken'[o]
                              /\ checks[t] \in {<<"capacity">>, <<>>} =>
                                   Allocated(o) + First(t).by <= stock'[o] + taken'[o]
          BY <1>3 DEF UnallocatedValid, First, Product, Allocated
        <4>2. o \in Products /\ First(t).by \in Int
          <5>1. Len(changes[t]) = 1 /\ changes[t] \in Seq(Change)
            BY <4>1 DEF ShapeInv, Shape, TypeOK
          <5>2. QED
            BY <5>1, ChangeType DEF First
        <4>3. /\ Allocated(o) \in Int /\ total[t] \in Int
              /\ stock[o] + taken[o] <= stock'[o] + taken'[o] /\ stock'[o] \in Int
              /\ taken'[o] \in Nat /\ stock[o] \in Int /\ taken[o] \in Nat
          BY <4>2, <1>5, <1>7 DEF TypeOK
        <4>4. /\ checks[t] = <<"unallocated", "capacity">> => total[t] <= stock[o] + taken[o]
              /\ checks[t] \in {<<"capacity">>, <<>>} =>
                   Allocated(o) + First(t).by <= stock[o] + taken[o]
          BY <3>1, <4>1 DEF UnallocatedValid
        <4> HIDE DEF o
        <4>5. QED
          BY <4>2, <4>3, <4>4
      <3>5. QED
        BY <3>2, <3>3, <3>4
    <2>2. QED
      BY <2>1 DEF ValidInv
  <1>11. QED
    BY <1>4, <1>6, <1>8, <1>9, <1>10

(* A change of a bin's capacity. *)
LEMMA SetCapacityStep ==
    ASSUME BinStockInv, SetCapacity
    PROVE  BinStockInv'
  <1> USE DEF BinStockInv
  <1>1. PICK b \in Bins, c \in 0..MaxCapacity :
          /\ served' = served + 1
          /\ capacity' = [capacity EXCEPT ![b] = c]
          /\ crossed' = crossed \union ({b} \intersect NamedByOpen)
          /\ UNCHANGED <<stock, loc, audit, locks, request, taken>>
    BY DEF SetCapacity
  <1>2. /\ UNCHANGED <<stock, loc, audit, stockHolder, holder, kind, changes, done, checks,
                       total, room, wanted, own, taken>>
        /\ \A a \in Bins \ {b} : capacity'[a] = capacity[a]
        /\ crossed \subseteq crossed'
    BY <1>1 DEF locks, request, TypeOK
  <1>3. TypeOK'
    <2>1. capacity' \in [Bins -> Nat]
      BY <1>1, BinStockAssumption DEF TypeOK
    <2>2. served' \in Nat /\ crossed' \subseteq Bins \union Products
      BY <1>1 DEF TypeOK
    <2>3. QED
      BY <1>2, <2>1, <2>2 DEF TypeOK
  <1>4. ShapeInv' /\ LockInv' /\ NamedInv' /\ AuditExplainsBins' /\ BalancesSound' /\ OwnInv'
    <2>1. ShapeInv' /\ LockInv' /\ NamedInv' /\ OwnInv'
      BY <1>2 DEF ShapeInv, LockInv, NamedInv, OwnInv
    <2>2. AuditExplainsBins' /\ BalancesSound'
      BY <1>2 DEF AuditExplainsBins, BalancesSound, BinsNonNegative, AllocatedWithinTotal,
                  TotalNonNegative, Allocated
    <2>3. QED
      BY <2>1, <2>2
  <1>5. ValidInv'
    <2>1. ASSUME NEW t \in Sessions
          PROVE  SourceValid(t)' /\ UnallocatedValid(t)' /\ CapacityValid(t)'
      <3>1. SourceValid(t) /\ UnallocatedValid(t) /\ CapacityValid(t)
        BY DEF ValidInv
      <3>2. SourceValid(t)' /\ UnallocatedValid(t)'
        BY <3>1, <1>2 DEF SourceValid, UnallocatedValid, First, Bin, Product, Allocated
      <3>3. CapacityValid(t)'
        <4>1. SUFFICES ASSUME kind[t] \in {"allocate", "transfer"}, Bin(Last(t)) \notin crossed'
                       PROVE  /\ room[t] = capacity'[Bin(Last(t))]
                              /\ checks[t] = <<>> => Used(Bin(Last(t))) + Last(t).by <= room[t]
          BY <1>2 DEF CapacityValid, Last, Bin, Used
        <4>2. /\ room[t] = capacity[Bin(Last(t))]
              /\ checks[t] = <<>> => Used(Bin(Last(t))) + Last(t).by <= room[t]
          BY <3>1, <4>1, <1>2 DEF CapacityValid
        <4>3. Bin(Last(t)) \in Bins /\ Bin(Last(t)) \in NamedByOpen
          <5>1. Len(changes[t]) \in 1..Len(changes[t]) /\ changes[t] \in Seq(Change)
            BY <4>1 DEF ShapeInv, Shape, TypeOK
          <5>2. QED
            BY <5>1, ChangeType, NamedIn DEF Last, NamedByOpen
        <4>4. Bin(Last(t)) # b
          BY <4>1, <4>3, <1>1
        <4>5. QED
          BY <4>2, <4>3, <4>4, <1>2
      <3>4. QED
        BY <3>2, <3>3
    <2>2. QED
      BY <2>1 DEF ValidInv
  <1>6. QED
    BY <1>3, <1>4, <1>5

(* An allocation or deallocation changes one row. *)
LEMMA NetOfOne ==
    ASSUME NEW cs \in Seq(Change), Len(cs) = 1
    PROVE  /\ \A r : RowNet(cs, r, 1) = IF cs[1].row = r THEN cs[1].by ELSE 0
           /\ \A p : ProductNet(cs, p, 1) = IF Product(cs[1]) = p THEN cs[1].by ELSE 0
           /\ \A b : BinNet(cs, b, 1) = IF Bin(cs[1]) = b THEN cs[1].by ELSE 0
  <1>1. 0 \in Nat /\ 0 < Len(cs) /\ 0 + 1 = 1 /\ cs[1].by \in Int
    BY ChangeType
  <1>2. /\ \A r : RowNet(cs, r, 0+1)
                    = RowNet(cs, r, 0) + (IF cs[0+1].row = r THEN cs[0+1].by ELSE 0)
        /\ \A p : ProductNet(cs, p, 0+1)
                    = ProductNet(cs, p, 0) + (IF Product(cs[0+1]) = p THEN cs[0+1].by ELSE 0)
        /\ \A b : BinNet(cs, b, 0+1)
                    = BinNet(cs, b, 0) + (IF Bin(cs[0+1]) = b THEN cs[0+1].by ELSE 0)
    BY <1>1, NetStep
  <1>3. QED
    BY <1>1, <1>2, NetNone

(* A transfer moves units of one product between two rows. *)
LEMMA NetOfTwo ==
    ASSUME NEW cs \in Seq(Change), Len(cs) = 2, cs[2].by = -cs[1].by,
           Product(cs[1]) = Product(cs[2])
    PROVE  /\ \A r : RowNet(cs, r, 2) = (IF cs[1].row = r THEN cs[1].by ELSE 0)
                                        + (IF cs[2].row = r THEN cs[2].by ELSE 0)
           /\ \A p : ProductNet(cs, p, 2) = 0
           /\ \A b : BinNet(cs, b, 2) = (IF Bin(cs[1]) = b THEN cs[1].by ELSE 0)
                                        + (IF Bin(cs[2]) = b THEN cs[2].by ELSE 0)
  <1>1. 0 \in Nat /\ 0 < Len(cs) /\ 0 + 1 = 1 /\ cs[1].by \in Int
        /\ 1 \in Nat /\ 1 < Len(cs) /\ 1 + 1 = 2 /\ cs[2].by \in Int
    <2>1. 1 \in 1..Len(cs) /\ 2 \in 1..Len(cs)
      OBVIOUS
    <2>2. cs[1].by \in Int /\ cs[2].by \in Int
      BY <2>1, ChangeType
    <2>3. QED
      BY <2>2
  <1>2. /\ \A r : RowNet(cs, r, 0+1)
                    = RowNet(cs, r, 0) + (IF cs[0+1].row = r THEN cs[0+1].by ELSE 0)
        /\ \A p : ProductNet(cs, p, 0+1)
                    = ProductNet(cs, p, 0) + (IF Product(cs[0+1]) = p THEN cs[0+1].by ELSE 0)
        /\ \A b : BinNet(cs, b, 0+1)
                    = BinNet(cs, b, 0) + (IF Bin(cs[0+1]) = b THEN cs[0+1].by ELSE 0)
    BY <1>1, NetStep
  <1>3. /\ \A r : RowNet(cs, r, 1) = IF cs[1].row = r THEN cs[1].by ELSE 0
        /\ \A p : ProductNet(cs, p, 1) = IF Product(cs[1]) = p THEN cs[1].by ELSE 0
        /\ \A b : BinNet(cs, b, 1) = IF Bin(cs[1]) = b THEN cs[1].by ELSE 0
    BY <1>1, <1>2, NetNone
  <1>4. /\ \A r : RowNet(cs, r, 1+1)
                    = RowNet(cs, r, 1) + (IF cs[1+1].row = r THEN cs[1+1].by ELSE 0)
        /\ \A p : ProductNet(cs, p, 1+1)
                    = ProductNet(cs, p, 1) + (IF Product(cs[1+1]) = p THEN cs[1+1].by ELSE 0)
        /\ \A b : BinNet(cs, b, 1+1)
                    = BinNet(cs, b, 1) + (IF Bin(cs[1+1]) = b THEN cs[1+1].by ELSE 0)
    BY <1>1, NetStep
  <1>5. /\ \A r : RowNet(cs, r, 2) = RowNet(cs, r, 1) + (IF cs[2].row = r THEN cs[2].by ELSE 0)
        /\ \A p : ProductNet(cs, p, 2)
                    = ProductNet(cs, p, 1) + (IF Product(cs[2]) = p THEN cs[2].by ELSE 0)
        /\ \A b : BinNet(cs, b, 2) = BinNet(cs, b, 1) + (IF Bin(cs[2]) = b THEN cs[2].by ELSE 0)
    BY <1>1, <1>4
  <1>6. ASSUME NEW p PROVE ProductNet(cs, p, 2) = 0
    BY <1>1, <1>3, <1>5
  <1>7. QED
    BY <1>3, <1>5, <1>6

(* Taking units anywhere adds to nothing. *)
LEMMA NetOfTaking ==
    ASSUME NEW cs \in Seq(Change), \A i \in 1..Len(cs) : cs[i].by < 0
    PROVE  /\ \A p : ProductNet(cs, p, Len(cs)) <= 0
           /\ \A b : BinNet(cs, b, Len(cs)) <= 0
  <1> DEFINE n == Len(cs)
             zero == [i \in 1..n |-> 0]
  <1>1. IsFiniteSet(1..n) /\ n \in Nat
    BY FS_Interval, LenProperties
  <1>2. \A i \in 1..n : cs[i].by \in Int /\ cs[i].by <= 0
    BY ChangeType
  <1>3. SumFunctionOnSet(zero, 1..n) = 0
    <2>1. \A i \in 1..n : zero[i] = 0
      OBVIOUS
    <2> HIDE DEF zero, n
    <2>2. QED
      BY <1>1, <2>1, SumAllZero
  <1>4. ASSUME NEW f, \A i \in 1..n : f[i] \in Int /\ f[i] <= 0
        PROVE  SumFunctionOnSet(f, 1..n) <= 0
    <2>1. \A i \in 1..n : f[i] \in Int /\ zero[i] \in Int /\ f[i] <= zero[i]
      BY <1>4
    <2> HIDE DEF zero, n
    <2>2. SumFunctionOnSet(f, 1..n) <= SumFunctionOnSet(zero, 1..n)
      BY <1>1, <2>1, SumMonotone
    <2>3. QED
      BY <2>2, <1>3
  <1> HIDE DEF n
  <1>5. ASSUME NEW p PROVE ProductNet(cs, p, n) <= 0
    <2> DEFINE f == [i \in 1..n |-> IF Product(cs[i]) = p THEN cs[i].by ELSE 0]
    <2>1. \A i \in 1..n : f[i] \in Int /\ f[i] <= 0
      BY <1>2
    <2> HIDE DEF f
    <2>2. SumFunctionOnSet(f, 1..n) <= 0
      BY <1>4, <2>1
    <2>3. QED
      BY <2>2 DEF ProductNet, f
  <1>6. ASSUME NEW b PROVE BinNet(cs, b, n) <= 0
    <2> DEFINE f == [i \in 1..n |-> IF Bin(cs[i]) = b THEN cs[i].by ELSE 0]
    <2>1. \A i \in 1..n : f[i] \in Int /\ f[i] <= 0
      BY <1>2
    <2> HIDE DEF f
    <2>2. SumFunctionOnSet(f, 1..n) <= 0
      BY <1>4, <2>1
    <2>3. QED
      BY <2>2 DEF BinNet, f
  <1>7. QED
    BY <1>5, <1>6 DEF n

(* The quantities that are added up are whole numbers. *)
LEMMA AllocatedType ==
    ASSUME BinStockInv
    PROVE  (\A p \in Products : Allocated(p) \in Int) /\ (\A b \in Bins : Used(b) \in Int)
  <1>1. IsFiniteSet(Bins) /\ IsFiniteSet(Products)
    BY BinStockAssumption
  <1>2. ASSUME NEW p \in Products PROVE Allocated(p) \in Int
    <2>1. \A b \in Bins : [c \in Bins |-> loc[<<c, p>>]][b] \in Int
      BY DEF BinStockInv, TypeOK, Rows
    <2>2. QED
      BY <1>1, <2>1, SumType DEF Allocated
  <1>3. ASSUME NEW b \in Bins PROVE Used(b) \in Int
    <2>1. \A p \in Products : [o \in Products |-> loc[<<b, o>>]][p] \in Int
      BY DEF BinStockInv, TypeOK, Rows
    <2>2. QED
      BY <1>1, <2>1, SumType DEF Used
  <1>4. QED
    BY <1>2, <1>3

(* A commit adds the whole payload to every bin row and its audit, and a   *)
(* pick to the warehouse totals.                                           *)
LEMMA CommitEffect ==
    ASSUME BinStockInv, NEW s \in Sessions, Commit(s)
    PROVE  /\ End(s) /\ capacity' = capacity
           /\ kind[s] # "none" /\ checks[s] = <<>> /\ wanted[s] = {} /\ done[s] = Len(changes[s])
           /\ changes[s] \in Seq(Change) /\ Len(changes[s]) \in 0..Len(changes[s])
           /\ loc' \in [Rows -> Int] /\ audit' \in [Rows -> Int] /\ stock' \in [Products -> Int]
           /\ \A r \in Rows :
                /\ loc'[r] = loc[r] + RowNet(changes[s], r, Len(changes[s]))
                /\ audit'[r] = audit[r] + RowNet(changes[s], r, Len(changes[s]))
                /\ RowNet(changes[s], r, Len(changes[s])) \in Int
                /\ loc'[r] = RowFor(s, r)
           /\ \A p \in Products :
                /\ stock'[p] = stock[p] + (IF kind[s] = "pick"
                                           THEN ProductNet(changes[s], p, Len(changes[s])) ELSE 0)
                /\ ProductNet(changes[s], p, Len(changes[s])) \in Int
  <1> USE DEF BinStockInv
  <1> DEFINE cs == changes[s]
             n == Len(cs)
  <1>1. /\ End(s) /\ capacity' = capacity
        /\ kind[s] # "none" /\ checks[s] = <<>> /\ wanted[s] = {} /\ done[s] = n
        /\ loc' = [r \in Rows |-> RowFor(s, r)]
        /\ audit' = [r \in Rows |-> audit[r] + Net(s, r, n)]
        /\ stock' = [p \in Products |->
                       IF kind[s] = "pick" THEN stock[p] + NetOfProduct(s, p, n) ELSE stock[p]]
    BY DEF Commit
  <1>2. cs \in Seq(Change) /\ n \in 0..n
    <2>1. cs \in Seq(Change)
      BY DEF TypeOK
    <2>2. n \in Nat
      BY <2>1, LenProperties
    <2>3. QED
      BY <2>1, <2>2
  <1>3. (\A r : RowNet(cs, r, n) \in Int) /\ (\A p : ProductNet(cs, p, n) \in Int)
    BY <1>2, NetType
  <1>4. ASSUME NEW r \in Rows
        PROVE  RowFor(s, r) = loc[r] + RowNet(cs, r, n)
    <2>1. CASE holder[r] = s
      BY <1>1, <2>1 DEF RowFor, OwnInv
    <2>2. CASE holder[r] # s
      <3>1. \A i \in 1..n : cs[i].row # r
        BY <1>1, <2>2 DEF LockInv
      <3>2. RowNet(cs, r, n) = 0
        BY <3>1, <1>2, NetElsewhere
      <3>3. QED
        BY <2>2, <3>2 DEF RowFor, TypeOK
    <2>3. QED
      BY <2>1, <2>2
  <1>5. ASSUME NEW r \in Rows
        PROVE  /\ loc'[r] = loc[r] + RowNet(cs, r, n)
               /\ audit'[r] = audit[r] + RowNet(cs, r, n)
               /\ RowNet(cs, r, n) \in Int
               /\ loc'[r] = RowFor(s, r)
               /\ loc'[r] \in Int /\ audit'[r] \in Int
    <2>1. Net(s, r, n) = RowNet(cs, r, n)
      BY NetDef
    <2>2. loc'[r] = RowFor(s, r) /\ audit'[r] = audit[r] + RowNet(cs, r, n)
      BY <1>1, <2>1
    <2>3. loc[r] \in Int /\ audit[r] \in Int
      BY DEF TypeOK
    <2>4. QED
      BY <1>3, <1>4, <2>2, <2>3
  <1>6. ASSUME NEW p \in Products
        PROVE  /\ stock'[p] = stock[p] + (IF kind[s] = "pick" THEN ProductNet(cs, p, n) ELSE 0)
               /\ ProductNet(cs, p, n) \in Int /\ stock'[p] \in Int
    <2>1. NetOfProduct(s, p, n) = ProductNet(cs, p, n)
      BY NetDef
    <2>2. stock[p] \in Int
      BY DEF TypeOK
    <2>3. stock'[p] = IF kind[s] = "pick" THEN stock[p] + ProductNet(cs, p, n) ELSE stock[p]
      BY <1>1, <2>1
    <2>4. QED
      BY <1>3, <2>2, <2>3
  <1>7. loc' \in [Rows -> Int] /\ audit' \in [Rows -> Int] /\ stock' \in [Products -> Int]
    <2>1. loc' = [r \in Rows |-> loc'[r]] /\ audit' = [r \in Rows |-> audit'[r]]
          /\ stock' = [p \in Products |-> stock'[p]]
      BY <1>1
    <2>2. QED
      BY <2>1, <1>5, <1>6
  <1>8. QED
    BY <1>1, <1>2, <1>5, <1>6, <1>7

(* What a commit does to the sums over bins and over products. *)
LEMMA CommitSums ==
    ASSUME BinStockInv, NEW s \in Sessions, Commit(s)
    PROVE  /\ \A p \in Products :
                Allocated(p)' = Allocated(p) + ProductNet(changes[s], p, Len(changes[s]))
           /\ \A b \in Bins :
                Used(b)' = Used(b) + BinNet(changes[s], b, Len(changes[s]))
  <1> DEFINE cs == changes[s]
             n == Len(cs)
  <1>1. cs \in Seq(Change) /\ n \in 0..n
    BY CommitEffect
  <1>2. \A r \in Rows : /\ loc'[r] = loc[r] + RowNet(cs, r, n)
                        /\ RowNet(cs, r, n) \in Int /\ loc[r] \in Int
    BY CommitEffect DEF BinStockInv, TypeOK
  <1>3. IsFiniteSet(Bins) /\ IsFiniteSet(Products)
    BY BinStockAssumption
  <1> HIDE DEF cs, n
  <1>4. ASSUME NEW p \in Products
        PROVE  Allocated(p)' = Allocated(p) + ProductNet(cs, p, n)
    <2> DEFINE f == [b \in Bins |-> loc[<<b, p>>]]
               g == [b \in Bins |-> RowNet(cs, <<b, p>>, n)]
               h == [b \in Bins |-> loc'[<<b, p>>]]
    <2>1. \A b \in Bins : f[b] \in Int /\ g[b] \in Int /\ h[b] = f[b] + g[b]
      BY <1>2 DEF Rows
    <2>2. SumFunctionOnSet(g, Bins) = ProductNet(cs, p, n)
      BY <1>1, NetOverBins DEF n
    <2>3. Allocated(p) = SumFunctionOnSet(f, Bins) /\ Allocated(p)' = SumFunctionOnSet(h, Bins)
      BY DEF Allocated
    <2> HIDE DEF f, g, h
    <2>4. SumFunctionOnSet(h, Bins) = SumFunctionOnSet(f, Bins) + SumFunctionOnSet(g, Bins)
      BY <1>3, <2>1, SumAdd
    <2>5. QED
      BY <2>2, <2>3, <2>4
  <1>5. ASSUME NEW b \in Bins
        PROVE  Used(b)' = Used(b) + BinNet(cs, b, n)
    <2> DEFINE f == [p \in Products |-> loc[<<b, p>>]]
               g == [p \in Products |-> RowNet(cs, <<b, p>>, n)]
               h == [p \in Products |-> loc'[<<b, p>>]]
    <2>1. \A p \in Products : f[p] \in Int /\ g[p] \in Int /\ h[p] = f[p] + g[p]
      BY <1>2 DEF Rows
    <2>2. SumFunctionOnSet(g, Products) = BinNet(cs, b, n)
      BY <1>1, NetOverProducts DEF n
    <2>3. Used(b) = SumFunctionOnSet(f, Products) /\ Used(b)' = SumFunctionOnSet(h, Products)
      BY DEF Used
    <2> HIDE DEF f, g, h
    <2>4. SumFunctionOnSet(h, Products)
            = SumFunctionOnSet(f, Products) + SumFunctionOnSet(g, Products)
      BY <1>3, <2>1, SumAdd
    <2>5. QED
      BY <2>2, <2>3, <2>4
  <1>6. QED
    BY <1>4, <1>5 DEF cs, n

(* What a request that is ready to commit does, by handler. *)
LEMMA CommitByKind ==
    ASSUME BinStockInv, NEW s \in Sessions, Commit(s)
    PROVE  LET cs == changes[s]  n == Len(changes[s])
           IN  /\ kind[s] \in {"allocate", "deallocate", "transfer", "pick"}
               /\ kind[s] \in {"allocate", "deallocate"} =>
                    /\ n = 1 /\ First(s) = cs[1] /\ Last(s) = cs[1]
                    /\ cs[1].row \in Rows /\ cs[1].by \in Int
                    /\ cs[1].row = <<Bin(cs[1]), Product(cs[1])>>
                    /\ \A r : RowNet(cs, r, n) = IF cs[1].row = r THEN cs[1].by ELSE 0
                    /\ \A p : ProductNet(cs, p, n) = IF Product(cs[1]) = p THEN cs[1].by ELSE 0
                    /\ \A b : BinNet(cs, b, n) = IF Bin(cs[1]) = b THEN cs[1].by ELSE 0
               /\ kind[s] = "allocate" => cs[1].by > 0
               /\ kind[s] = "deallocate" => cs[1].by < 0
               /\ kind[s] = "transfer" =>
                    /\ n = 2 /\ First(s) = cs[1] /\ Last(s) = cs[2]
                    /\ cs[1].row \in Rows /\ cs[2].row \in Rows /\ cs[1].by \in Int
                    /\ cs[1].row = <<Bin(cs[1]), Product(cs[1])>>
                    /\ cs[1].by < 0 /\ cs[2].by = -cs[1].by /\ Bin(cs[1]) # Bin(cs[2])
                    /\ cs[1].row # cs[2].row
                    /\ \A r : RowNet(cs, r, n) = (IF cs[1].row = r THEN cs[1].by ELSE 0)
                                                 + (IF cs[2].row = r THEN cs[2].by ELSE 0)
                    /\ \A p : ProductNet(cs, p, n) = 0
                    /\ \A b : BinNet(cs, b, n) = (IF Bin(cs[1]) = b THEN cs[1].by ELSE 0)
                                                 + (IF Bin(cs[2]) = b THEN cs[2].by ELSE 0)
               /\ kind[s] = "pick" =>
                    (\A p : ProductNet(cs, p, n) <= 0) /\ (\A b : BinNet(cs, b, n) <= 0)
  <1> DEFINE cs == changes[s]
             n == Len(cs)
  <1>1. /\ kind[s] \in Kind \ {"none"} /\ cs \in Seq(Change)
        /\ Shape(kind[s], cs, checks[s], wanted[s])
    BY CommitEffect DEF BinStockInv, ShapeInv, TypeOK
  <1>2. kind[s] \in {"allocate", "deallocate", "transfer", "pick"}
    BY <1>1 DEF Kind
  <1>3. ASSUME kind[s] \in {"allocate", "deallocate"}
        PROVE  /\ n = 1 /\ First(s) = cs[1] /\ Last(s) = cs[1]
               /\ cs[1].row \in Rows /\ cs[1].by \in Int
               /\ cs[1].row = <<Bin(cs[1]), Product(cs[1])>>
               /\ \A r : RowNet(cs, r, n) = IF cs[1].row = r THEN cs[1].by ELSE 0
               /\ \A p : ProductNet(cs, p, n) = IF Product(cs[1]) = p THEN cs[1].by ELSE 0
               /\ \A b : BinNet(cs, b, n) = IF Bin(cs[1]) = b THEN cs[1].by ELSE 0
               /\ kind[s] = "allocate" => cs[1].by > 0
               /\ kind[s] = "deallocate" => cs[1].by < 0
    <2>1. /\ n = 1 /\ 1 \in 1..n
          /\ kind[s] = "allocate" => cs[1].by > 0
          /\ kind[s] = "deallocate" => cs[1].by < 0
      BY <1>1, <1>3 DEF Shape
    <2>2. First(s) = cs[1] /\ Last(s) = cs[1]
      BY <2>1 DEF First, Last
    <2> HIDE DEF cs
    <2>3. QED
      BY <1>1, <2>1, <2>2, ChangeType, NetOfOne
  <1>4. ASSUME kind[s] = "transfer"
        PROVE  /\ n = 2 /\ First(s) = cs[1] /\ Last(s) = cs[2]
               /\ cs[1].row \in Rows /\ cs[2].row \in Rows /\ cs[1].by \in Int
               /\ cs[1].row = <<Bin(cs[1]), Product(cs[1])>>
               /\ cs[1].by < 0 /\ cs[2].by = -cs[1].by /\ Bin(cs[1]) # Bin(cs[2])
               /\ cs[1].row # cs[2].row
               /\ \A r : RowNet(cs, r, n) = (IF cs[1].row = r THEN cs[1].by ELSE 0)
                                            + (IF cs[2].row = r THEN cs[2].by ELSE 0)
               /\ \A p : ProductNet(cs, p, n) = 0
               /\ \A b : BinNet(cs, b, n) = (IF Bin(cs[1]) = b THEN cs[1].by ELSE 0)
                                            + (IF Bin(cs[2]) = b THEN cs[2].by ELSE 0)
    <2>1. /\ n = 2 /\ 1 \in 1..n /\ 2 \in 1..n
          /\ cs[1].by < 0 /\ cs[2].by = -cs[1].by
          /\ Bin(cs[1]) # Bin(cs[2]) /\ Product(cs[1]) = Product(cs[2])
      BY <1>1, <1>4 DEF Shape
    <2>2. First(s) = cs[1] /\ Last(s) = cs[2]
      BY <2>1 DEF First, Last
    <2>3. cs[1].row # cs[2].row
      BY <2>1 DEF Bin
    <2> HIDE DEF cs
    <2>4. QED
      BY <1>1, <2>1, <2>2, <2>3, ChangeType, NetOfTwo
  <1>5. ASSUME kind[s] = "pick"
        PROVE  (\A p : ProductNet(cs, p, n) <= 0) /\ (\A b : BinNet(cs, b, n) <= 0)
    <2>1. \A i \in 1..Len(cs) : cs[i].by < 0
      BY <1>1, <1>5 DEF Shape
    <2> HIDE DEF cs
    <2>2. QED
      BY <1>1, <2>1, NetOfTaking
  <1>6. QED
    BY <1>2, <1>3, <1>4, <1>5

(* The balances hold after a commit. *)
LEMMA CommitKeepsBalances ==
    ASSUME BinStockInv, NEW s \in Sessions, Commit(s)
    PROVE  AuditExplainsBins' /\ BalancesSound'
  <1> USE DEF BinStockInv
  <1> DEFINE cs == changes[s]
             n == Len(cs)
  <1>1. /\ checks[s] = <<>> /\ crossed' = crossed /\ taken' = taken /\ done[s] = n
        /\ SourceValid(s) /\ UnallocatedValid(s) /\ CapacityValid(s)
    BY CommitEffect, EndFacts DEF ValidInv
  <1>2. ASSUME NEW r \in Rows
        PROVE  /\ loc'[r] = loc[r] + RowNet(cs, r, n) /\ audit'[r] = audit[r] + RowNet(cs, r, n)
               /\ RowNet(cs, r, n) \in Int /\ loc[r] \in Int /\ audit[r] \in Int
               /\ loc'[r] = RowFor(s, r)
    BY CommitEffect DEF TypeOK
  <1>3. AuditExplainsBins'
    <2>1. ASSUME NEW r \in Rows PROVE loc'[r] = OpeningBins[r] + audit'[r]
      <3>1. OpeningBins[r] \in Int /\ loc[r] = OpeningBins[r] + audit[r]
        BY BinStockAssumption DEF AuditExplainsBins
      <3> HIDE DEF n, cs
      <3>2. QED
        BY <1>2, <3>1
    <2>2. QED
      BY <2>1 DEF AuditExplainsBins
  <1>4. BinsNonNegative'
    <2>1. ASSUME NEW r \in Rows, ~({r[1], r[2]} \subseteq crossed)
          PROVE  loc'[r] >= 0
      <3>1. loc[r] >= 0
        BY <2>1 DEF BalancesSound, BinsNonNegative
      <3>2. CASE kind[s] = "pick"
        BY <1>2, <3>1, <3>2 DEF RowFor, OwnInv
      <3>3. CASE kind[s] = "allocate"
        <4>1. /\ cs[1].by \in Int /\ cs[1].by > 0
              /\ RowNet(cs, r, n) = IF cs[1].row = r THEN cs[1].by ELSE 0
          BY <3>3, CommitByKind
        <4> HIDE DEF cs, n
        <4>2. QED
          BY <1>2, <3>1, <4>1
      <3>4. CASE kind[s] = "deallocate"
        <4>1. /\ First(s) = cs[1] /\ cs[1].row = <<Bin(cs[1]), Product(cs[1])>>
              /\ RowNet(cs, r, n) = IF cs[1].row = r THEN cs[1].by ELSE 0
              /\ cs[1].by \in Int
          BY <3>4, CommitByKind
        <4>2. cs[1].row = r => loc[r] >= -cs[1].by
          BY <1>1, <2>1, <3>4, <4>1 DEF SourceValid
        <4> HIDE DEF cs, n
        <4>3. QED
          BY <1>2, <3>1, <4>1, <4>2
      <3>5. CASE kind[s] = "transfer"
        <4>1. /\ First(s) = cs[1] /\ cs[1].row = <<Bin(cs[1]), Product(cs[1])>>
              /\ RowNet(cs, r, n) = (IF cs[1].row = r THEN cs[1].by ELSE 0)
                                    + (IF cs[2].row = r THEN cs[2].by ELSE 0)
              /\ cs[1].by \in Int /\ cs[1].by < 0 /\ cs[2].by = -cs[1].by /\ cs[1].row # cs[2].row
          BY <3>5, CommitByKind
        <4>2. cs[1].row = r => loc[r] >= -cs[1].by
          BY <1>1, <2>1, <3>5, <4>1 DEF SourceValid
        <4> HIDE DEF cs, n
        <4>3. QED
          BY <1>2, <3>1, <4>1, <4>2
      <3>6. QED
        BY <3>2, <3>3, <3>4, <3>5, CommitByKind
    <2>2. QED
      BY <2>1, <1>1 DEF BinsNonNegative
  <1>5. ASSUME NEW p \in Products
        PROVE  /\ stock'[p] = stock[p] + (IF kind[s] = "pick" THEN ProductNet(cs, p, n) ELSE 0)
               /\ ProductNet(cs, p, n) \in Int /\ stock[p] \in Int /\ taken[p] \in Nat
               /\ Allocated(p)' = Allocated(p) + ProductNet(cs, p, n)
               /\ Allocated(p) \in Int
    BY CommitEffect, CommitSums, AllocatedType DEF TypeOK
  <1>6. TotalNonNegative'
    <2>1. ASSUME NEW p \in Products PROVE stock'[p] >= 0
      <3>1. stock[p] >= 0 /\ (kind[s] = "pick" => stock[p] + ProductNet(cs, p, n) >= 0)
        BY <1>1 DEF BalancesSound, TotalNonNegative, OwnInv
      <3> HIDE DEF cs, n
      <3>2. QED
        BY <1>5, <3>1
    <2>2. QED
      BY <2>1 DEF TotalNonNegative
  <1>7. AllocatedWithinTotal'
    <2>1. ASSUME NEW p \in Products \ crossed
          PROVE  Allocated(p)' <= stock'[p] + taken[p]
      <3>1. Allocated(p) <= stock[p] + taken[p]
        BY DEF BalancesSound, AllocatedWithinTotal
      <3>2. CASE kind[s] = "pick"
        <4> HIDE DEF cs, n
        <4>1. QED
          BY <1>5, <3>1, <3>2
      <3>3. CASE kind[s] = "transfer" \/ kind[s] = "deallocate"
        <4>1. ProductNet(cs, p, n) <= 0
          <5>1. CASE kind[s] = "transfer"
            BY <5>1, CommitByKind
          <5>2. CASE kind[s] = "deallocate"
            <6>1. /\ cs[1].by \in Int /\ cs[1].by < 0
                  /\ ProductNet(cs, p, n) = IF Product(cs[1]) = p THEN cs[1].by ELSE 0
              BY <5>2, CommitByKind
            <6> HIDE DEF cs, n
            <6>2. QED
              BY <6>1
          <5>3. QED
            BY <3>3, <5>1, <5>2
        <4> HIDE DEF cs, n
        <4>2. QED
          BY <1>5, <3>1, <3>3, <4>1
      <3>4. CASE kind[s] = "allocate"
        <4>1. /\ First(s) = cs[1] /\ cs[1].by \in Int
              /\ ProductNet(cs, p, n) = IF Product(cs[1]) = p THEN cs[1].by ELSE 0
          BY <3>4, CommitByKind
        <4>2. Product(cs[1]) = p => Allocated(p) + cs[1].by <= stock[p] + taken[p]
          BY <1>1, <2>1, <3>4, <4>1 DEF UnallocatedValid
        <4> HIDE DEF cs, n
        <4>3. QED
          BY <1>5, <3>1, <3>4, <4>1, <4>2
      <3>5. QED
        BY <3>2, <3>3, <3>4, CommitByKind
    <2>2. QED
      BY <2>1, <1>1 DEF AllocatedWithinTotal
  <1>8. QED
    BY <1>3, <1>4, <1>6, <1>7 DEF BalancesSound

(* A commit. *)
LEMMA CommitStep ==
    ASSUME BinStockInv, NEW s \in Sessions, Commit(s)
    PROVE  BinStockInv'
  <1> USE DEF BinStockInv
  <1> DEFINE cs == changes[s]
             n == Len(cs)
  <1>1. /\ End(s) /\ capacity' = capacity /\ wanted[s] = {} /\ done[s] = n
        /\ cs \in Seq(Change) /\ n \in 0..n
        /\ loc' \in [Rows -> Int] /\ audit' \in [Rows -> Int] /\ stock' \in [Products -> Int]
    BY CommitEffect
  <1>2. TypeOK' /\ ShapeInv' /\ LockInv' /\ NamedInv'
    <2>1. capacity' \in [Bins -> Nat]
      BY <1>1 DEF TypeOK
    <2>2. QED
      BY <1>1, <2>1, EndStep
  <1>3. AuditExplainsBins' /\ BalancesSound'
    BY CommitKeepsBalances
  <1>4. /\ \A r \in Rows : /\ loc'[r] = loc[r] + RowNet(cs, r, n) /\ loc[r] \in Int
                           /\ loc'[r] = RowFor(s, r)
        /\ \A p \in Products :
             /\ stock'[p] = stock[p] + (IF kind[s] = "pick" THEN ProductNet(cs, p, n) ELSE 0)
             /\ stock[p] \in Int /\ stock'[p] \in Int
    BY CommitEffect DEF TypeOK
  <1>5. ASSUME NEW t \in Sessions, t # s
        PROVE  /\ kind'[t] = kind[t] /\ changes'[t] = changes[t] /\ done'[t] = done[t]
               /\ checks'[t] = checks[t] /\ total'[t] = total[t] /\ room'[t] = room[t]
               /\ wanted'[t] = wanted[t] /\ own'[t] = own[t]
               /\ \A r \in Rows : holder'[r] = t <=> holder[r] = t
               /\ \A p \in Products : stockHolder'[p] = t <=> stockHolder[p] = t
               /\ crossed' = crossed /\ taken' = taken
    BY <1>1, <1>5, EndFacts
  <1>6. OwnInv'
    <2>1. ASSUME NEW t \in Sessions, t # s
          PROVE  /\ \A r \in Rows : holder'[r] = t =>
                      /\ own'[t][r] = loc'[r] + RowNet(changes'[t], r, done'[t])
                      /\ kind'[t] = "pick" => own'[t][r] >= 0
                 /\ \A p \in Products :
                      kind'[t] = "pick" => stock'[p] + ProductNet(changes'[t], p, done'[t]) >= 0
      <3>1. ASSUME NEW r \in Rows, holder'[r] = t
            PROVE  /\ own'[t][r] = loc'[r] + RowNet(changes'[t], r, done'[t])
                   /\ kind'[t] = "pick" => own'[t][r] >= 0
        <4>1. holder[r] = t /\ own'[t] = own[t] /\ changes'[t] = changes[t]
              /\ done'[t] = done[t] /\ kind'[t] = kind[t]
          BY <1>5, <2>1, <3>1
        <4>2. loc'[r] = loc[r]
          BY <1>4, <2>1, <4>1 DEF RowFor
        <4>3. QED
          BY <4>1, <4>2 DEF OwnInv
      <3>2. ASSUME NEW p \in Products, kind'[t] = "pick"
            PROVE  stock'[p] + ProductNet(changes'[t], p, done'[t]) >= 0
        <4>1. /\ kind[t] = "pick" /\ changes'[t] = changes[t] /\ done'[t] = done[t]
              /\ stock[p] + ProductNet(changes[t], p, done[t]) >= 0
          BY <1>5, <2>1, <3>2 DEF OwnInv
        <4>2. CASE stockHolder[p] = t
          <5>1. kind[s] = "pick" => p \notin StockRowsOf(cs)
            BY <1>1, <2>1, <4>2 DEF LockInv
          <5>2. kind[s] = "pick" => \A i \in 1..n : Product(cs[i]) # p
            BY <5>1 DEF StockRowsOf, Product
          <5>3. kind[s] = "pick" => ProductNet(cs, p, n) = 0
            <6>1. n \in Nat
              BY <1>1
            <6> HIDE DEF n, cs
            <6>2. QED
              BY <5>2, <6>1, NetElsewhere
          <5>4. stock'[p] = stock[p]
            <6> HIDE DEF n, cs
            <6>1. QED
              BY <5>3, <1>4
          <5>5. QED
            BY <4>1, <5>4
        <4>3. CASE stockHolder[p] # t
          <5>1. p \notin StockRowsOf(changes[t]) \/ p \in wanted[t]
            BY <4>1, <4>3 DEF LockInv
          <5>2. done[t] \in Nat /\ done[t] <= Len(changes[t]) /\ Len(changes[t]) \in Nat
            BY LenProperties DEF ShapeInv, TypeOK
          <5>3. \A i \in 1..done[t] : Product(changes[t][i]) # p
            <6>1. CASE p \in wanted[t]
              BY <6>1 DEF ShapeInv
            <6>2. CASE p \notin StockRowsOf(changes[t])
              BY <5>2, <6>2 DEF StockRowsOf, Product
            <6>3. QED
              BY <5>1, <6>1, <6>2
          <5>4. ProductNet(changes[t], p, done[t]) = 0
            BY <5>2, <5>3, NetElsewhere
          <5>5. stock'[p] >= 0
            BY <1>3 DEF BalancesSound, TotalNonNegative
          <5>6. QED
            BY <1>4, <4>1, <5>4, <5>5
        <4>4. QED
          BY <4>2, <4>3
      <3>3. QED
        BY <3>1, <3>2
    <2>2. kind'[s] = "none" /\ \A r \in Rows : holder'[r] # s
      BY <1>1, EndFacts
    <2>3. QED
      BY <2>1, <2>2 DEF OwnInv
  <1>7. ValidInv'
    <2>1. ASSUME NEW t \in Sessions, t # s
          PROVE  SourceValid(t)' /\ UnallocatedValid(t)' /\ CapacityValid(t)'
      <3>1. /\ SourceValid(t) /\ UnallocatedValid(t) /\ CapacityValid(t)
            /\ changes[t] \in Seq(Change) /\ Shape(kind[t], changes[t], checks[t], wanted[t])
            /\ Named(cs) \intersect Named(changes[t]) \subseteq crossed
        BY <2>1 DEF ValidInv, TypeOK, ShapeInv, NamedInv
      <3>2. ASSUME NEW i \in 1..Len(changes[t])
            PROVE  /\ Bin(changes[t][i]) \in Bins /\ Product(changes[t][i]) \in Products
                   /\ changes[t][i].row = <<Bin(changes[t][i]), Product(changes[t][i])>>
                   /\ Bin(changes[t][i]) \notin crossed => Bin(changes[t][i]) \notin Named(cs)
                   /\ Product(changes[t][i]) \notin crossed =>
                        Product(changes[t][i]) \notin Named(cs)
        BY <3>1, ChangeType, NamedIn
      <3>3. SourceValid(t)'
        <4> DEFINE f == First(t)
        <4>1. SUFFICES ASSUME kind[t] \in {"deallocate", "transfer"},
                              checks[t] \in {<<"capacity">>, <<>>},
                              ~({Bin(f), Product(f)} \subseteq crossed)
                       PROVE  loc'[f.row] >= -f.by
          BY <1>5, <2>1 DEF SourceValid, First, Bin, Product
        <4>2. loc[f.row] >= -f.by
          BY <3>1, <4>1 DEF SourceValid
        <4>3. f = changes[t][1] /\ 1 \in 1..Len(changes[t])
          BY <3>1, <4>1 DEF First, Shape
        <4>4. f.row \in Rows /\ ~({f.row[1], f.row[2]} \subseteq Named(cs))
          <5>1. f.row \in Rows /\ f.row[1] = Bin(f) /\ f.row[2] = Product(f)
            BY <3>1, <4>3, ChangeType DEF Bin, Product
          <5>2. ~({Bin(f), Product(f)} \subseteq Named(cs))
            BY <3>2, <4>1, <4>3
          <5>3. QED
            BY <5>1, <5>2
        <4>5. RowNet(cs, f.row, n) = 0
          <5> HIDE DEF f, cs
          <5>1. QED
            BY <1>1, <4>4, RowNotNamed
        <4> HIDE DEF f, cs, n
        <4>6. loc'[f.row] = loc[f.row]
          BY <1>4, <4>4, <4>5
        <4>7. QED
          BY <4>2, <4>6
      <3>4. UnallocatedValid(t)'
        <4>1. SUFFICES ASSUME kind[t] = "allocate" PROVE UnallocatedValid(t)'
          BY <1>5, <2>1 DEF UnallocatedValid
        <4>2. First(t) = changes[t][1] /\ 1 \in 1..Len(changes[t])
          BY <3>1, <4>1 DEF First, Shape
        <4>3. PICK p \in Products : p = Product(First(t))
          BY <3>2, <4>2
        <4>4. First(t)' = First(t) /\ Product(First(t))' = p
          BY <1>5, <2>1, <4>3 DEF First, Product
        <4>5. SUFFICES ASSUME p \notin crossed
                       PROVE  /\ checks[t] = <<"unallocated", "capacity">> =>
                                   total[t] <= stock'[p] + taken[p]
                              /\ checks[t] \in {<<"capacity">>, <<>>} =>
                                   Allocated(p)' + First(t).by <= stock'[p] + taken[p]
          BY <1>5, <2>1, <4>4 DEF UnallocatedValid
        <4>6. p \notin Named(cs)
          BY <3>2, <4>2, <4>3, <4>5
        <4>7. /\ checks[t] = <<"unallocated", "capacity">> => total[t] <= stock[p] + taken[p]
              /\ checks[t] \in {<<"capacity">>, <<>>} =>
                   Allocated(p) + First(t).by <= stock[p] + taken[p]
          BY <3>1, <4>1, <4>3, <4>5 DEF UnallocatedValid
        <4>8. ProductNet(cs, p, n) = 0
          <5> HIDE DEF cs
          <5>1. QED
            BY <1>1, <4>6, RowNotNamed
        <4>9. Allocated(p)' = Allocated(p) /\ stock'[p] = stock[p]
          <5>1. Allocated(p)' = Allocated(p) + ProductNet(cs, p, n) /\ Allocated(p) \in Int
            BY CommitSums, AllocatedType
          <5> HIDE DEF cs, n
          <5>2. QED
            BY <1>4, <4>8, <5>1
        <4>10. QED
          BY <4>7, <4>9
      <3>5. CapacityValid(t)'
        <4>1. SUFFICES ASSUME kind[t] \in {"allocate", "transfer"} PROVE CapacityValid(t)'
          BY <1>5, <2>1 DEF CapacityValid
        <4>2. \E i \in 1..Len(changes[t]) : Last(t) = changes[t][i]
          BY <3>1, <4>1 DEF Last, Shape
        <4>3. PICK b \in Bins : b = Bin(Last(t))
          BY <3>2, <4>2
        <4>4. Last(t)' = Last(t) /\ Bin(Last(t))' = b
          BY <1>5, <2>1, <4>3 DEF Last, Bin
        <4>5. SUFFICES ASSUME b \notin crossed
                       PROVE  /\ room[t] = capacity[b]
                              /\ checks[t] = <<>> => Used(b)' + Last(t).by <= room[t]
          BY <1>1, <1>5, <2>1, <4>4 DEF CapacityValid
        <4>6. b \notin Named(cs)
          BY <3>2, <4>2, <4>3, <4>5
        <4>7. room[t] = capacity[b] /\ (checks[t] = <<>> => Used(b) + Last(t).by <= room[t])
          BY <3>1, <4>1, <4>3, <4>5 DEF CapacityValid
        <4>8. BinNet(cs, b, n) = 0
          <5> HIDE DEF cs
          <5>1. QED
            BY <1>1, <4>6, RowNotNamed
        <4>9. Used(b)' = Used(b)
          <5>1. Used(b)' = Used(b) + BinNet(cs, b, n) /\ Used(b) \in Int
            BY CommitSums, AllocatedType
          <5> HIDE DEF cs, n
          <5>2. QED
            BY <4>8, <5>1
        <4>10. QED
          BY <4>7, <4>9
      <3>6. QED
        BY <3>3, <3>4, <3>5
    <2>2. kind'[s] = "none"
      BY <1>1, EndFacts
    <2>3. SourceValid(s)' /\ UnallocatedValid(s)' /\ CapacityValid(s)'
      BY <2>2 DEF SourceValid, UnallocatedValid, CapacityValid
    <2>4. QED
      BY <2>1, <2>3 DEF ValidInv
  <1>8. QED
    BY <1>2, <1>3, <1>6, <1>7

-----------------------------------------------------------------------------
(* The invariant *)

(* It holds at the start. *)
LEMMA InitBinStockInv ==
    ASSUME Init
    PROVE  BinStockInv
  <1> USE BinStockAssumption DEF Init
  <1>1. TypeOK
    <2>1. /\ changes \in [Sessions -> Seq(Change)] /\ checks \in [Sessions -> Seq(Check)]
          /\ kind \in [Sessions -> Kind]
      BY EmptySeq DEF Kind
    <2>2. /\ stock \in [Products -> Int] /\ loc \in [Rows -> Int] /\ capacity \in [Bins -> Nat]
          /\ audit \in [Rows -> Int] /\ own \in [Sessions -> [Rows -> Int]]
      OBVIOUS
    <2>3. QED
      BY <2>1, <2>2 DEF TypeOK
  <1>2. AuditExplainsBins
    BY DEF AuditExplainsBins
  <1>3. BalancesSound
    <2>1. BinsNonNegative /\ TotalNonNegative
      BY DEF BinsNonNegative, TotalNonNegative
    <2>2. ASSUME NEW p \in Products PROVE Allocated(p) <= stock[p] + taken[p]
      <3>1. Allocated(p) = SumFunctionOnSet([b \in Bins |-> OpeningBins[<<b, p>>]], Bins)
        BY DEF Allocated
      <3>2. SumFunctionOnSet([b \in Bins |-> OpeningBins[<<b, p>>]], Bins) <= OpeningStock[p]
        OBVIOUS
      <3>3. stock[p] = OpeningStock[p] /\ taken[p] = 0 /\ OpeningStock[p] \in Nat
        OBVIOUS
      <3>4. QED
        BY <3>1, <3>2, <3>3
    <2>3. QED
      BY <2>1, <2>2 DEF BalancesSound, AllocatedWithinTotal
  <1>4. ShapeInv
    BY DEF ShapeInv, Shape
  <1>5. LockInv /\ OwnInv
    BY DEF LockInv, OwnInv
  <1>6. NamedInv
    <2>1. \A s \in Sessions : Named(changes[s]) = {}
      BY DEF Named
    <2>2. QED
      BY <2>1 DEF NamedInv
  <1>7. ValidInv
    BY DEF ValidInv, SourceValid, UnallocatedValid, CapacityValid
  <1>8. QED
    BY <1>1, <1>2, <1>3, <1>4, <1>5, <1>6, <1>7 DEF BinStockInv

(* Resting changes nothing. *)
LEMMA StutterStep ==
    ASSUME BinStockInv, UNCHANGED vars
    PROVE  BinStockInv'
  <1>1. UNCHANGED <<stock, loc, capacity, audit, stockHolder, holder, kind, changes, done,
                    checks, total, room, wanted, own, served, taken, crossed>>
    BY DEF vars, tables, locks, request, history
  <1>2. TypeOK' /\ AuditExplainsBins' /\ BalancesSound'
    BY <1>1 DEF BinStockInv, TypeOK, AuditExplainsBins, BalancesSound, BinsNonNegative,
                AllocatedWithinTotal, TotalNonNegative, Allocated
  <1>3. ShapeInv' /\ LockInv' /\ OwnInv' /\ NamedInv'
    BY <1>1 DEF BinStockInv, ShapeInv, LockInv, OwnInv, NamedInv
  <1>4. ValidInv'
    BY <1>1 DEF BinStockInv, ValidInv, SourceValid, UnallocatedValid, CapacityValid,
                First, Last, Bin, Product, Allocated, Used
  <1>5. QED
    BY <1>2, <1>3, <1>4 DEF BinStockInv

(* Every step keeps it. *)
LEMMA StepBinStockInv ==
    ASSUME BinStockInv, [Next]_vars
    PROVE  BinStockInv'
  <1>1. CASE UNCHANGED vars
    BY <1>1, StutterStep
  <1>2. ASSUME NEW s \in Sessions,
               \/ BeginAllocate(s) \/ BeginDeallocate(s) \/ BeginTransfer(s) \/ BeginPick(s)
               \/ ReadTotal(s) \/ CheckUnallocated(s) \/ CheckSource(s) \/ CheckCapacity(s)
               \/ LockStock(s) \/ WriteChange(s) \/ PickUnit(s)
               \/ Commit(s) \/ Rollback(s)
        PROVE  BinStockInv'
    <2>1. CASE BeginAllocate(s) \/ BeginDeallocate(s) \/ BeginTransfer(s) \/ BeginPick(s)
      BY <2>1, BeginsStep
    <2>2. CASE ReadTotal(s)
      BY <2>2, ReadTotalStep
    <2>3. CASE CheckUnallocated(s) \/ CheckSource(s) \/ CheckCapacity(s)
      BY <2>3, ValidateStep
    <2>4. CASE LockStock(s)
      BY <2>4, LockStockStep
    <2>5. CASE WriteChange(s) \/ PickUnit(s)
      BY <2>5, WriteStep
    <2>6. CASE Commit(s)
      BY <2>6, CommitStep
    <2>7. CASE Rollback(s)
      BY <2>7, RollbackStep
    <2>8. QED
      BY <1>2, <2>1, <2>2, <2>3, <2>4, <2>5, <2>6, <2>7
  <1>3. CASE PostMovement
    BY <1>3, PostMovementStep
  <1>4. CASE SetCapacity
    BY <1>4, SetCapacityStep
  <1>5. CASE Quiescent
    BY <1>5, StutterStep DEF Quiescent
  <1>6. QED
    BY <1>1, <1>2, <1>3, <1>4, <1>5 DEF Next

(* The strengthened invariant holds in every reachable state. *)
THEOREM BinStockInvariant == Spec => []BinStockInv
  <1>1. Init => BinStockInv
    BY InitBinStockInv
  <1>2. BinStockInv /\ [Next]_vars => BinStockInv'
    BY StepBinStockInv
  <1>3. QED
    BY <1>1, <1>2, PTL DEF Spec

-----------------------------------------------------------------------------
(* The properties *)

(* Every variable keeps its type. *)
THEOREM BinStockTypeCorrect == Spec => []TypeOK
  <1>1. BinStockInv => TypeOK
    BY DEF BinStockInv
  <1>2. QED
    BY <1>1, BinStockInvariant, PTL

(* The committed location movements and picking allocations account for    *)
(* every bin row, however the requests interleave.                         *)
THEOREM BinsExplained == Spec => []AuditExplainsBins
  <1>1. BinStockInv => AuditExplainsBins
    BY DEF BinStockInv
  <1>2. QED
    BY <1>1, BinStockInvariant, PTL

(* Bins and totals are not negative, and the bins hold no more than the    *)
(* warehouse, up to what crossed requests and manual OUT movements do.     *)
THEOREM BalancesHold == Spec => []BalancesSound
  <1>1. BinStockInv => BalancesSound
    BY DEF BinStockInv
  <1>2. QED
    BY <1>1, BinStockInvariant, PTL

(* Of requests that are no transfers some waits for none of the others: a  *)
(* request that has written its only row waits for nothing; a pick that    *)
(* writes waits only for such a request, because it holds the stock rows   *)
(* of its products; a pick that still locks stock rows waits for a pick    *)
(* with a higher one to lock, or with none left.                           *)
LEMMA NoCircle ==
    ASSUME BinStockInv
    PROVE  OnlyTransfersDeadlock
  <1> SUFFICES ASSUME NEW circle \in SUBSET {s \in Sessions : kind[s] # "transfer"},
                      circle # {}, \A s \in circle : \E t \in circle \ {s} : Blocks(s, t)
               PROVE  FALSE
    BY DEF OnlyTransfersDeadlock
  <1> USE DEF BinStockInv
  <1>1. ASSUME NEW t \in circle
        PROVE  /\ t \in Sessions /\ kind[t] \in {"allocate", "deallocate", "pick"}
               /\ Writing(t) \/ wanted[t] # {}
               /\ kind[t] # "pick" => \A r \in Rows : holder[r] # t
               /\ \A p \in Products : stockHolder[p] = t => kind[t] = "pick"
    <2>1. t \in Sessions /\ Shape(kind[t], changes[t], checks[t], wanted[t]) /\ kind[t] \in Kind
      BY DEF ShapeInv, TypeOK
    <2>2. Writing(t) \/ wanted[t] # {}
      BY DEF Blocks, NextStockLock
    <2>3. kind[t] \in {"allocate", "deallocate", "pick"}
      BY <2>1, <2>2 DEF Kind, Writing, Shape
    <2>4. ASSUME kind[t] # "pick", NEW r \in Rows PROVE holder[r] # t
      <3>1. Writing(t) /\ Len(changes[t]) = 1
        BY <2>1, <2>2, <2>3, <2>4 DEF Shape
      <3>2. done[t] = 0
        BY <2>1, <3>1 DEF Writing, TypeOK
      <3>3. QED
        BY <2>1, <3>2 DEF LockInv
    <2>5. \A p \in Products : stockHolder[p] = t => kind[t] = "pick"
      BY <2>1 DEF LockInv
    <2>6. QED
      BY <2>1, <2>2, <2>3, <2>4, <2>5
  <1>2. ASSUME NEW t \in circle, NEW r \in Rows, holder[r] = t
        PROVE  Writing(t) /\ kind[t] = "pick" /\ stockHolder[r[2]] = t
    <2>1. kind[t] = "pick" /\ t \in Sessions
      BY <1>1, <1>2
    <2>2. PICK i \in 1..done[t] : changes[t][i].row = r
      BY <2>1, <1>2 DEF LockInv
    <2>3. done[t] \in Nat /\ done[t] <= Len(changes[t]) /\ Len(changes[t]) \in Nat
      BY <2>1, LenProperties DEF ShapeInv, TypeOK
    <2>4. wanted[t] = {}
      BY <2>1, <2>2, <2>3 DEF ShapeInv
    <2>5. Writing(t)
      BY <1>1, <2>4
    <2>6. r[2] \in StockRowsOf(changes[t]) /\ r[2] \in Products
      BY <2>2, <2>3 DEF StockRowsOf, Rows
    <2>7. QED
      BY <2>1, <2>4, <2>5, <2>6 DEF LockInv
  <1>3. ASSUME NEW s \in circle PROVE ~ (kind[s] = "pick" /\ Writing(s))
    <2> SUFFICES ASSUME kind[s] = "pick", Writing(s) PROVE FALSE
      OBVIOUS
    <2>1. PICK t \in circle \ {s} : Blocks(s, t)
      OBVIOUS
    <2> DEFINE c == NextChange(s)
    <2>2. holder[c.row] = t
      BY <2>1 DEF Blocks, Writing, NextStockLock
    <2>3. s \in Sessions /\ done[s] + 1 \in 1..Len(changes[s]) /\ changes[s] \in Seq(Change)
      <3>1. s \in Sessions /\ done[s] \in Nat /\ changes[s] \in Seq(Change)
            /\ done[s] < Len(changes[s])
        BY DEF TypeOK, Writing
      <3>2. Len(changes[s]) \in Nat
        BY <3>1, LenProperties
      <3>3. QED
        BY <3>1, <3>2
    <2>4. c.row \in Rows /\ c.row[2] \in StockRowsOf(changes[s]) /\ c.row[2] \in Products
      BY <2>3, ChangeType DEF NextChange, StockRowsOf, Rows
    <2>5. wanted[s] = {}
      BY DEF Writing
    <2>6. stockHolder[c.row[2]] = s
      BY <2>3, <2>4, <2>5 DEF LockInv
    <2>7. stockHolder[c.row[2]] = t
      BY <1>2, <2>2, <2>4
    <2>8. QED
      BY <2>1, <2>6, <2>7
  <1>4. ASSUME NEW t \in circle, NEW r \in Rows PROVE holder[r] # t
    BY <1>2, <1>3
  <1>5. ASSUME NEW s \in circle, NEW t \in circle, Blocks(s, t)
        PROVE  kind[t] = "pick" /\ \E p \in Products : NextStockLock(s, p) /\ stockHolder[p] = t
    <2>1. ~ (Writing(s) /\ holder[NextChange(s).row] = t)
      <3>1. SUFFICES ASSUME Writing(s) PROVE NextChange(s).row \in Rows
        BY <1>4
      <3>2. s \in Sessions /\ done[s] \in Nat /\ changes[s] \in Seq(Change)
            /\ done[s] < Len(changes[s])
        BY <3>1 DEF TypeOK, Writing
      <3>3. done[s] + 1 \in 1..Len(changes[s])
        BY <3>2, LenProperties
      <3>4. QED
        BY <3>2, <3>3, ChangeType DEF NextChange
    <2>2. PICK p \in Products : NextStockLock(s, p) /\ stockHolder[p] = t
      BY <1>5, <2>1 DEF Blocks
    <2>3. QED
      BY <1>1, <2>2
  <1> DEFINE P == {p \in Products : \E s \in circle : NextStockLock(s, p)}
  <1>6. P # {} /\ IsFiniteSet(P) /\ P \subseteq Int
    <2>1. P # {}
      BY <1>5
    <2>2. IsFiniteSet(P)
      BY BinStockAssumption, FS_Subset
    <2>3. P \subseteq Int
      <3>1. Products \subseteq Int /\ P \subseteq Products
        BY BinStockAssumption
      <3> HIDE DEF P
      <3>2. QED
        BY <3>1
    <2>4. QED
      BY <2>1, <2>2, <2>3
  <1>7. PICK m \in P : \A p \in P : m >= p
    <2> HIDE DEF P
    <2>1. QED
      BY <1>6, MaxIn
  <1>8. PICK s \in circle : NextStockLock(s, m)
    OBVIOUS
  <1>9. PICK t \in circle \ {s} : Blocks(s, t)
    OBVIOUS
  <1>10. kind[t] = "pick" /\ stockHolder[m] = t
    <2>1. PICK p \in Products : NextStockLock(s, p) /\ stockHolder[p] = t
      BY <1>5, <1>9
    <2>2. p <= m /\ m <= p /\ p \in Int /\ m \in Int
      BY <1>8, <2>1, BinStockAssumption DEF NextStockLock
    <2>3. QED
      BY <1>5, <1>9, <2>1, <2>2
  <1>11. PICK q \in Products : NextStockLock(t, q)
    <2>1. PICK u \in circle \ {t} : Blocks(t, u)
      OBVIOUS
    <2>2. QED
      BY <1>5, <2>1
  <1>12. m < q
    BY <1>1, <1>10, <1>11 DEF LockInv, NextStockLock
  <1>13. q \in P /\ q \in Int /\ m \in Int
    BY <1>6, <1>11
  <1>14. QED
    BY <1>7, <1>12, <1>13

(* A circle of waiting requests has a transfer in it. *)
THEOREM DeadlockNeedsTransfer == Spec => []OnlyTransfersDeadlock
  <1>1. BinStockInv => OnlyTransfersDeadlock
    BY NoCircle
  <1>2. QED
    BY <1>1, BinStockInvariant, PTL

(* What a commit may do to the bins. *)
LEMMA CommitKeepsBins ==
    ASSUME BinStockInv, NEW s \in Sessions, Commit(s)
    PROVE  (\A t \in Sessions : PickKeepsBins(t)) /\ (\A b \in Bins : FillsWithinCapacity(b))
  <1> DEFINE cs == changes[s]
             n == Len(cs)
  <1>1. /\ End(s) /\ checks[s] = <<>> /\ crossed' = crossed /\ CapacityValid(s)
        /\ \A r \in Rows : loc'[r] = RowFor(s, r)
    BY CommitEffect, EndFacts DEF BinStockInv, ValidInv
  <1>2. ASSUME NEW t \in Sessions PROVE PickKeepsBins(t)
    <2>1. CASE t = s
      BY <1>1, <2>1 DEF PickKeepsBins, RowFor, BinStockInv, OwnInv
    <2>2. CASE t # s
      BY <1>1, <2>2, EndFacts DEF PickKeepsBins
    <2>3. QED
      BY <2>1, <2>2
  <1>3. ASSUME NEW b \in Bins PROVE FillsWithinCapacity(b)
    <2>1. SUFFICES ASSUME b \notin crossed, Used(b)' > Used(b)
                   PROVE  Used(b)' <= capacity[b]
      BY <1>1 DEF FillsWithinCapacity
    <2>2. /\ Used(b)' = Used(b) + BinNet(cs, b, n) /\ Used(b) \in Int
          /\ BinNet(cs, b, n) \in Int
      BY CommitSums, AllocatedType, CommitEffect, NetType
    <2>3. BinNet(cs, b, n) > 0
      <3> HIDE DEF cs, n
      <3>1. QED
        BY <2>1, <2>2
    <2>4. CASE kind[s] = "pick"
      <3>1. BinNet(cs, b, n) <= 0
        BY <2>4, CommitByKind
      <3> HIDE DEF cs, n
      <3>2. QED
        BY <2>2, <2>3, <3>1
    <2>5. CASE kind[s] = "deallocate"
      <3>1. /\ BinNet(cs, b, n) = IF Bin(cs[1]) = b THEN cs[1].by ELSE 0
            /\ cs[1].by \in Int /\ cs[1].by < 0
        BY <2>5, CommitByKind
      <3> HIDE DEF cs, n
      <3>2. QED
        BY <2>2, <2>3, <3>1
    <2>6. CASE kind[s] = "allocate"
      <3>1. /\ BinNet(cs, b, n) = IF Bin(cs[1]) = b THEN cs[1].by ELSE 0
            /\ cs[1].by \in Int /\ Last(s) = cs[1]
        BY <2>6, CommitByKind
      <3>2. Bin(cs[1]) = b => Used(b) + cs[1].by <= capacity[b]
        BY <1>1, <2>1, <2>6, <3>1 DEF CapacityValid
      <3> HIDE DEF cs, n
      <3>3. QED
        BY <2>2, <2>3, <3>1, <3>2
    <2>7. CASE kind[s] = "transfer"
      <3>1. /\ BinNet(cs, b, n) = (IF Bin(cs[1]) = b THEN cs[1].by ELSE 0)
                                  + (IF Bin(cs[2]) = b THEN cs[2].by ELSE 0)
            /\ cs[1].by \in Int /\ cs[1].by < 0 /\ cs[2].by = -cs[1].by
            /\ Bin(cs[1]) # Bin(cs[2]) /\ Last(s) = cs[2]
        BY <2>7, CommitByKind
      <3>2. Bin(cs[2]) = b => Used(b) + cs[2].by <= capacity[b]
        BY <1>1, <2>1, <2>7, <3>1 DEF CapacityValid
      <3> HIDE DEF cs, n
      <3>3. Bin(cs[2]) = b
        BY <2>3, <3>1
      <3>4. BinNet(cs, b, n) = cs[2].by
        BY <3>1, <3>3
      <3>5. QED
        BY <2>2, <3>2, <3>3, <3>4
    <2>8. QED
      BY <2>4, <2>5, <2>6, <2>7, CommitByKind
  <1>4. QED
    BY <1>2, <1>3

(* Only a commit changes the committed bins. *)
LEMMA OnlyCommitsMove ==
    ASSUME BinStockInv, [Next]_vars, ~ \E s \in Sessions : Commit(s)
    PROVE  loc' = loc
  <1>1. CASE UNCHANGED vars \/ Quiescent
    BY <1>1 DEF Quiescent, vars, tables
  <1>2. CASE PostMovement \/ SetCapacity
    BY <1>2 DEF PostMovement, SetCapacity
  <1>3. ASSUME NEW s \in Sessions,
               \/ BeginAllocate(s) \/ BeginDeallocate(s) \/ BeginTransfer(s) \/ BeginPick(s)
               \/ ReadTotal(s) \/ CheckUnallocated(s) \/ CheckSource(s) \/ CheckCapacity(s)
               \/ LockStock(s) \/ WriteChange(s) \/ PickUnit(s) \/ Rollback(s)
        PROVE  loc' = loc
    <2>1. CASE BeginAllocate(s) \/ BeginDeallocate(s) \/ BeginTransfer(s) \/ BeginPick(s)
      <3>1. \A h, cs, ps : Begin(s, h, cs, ps) => loc' = loc
        BY DEF Begin, tables
      <3>2. QED
        BY <2>1, <3>1 DEF BeginAllocate, BeginDeallocate, BeginTransfer, BeginPick
    <2>2. CASE ReadTotal(s) \/ CheckUnallocated(s) \/ CheckSource(s) \/ CheckCapacity(s)
      BY <2>2 DEF ReadTotal, CheckUnallocated, CheckSource, CheckCapacity, Validate, tables
    <2>3. CASE LockStock(s) \/ WriteChange(s) \/ PickUnit(s) \/ Rollback(s)
      BY <2>3 DEF LockStock, WriteChange, PickUnit, Write, Rollback, tables
    <2>4. QED
      BY <1>3, <2>1, <2>2, <2>3
  <1>4. QED
    BY <1>1, <1>2, <1>3 DEF Next

(* A pick keeps bins from going below zero, and a bin that is not named by *)
(* two requests at once is filled within its capacity.                     *)
THEOREM CommitsRespectBins == Spec => CommitsKeepBins
  <1>1. BinStockInv /\ [Next]_vars =>
          (\A s \in Sessions : PickKeepsBins(s)) /\ (\A b \in Bins : FillsWithinCapacity(b))
    <2> SUFFICES ASSUME BinStockInv, [Next]_vars
                 PROVE  /\ \A s \in Sessions : PickKeepsBins(s)
                        /\ \A b \in Bins : FillsWithinCapacity(b)
      OBVIOUS
    <2>1. CASE \E s \in Sessions : Commit(s)
      BY <2>1, CommitKeepsBins
    <2>2. CASE ~ \E s \in Sessions : Commit(s)
      <3>1. loc' = loc
        BY <2>2, OnlyCommitsMove
      <3>2. \A s \in Sessions : PickKeepsBins(s)
        BY <3>1 DEF PickKeepsBins
      <3>3. ASSUME NEW b \in Bins PROVE FillsWithinCapacity(b)
        <4>1. Used(b)' = Used(b) /\ Used(b) \in Int
          BY <3>1, AllocatedType DEF Used
        <4>2. QED
          BY <4>1 DEF FillsWithinCapacity
      <3>4. QED
        BY <3>2, <3>3
    <2>3. QED
      BY <2>1, <2>2
  <1>2. QED
    BY <1>1, BinStockInvariant, PTL DEF Spec, CommitsKeepBins
=============================================================================
