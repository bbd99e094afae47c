--------------------------- MODULE ProductProofs ---------------------------
(* Theorems about StockLedger and, further down, about Catalog: the stock  *)
(* of the products, for every number of sessions, rows and requests, and   *)
(* the catalogue, for every number of clients, items, names and payloads.  *)
EXTENDS StockLedger, Catalog, SequenceTheorems, TLAPS

-----------------------------------------------------------------------------
(* Working data of sessions: one value per session and row *)

(* Assigning a quantity to one entry of seen changes that entry only. *)
LEMMA SeenUpdate ==
    ASSUME TypeOK, NEW s \in Sessions, NEW k \in Keys, NEW v \in Int,
           seen' = [seen EXCEPT ![s][k] = v]
    PROVE  /\ seen' \in [Sessions -> [Keys -> Int]]
           /\ \A t \in Sessions, j \in Keys :
                seen'[t][j] = IF t = s /\ j = k THEN v ELSE seen[t][j]
  <1>1. seen \in [Sessions -> [Keys -> Int]]
    BY DEF TypeOK
  <1>2. QED
    BY <1>1

-----------------------------------------------------------------------------
(* Lists of movements *)

(* A list that explains a step, followed by a movement that starts where   *)
(* it ended, explains the longer step (the insert in adjustStockTx).       *)
LEMMA ExplainsAppend ==
    ASSUME NEW ms \in Seq(Movement), NEW m \in Movement, NEW a \in Int, NEW b \in Int,
           Explains(ms, a, b), m.previousStock = b,
           m.newStock = b + Signed(m), m.newStock >= 0
    PROVE  Explains(Append(ms, m), a, m.newStock)
  <1> DEFINE ns == Append(ms, m)
  <1>1. /\ ns \in Seq(Movement) /\ Len(ns) = Len(ms) + 1 /\ Len(ms) \in Nat
        /\ \A i \in 1..Len(ms) : ns[i] = ms[i]
        /\ ns[Len(ns)] = m /\ ns # <<>>
    BY AppendProperties, LenProperties
  <1> HIDE DEF ns
  <1>2. ns[1].previousStock = a
    <2>1. CASE ms = <<>>
      BY <2>1, <1>1, EmptySeq DEF Explains
    <2>2. CASE ms # <<>>
      <3>1. Len(ms) >= 1
        BY <2>2, <1>1, EmptySeq
      <3>2. QED
        BY <3>1, <2>2, <1>1 DEF Explains
    <2>3. QED
      BY <2>1, <2>2
  <1>3. \A i \in 1..Len(ns) :
          ns[i].newStock = ns[i].previousStock + Signed(ns[i]) /\ ns[i].newStock >= 0
    <2> TAKE i \in 1..Len(ns)
    <2>1. CASE i \in 1..Len(ms)
      BY <2>1, <1>1 DEF Explains
    <2>2. CASE i = Len(ns)
      BY <2>2, <1>1
    <2>3. QED
      BY <2>1, <2>2, <1>1
  <1>4. \A i \in 1..(Len(ns) - 1) : ns[i + 1].previousStock = ns[i].newStock
    <2> TAKE i \in 1..(Len(ns) - 1)
    <2>1. CASE i < Len(ms)
      <3>1. i \in 1..Len(ms) /\ i + 1 \in 1..Len(ms) /\ i \in 1..(Len(ms) - 1)
        BY <2>1, <1>1
      <3>2. QED
        BY <3>1, <1>1 DEF Explains
    <2>2. CASE i = Len(ms)
      <3>1. ms # <<>> /\ i \in 1..Len(ms) /\ i + 1 = Len(ns)
        BY <2>2, <1>1, EmptySeq
      <3>2. QED
        BY <3>1, <2>2, <1>1 DEF Explains
    <2>3. QED
      BY <2>1, <2>2, <1>1
  <1>5. QED
    BY <1>1, <1>2, <1>3, <1>4 DEF Explains, ns

(* An empty history explains an unchanged quantity. *)
LEMMA EmptyExplains ==
    ASSUME NEW a
    PROVE  Explains(<<>>, a, a)
  BY EmptySeq DEF Explains

(* A history followed by the movements of a committing transaction. *)
LEMMA ExplainsConcat ==
    ASSUME NEW ms \in Seq(Movement), NEW ns \in Seq(Movement),
           NEW a \in Int, NEW b \in Int, NEW c \in Int,
           Explains(ms, a, b), Explains(ns, b, c)
    PROVE  Explains(ms \o ns, a, c)
  <1>1. CASE ns = <<>>
    <2>1. ms \o ns = ms /\ b = c
      BY <1>1, ConcatEmptySeq DEF Explains
    <2>2. QED
      BY <2>1
  <1>2. CASE ms = <<>>
    <2>1. ms \o ns = ns /\ a = b
      BY <1>2, ConcatEmptySeq DEF Explains
    <2>2. QED
      BY <2>1
  <1>3. CASE ms # <<>> /\ ns # <<>>
    <2> DEFINE xs == ms \o ns
    <2>1. /\ xs \in Seq(Movement) /\ Len(xs) = Len(ms) + Len(ns)
          /\ Len(ms) \in Nat /\ Len(ns) \in Nat /\ Len(ms) >= 1 /\ Len(ns) >= 1
          /\ \A i \in 1..Len(xs) : xs[i] = IF i <= Len(ms) THEN ms[i] ELSE ns[i - Len(ms)]
      BY <1>3, ConcatProperties, LenProperties, EmptySeq
    <2>2. xs # <<>>
      BY <2>1, EmptySeq
    <2> HIDE DEF xs
    <2>3. \A i \in 1..Len(ms) : xs[i] = ms[i]
      BY <2>1
    <2>4. \A i \in 1..Len(ns) : xs[Len(ms) + i] = ns[i]
      <3> TAKE i \in 1..Len(ns)
      <3>1. Len(ms) + i \in 1..Len(xs) /\ ~(Len(ms) + i <= Len(ms)) /\ (Len(ms) + i) - Len(ms) = i
        BY <2>1
      <3>2. QED
        BY <3>1, <2>1
    <2>5. xs[1].previousStock = a /\ xs[Len(xs)].newStock = c
      <3>1. xs[1] = ms[1] /\ xs[Len(xs)] = ns[Len(ns)]
        <4>1. 1 \in 1..Len(ms) /\ Len(ns) \in 1..Len(ns)
          BY <2>1
        <4>2. QED
          BY <4>1, <2>1, <2>3, <2>4
      <3>2. QED
        BY <3>1, <1>3 DEF Explains
    <2>6. \A i \in 1..Len(xs) :
            xs[i].newStock = xs[i].previousStock + Signed(xs[i]) /\ xs[i].newStock >= 0
      <3> TAKE i \in 1..Len(xs)
      <3>1. CASE i <= Len(ms)
        BY <3>1, <2>3 DEF Explains
      <3>2. CASE i > Len(ms)
        <4>1. i - Len(ms) \in 1..Len(ns) /\ xs[i] = ns[i - Len(ms)]
          BY <3>2, <2>1
        <4>2. QED
          BY <4>1 DEF Explains
      <3>3. QED
        BY <3>1, <3>2, <2>1
    <2>7. \A i \in 1..(Len(xs) - 1) : xs[i + 1].previousStock = xs[i].newStock
      <3> TAKE i \in 1..(Len(xs) - 1)
      <3>1. CASE i < Len(ms)
        <4>1. i \in 1..(Len(ms) - 1) /\ xs[i] = ms[i] /\ xs[i + 1] = ms[i + 1]
          BY <3>1, <2>1, <2>3
        <4>2. QED
          BY <4>1 DEF Explains
      <3>2. CASE i = Len(ms)
        <4>1. xs[i] = ms[Len(ms)] /\ xs[i + 1] = ns[1]
          BY <3>2, <2>1, <2>3, <2>4
        <4>2. QED
          BY <4>1, <1>3 DEF Explains
      <3>3. CASE i > Len(ms)
        <4>1. /\ i - Len(ms) \in 1..(Len(ns) - 1)
              /\ xs[i] = ns[i - Len(ms)] /\ xs[i + 1] = ns[(i - Len(ms)) + 1]
          BY <3>3, <2>1
        <4>2. QED
          BY <4>1 DEF Explains
      <3>4. QED
        BY <3>1, <3>2, <3>3, <2>1
    <2>8. QED
      BY <2>2, <2>5, <2>6, <2>7 DEF Explains, xs
  <1>4. QED
    BY <1>1, <1>2, <1>3

-----------------------------------------------------------------------------
(* Payloads and their lines *)

(* A payload is a non-empty list of lines of one type. *)
LEMMA PayloadLines ==
    ASSUME NEW type \in MovementType, NEW ls \in Payloads(type)
    PROVE  /\ ls \in Seq(Line) /\ ls # <<>> /\ Len(ls) \in Nat /\ Len(ls) >= 1
           /\ \A i \in 1..Len(ls) : ls[i] \in Line /\ ls[i].type = type
  <1>1. PICK n \in 1..MaxLines :
          ls \in [1..n -> [key: Keys, type: {type}, quantity: 1..MaxQty]]
    BY DEF Payloads
  <1>2. n \in Nat /\ n >= 1 /\ 1..MaxQty \subseteq Int
    BY StockLedgerAssumption
  <1>3. [key: Keys, type: {type}, quantity: 1..MaxQty] \subseteq Line
    BY <1>2 DEF Line
  <1>4. ls \in Seq(Line) /\ Len(ls) = n
    BY <1>1, <1>2, <1>3
  <1>5. \A i \in 1..Len(ls) : ls[i].type = type
    BY <1>1, <1>4
  <1>6. QED
    BY <1>1, <1>2, <1>3, <1>4, <1>5, EmptySeq

(* The rows of a payload are stock rows. *)
LEMMA KeysOfLines ==
    ASSUME NEW ls \in Seq(Line)
    PROVE  KeysOf(ls) \subseteq Keys
  <1>1. \A i \in 1..Len(ls) : ls[i].key \in Keys
    <2> TAKE i \in 1..Len(ls)
    <2>1. ls[i] \in Line
      BY ElementOfSeq
    <2>2. QED
      BY <2>1 DEF Line
  <1>2. QED
    BY <1>1 DEF KeysOf

(* The row of each line is one of the rows of the payload. *)
LEMMA LineKeys ==
    ASSUME TypeOK, NEW s \in Sessions
    PROVE  \A i \in 1..Len(lines[s]) : lines[s][i] \in Line /\ lines[s][i].key \in Keys
  <1>1. lines[s] \in Seq(Line)
    BY DEF TypeOK
  <1>2. QED
    <2> TAKE i \in 1..Len(lines[s])
    <2>1. lines[s][i] \in Line
      BY <1>1, ElementOfSeq
    <2>2. QED
      BY <2>1 DEF Line

(* The first of the lines still to write is a line of the payload. *)
LEMMA FirstLine ==
    ASSUME TypeOK, NEW s \in Sessions, lines[s] # <<>>
    PROVE  /\ 1 \in 1..Len(lines[s]) /\ Head(lines[s]) = lines[s][1]
           /\ lines[s][1] \in Line /\ lines[s][1].key \in Keys
  <1>1. lines[s] \in Seq(Line)
    BY DEF TypeOK
  <1>2. 1 \in 1..Len(lines[s]) /\ Head(lines[s]) = lines[s][1]
    BY <1>1, EmptySeq, LenProperties
  <1>3. QED
    BY <1>2, LineKeys

(* What is left of the lines after the first one is written. *)
LEMMA HeadTailLines ==
    ASSUME NEW ls \in Seq(Line), ls # <<>>
    PROVE  /\ Head(ls) = ls[1] /\ Head(ls) \in Line /\ Len(ls) \in Nat /\ Len(ls) >= 1
           /\ Tail(ls) \in Seq(Line) /\ Len(Tail(ls)) = Len(ls) - 1
           /\ \A i \in 1..Len(Tail(ls)) : i + 1 \in 1..Len(ls) /\ Tail(ls)[i] = ls[i + 1]
           /\ Tail(ls) # <<>> => Len(ls) >= 2 /\ Head(Tail(ls)) = ls[2]
                                 /\ Head(Tail(ls)) \in Line
  <1>1. /\ Head(ls) \in Line /\ Tail(ls) \in Seq(Line) /\ Len(Tail(ls)) = Len(ls) - 1
        /\ \A i \in 1..Len(Tail(ls)) : Tail(ls)[i] = ls[i + 1]
    BY HeadTailProperties
  <1>2. Len(ls) \in Nat /\ Len(ls) >= 1 /\ Head(ls) = ls[1]
    BY EmptySeq, LenProperties
  <1>3. ASSUME Tail(ls) # <<>>
        PROVE  Len(ls) >= 2 /\ Head(Tail(ls)) = ls[2] /\ Head(Tail(ls)) \in Line
    <2>1. Len(Tail(ls)) # 0 /\ Len(Tail(ls)) \in Nat
      BY <1>1, <1>3, EmptySeq, LenProperties
    <2>2. Head(Tail(ls)) = Tail(ls)[1]
      BY <1>1, <2>1
    <2>3. Head(Tail(ls)) \in Line
      BY <1>1, <1>3, HeadTailProperties
    <2>4. QED
      BY <1>1, <1>2, <2>1, <2>2, <2>3
  <1>4. QED
    BY <1>1, <1>2, <1>3

-----------------------------------------------------------------------------
(* The inductive invariant *)

(* Between requests a session holds nothing; createSalesOrder writes no    *)
(* line; the lines a pick still has to write are locked or about to be.    *)
SessionInv ==
    \A s \in Sessions :
        /\ kind[s] = "none" =>
             /\ wanted[s] = {}
             /\ \A k \in Keys : own[s][k] = Absent /\ holder[k] # s
        /\ kind[s] \in {"none", "order"} => lines[s] = <<>>
        /\ kind[s] = "adjust" => Len(lines[s]) <= 1
        /\ kind[s] = "pick" =>
             \A i \in 1..Len(lines[s]) :
                /\ lines[s][i].type = "OUT"
                /\ stock[lines[s][i].key] # Absent
                /\ lines[s][i].key \in wanted[s] \/ holder[lines[s][i].key] = s

(* A row is written only under its lock, and the locked quantity a session *)
(* works with is the one in the database.                                  *)
WriteInv ==
    \A s \in Sessions, k \in Keys :
        /\ own[s][k] = Absent <=> draft[s][k] = <<>>
        /\ own[s][k] # Absent => holder[k] = s /\ own[s][k] >= 0
        /\ holder[k] = s => RowFor(s, k) # Absent /\ seen[s][k] = RowFor(s, k)

(* A row that existed from the start is locked by the time it is written.  *)
LockedInv ==
    \A s \in Sessions :
        lines[s] # <<>> /\ Opening[lines[s][1].key] # Absent =>
            lines[s][1].key \in wanted[s] \/ holder[lines[s][1].key] = s

(* Committed and uncommitted movements of a row that existed from the      *)
(* start explain its committed and uncommitted quantity.                   *)
HistoryInv ==
    \A k \in Keys : Opening[k] # Absent =>
        /\ stock[k] # Absent
        /\ Explains(ledger[k], Opening[k], stock[k])
        /\ \A s \in Sessions : holder[k] = s => Explains(draft[s][k], stock[k], seen[s][k])

(* Locks are taken from the lowest row upwards. *)
OrderInv ==
    \A s \in Sessions :
        /\ \A j \in wanted[s], k \in Keys : holder[k] = s => k <= j
        /\ kind[s] \in {"adjust", "receive"} =>
             /\ InLockOrder(lines[s])
             /\ \A j \in wanted[s] : lines[s] # <<>> /\ j = lines[s][1].key
             /\ \A i \in 1..Len(lines[s]), k \in Keys : holder[k] = s => k <= lines[s][i].key

(* The inductive strengthening: the properties and what each session holds. *)
LedgerInv ==
    /\ TypeOK /\ StockNeverNegative
    /\ SessionInv /\ WriteInv /\ LockedInv /\ HistoryInv /\ OrderInv

-----------------------------------------------------------------------------
(* Type correctness *)

(* Reading a row gives what the transaction wrote, or the committed value. *)
LEMMA RowForType ==
    ASSUME TypeOK, NEW s \in Sessions, NEW k \in Keys
    PROVE  RowFor(s, k) \in Int \union {Absent}
  BY DEF TypeOK, RowFor

(* A movement or a line has an integer effect on the quantity. *)
LEMMA SignedType ==
    ASSUME NEW l \in Line
    PROVE  Signed(l) \in Int
  BY DEF Line, Signed

(* Accepting a request keeps the variables typed. *)
LEMMA BeginType ==
    ASSUME TypeOK, NEW s \in Sessions, NEW handler \in Kind, NEW locks \in SUBSET Keys,
           NEW ls \in Seq(Line), Begin(s, handler, locks, ls)
    PROVE  TypeOK'
  BY DEF TypeOK, Begin, rows

(* Ending a transaction keeps the working data typed. *)
LEMMA EndType ==
    ASSUME TypeOK, NEW s \in Sessions, End(s), UNCHANGED rows
    PROVE  TypeOK'
  BY EmptySeq DEF TypeOK, End, rows, Kind

(* A pick writes only rows it holds, so its decrement finds a quantity. *)
LEMMA PickRow ==
    ASSUME TypeOK, SessionInv, WriteInv, NEW s \in Sessions, Writing(s), kind[s] = "pick"
    PROVE  LET k == Head(lines[s]).key
           IN  holder[k] = s /\ RowFor(s, k) \in Int /\ seen[s][k] = RowFor(s, k)
               /\ Head(lines[s]).type = "OUT"
  <1>1. lines[s] \in Seq(Line) /\ lines[s] # <<>> /\ wanted[s] = {}
    BY DEF TypeOK, Writing
  <1>2. Head(lines[s]) = lines[s][1] /\ 1 \in 1..Len(lines[s]) /\ Head(lines[s]) \in Line
    BY <1>1, HeadTailLines
  <1>3. holder[Head(lines[s]).key] = s /\ Head(lines[s]).type = "OUT"
    BY <1>1, <1>2 DEF SessionInv
  <1>4. QED
    BY <1>2, <1>3, RowForType DEF WriteInv, Line

(* Every step keeps the variables typed. *)
LEMMA TypeStep == TypeOK /\ SessionInv /\ WriteInv /\ [Next]_vars => TypeOK'
  <1> SUFFICES ASSUME TypeOK, SessionInv, WriteInv, [Next]_vars PROVE TypeOK'
    OBVIOUS
  <1>1. ASSUME NEW s \in Sessions, BeginAdjust(s) PROVE TypeOK'
    <2>1. PICK l \in [key: Keys, type: MovementType, quantity: -MaxQty..MaxQty] :
            Begin(s, "adjust", {l.key}, <<l>>)
      BY <1>1 DEF BeginAdjust
    <2>2. l \in Line /\ {l.key} \in SUBSET Keys
      BY StockLedgerAssumption DEF Line
    <2>3. <<l>> \in Seq(Line)
      BY <2>2
    <2>4. QED
      BY <2>1, <2>2, <2>3, BeginType DEF Kind
  <1>2. ASSUME NEW s \in Sessions, BeginReceive(s) PROVE TypeOK'
    <2>1. PICK ls \in Payloads("IN") : Begin(s, "receive", {ls[1].key}, ls)
      BY <1>2 DEF BeginReceive
    <2>2. ls \in Seq(Line) /\ 1 \in 1..Len(ls) /\ ls[1] \in Line
      BY PayloadLines DEF MovementType
    <2>3. {ls[1].key} \in SUBSET Keys
      BY <2>2 DEF Line
    <2>4. QED
      BY <2>1, <2>2, <2>3, BeginType DEF Kind
  <1>3. ASSUME NEW s \in Sessions, BeginPick(s) PROVE TypeOK'
    <2>1. PICK ls \in Payloads("OUT") : Begin(s, "pick", KeysOf(ls), ls)
      BY <1>3 DEF BeginPick
    <2>2. ls \in Seq(Line) /\ KeysOf(ls) \in SUBSET Keys
      BY PayloadLines, KeysOfLines DEF MovementType
    <2>3. QED
      BY <2>1, <2>2, BeginType DEF Kind
  <1>4. ASSUME NEW s \in Sessions, BeginOrder(s) PROVE TypeOK'
    <2>1. PICK ks \in SUBSET Keys : Begin(s, "order", ks, <<>>)
      BY <1>4 DEF BeginOrder
    <2>2. <<>> \in Seq(Line)
      BY EmptySeq
    <2>3. QED
      BY <2>1, <2>2, BeginType DEF Kind
  <1>5. ASSUME NEW s \in Sessions, LockRow(s) PROVE TypeOK'
    <2>1. PICK k \in Keys :
            /\ \/ RowFor(s, k) # Absent /\ holder' = [holder EXCEPT ![k] = s]
                  /\ seen' = [seen EXCEPT ![s][k] = RowFor(s, k)]
               \/ UNCHANGED holder /\ seen' = [seen EXCEPT ![s][k] = 0]
            /\ wanted' = [wanted EXCEPT ![s] = @ \ {k}]
            /\ UNCHANGED <<rows, kind, lines, own, draft, served>>
      BY <1>5 DEF LockRow
    <2>2. RowFor(s, k) # Absent => RowFor(s, k) \in Int
      BY RowForType
    <2>3. seen' \in [Sessions -> [Keys -> Int]] /\ holder' \in [Keys -> Sessions \union {NoSession}]
      <3>1. PICK v \in Int : seen' = [seen EXCEPT ![s][k] = v]
        BY <2>1, <2>2
      <3>2. seen' \in [Sessions -> [Keys -> Int]]
        BY <3>1, SeenUpdate
      <3>3. holder' \in [Keys -> Sessions \union {NoSession}]
        BY <2>1 DEF TypeOK
      <3>4. QED
        BY <3>2, <3>3
    <2>4. wanted' \in [Sessions -> SUBSET Keys]
      BY <2>1 DEF TypeOK
    <2>5. QED
      BY <2>1, <2>3, <2>4 DEF TypeOK, rows
  <1>6. ASSUME NEW s \in Sessions, WriteLine(s) PROVE TypeOK'
    <2> DEFINE l == Head(lines[s])
               m == [type |-> l.type, quantity |-> l.quantity,
                     previousStock |-> seen[s][l.key], newStock |-> NewStock(s)]
    <2>1. lines[s] \in Seq(Line) /\ lines[s] # <<>>
      BY <1>6 DEF TypeOK, WriteLine, Writing
    <2>2. l \in Line /\ Tail(lines[s]) \in Seq(Line)
      BY <2>1, HeadTailLines
    <2>3. NewStock(s) \in Int /\ seen[s][l.key] \in Int
      BY <2>2, SignedType DEF NewStock, TypeOK, Line
    <2>4. m \in Movement
      BY <2>2, <2>3 DEF Movement, Line
    <2>5. draft' \in [Sessions -> [Keys -> Seq(Movement)]]
      <3>1. draft' = [draft EXCEPT ![s][l.key] = Append(@, m)]
        BY <1>6 DEF WriteLine
      <3>2. draft[s][l.key] \in Seq(Movement)
        BY <2>2 DEF TypeOK, Line
      <3>3. Append(draft[s][l.key], m) \in Seq(Movement)
        BY <2>4, <3>2, AppendProperties
      <3>4. QED
        BY <3>1, <3>3, <2>2 DEF TypeOK, Line
    <2>6. own' \in [Sessions -> [Keys -> Int \union {Absent}]]
      <3>1. kind[s] = "pick" => RowFor(s, l.key) - l.quantity \in Int
        BY <1>6, <2>2, PickRow DEF Line, WriteLine
      <3>2. QED
        BY <1>6, <2>2, <2>3, <3>1 DEF TypeOK, WriteLine, Line
    <2>7. wanted' \in [Sessions -> SUBSET Keys]
      <3>1. LocksBefore(kind[s], Tail(lines[s])) \in SUBSET Keys
        BY <2>1, HeadTailLines DEF LocksBefore, Line
      <3>2. QED
        BY <1>6, <3>1 DEF TypeOK, WriteLine
    <2>8. holder' \in [Keys -> Sessions \union {NoSession}]
      BY <1>6, <2>2 DEF TypeOK, WriteLine, Line
    <2>9. seen' \in [Sessions -> [Keys -> Int]]
      BY <1>6, <2>2, <2>3 DEF TypeOK, WriteLine, Line
    <2>10. lines' \in [Sessions -> Seq(Line)]
      BY <1>6, <2>2 DEF TypeOK, WriteLine
    <2>11. QED
      BY <1>6, <2>5, <2>6, <2>7, <2>8, <2>9, <2>10 DEF TypeOK, WriteLine, rows
  <1>7. ASSUME NEW s \in Sessions, Refuse(s) PROVE TypeOK'
    BY <1>7, EndType DEF Refuse
  <1>8. ASSUME NEW s \in Sessions, Commit(s) PROVE TypeOK'
    <2>1. stock' \in [Keys -> Int \union {Absent}]
      BY <1>8, RowForType DEF Commit
    <2>2. \A k \in Keys : ledger[k] \o draft[s][k] \in Seq(Movement)
      BY ConcatProperties DEF TypeOK
    <2>3. ledger' \in [Keys -> Seq(Movement)]
      BY <1>8, <2>2 DEF Commit
    <2>4. QED
      BY <1>8, <2>1, <2>3, EmptySeq DEF TypeOK, Commit, End, Kind
  <1>9. ASSUME NEW s \in Sessions, Rollback(s) PROVE TypeOK'
    BY <1>9, EndType DEF Rollback
  <1>10. CASE UNCHANGED vars
    BY <1>10 DEF TypeOK, vars, rows
  <1>11. QED
    BY <1>1, <1>2, <1>3, <1>4, <1>5, <1>6, <1>7, <1>8, <1>9, <1>10 DEF Next, Quiescent

-----------------------------------------------------------------------------
(* A request begins *)

(* A new request finds the rows as they are; its lines and locks are the   *)
(* ones its handler chose.                                                 *)
LEMMA BeginStep ==
    ASSUME LedgerInv, NEW s \in Sessions, NEW handler \in Kind \ {"none"},
           NEW locks \in SUBSET Keys, NEW ls \in Seq(Line), Begin(s, handler, locks, ls),
           handler = "order" => ls = <<>>,
           handler = "adjust" => Len(ls) <= 1,
           handler = "pick" => \A i \in 1..Len(ls) :
               ls[i].type = "OUT" /\ stock[ls[i].key] # Absent /\ ls[i].key \in locks,
           handler \in {"adjust", "receive"} =>
               InLockOrder(ls) /\ ls # <<>> /\ locks = {ls[1].key}
    PROVE  LedgerInv'
  <1>1. TypeOK'
    BY BeginType DEF LedgerInv
  <1>2. /\ UNCHANGED <<stock, ledger, holder, seen, own, draft>>
        /\ kind[s] = "none"
        /\ \A t \in Sessions : kind'[t] = IF t = s THEN handler ELSE kind[t]
        /\ \A t \in Sessions : wanted'[t] = IF t = s THEN locks ELSE wanted[t]
        /\ \A t \in Sessions : lines'[t] = IF t = s THEN ls ELSE lines[t]
    BY DEF LedgerInv, TypeOK, Begin, rows
  <1>3. \A k \in Keys : holder[k] # s /\ own[s][k] = Absent
    BY <1>2 DEF LedgerInv, SessionInv
  <1>4. StockNeverNegative' /\ HistoryInv'
    BY <1>2 DEF LedgerInv, StockNeverNegative, HistoryInv
  <1>5. WriteInv'
    BY <1>2 DEF LedgerInv, WriteInv, RowFor
  <1>6. SessionInv'
    <2> SUFFICES ASSUME NEW t \in Sessions
                 PROVE  SessionInv!(t)'
      BY DEF SessionInv
    <2>1. CASE t = s
      BY <2>1, <1>2
    <2>2. CASE t # s
      BY <2>2, <1>2 DEF LedgerInv, SessionInv
    <2>3. QED
      BY <2>1, <2>2
  <1>7. LockedInv'
    <2> SUFFICES ASSUME NEW t \in Sessions
                 PROVE  LockedInv!(t)'
      BY DEF LockedInv
    <2>1. CASE t = s
      BY <2>1, <1>2, EmptySeq, LenProperties DEF Kind
    <2>2. CASE t # s
      BY <2>2, <1>2 DEF LedgerInv, LockedInv
    <2>3. QED
      BY <2>1, <2>2
  <1>8. OrderInv'
    <2> SUFFICES ASSUME NEW t \in Sessions
                 PROVE  OrderInv!(t)'
      BY DEF OrderInv
    <2>1. CASE t = s
      BY <2>1, <1>2, <1>3
    <2>2. CASE t # s
      BY <2>2, <1>2 DEF LedgerInv, OrderInv
    <2>3. QED
      BY <2>1, <2>2
  <1>9. QED
    BY <1>1, <1>4, <1>5, <1>6, <1>7, <1>8 DEF LedgerInv

-----------------------------------------------------------------------------
(* A row is locked *)

(* After SELECT ... FOR UPDATE the session works with the quantity that is *)
(* in the row and nobody else can change it.                               *)
LEMMA LockRowStep ==
    ASSUME LedgerInv, NEW s \in Sessions, LockRow(s), TypeOK'
    PROVE  LedgerInv'
  <1> USE DEF LedgerInv
  <1>1. PICK k \in Keys :
          /\ NextLock(s, k)
          /\ \/ RowFor(s, k) # Absent /\ Free(s, k)
                /\ holder' = [holder EXCEPT ![k] = s]
                /\ seen' = [seen EXCEPT ![s][k] = RowFor(s, k)]
             \/ RowFor(s, k) = Absent /\ UNCHANGED holder
                /\ seen' = [seen EXCEPT ![s][k] = 0]
          /\ wanted' = [wanted EXCEPT ![s] = @ \ {k}]
          /\ UNCHANGED <<rows, kind, lines, own, draft, served>>
    BY DEF LockRow
  <1>2. /\ UNCHANGED <<stock, ledger, kind, lines, own, draft>>
        /\ \A t \in Sessions : wanted'[t] = IF t = s THEN wanted[s] \ {k} ELSE wanted[t]
        /\ k \in wanted[s] /\ \A j \in wanted[s] : k <= j
    BY <1>1 DEF TypeOK, rows, NextLock
  <1>3. \A t \in Sessions, j \in Keys : RowFor(t, j)' = RowFor(t, j)
    BY <1>2 DEF RowFor
  <1>4. kind[s] # "none"
    BY <1>2 DEF SessionInv
  <1>5. CASE RowFor(s, k) # Absent
    <2>1. /\ \A j \in Keys : holder'[j] = IF j = k THEN s ELSE holder[j]
          /\ \A t \in Sessions, j \in Keys :
               seen'[t][j] = IF t = s /\ j = k THEN RowFor(s, k) ELSE seen[t][j]
          /\ holder[k] \in {NoSession, s}
      <3>1. seen' = [seen EXCEPT ![s][k] = RowFor(s, k)] /\ RowFor(s, k) \in Int
        BY <1>1, <1>5, RowForType
      <3>2. \A t \in Sessions, j \in Keys :
               seen'[t][j] = IF t = s /\ j = k THEN RowFor(s, k) ELSE seen[t][j]
        BY <3>1, SeenUpdate
      <3>3. QED
        BY <1>1, <1>5, <3>2 DEF TypeOK, Free
    <2>2. StockNeverNegative'
      BY <1>2 DEF StockNeverNegative
    <2>3. SessionInv'
      <3> SUFFICES ASSUME NEW t \in Sessions
                   PROVE  SessionInv!(t)'
        BY DEF SessionInv
      <3>1. CASE t = s
        <4>1. \A i \in 1..Len(lines[s]) : lines[s][i].key \in Keys
          BY LineKeys
        <4>2. QED
          BY <3>1, <4>1, <1>2, <1>4, <2>1 DEF SessionInv
      <3>2. CASE t # s
        <4>1. \A i \in 1..Len(lines[t]) : lines[t][i].key \in Keys
          BY LineKeys
        <4>2. \A j \in Keys : holder'[j] = t <=> holder[j] = t
          BY <3>2, <2>1, StockLedgerAssumption
        <4>3. QED
          BY <3>2, <4>1, <4>2, <1>2 DEF SessionInv
      <3>3. QED
        BY <3>1, <3>2
    <2>4. WriteInv'
      BY <1>2, <1>3, <1>5, <2>1, StockLedgerAssumption DEF WriteInv
    <2>5. LockedInv'
      <3> SUFFICES ASSUME NEW t \in Sessions, lines[t] # <<>>
                   PROVE  LockedInv!(t)'
        BY <1>2 DEF LockedInv
      <3>1. lines[t][1].key \in Keys
        BY FirstLine
      <3>2. CASE t = s
        BY <3>1, <3>2, <1>2, <2>1 DEF LockedInv
      <3>3. CASE t # s
        <4>1. \A j \in Keys : holder'[j] = t <=> holder[j] = t
          BY <3>3, <2>1, StockLedgerAssumption
        <4>2. QED
          BY <3>1, <3>3, <4>1, <1>2 DEF LockedInv
      <3>4. QED
        BY <3>2, <3>3
    <2>6. HistoryInv'
      <3> SUFFICES ASSUME NEW j \in Keys, Opening[j] # Absent,
                          NEW t \in Sessions, holder'[j] = t
                   PROVE  Explains(draft[t][j], stock[j], seen'[t][j])
        BY <1>2 DEF HistoryInv
      <3>1. CASE j = k /\ t = s /\ own[s][k] = Absent
        <4>1. draft[s][k] = <<>> /\ seen'[s][k] = stock[k]
          BY <3>1, <2>1 DEF WriteInv, RowFor
        <4>2. QED
          BY <3>1, <4>1, EmptyExplains
      <3>2. CASE j = k /\ t = s /\ own[s][k] # Absent
        <4>1. holder[k] = s /\ seen'[s][k] = seen[s][k]
          BY <3>2, <2>1 DEF WriteInv
        <4>2. QED
          BY <3>2, <4>1 DEF HistoryInv
      <3>3. CASE ~(j = k /\ t = s)
        <4>1. holder[j] = t /\ seen'[t][j] = seen[t][j]
          BY <3>3, <2>1
        <4>2. QED
          BY <4>1 DEF HistoryInv
      <3>4. QED
        BY <3>1, <3>2, <3>3
    <2>7. OrderInv'
      <3> SUFFICES ASSUME NEW t \in Sessions
                   PROVE  OrderInv!(t)'
        BY DEF OrderInv
      <3>1. CASE t = s
        <4>1. \A j \in wanted'[s], i \in Keys : holder'[i] = s => i <= j
          BY <1>2, <2>1 DEF OrderInv
        <4>2. ASSUME kind[s] \in {"adjust", "receive"}
              PROVE  /\ InLockOrder(lines[s])
                     /\ \A j \in wanted'[s] : lines[s] # <<>> /\ j = lines[s][1].key
                     /\ \A i \in 1..Len(lines[s]), j \in Keys :
                          holder'[j] = s => j <= lines[s][i].key
          <5>1. /\ InLockOrder(lines[s]) /\ lines[s] # <<>> /\ k = lines[s][1].key
                /\ \A j \in wanted[s] : j = lines[s][1].key
            BY <4>2, <1>2 DEF OrderInv
          <5>2. \A i \in 1..Len(lines[s]) : k <= lines[s][i].key
            <6> TAKE i \in 1..Len(lines[s])
            <6>1. i = 1 \/ (1 < i /\ 1 \in 1..Len(lines[s]))
              OBVIOUS
            <6>2. QED
              BY <5>1, <6>1, StockLedgerAssumption DEF InLockOrder
          <5>3. QED
            BY <4>2, <5>1, <5>2, <1>2, <2>1 DEF OrderInv
        <4>3. QED
          BY <3>1, <4>1, <4>2, <1>2
      <3>2. CASE t # s
        <4>1. \A j \in Keys : holder'[j] = t => holder[j] = t
          BY <3>2, <2>1
        <4>2. QED
          BY <3>2, <4>1, <1>2 DEF OrderInv
      <3>3. QED
        BY <3>1, <3>2
    <2>8. QED
      BY <2>2, <2>3, <2>4, <2>5, <2>6, <2>7
  <1>6. CASE RowFor(s, k) = Absent
    <2>1. /\ UNCHANGED holder
          /\ \A t \in Sessions, j \in Keys :
               seen'[t][j] = IF t = s /\ j = k THEN 0 ELSE seen[t][j]
      BY <1>1, <1>6, SeenUpdate
    <2>2. holder[k] # s /\ stock[k] = Absent
      BY <1>6, <1>1 DEF WriteInv, RowFor
    <2>3. StockNeverNegative'
      BY <1>2 DEF StockNeverNegative
    <2>4. SessionInv'
      <3> SUFFICES ASSUME NEW t \in Sessions
                   PROVE  SessionInv!(t)'
        BY DEF SessionInv
      <3>1. CASE t = s
        BY <3>1, <1>2, <1>4, <2>1, <2>2 DEF SessionInv
      <3>2. CASE t # s
        BY <3>2, <1>2, <2>1 DEF SessionInv
      <3>3. QED
        BY <3>1, <3>2
    <2>5. WriteInv'
      BY <1>2, <1>3, <2>1, <2>2 DEF WriteInv
    <2>6. LockedInv'
      <3>1. Opening[k] = Absent
        BY <2>2, <1>1 DEF HistoryInv
      <3>2. QED
        BY <3>1, <1>2, <2>1 DEF LockedInv
    <2>7. HistoryInv'
      BY <1>2, <2>1, <2>2 DEF HistoryInv
    <2>8. OrderInv'
      BY <1>2, <2>1 DEF OrderInv
    <2>9. QED
      BY <2>3, <2>4, <2>5, <2>6, <2>7, <2>8
  <1>7. QED
    BY <1>5, <1>6

-----------------------------------------------------------------------------
(* A line is written *)

(* The row of the line that is written next. *)
LineKey(s) == Head(lines[s]).key

(* The quantity written is the one the movement records: the row is the    *)
(* session's, or is being created with it.                                 *)
LEMMA WriteLineFacts ==
    ASSUME LedgerInv, NEW s \in Sessions, WriteLine(s), TypeOK'
    PROVE  /\ LineKey(s) \in Keys /\ lines[s] # <<>> /\ LineKey(s) = lines[s][1].key
           /\ wanted[s] = {} /\ kind[s] # "none" /\ kind[s] # "order"
           /\ holder[LineKey(s)] \in {NoSession, s}
           /\ NewStock(s) \in Int /\ NewStock(s) >= 0
           /\ UNCHANGED <<stock, ledger, kind, served>>
           /\ \A j \in Keys : holder'[j] = IF j = LineKey(s) THEN s ELSE holder[j]
           /\ \A t \in Sessions, j \in Keys :
                /\ seen'[t][j] = IF t = s /\ j = LineKey(s) THEN NewStock(s) ELSE seen[t][j]
                /\ own'[t][j] = IF t = s /\ j = LineKey(s) THEN NewStock(s) ELSE own[t][j]
                /\ t # s \/ j # LineKey(s) => draft'[t][j] = draft[t][j]
           /\ draft'[s][LineKey(s)] # <<>>
           /\ holder[LineKey(s)] = s /\ Opening[LineKey(s)] # Absent =>
                Explains(draft'[s][LineKey(s)], stock[LineKey(s)], NewStock(s))
           /\ \A t \in Sessions : lines'[t] = IF t = s THEN Tail(lines[s]) ELSE lines[t]
           /\ \A t \in Sessions : wanted'[t] =
                IF t = s THEN LocksBefore(kind[s], Tail(lines[s])) ELSE wanted[t]
  <1> DEFINE l == Head(lines[s])
             k == LineKey(s)
             m == [type |-> l.type, quantity |-> l.quantity,
                   previousStock |-> seen[s][k], newStock |-> NewStock(s)]
  <1> USE DEF LedgerInv
  <1>0. k = l.key
    BY DEF LineKey
  <1> HIDE DEF k
  <1> DEFINE written == IF kind[s] = "pick" THEN RowFor(s, k) - l.quantity ELSE NewStock(s)
  <1>a. /\ Writing(s) /\ Covers(s) /\ Free(s, k)
        /\ holder' = [holder EXCEPT ![k] = s]
        /\ own' = [own EXCEPT ![s][k] = written]
        /\ draft' = [draft EXCEPT ![s][k] = Append(@, m)]
        /\ seen' = [seen EXCEPT ![s][k] = NewStock(s)]
        /\ lines' = [lines EXCEPT ![s] = Tail(@)]
        /\ wanted' = [wanted EXCEPT ![s] = LocksBefore(kind[s], Tail(lines[s]))]
        /\ UNCHANGED <<rows, kind, served>>
    BY <1>0 DEF WriteLine
  <1>1. /\ l \in Line /\ k \in Keys /\ lines[s] # <<>> /\ l = lines[s][1]
        /\ wanted[s] = {} /\ holder[k] \in {NoSession, s}
    BY <1>0, <1>a, FirstLine DEF Writing, Free
  <1>2. kind[s] # "none" /\ kind[s] # "order"
    BY <1>1 DEF SessionInv
  <1>3. NewStock(s) \in Int /\ NewStock(s) >= 0 /\ seen[s][k] \in Int
    <2>1. seen[s][k] \in Int /\ Signed(l) \in Int
      BY <1>1, SignedType DEF TypeOK
    <2>2. NewStock(s) = seen[s][k] + Signed(l) /\ NewStock(s) >= 0
      BY <1>0, <1>a DEF NewStock, Covers
    <2>3. QED
      BY <2>1, <2>2
  <1>4. UNCHANGED <<stock, ledger, kind, served>>
    BY <1>a DEF rows
  <1>5. \A j \in Keys : holder'[j] = IF j = k THEN s ELSE holder[j]
    BY <1>1, <1>a DEF TypeOK
  <1>6. \A t \in Sessions, j \in Keys :
           seen'[t][j] = IF t = s /\ j = k THEN NewStock(s) ELSE seen[t][j]
    BY <1>1, <1>3, <1>a, SeenUpdate
  <1>7. \A t \in Sessions, j \in Keys :
           own'[t][j] = IF t = s /\ j = k THEN NewStock(s) ELSE own[t][j]
    <2>1. written = NewStock(s)
      <3>1. CASE kind[s] = "pick"
        <4>1. seen[s][k] = RowFor(s, k) /\ l.type = "OUT"
          BY <1>0, <3>1, PickRow DEF WriteLine
        <4>2. QED
          BY <3>1, <4>1, <1>0, <1>1, <1>3 DEF NewStock, Signed, Line
      <3>2. QED
        BY <3>1
    <2>2. own' = [own EXCEPT ![s][k] = NewStock(s)]
      BY <2>1, <1>a
    <2>3. own \in [Sessions -> [Keys -> Int \union {Absent}]]
      BY DEF TypeOK
    <2>4. QED
      BY <2>2, <2>3, <1>1
  <1>8. draft' = [draft EXCEPT ![s][k] = Append(draft[s][k], m)]
    BY <1>a
  <1>9. /\ draft'[s][k] = Append(draft[s][k], m)
        /\ \A t \in Sessions, j \in Keys : t # s \/ j # k => draft'[t][j] = draft[t][j]
    <2>1. draft \in [Sessions -> [Keys -> Seq(Movement)]]
      BY DEF TypeOK
    <2>2. QED
      BY <2>1, <1>1, <1>8
  <1>10. m \in Movement /\ draft[s][k] \in Seq(Movement)
    BY <1>1, <1>3 DEF TypeOK, Line, Movement
  <1>11. draft'[s][k] # <<>>
    BY <1>9, <1>10, AppendProperties, EmptySeq, LenProperties
  <1>12. ASSUME holder[k] = s, Opening[k] # Absent
         PROVE  Explains(draft'[s][k], stock[k], NewStock(s))
    <2>1. Explains(draft[s][k], stock[k], seen[s][k]) /\ stock[k] \in Int
      BY <1>1, <1>12 DEF HistoryInv, TypeOK
    <2>2. /\ m.previousStock = seen[s][k] /\ m.newStock = NewStock(s)
          /\ m.newStock = seen[s][k] + Signed(m)
      BY <1>0 DEF NewStock, Signed
    <2>3. Explains(Append(draft[s][k], m), stock[k], m.newStock)
      BY <1>3, <1>10, <2>1, <2>2, ExplainsAppend
    <2>4. QED
      BY <2>2, <2>3, <1>9
  <1>13. /\ \A t \in Sessions : lines'[t] = IF t = s THEN Tail(lines[s]) ELSE lines[t]
         /\ \A t \in Sessions : wanted'[t] =
              IF t = s THEN LocksBefore(kind[s], Tail(lines[s])) ELSE wanted[t]
    BY <1>a DEF TypeOK
  <1>14. k = lines[s][1].key
    BY <1>0, <1>1
  <1>15. \A t \in Sessions, j \in Keys :
           /\ seen'[t][j] = IF t = s /\ j = k THEN NewStock(s) ELSE seen[t][j]
           /\ own'[t][j] = IF t = s /\ j = k THEN NewStock(s) ELSE own[t][j]
           /\ t # s \/ j # k => draft'[t][j] = draft[t][j]
    BY <1>6, <1>7, <1>9
  <1> HIDE DEF l, m, written, LedgerInv
  <1>16. QED
    BY <1>1, <1>2, <1>3, <1>4, <1>5, <1>11, <1>12, <1>13, <1>14, <1>15 DEF k

(* Writing a line keeps the strengthening: quantity and movements change together. *)
LEMMA WriteLineStep ==
    ASSUME LedgerInv, NEW s \in Sessions, WriteLine(s), TypeOK'
    PROVE  LedgerInv'
  <1> DEFINE k == LineKey(s)
             rest == Tail(lines[s])
  <1> USE DEF LedgerInv
  <1>1. /\ k \in Keys /\ lines[s] # <<>> /\ k = lines[s][1].key
        /\ wanted[s] = {} /\ kind[s] # "none" /\ kind[s] # "order"
        /\ holder[k] \in {NoSession, s}
        /\ NewStock(s) \in Int /\ NewStock(s) >= 0
        /\ UNCHANGED <<stock, ledger, kind, served>>
        /\ \A j \in Keys : holder'[j] = IF j = k THEN s ELSE holder[j]
        /\ \A t \in Sessions, j \in Keys :
             /\ seen'[t][j] = IF t = s /\ j = k THEN NewStock(s) ELSE seen[t][j]
             /\ own'[t][j] = IF t = s /\ j = k THEN NewStock(s) ELSE own[t][j]
             /\ t # s \/ j # k => draft'[t][j] = draft[t][j]
        /\ draft'[s][k] # <<>>
        /\ holder[k] = s /\ Opening[k] # Absent => Explains(draft'[s][k], stock[k], NewStock(s))
        /\ \A t \in Sessions : lines'[t] = IF t = s THEN rest ELSE lines[t]
        /\ \A t \in Sessions : wanted'[t] =
             IF t = s THEN LocksBefore(kind[s], rest) ELSE wanted[t]
    BY WriteLineFacts
  <1>2. /\ Len(lines[s]) \in Nat /\ Len(lines[s]) >= 1 /\ Len(rest) = Len(lines[s]) - 1
        /\ \A i \in 1..Len(rest) : i + 1 \in 1..Len(lines[s]) /\ rest[i] = lines[s][i + 1]
        /\ rest # <<>> => Len(lines[s]) >= 2 /\ Head(rest) = lines[s][2]
                          /\ Head(rest) = rest[1]
        /\ rest \in Seq(Line)
    <2>1. lines[s] \in Seq(Line)
      BY DEF TypeOK
    <2>2. QED
      BY <1>1, <2>1, HeadTailLines
  <1>3. \A t \in Sessions : t # s => \A j \in Keys :
          /\ holder'[j] = t <=> holder[j] = t
          /\ RowFor(t, j)' = RowFor(t, j)
    BY <1>1, StockLedgerAssumption DEF RowFor
  <1>4. \A t \in Sessions : \A i \in 1..Len(lines[t]) : lines[t][i].key \in Keys
    BY LineKeys
  <1> HIDE DEF k, rest
  <1>5. StockNeverNegative'
    BY <1>1 DEF StockNeverNegative
  <1>6. SessionInv'
    <2> SUFFICES ASSUME NEW t \in Sessions
                 PROVE  SessionInv!(t)'
      BY DEF SessionInv
    <2>1. CASE t = s
      <3>1. kind[s] = "adjust" => Len(rest) <= 1
        BY <1>2 DEF SessionInv
      <3>2. ASSUME kind[s] = "pick", NEW i \in 1..Len(rest)
            PROVE  /\ rest[i].type = "OUT"
                   /\ stock[rest[i].key] # Absent
                   /\ holder'[rest[i].key] = s
        <4>1. /\ lines[s][i + 1].type = "OUT" /\ stock[lines[s][i + 1].key] # Absent
              /\ holder[lines[s][i + 1].key] = s
          BY <3>2, <1>1, <1>2 DEF SessionInv
        <4>2. QED
          BY <4>1, <1>1, <1>2, <1>4
      <3>3. QED
        BY <2>1, <1>1, <3>1, <3>2
    <2>2. CASE t # s
      BY <2>2, <1>1, <1>3, <1>4 DEF SessionInv
    <2>3. QED
      BY <2>1, <2>2
  <1>7. WriteInv'
    <2> SUFFICES ASSUME NEW t \in Sessions, NEW j \in Keys
                 PROVE  WriteInv!(t, j)'
      BY DEF WriteInv
    <2>1. CASE t = s /\ j = k
      <3>1. own'[t][j] = NewStock(s) /\ seen'[t][j] = NewStock(s) /\ holder'[j] = s
        BY <2>1, <1>1
      <3>2. NewStock(s) # Absent
        BY <1>1, StockLedgerAssumption
      <3>3. RowFor(t, j)' = NewStock(s)
        BY <3>1, <3>2 DEF RowFor
      <3>4. QED
        BY <2>1, <3>1, <3>2, <3>3, <1>1
    <2>2. CASE t = s /\ j # k
      <3>1. RowFor(t, j)' = RowFor(t, j)
        BY <2>2, <1>1 DEF RowFor
      <3>2. QED
        BY <2>2, <3>1, <1>1 DEF WriteInv
    <2>3. CASE t # s
      BY <2>3, <1>1, <1>3 DEF WriteInv
    <2>4. QED
      BY <2>1, <2>2, <2>3
  <1>8. LockedInv'
    <2> SUFFICES ASSUME NEW t \in Sessions
                 PROVE  LockedInv!(t)'
      BY DEF LockedInv
    <2>1. CASE t = s
      <3> SUFFICES ASSUME rest # <<>>
                   PROVE  rest[1].key \in wanted'[s] \/ holder'[rest[1].key] = s
        BY <2>1, <1>1
      <3>1. 2 \in 1..Len(lines[s]) /\ rest[1] = lines[s][2]
        BY <1>2
      <3>2. CASE kind[s] = "receive"
        BY <3>2, <1>1, <1>2 DEF LocksBefore
      <3>3. CASE kind[s] = "pick"
        BY <3>3, <3>1, <1>1, <1>4 DEF SessionInv
      <3>4. CASE kind[s] = "adjust"
        BY <3>4, <1>2 DEF SessionInv
      <3>5. QED
        BY <3>2, <3>3, <3>4, <1>1 DEF TypeOK, Kind
    <2>2. CASE t # s
      <3>1. lines[t] # <<>> => lines[t][1].key \in Keys
        BY FirstLine
      <3>2. QED
        BY <2>2, <3>1, <1>1, <1>3 DEF LockedInv
    <2>3. QED
      BY <2>1, <2>2
  <1>9. HistoryInv'
    <2> SUFFICES ASSUME NEW j \in Keys, Opening[j] # Absent,
                        NEW t \in Sessions, holder'[j] = t
                 PROVE  Explains(draft'[t][j], stock[j], seen'[t][j])
      BY <1>1 DEF HistoryInv
    <2>1. CASE t = s /\ j = k
      <3>1. holder[k] = s
        BY <2>1, <1>1 DEF LockedInv
      <3>2. QED
        BY <2>1, <3>1, <1>1
    <2>2. CASE ~(t = s /\ j = k)
      <3>1. holder[j] = t /\ draft'[t][j] = draft[t][j] /\ seen'[t][j] = seen[t][j]
        BY <2>2, <1>1
      <3>2. QED
        BY <3>1 DEF HistoryInv
    <2>3. QED
      BY <2>1, <2>2
  <1>10. OrderInv'
    <2> SUFFICES ASSUME NEW t \in Sessions
                 PROVE  OrderInv!(t)'
      BY DEF OrderInv
    <2>1. CASE t = s
      <3>1. CASE kind[s] \in {"adjust", "receive"}
        <4>0. \A i, j \in 1..Len(lines[s]) : i < j => lines[s][i].key <= lines[s][j].key
          BY <3>1 DEF OrderInv, InLockOrder
        <4>1. InLockOrder(rest)
          <5> SUFFICES ASSUME NEW i \in 1..Len(rest), NEW j \in 1..Len(rest), i < j
                       PROVE  rest[i].key <= rest[j].key
            BY DEF InLockOrder
          <5>1. i + 1 \in 1..Len(lines[s]) /\ j + 1 \in 1..Len(lines[s]) /\ i + 1 < j + 1
            BY <1>2
          <5>2. lines[s][i + 1].key <= lines[s][j + 1].key
            BY <4>0, <5>1
          <5>3. QED
            BY <5>2, <1>2
        <4>2. \A i \in 1..Len(rest), j \in Keys : holder'[j] = s => j <= rest[i].key
          <5> TAKE i \in 1..Len(rest), j \in Keys
          <5>1. k <= rest[i].key
            <6>1. 1 \in 1..Len(lines[s]) /\ i + 1 \in 1..Len(lines[s]) /\ 1 < i + 1
              BY <1>2
            <6>2. lines[s][1].key <= lines[s][i + 1].key
              BY <4>0, <6>1
            <6>3. QED
              BY <6>2, <1>1, <1>2
          <5>2. holder[j] = s => j <= rest[i].key
            <6>1. i + 1 \in 1..Len(lines[s]) /\ lines[s][i + 1].key = rest[i].key
              BY <1>2
            <6>2. QED
              BY <3>1, <6>1 DEF OrderInv
          <5>3. holder'[j] = s => holder[j] = s \/ j = k
            BY <1>1
          <5>4. QED
            BY <5>1, <5>2, <5>3
        <4>3. \A j \in wanted'[s] : rest # <<>> /\ j = rest[1].key
          BY <1>1, <1>2 DEF LocksBefore
        <4>4. \A j \in wanted'[s], i \in Keys : holder'[i] = s => i <= j
          <5>1. rest # <<>> => 1 \in 1..Len(rest)
            BY <1>2
          <5>2. QED
            BY <4>2, <4>3, <5>1
        <4>5. QED
          BY <2>1, <3>1, <1>1, <4>1, <4>2, <4>3, <4>4
      <3>2. CASE kind[s] = "pick"
        BY <2>1, <3>2, <1>1 DEF LocksBefore
      <3>3. QED
        BY <3>1, <3>2, <1>1 DEF TypeOK, Kind
    <2>2. CASE t # s
      BY <2>2, <1>1, <1>3 DEF OrderInv
    <2>3. QED
      BY <2>1, <2>2
  <1>11. QED
    BY <1>5, <1>6, <1>7, <1>8, <1>9, <1>10

-----------------------------------------------------------------------------
(* A transaction ends *)

(* Whatever happened to the rows, they satisfy the invariant afterwards if *)
(* every row that another session has locked kept its quantity.            *)
LEMMA EndStep ==
    ASSUME LedgerInv, NEW s \in Sessions, End(s), TypeOK',
           StockNeverNegative',
           \A k \in Keys : stock[k] # Absent => stock'[k] # Absent,
           \A k \in Keys, t \in Sessions : t # s /\ holder[k] = t => stock'[k] = stock[k],
           \A k \in Keys : Opening[k] # Absent =>
               stock'[k] # Absent /\ Explains(ledger'[k], Opening[k], stock'[k])
    PROVE  LedgerInv'
  <1> USE DEF LedgerInv
  <1>1. /\ \A k \in Keys : holder'[k] = IF holder[k] = s THEN NoSession ELSE holder[k]
        /\ \A t \in Sessions :
             /\ kind'[t] = IF t = s THEN "none" ELSE kind[t]
             /\ wanted'[t] = IF t = s THEN {} ELSE wanted[t]
             /\ lines'[t] = IF t = s THEN <<>> ELSE lines[t]
        /\ \A t \in Sessions, k \in Keys :
             /\ seen'[t][k] = IF t = s THEN 0 ELSE seen[t][k]
             /\ own'[t][k] = IF t = s THEN Absent ELSE own[t][k]
             /\ draft'[t][k] = IF t = s THEN <<>> ELSE draft[t][k]
    BY DEF End, TypeOK
  <1>2. \A t \in Sessions, k \in Keys :
          /\ t # s => (holder'[k] = t <=> holder[k] = t)
          /\ holder'[k] # s
    BY <1>1, StockLedgerAssumption
  <1>3. \A t \in Sessions, k \in Keys : t # s /\ holder[k] = t =>
          RowFor(t, k)' = RowFor(t, k)
    BY <1>1 DEF RowFor
  <1>4. \A t \in Sessions : \A i \in 1..Len(lines[t]) : lines[t][i].key \in Keys
    BY LineKeys
  <1>5. SessionInv'
    <2> SUFFICES ASSUME NEW t \in Sessions
                 PROVE  SessionInv!(t)'
      BY DEF SessionInv
    <2>1. CASE t = s
      BY <2>1, <1>1, <1>2
    <2>2. CASE t # s
      BY <2>2, <1>1, <1>2, <1>4 DEF SessionInv
    <2>3. QED
      BY <2>1, <2>2
  <1>6. WriteInv'
    BY <1>1, <1>2, <1>3 DEF WriteInv
  <1>7. LockedInv'
    <2> SUFFICES ASSUME NEW t \in Sessions
                 PROVE  LockedInv!(t)'
      BY DEF LockedInv
    <2>1. lines[t] # <<>> => lines[t][1].key \in Keys
      BY FirstLine
    <2>2. QED
      BY <2>1, <1>1, <1>2 DEF LockedInv
  <1>8. HistoryInv'
    BY <1>1, <1>2 DEF HistoryInv
  <1>9. OrderInv'
    BY <1>1, <1>2 DEF OrderInv
  <1>10. QED
    BY <1>5, <1>6, <1>7, <1>8, <1>9

(* A rollback leaves the committed rows alone. *)
LEMMA AbortStep ==
    ASSUME LedgerInv, NEW s \in Sessions, End(s), UNCHANGED rows, TypeOK'
    PROVE  LedgerInv'
  BY EndStep DEF LedgerInv, rows, StockNeverNegative, HistoryInv

(* A commit replaces the quantity of exactly the rows the session holds,   *)
(* together with the movements that explain the change.                    *)
LEMMA CommitStep ==
    ASSUME LedgerInv, NEW s \in Sessions, Commit(s), TypeOK'
    PROVE  LedgerInv'
  <1> USE DEF LedgerInv
  <1>1. /\ End(s)
        /\ \A k \in Keys : stock'[k] = RowFor(s, k)
        /\ \A k \in Keys : ledger'[k] = ledger[k] \o draft[s][k]
    BY DEF Commit
  <1>2. StockNeverNegative'
    BY <1>1 DEF StockNeverNegative, WriteInv, RowFor
  <1>3. \A k \in Keys : stock[k] # Absent => stock'[k] # Absent
    BY <1>1 DEF RowFor
  <1>4. \A k \in Keys, t \in Sessions : t # s /\ holder[k] = t => stock'[k] = stock[k]
    BY <1>1 DEF WriteInv, RowFor
  <1>5. ASSUME NEW k \in Keys, Opening[k] # Absent
        PROVE  stock'[k] # Absent /\ Explains(ledger'[k], Opening[k], stock'[k])
    <2>1. stock[k] # Absent /\ Explains(ledger[k], Opening[k], stock[k])
      BY <1>5 DEF HistoryInv
    <2>2. CASE own[s][k] = Absent
      <3>1. draft[s][k] = <<>> /\ stock'[k] = stock[k]
        BY <2>2, <1>1 DEF WriteInv, RowFor
      <3>2. ledger'[k] = ledger[k]
        BY <3>1, <1>1, ConcatEmptySeq DEF TypeOK
      <3>3. QED
        BY <3>1, <3>2, <2>1
    <2>3. CASE own[s][k] # Absent
      <3>1. holder[k] = s /\ stock'[k] = seen[s][k] /\ stock'[k] # Absent
        BY <2>3, <1>1 DEF WriteInv, RowFor
      <3>2. Explains(draft[s][k], stock[k], seen[s][k])
        BY <3>1, <1>5 DEF HistoryInv
      <3>3. /\ Opening[k] \in Int /\ stock[k] \in Int /\ seen[s][k] \in Int
            /\ ledger[k] \in Seq(Movement) /\ draft[s][k] \in Seq(Movement)
        BY <1>5, <2>1, StockLedgerAssumption DEF TypeOK
      <3>4. Explains(ledger[k] \o draft[s][k], Opening[k], seen[s][k])
        BY <2>1, <3>2, <3>3, ExplainsConcat
      <3>5. QED
        BY <3>1, <3>4, <1>1
    <2>4. QED
      BY <2>2, <2>3
  <1>6. QED
    BY <1>1, <1>2, <1>3, <1>4, <1>5, EndStep

-----------------------------------------------------------------------------
(* The theorems *)

(* The strengthening holds before the first request. *)
LEMMA InitLedgerInv == Init => LedgerInv
  <1> SUFFICES ASSUME Init PROVE LedgerInv
    OBVIOUS
  <1>1. <<>> \in Seq(Movement) /\ <<>> \in Seq(Line) /\ Len(<<>>) = 0
    BY EmptySeq
  <1>2. TypeOK
    BY <1>1, StockLedgerAssumption DEF Init, TypeOK, Kind
  <1>3. StockNeverNegative
    BY StockLedgerAssumption DEF Init, StockNeverNegative
  <1>4. SessionInv /\ LockedInv /\ OrderInv
    BY <1>1, StockLedgerAssumption DEF Init, SessionInv, LockedInv, OrderInv
  <1>5. WriteInv
    BY StockLedgerAssumption DEF Init, WriteInv
  <1>6. HistoryInv
    BY EmptyExplains, StockLedgerAssumption DEF Init, HistoryInv
  <1>7. QED
    BY <1>2, <1>3, <1>4, <1>5, <1>6 DEF LedgerInv

(* Every step keeps the strengthening. *)
LEMMA StepLedgerInv == LedgerInv /\ [Next]_vars => LedgerInv'
  <1> SUFFICES ASSUME LedgerInv, [Next]_vars PROVE LedgerInv'
    OBVIOUS
  <1>0. TypeOK'
    BY TypeStep DEF LedgerInv
  <1>1. ASSUME NEW s \in Sessions, BeginAdjust(s) PROVE LedgerInv'
    <2>1. PICK l \in [key: Keys, type: MovementType, quantity: -MaxQty..MaxQty] :
            Begin(s, "adjust", {l.key}, <<l>>)
      BY <1>1 DEF BeginAdjust
    <2>2. l \in Line
      BY StockLedgerAssumption DEF Line
    <2> DEFINE ls == <<l>>
    <2>3. /\ ls \in Seq(Line) /\ Len(ls) = 1 /\ ls[1] = l /\ ls # <<>>
          /\ {l.key} \in SUBSET Keys
      BY <2>2 DEF Line
    <2>4. Begin(s, "adjust", {ls[1].key}, ls)
      BY <2>1
    <2> HIDE DEF ls
    <2>5. InLockOrder(ls)
      BY <2>3 DEF InLockOrder
    <2>6. {ls[1].key} \in SUBSET Keys /\ Len(ls) <= 1
      BY <2>3
    <2>7. QED
      BY <2>3, <2>4, <2>5, <2>6, BeginStep DEF Kind
  <1>2. ASSUME NEW s \in Sessions, BeginReceive(s) PROVE LedgerInv'
    <2>1. PICK ls \in Payloads("IN") :
            InLockOrder(ls) /\ Begin(s, "receive", {ls[1].key}, ls)
      BY <1>2 DEF BeginReceive
    <2>2. ls \in Seq(Line) /\ ls # <<>> /\ ls[1] \in Line
      BY PayloadLines DEF MovementType
    <2>3. {ls[1].key} \in SUBSET Keys
      BY <2>2 DEF Line
    <2>4. QED
      BY <2>1, <2>2, <2>3, BeginStep DEF Kind
  <1>3. ASSUME NEW s \in Sessions, BeginPick(s) PROVE LedgerInv'
    <2>1. PICK ls \in Payloads("OUT") :
            (\A k \in KeysOf(ls) : stock[k] # Absent) /\ Begin(s, "pick", KeysOf(ls), ls)
      BY <1>3 DEF BeginPick
    <2>2. ls \in Seq(Line) /\ KeysOf(ls) \in SUBSET Keys
      BY PayloadLines, KeysOfLines DEF MovementType
    <2>3. \A i \in 1..Len(ls) :
            ls[i].type = "OUT" /\ ls[i].key \in KeysOf(ls) /\ stock[ls[i].key] # Absent
      BY <2>1, PayloadLines DEF MovementType, KeysOf
    <2>4. QED
      BY <2>1, <2>2, <2>3, BeginStep DEF Kind
  <1>4. ASSUME NEW s \in Sessions, BeginOrder(s) PROVE LedgerInv'
    <2>1. PICK ks \in SUBSET Keys : Begin(s, "order", ks, <<>>)
      BY <1>4 DEF BeginOrder
    <2>2. <<>> \in Seq(Line)
      BY EmptySeq
    <2>3. QED
      BY <2>1, <2>2, BeginStep DEF Kind
  <1>5. ASSUME NEW s \in Sessions, LockRow(s) PROVE LedgerInv'
    BY <1>0, <1>5, LockRowStep
  <1>6. ASSUME NEW s \in Sessions, WriteLine(s) PROVE LedgerInv'
    BY <1>0, <1>6, WriteLineStep
  <1>7. ASSUME NEW s \in Sessions, Refuse(s) \/ Rollback(s) PROVE LedgerInv'
    BY <1>0, <1>7, AbortStep DEF Refuse, Rollback
  <1>8. ASSUME NEW s \in Sessions, Commit(s) PROVE LedgerInv'
    BY <1>0, <1>8, CommitStep
  <1>9. CASE UNCHANGED vars
    <2>1. UNCHANGED <<stock, ledger, holder, kind, wanted, lines, seen, own, draft, served>>
      BY <1>9 DEF vars
    <2>2. SessionInv' /\ WriteInv' /\ LockedInv' /\ HistoryInv' /\ OrderInv'
      BY <2>1 DEF LedgerInv, SessionInv, WriteInv, LockedInv, HistoryInv, OrderInv, RowFor
    <2>3. QED
      BY <1>0, <2>1, <2>2 DEF LedgerInv, StockNeverNegative
  <1>10. QED
    BY <1>1, <1>2, <1>3, <1>4, <1>5, <1>6, <1>7, <1>8, <1>9 DEF Next, Quiescent

(* The strengthening holds in every reachable state. *)
THEOREM LedgerInvariant == Spec => []LedgerInv
  BY InitLedgerInv, StepLedgerInv, PTL DEF Spec

(* Rows, movements and the data of the sessions keep their types, with any *)
(* number of sessions and rows and any payload size.                       *)
THEOREM TypeCorrect == Spec => []TypeOK
  <1>1. LedgerInv => TypeOK
    BY DEF LedgerInv
  <1>2. QED
    BY <1>1, LedgerInvariant, PTL

(* No interleaving of adjustments, receipts and picks commits a negative   *)
(* stock quantity, even where rows are created on the way.                 *)
THEOREM NonNegativeStock == Spec => []StockNeverNegative
  <1>1. LedgerInv => StockNeverNegative
    BY DEF LedgerInv
  <1>2. QED
    BY <1>1, LedgerInvariant, PTL

(* Once a stock row exists its movement history accounts for its quantity: *)
(* no committed stock change is overwritten or left unrecorded.            *)
THEOREM MovementsAccount == Spec => []MovementsExplainStock
  <1>1. LedgerInv => MovementsExplainStock
    BY DEF LedgerInv, HistoryInv, MovementsExplainStock
  <1>2. QED
    BY <1>1, LedgerInvariant, PTL

(* Sessions wait only for rows above the ones they hold, so no two of them *)
(* can wait for each other's stock rows.                                   *)
THEOREM OrderedWaiting == Spec => []WaitsUpward
  <1>1. LedgerInv => WaitsUpward
    <2> SUFFICES ASSUME LedgerInv, NEW s \in Sessions, NEW j \in Keys, NEW k \in Keys,
                        WaitsFor(s, k), holder[j] = s
                 PROVE  j < k
      BY DEF WaitsUpward
    <2> USE DEF LedgerInv
    <2>1. holder[k] # s /\ j # k
      BY DEF WaitsFor, Free
    <2>2. CASE k \in wanted[s]
      <3>1. j <= k
        BY <2>2 DEF OrderInv
      <3>2. QED
        BY <2>1, <3>1, StockLedgerAssumption
    <2>3. CASE Writing(s) /\ Head(lines[s]).key = k
      <3>1. lines[s][1].key = k /\ 1 \in 1..Len(lines[s]) /\ wanted[s] = {}
        BY <2>3, FirstLine DEF Writing
      <3>2. kind[s] # "pick"
        BY <3>1, <2>1 DEF SessionInv
      <3>3. kind[s] \in {"adjust", "receive"}
        BY <2>3, <3>2 DEF SessionInv, TypeOK, Kind, Writing
      <3>4. j <= k
        BY <3>1, <3>3 DEF OrderInv
      <3>5. QED
        BY <2>1, <3>4, StockLedgerAssumption
    <2>4. QED
      BY <2>2, <2>3 DEF WaitsFor, NextLock
  <1>2. QED
    BY <1>1, LedgerInvariant, PTL

-----------------------------------------------------------------------------
(* Refinement *)

(* What a commit adds to the history is exactly the session's movements.   *)
LEMMA AddedMovements ==
    ASSUME NEW ms \in Seq(Movement), NEW ns \in Seq(Movement)
    PROVE  /\ Len(ms) <= Len(ms \o ns)
           /\ SubSeq(ms \o ns, 1, Len(ms)) = ms
           /\ SubSeq(ms \o ns, Len(ms) + 1, Len(ms \o ns)) = ns
  <1>1. /\ ms \o ns \in Seq(Movement) /\ Len(ms \o ns) = Len(ms) + Len(ns)
        /\ Len(ms) \in Nat /\ Len(ns) \in Nat
    BY ConcatProperties, LenProperties
  <1>2. SubSeq(ms \o ns, 1, Len(ms)) = ms
    BY <1>1, SubSeqOfConcat1, SubSeqFull
  <1>3. SubSeq(ms \o ns, Len(ms) + 1, Len(ms \o ns)) = ns
    BY <1>1, SubSeqOfConcat2, SubSeqFull
  <1>4. QED
    BY <1>1, <1>2, <1>3

(* A row whose quantity did not change needs no further movement. *)
LEMMA SameExplains ==
    ASSUME NEW ms, NEW a, NEW b, Explains(ms, a, b)
    PROVE  Atomic!Explains(ms, a, b)
  BY DEF Explains, Atomic!Explains, Signed, Atomic!Signed

(* On the rows that existed from the start, the statement-level            *)
(* transactions of adjustStockTx, receiveGoods and pickItems implement     *)
(* AtomicStock: commits are its steps, all else is stuttering.             *)
THEOREM TransactionsAreAtomic == Spec => ImplementsAtomicStock
  <1> DEFINE aStock == [k \in Existing |-> stock[k]]
             aLedger == [k \in Existing |-> ledger[k]]
  <1>1. Init => Atomic!Init
    <2> SUFFICES ASSUME Init PROVE Atomic!Init
      OBVIOUS
    <2>1. \A k \in Existing : k \in Keys
      BY DEF Existing
    <2>2. stock = Opening /\ \A k \in Existing : ledger[k] = <<>>
      BY <2>1 DEF Init
    <2>3. QED
      BY <2>2 DEF Atomic!Init
  <1>2. LedgerInv /\ LedgerInv' /\ [Next]_vars => [Atomic!Post]_(Atomic!vars)
    <2> SUFFICES ASSUME LedgerInv, LedgerInv', [Next]_vars
                 PROVE  Atomic!Post \/ UNCHANGED <<aStock, aLedger>>
      BY DEF Atomic!vars
    <2>1. ASSUME NEW s \in Sessions, Commit(s) PROVE Atomic!Post
      <3>1. \A k \in Existing : k \in Keys /\ Opening[k] # Absent
        BY DEF Existing
      <3>2. \A k \in Existing : stock[k] \in Int /\ stock'[k] \in Int
        BY <3>1 DEF LedgerInv, HistoryInv, TypeOK
      <3>3. aStock' \in [Existing -> Int] /\ aLedger' \in [Existing -> Seq(Movement)]
        BY <3>1, <3>2 DEF LedgerInv, TypeOK
      <3>4. ASSUME NEW k \in Existing
            PROVE  /\ Len(ledger[k]) <= Len(ledger'[k])
                   /\ SubSeq(ledger'[k], 1, Len(ledger[k])) = ledger[k]
                   /\ SubSeq(ledger'[k], Len(ledger[k]) + 1, Len(ledger'[k])) = draft[s][k]
        <4>1. ledger'[k] = ledger[k] \o draft[s][k]
          BY <2>1, <3>1 DEF Commit
        <4>2. ledger[k] \in Seq(Movement) /\ draft[s][k] \in Seq(Movement)
          BY <3>1 DEF LedgerInv, TypeOK
        <4> DEFINE ms == ledger[k]
                   ns == draft[s][k]
        <4>3. ms \in Seq(Movement) /\ ns \in Seq(Movement) /\ ledger'[k] = ms \o ns
          BY <4>1, <4>2
        <4> HIDE DEF ms, ns
        <4>4. /\ Len(ms) <= Len(ledger'[k])
              /\ SubSeq(ledger'[k], 1, Len(ms)) = ms
              /\ SubSeq(ledger'[k], Len(ms) + 1, Len(ledger'[k])) = ns
          BY <4>3, AddedMovements
        <4>5. QED
          BY <4>4 DEF ms, ns
      <3>5. ASSUME NEW k \in Existing
            PROVE  Explains(draft[s][k], stock[k], stock'[k])
        <4>1. stock'[k] = RowFor(s, k)
          BY <2>1, <3>1 DEF Commit
        <4>2. CASE own[s][k] = Absent
          BY <3>1, <4>1, <4>2, EmptyExplains DEF LedgerInv, WriteInv, RowFor
        <4>3. CASE own[s][k] # Absent
          <5>1. holder[k] = s /\ stock'[k] = seen[s][k]
            BY <3>1, <4>1, <4>3 DEF LedgerInv, WriteInv
          <5>2. QED
            BY <5>1, <3>1 DEF LedgerInv, HistoryInv
        <4>4. QED
          BY <4>2, <4>3
      <3>6. \A k \in Existing : Atomic!Explains(Atomic!Added(k), aStock[k], aStock'[k])
        <4> TAKE k \in Existing
        <4>1. aStock[k] = stock[k] /\ aStock'[k] = stock'[k]
          OBVIOUS
        <4>2. Atomic!Added(k) = draft[s][k]
          BY <3>4 DEF Atomic!Added
        <4>3. QED
          BY <4>1, <4>2, <3>5, SameExplains
      <3>7. Atomic!Movement = Movement
        BY DEF Atomic!Movement, Movement, Atomic!MovementType, MovementType
      <3>8. QED
        BY <3>3, <3>4, <3>6, <3>7 DEF Atomic!Post
    <2>2. ASSUME NEW s \in Sessions,
                 \/ BeginAdjust(s) \/ BeginReceive(s) \/ BeginPick(s) \/ BeginOrder(s)
                 \/ LockRow(s) \/ WriteLine(s) \/ Refuse(s) \/ Rollback(s)
          PROVE  UNCHANGED <<stock, ledger>>
      BY <2>2 DEF BeginAdjust, BeginReceive, BeginPick, BeginOrder, Begin, LockRow,
                  WriteLine, Refuse, Rollback, rows
    <2>3. CASE UNCHANGED vars
      BY <2>3 DEF vars
    <2>4. QED
      BY <2>1, <2>2, <2>3 DEF Next, Quiescent
  <1>3. QED
    BY <1>1, <1>2, LedgerInvariant, PTL DEF Spec, ImplementsAtomicStock, Atomic!Spec

-----------------------------------------------------------------------------
(* The catalogue of the products *)

(* What a request record may hold. *)
CatKind == {"create", "update", "status", "delete"}
CatBody == [name : Names \union {Same}, slug : Names \union {Same},
            image : {"keep", "new", "remove"}, groups : SUBSET Groups]
CatRequest == [kind : CatKind \union {"none"}, item : Items \union {Nothing},
               pay : CatBody, status : {"ACTIVE", "INACTIVE"}, upload : Nat, old : Row,
               step : {"none", "slug", "write", "fail", "drop"}, k : Nat \ {0},
               tries : 0..MaxRetries, todo : SUBSET Groups]

CatTypes ==
    /\ CatalogTypeOK
    /\ req \in [Clients -> CatRequest]
    /\ \A s \in Clients : req[s].old.image <= begun
    /\ \A i \in Items : row[i].image <= begun

(* A request whose row is still to be written. *)
Unwritten(r) == r.step \in {"slug", "write"}

(* What a request is for, and how far it can be. *)
CatRequestOK(r) ==
    /\ r.kind = "none" => r = NoRequest
    /\ r.kind # "none" => r.item \in Items /\ r.step # "none"
    /\ r.kind = "create" => r.pay.name # Same /\ r.pay.image # "remove" /\ r.old = NoRow
    /\ r.kind \in {"status", "delete"} => r.pay = NoPayload /\ r.step \in {"write", "fail"}
    /\ r.kind \in CatKind \ {"create"} => r.old.state = "live"
    /\ r.upload # 0 <=> r.pay.image = "new"
    /\ r.item \in Groups => r.pay.image = "keep" /\ r.pay.groups = {}
    /\ r.step = "drop" => r.kind = "update" /\ r.pay.image # "keep" /\ r.old.image # 0

CatRequestsInv == \A s \in Clients : CatRequestOK(req[s])

(* Rows that do not exist are empty; a row is made by one request at a     *)
(* time, and the others are about rows that exist.                         *)
CatRowsInv ==
    /\ \A i \in Items : ~Exists(i) => row[i] = NoRow
    /\ \A i \in Groups : row[i].image = 0
    /\ \A s \in Clients :
        /\ req[s].kind = "create" /\ Unwritten(req[s]) =>
             /\ ~Exists(Item(s))
             /\ \A t \in Clients \ {s} : Item(t) # Item(s)
        /\ req[s].kind \in CatKind \ {"create"} => Exists(Item(s))

(* What two open requests name is remembered; apart from that a request    *)
(* that has not written yet finds its row as it has read it, and the       *)
(* groups it has checked active.                                           *)
CatNamedInv ==
    \A s, t \in Clients : s # t =>
        Named(s) \intersect Named(t) \subseteq crossed \union {Nothing}

CatFoundInv ==
    \A s \in Clients : Unwritten(req[s]) =>
        /\ Item(s) \notin crossed => row[Item(s)] = req[s].old
        /\ \A g \in ToCheck(Pay(s), req[s].old) \ req[s].todo :
             g \notin crossed => Active(g)

(* An image belongs to one row.  The upload of a request that has not      *)
(* written is in the store and nobody else's; one that is to be removed    *)
(* is shown by no row, unless the write of the row was not answered.       *)
CatImagesInv ==
    /\ \A i, j \in Items :
         i # j /\ row[i].image # 0 => row[i].image # row[j].image
    /\ \A s \in Clients, i \in Items :
        /\ req[s].old.image # 0 /\ (i # Item(s) \/ At(s, "drop")) =>
             row[i].image # req[s].old.image
        /\ req[s].upload # 0 /\ (Unwritten(req[s]) \/ (At(s, "fail") /\ i \notin unsure))
             => row[i].image # req[s].upload
    /\ \A s \in Clients : req[s].upload # 0 /\ Unwritten(req[s]) =>
        /\ req[s].upload \in files
        /\ \A t \in Clients : req[t].old.image # req[s].upload
        /\ \A t \in Clients \ {s} : req[t].upload # req[s].upload

(* The image that a request answers for: its upload until it has written   *)
(* or removed it, the replaced one from then on.                           *)
HeldBy(r) ==
    {f \in {r.upload} : r.step \in {"slug", "write", "fail"}}
        \union {f \in {r.old.image} : r.step = "drop"}

CatHeldInv ==
    \A f \in files \ strays :
        \/ \E i \in Items : row[i].image = f
        \/ \E s \in Clients : f \in HeldBy(req[s])

(* The types, what requests know, and the slugs and images of the rows.    *)
CatalogInv ==
    /\ CatTypes /\ CatRequestsInv /\ CatRowsInv /\ CatNamedInv /\ CatFoundInv
    /\ CatImagesInv /\ CatHeldInv
    /\ SlugsFollowNames /\ ImagesInUseExist

-----------------------------------------------------------------------------
(* Rows and requests *)

(* The empty row, the empty payload and no request have their types. *)
LEMMA CatConstants ==
    /\ NoRow \in Row /\ NoPayload \in CatBody /\ Bodies \subseteq CatBody
    /\ NoRequest \in CatRequest /\ CatRequestOK(NoRequest)
    /\ ~Unwritten(NoRequest) /\ HeldBy(NoRequest) = {}
    /\ NoRequest.kind = "none" /\ NoRequest.item = Nothing
    /\ NoRequest.pay.groups = {} /\ NoRequest.upload = 0
    /\ NoRequest.old = NoRow /\ NoRequest.step = "none"
    /\ NoRequest.tries = 0 /\ NoRequest.k = 1 /\ NoRequest.todo = {}
    /\ NoRow.image = 0 /\ NoRow.state = "none" /\ Nothing \notin Items
    /\ NoRow.groups = {}
  <1>1. Names \subseteq Seq(Nat) /\ <<>> \in Names /\ MaxRetries \in Nat /\ MaxRetries # 0
        /\ Nothing \notin Items /\ Bodies \subseteq CatBody
    BY CatalogAssumption DEF CatBody
  <1>2. NoRow \in Row
    BY <1>1 DEF NoRow, Row
  <1>3. NoPayload \in CatBody
    BY DEF NoPayload, CatBody
  <1>4. /\ NoRow.image = 0 /\ NoRow.state = "none" /\ NoPayload.groups = {}
        /\ NoRow.groups = {} /\ NoPayload.image = "keep"
    BY DEF NoRow, NoPayload
  <1>5. /\ NoRequest.kind = "none" /\ NoRequest.item = Nothing
        /\ NoRequest.pay = NoPayload /\ NoRequest.upload = 0
        /\ NoRequest.old = NoRow /\ NoRequest.step = "none"
        /\ NoRequest.tries = 0 /\ NoRequest.k = 1 /\ NoRequest.todo = {}
    BY DEF NoRequest
  <1>6. NoRequest \in CatRequest
    BY <1>1, <1>2, <1>3 DEF CatRequest, NoRequest
  <1>7. NoRequest.item \notin Groups
    BY <1>1, <1>5 DEF Items
  <1>8. CatRequestOK(NoRequest)
    BY <1>4, <1>5, <1>7 DEF CatRequestOK, CatKind
  <1>9. QED
    BY <1>1, <1>2, <1>3, <1>4, <1>5, <1>6, <1>8 DEF Unwritten, HeldBy

(* The columns of a request, and of the row it has read. *)
LEMMA CatRequestTypes ==
    ASSUME CatTypes, CatRequestsInv, NEW s \in Clients
    PROVE  /\ req[s] \in CatRequest /\ CatRequestOK(req[s])
           /\ req[s].old \in Row /\ req[s].pay \in CatBody
           /\ req[s].upload \in Nat /\ req[s].upload <= begun
           /\ req[s].old.image \in Nat /\ req[s].old.image <= begun
           /\ req[s].tries \in 0..MaxRetries /\ req[s].k \in Nat \ {0}
           /\ req[s].item \in Items \union {Nothing}
           /\ req[s].todo \subseteq Groups /\ req[s].pay.groups \subseteq Groups
           /\ req[s].kind # "none" => req[s].item \in Items
           /\ req[s].step # "none" => req[s].kind # "none"
           /\ req[s].item \in Items => req[s].kind # "none"
           /\ req[s].upload # 0 => req[s].item \in Products
  <1>1. req[s] \in CatRequest /\ CatRequestOK(req[s]) /\ req[s].old.image <= begun
        /\ req[s].upload \in 0..begun /\ begun \in Nat
    BY DEF CatTypes, CatRequestsInv, CatalogTypeOK
  <1>2. /\ req[s].old \in Row /\ req[s].pay \in CatBody
        /\ req[s].tries \in 0..MaxRetries /\ req[s].k \in Nat \ {0}
        /\ req[s].item \in Items \union {Nothing}
        /\ req[s].todo \subseteq Groups /\ req[s].kind \in CatKind \union {"none"}
    BY <1>1 DEF CatRequest
  <1>3. req[s].old.image \in Nat /\ req[s].pay.groups \subseteq Groups
    BY <1>2 DEF Row, CatBody
  <1>4. /\ req[s].kind # "none" => req[s].item \in Items
        /\ req[s].step # "none" => req[s].kind # "none"
        /\ req[s].item \in Items => req[s].kind # "none"
    BY <1>1, <1>2, CatConstants DEF CatRequestOK
  <1>5. req[s].upload # 0 => req[s].item \in Products
    <2>1. req[s].upload # 0 => req[s].pay.image = "new" /\ req[s].kind # "none"
      BY <1>1, CatConstants DEF CatRequestOK
    <2>2. QED
      BY <2>1, <1>1, <1>4 DEF CatRequestOK, Items, Groups
  <1>6. QED
    BY <1>1, <1>2, <1>3, <1>4, <1>5

(* The columns of a row. *)
LEMMA CatRowTypes ==
    ASSUME CatTypes, NEW i \in Items
    PROVE  /\ row[i] \in Row /\ row[i].image \in Nat /\ row[i].image <= begun
           /\ begun \in Nat /\ row[i].groups \subseteq Groups
  BY DEF CatTypes, CatalogTypeOK, Row

-----------------------------------------------------------------------------
(* Statements of an open request *)

(* What a request is for stays as it is from statement to statement, and   *)
(* ends with it.                                                           *)
SameOrder(q, r) ==
    /\ r.kind = q.kind /\ r.item = q.item /\ r.pay = q.pay /\ r.upload = q.upload
    /\ r.old = q.old

GoesOn(q, r) == r = NoRequest \/ SameOrder(q, r)

(* A statement of a request q: it makes x of the row of the request, if    *)
(* anything, and removes an image, if it is the last one; r is what is     *)
(* left to do.                                                             *)
CatStatement(s, i, q, x, r) ==
    /\ q = req[s] /\ q.kind # "none" /\ i = q.item
    /\ x \in Row /\ r \in CatRequest /\ CatRequestOK(r) /\ GoesOn(q, r)
    /\ row' = [row EXCEPT ![i] = x] /\ req' = [req EXCEPT ![s] = r]
    /\ UNCHANGED <<begun, crossed>>
    /\ Unwritten(r) => Unwritten(q) /\ x = row[i]
    /\ x.state = "none" => x = row[i]
    /\ \/ x.image = row[i].image
       \/ Unwritten(q) /\ ~Unwritten(r) /\ x.image \in {0, q.upload}
    /\ \/ files' = files
       \/ files' = files \ HeldBy(q) /\ q.step \in {"fail", "drop"} /\ x = row[i]
    /\ strays \subseteq strays' /\ strays' \subseteq 1..begun
    /\ unsure \subseteq unsure' /\ unsure' \subseteq Items
    /\ custom' \ {i} = custom \ {i} /\ custom' \subseteq Items
    /\ r.tries = MaxRetries => r.step = "fail"
    /\ r.step = "drop" => Unwritten(q) /\ x.image \in {0, q.upload}
    /\ r.step = "fail" => Unwritten(q) /\ (x = row[i] \/ i \in unsure')

LEMMA StatementData ==
    ASSUME CatTypes, CatRequestsInv, NEW s \in Clients,
           NEW i, NEW q, NEW x, NEW r,
           CatStatement(s, i, q, x, r)
    PROVE  /\ i \in Items /\ x \in Row /\ x.image \in Nat /\ x.image <= begun
           /\ row' \in [Items -> Row] /\ row'[i] = x
           /\ \A j \in Items \ {i} : row'[j] = row[j]
           /\ req' \in [Clients -> CatRequest] /\ req'[s] = r
           /\ \A t \in Clients \ {s} : req'[t] = req[t]
           /\ r.upload \in {0, q.upload} /\ r.old \in {NoRow, q.old}
           /\ r.item \in {Nothing, i} /\ r.pay.groups \subseteq q.pay.groups
  <1>1. /\ q = req[s] /\ q.kind # "none" /\ i = q.item
        /\ x \in Row /\ r \in CatRequest /\ GoesOn(q, r)
        /\ row' = [row EXCEPT ![i] = x] /\ req' = [req EXCEPT ![s] = r]
        /\ x.image = row[i].image \/ x.image \in {0, q.upload}
    BY DEF CatStatement
  <1>2. i \in Items /\ q.upload \in Nat /\ q.upload <= begun /\ begun \in Nat
    BY <1>1, CatRequestTypes, CatRowTypes
  <1>3. row \in [Items -> Row] /\ req \in [Clients -> CatRequest]
    BY DEF CatTypes, CatalogTypeOK
  <1>4. x.image \in Nat /\ x.image <= begun
    <2>1. row[i].image \in Nat /\ row[i].image <= begun
      BY <1>2, CatRowTypes
    <2>2. QED
      BY <2>1, <1>1, <1>2
  <1>5. /\ r.upload \in {0, q.upload} /\ r.old \in {NoRow, q.old}
        /\ r.item \in {Nothing, i} /\ r.pay.groups \subseteq q.pay.groups
    BY <1>1, CatConstants DEF GoesOn, SameOrder
  <1>6. /\ row' \in [Items -> Row] /\ row'[i] = x
        /\ \A j \in Items \ {i} : row'[j] = row[j]
    BY <1>1, <1>2, <1>3
  <1>7. /\ req' \in [Clients -> CatRequest] /\ req'[s] = r
        /\ \A t \in Clients \ {s} : req'[t] = req[t]
    BY <1>1, <1>3
  <1>8. QED
    BY <1>1, <1>2, <1>4, <1>5, <1>6, <1>7

LEMMA StatementTypes ==
    ASSUME CatalogInv, NEW s \in Clients, NEW i, NEW q, NEW x, NEW r,
           CatStatement(s, i, q, x, r)
    PROVE  CatTypes' /\ CatRequestsInv'
  <1>1. CatTypes /\ CatRequestsInv
    BY DEF CatalogInv
  <1>2. /\ i \in Items /\ x.image \in Nat /\ x.image <= begun
        /\ row' \in [Items -> Row] /\ row'[i] = x
        /\ \A j \in Items \ {i} : row'[j] = row[j]
        /\ req' \in [Clients -> CatRequest] /\ req'[s] = r
        /\ \A t \in Clients \ {s} : req'[t] = req[t]
        /\ r.upload \in {0, q.upload} /\ r.old \in {NoRow, q.old}
    BY <1>1, StatementData
  <1>3. /\ CatRequestOK(r) /\ q = req[s] /\ begun' = begun /\ crossed' = crossed
        /\ strays' \subseteq 1..begun /\ files' \subseteq files
        /\ custom' \subseteq Items /\ unsure' \subseteq Items
        /\ r.tries = MaxRetries => r.step = "fail"
    BY DEF CatStatement
  <1>4. CatRequestsInv'
    BY <1>1, <1>2, <1>3 DEF CatRequestsInv
  <1>5. \A j \in Items : row'[j].image <= begun
    BY <1>1, <1>2 DEF CatTypes
  <1>6. \A t \in Clients : req'[t].old.image <= begun
    <2>1. 0 <= begun /\ req[s].old.image <= begun
      BY <1>1 DEF CatTypes, CatalogTypeOK
    <2>2. r.old.image <= begun
      BY <2>1, <1>2, <1>3, CatConstants
    <2>3. QED
      BY <2>2, <1>1, <1>2 DEF CatTypes
  <1>7. \A t \in Clients : /\ req'[t].upload \in 0..begun
                           /\ req'[t].tries = MaxRetries => req'[t].step = "fail"
    <2>1. \A t \in Clients : req[t].upload \in 0..begun
            /\ (req[t].tries = MaxRetries => req[t].step = "fail")
      BY <1>1 DEF CatTypes, CatalogTypeOK, At
    <2>2. begun \in Nat
      BY <1>1 DEF CatTypes, CatalogTypeOK
    <2>3. r.upload \in 0..begun
      BY <2>1, <2>2, <1>2, <1>3
    <2>4. QED
      BY <2>1, <2>3, <1>2, <1>3
  <1>8. \A t \in Clients :
          /\ req'[t].kind \in {"none", "create", "update", "status", "delete"}
          /\ req'[t].item \in Items \union {Nothing} /\ req'[t].todo \subseteq Groups
          /\ req'[t].k \in Nat \ {0} /\ req'[t].tries \in 0..MaxRetries
    <2>1. \A t \in Clients : req'[t] \in CatRequest
      BY <1>2
    <2>2. QED
      BY <2>1 DEF CatRequest, CatKind
  <1>9. CatalogTypeOK'
    <2>1. /\ files \subseteq 1..begun /\ begun \in 0..MaxBegun
          /\ crossed \subseteq Items
      BY <1>1 DEF CatTypes, CatalogTypeOK
    <2>2. strays' \subseteq 1..begun
      BY <1>1, <1>3 DEF CatTypes, CatalogTypeOK
    <2>3. /\ files' \subseteq 1..begun' /\ strays' \subseteq 1..begun'
          /\ begun' \in 0..MaxBegun /\ crossed' \subseteq Items
      BY <2>1, <2>2, <1>2, <1>3
    <2>4. row' \in [Items -> Row]
      BY <1>2
    <2>5. \A t \in Clients : /\ req'[t].upload \in 0..begun'
                             /\ req'[t].tries = MaxRetries => req'[t].step = "fail"
      BY <1>3, <1>7
    <2>6. custom' \subseteq Items /\ unsure' \subseteq Items
      BY <1>3
    <2>7. QED
      BY <2>3, <2>4, <2>5, <2>6, <1>8 DEF CatalogTypeOK, At
  <1>10. QED
    BY <1>2, <1>3, <1>4, <1>5, <1>6, <1>9 DEF CatTypes

LEMMA StatementRows ==
    ASSUME CatalogInv, NEW s \in Clients, NEW i, NEW q, NEW x, NEW r,
           CatStatement(s, i, q, x, r)
    PROVE  /\ CatRowsInv' /\ CatNamedInv'
           /\ \A t \in Clients \ {s} : i \in Named(t) => i \in crossed
  <1>1. CatTypes /\ CatRequestsInv /\ CatRowsInv /\ CatNamedInv
    BY DEF CatalogInv
  <1>2. /\ i \in Items
        /\ row' \in [Items -> Row] /\ row'[i] = x
        /\ \A j \in Items \ {i} : row'[j] = row[j]
        /\ req' \in [Clients -> CatRequest] /\ req'[s] = r
        /\ \A t \in Clients \ {s} : req'[t] = req[t]
        /\ r.item \in {Nothing, i} /\ r.pay.groups \subseteq q.pay.groups
    BY <1>1, StatementData
  <1>3. /\ q = req[s] /\ i = q.item /\ crossed' = crossed /\ GoesOn(q, r)
        /\ x.state = "none" => x = row[i]
        /\ \/ x.image = row[i].image
           \/ x.image \in {0, q.upload}
        /\ Unwritten(r) => Unwritten(q) /\ x = row[i]
    BY DEF CatStatement
  <1>4. /\ \A j \in Items : ~Exists(j) => row[j] = NoRow
        /\ \A j \in Groups : row[j].image = 0
        /\ \A t \in Clients :
            /\ req[t].kind = "create" /\ Unwritten(req[t]) =>
                 /\ ~Exists(req[t].item)
                 /\ \A u \in Clients \ {t} : req[u].item # req[t].item
            /\ req[t].kind \in CatKind \ {"create"} => Exists(req[t].item)
    BY <1>1 DEF CatRowsInv, Item
  <1>5. \A j \in Items : Exists(j) => row'[j].state # "none"
    BY <1>2, <1>3 DEF Exists
  <1>6. \A j \in Items : row'[j].state = "none" => row'[j] = NoRow
    BY <1>2, <1>3, <1>4 DEF Exists
  <1>7. \A j \in Groups : row'[j].image = 0
    <2>1. i \in Groups => q.upload = 0
      BY <1>1, <1>3, CatRequestTypes DEF CatRequestOK
    <2>2. \A j \in Groups : j \in Items
      BY DEF Items
    <2>3. QED
      BY <2>1, <2>2, <1>2, <1>3, <1>4
  <1>8. ASSUME NEW t \in Clients, req'[t].kind = "create", Unwritten(req'[t])
        PROVE  /\ row'[req'[t].item].state = "none"
               /\ \A u \in Clients \ {t} : req'[u].item # req'[t].item
    <2>1. req'[t].item = req[t].item /\ req[t].kind = "create" /\ Unwritten(req[t])
          /\ (t = s => x = row[i])
      BY <1>2, <1>3, <1>8, CatConstants DEF GoesOn, SameOrder
    <2>2. req[t].item \in Items
      BY <1>1, <2>1, CatRequestTypes
    <2>3. \A u \in Clients : req'[u].item \in {Nothing, req[u].item}
      BY <1>2, <1>3
    <2>4. \A u \in Clients \ {t} : req[u].item # req[t].item
      BY <1>4, <2>1
    <2>5. row'[req[t].item] = row[req[t].item]
      BY <2>1, <2>2, <2>4, <1>2, <1>3
    <2>6. QED
      BY <2>1, <2>2, <2>3, <2>4, <2>5, <1>4, CatConstants DEF Exists
  <1>9. ASSUME NEW t \in Clients, req'[t].kind \in CatKind \ {"create"}
        PROVE  row'[req'[t].item].state # "none"
    <2>1. "none" \notin CatKind
      BY DEF CatKind
    <2>2. req'[t].item = req[t].item /\ req[t].kind \in CatKind \ {"create"}
      BY <2>1, <1>2, <1>3, <1>9, CatConstants DEF GoesOn, SameOrder
    <2>3. req[t].item \in Items
      BY <1>1, <2>1, <2>2, CatRequestTypes
    <2>4. QED
      BY <2>2, <2>3, <1>4, <1>5
  <1>10. CatRowsInv'
    BY <1>6, <1>7, <1>8, <1>9 DEF CatRowsInv, Exists, Item
  <1>11. ASSUME NEW t \in Clients
         PROVE  Named(t)' \subseteq Named(t) \union {Nothing}
    BY <1>2, <1>3 DEF Named
  <1>12. CatNamedInv'
    BY <1>1, <1>3, <1>11 DEF CatNamedInv
  <1>13. \A t \in Clients \ {s} : i \in Named(t) => i \in crossed
    <2>1. i \in Named(s) /\ i # Nothing
      BY <1>2, <1>3, CatConstants DEF Named
    <2>2. QED
      BY <2>1, <1>1 DEF CatNamedInv
  <1>14. QED
    BY <1>10, <1>12, <1>13

LEMMA StatementFound ==
    ASSUME CatalogInv, NEW s \in Clients, NEW i, NEW q, NEW x, NEW r,
           CatStatement(s, i, q, x, r),
           Unwritten(r) => \A g \in ToCheck(q.pay, q.old) \ r.todo :
                             g \notin crossed => Active(g)
    PROVE  CatFoundInv'
  <1>1. CatTypes /\ CatRequestsInv /\ CatFoundInv
    BY DEF CatalogInv
  <1>2. /\ i \in Items
        /\ row'[i] = x /\ (\A j \in Items \ {i} : row'[j] = row[j])
        /\ req'[s] = r /\ (\A t \in Clients \ {s} : req'[t] = req[t])
    BY <1>1, StatementData
  <1>3. /\ q = req[s] /\ i = q.item /\ crossed' = crossed /\ GoesOn(q, r)
        /\ Unwritten(r) => Unwritten(q) /\ x = row[i]
    BY DEF CatStatement
  <1>4. \A t \in Clients \ {s} : i \in Named(t) => i \in crossed
    BY StatementRows
  <1>5. ASSUME NEW t \in Clients, NEW y, y = req'[t], Unwritten(y)
        PROVE  /\ y = req[t] \/ (t = s /\ y.item = q.item /\ y.pay = q.pay /\ y.old = q.old)
               /\ Unwritten(req[t]) /\ y.item \in Items
               /\ y.pay.groups \subseteq Items
               /\ y.item \notin crossed => row'[y.item] = row[y.item]
               /\ \A g \in y.pay.groups : g \notin crossed => row'[g] = row[g]
    <2>1. y = req[t] \/ (t = s /\ y.item = q.item /\ y.pay = q.pay /\ y.old = q.old)
      BY <1>2, <1>3, <1>5, CatConstants DEF GoesOn, SameOrder
    <2>2. Unwritten(req[t]) /\ (t = s => x = row[i])
      BY <1>2, <1>3, <1>5
    <2>3. y.item = req[t].item /\ y.pay = req[t].pay
      BY <2>1, <1>3
    <2>4. y.item \in Items /\ y.pay.groups \subseteq Items
      BY <2>2, <2>3, <1>1, CatRequestTypes DEF Unwritten, Items
    <2>5. y.item \in Named(t) /\ y.pay.groups \subseteq Named(t)
      BY <2>3 DEF Named
    <2>6. \A j \in Named(t) : j \in Items /\ j \notin crossed => row'[j] = row[j]
      BY <2>2, <1>2, <1>4
    <2>7. QED
      BY <2>1, <2>2, <2>4, <2>5, <2>6
  <1>6. ASSUME NEW t \in Clients, NEW y, y = req'[t], Unwritten(y), y.item \notin crossed
        PROVE  row'[y.item] = y.old
    BY <1>1, <1>3, <1>5, <1>6 DEF CatFoundInv, Item
  <1>7. ASSUME NEW t \in Clients, NEW y, y = req'[t], Unwritten(y),
               NEW g \in ToCheck(y.pay, y.old) \ y.todo, g \notin crossed
        PROVE  row'[g].state = "live" /\ row'[g].status = "ACTIVE"
    <2>1. g \in y.pay.groups
      BY DEF ToCheck
    <2>2. Active(g)
      <3>1. CASE t = s
        BY <3>1, <1>2, <1>3, <1>5, <1>7
      <3>2. CASE t # s
        <4>1. y = req[t]
          BY <3>2, <1>2, <1>7
        <4>2. /\ g \in ToCheck(req[t].pay, req[t].old) \ req[t].todo
              /\ Unwritten(req[t])
          BY <4>1, <1>7
        <4>3. QED
          BY <4>2, <1>1, <1>7 DEF CatFoundInv, Pay
      <3>3. QED
        BY <3>1, <3>2
    <2>3. row'[g] = row[g]
      BY <2>1, <1>5, <1>7
    <2>4. QED
      BY <2>2, <2>3 DEF Active, Live
  <1>8. QED
    BY <1>3, <1>6, <1>7 DEF CatFoundInv, Item, Pay, Active, Live

LEMMA StatementImages ==
    ASSUME CatalogInv, NEW s \in Clients, NEW i, NEW q, NEW x, NEW r,
           CatStatement(s, i, q, x, r)
    PROVE  CatImagesInv' /\ ImagesInUseExist'
  <1>1. CatTypes /\ CatRequestsInv /\ CatImagesInv /\ ImagesInUseExist
    BY DEF CatalogInv
  <1>2. /\ i \in Items
        /\ row'[i] = x /\ (\A j \in Items \ {i} : row'[j] = row[j])
        /\ req'[s] = r /\ (\A t \in Clients \ {s} : req'[t] = req[t])
        /\ r.upload \in {0, q.upload} /\ r.old \in {NoRow, q.old}
        /\ NoRow.image = 0 /\ r.item \in {Nothing, i}
    BY <1>1, StatementData, CatConstants
  <1>3. /\ q = req[s] /\ i = q.item /\ GoesOn(q, r) /\ unsure \subseteq unsure'
        /\ Unwritten(r) => Unwritten(q) /\ x = row[i]
        /\ \/ x.image = row[i].image
           \/ Unwritten(q) /\ ~Unwritten(r) /\ x.image \in {0, q.upload}
        /\ r.step = "drop" => Unwritten(q) /\ x.image \in {0, q.upload}
        /\ r.step = "fail" => Unwritten(q) /\ (x = row[i] \/ i \in unsure')
        /\ \/ files' = files
           \/ files' = files \ HeldBy(q) /\ q.step \in {"fail", "drop"} /\ x = row[i]
    BY DEF CatStatement
  <1>4. /\ \A j, k \in Items :
             j # k /\ row[j].image # 0 => row[j].image # row[k].image
        /\ \A t \in Clients, j \in Items :
            /\ req[t].old.image # 0 /\ (j # req[t].item \/ req[t].step = "drop") =>
                 row[j].image # req[t].old.image
            /\ req[t].upload # 0 /\ Unwritten(req[t]) => row[j].image # req[t].upload
            /\ req[t].upload # 0 /\ req[t].step = "fail" /\ j \notin unsure =>
                 row[j].image # req[t].upload
        /\ \A t \in Clients : req[t].upload # 0 /\ Unwritten(req[t]) =>
            /\ req[t].upload \in files
            /\ \A u \in Clients : req[u].old.image # req[t].upload
            /\ \A u \in Clients \ {t} : req[u].upload # req[t].upload
    BY <1>1 DEF CatImagesInv, At, Item
  <1>5. ASSUME NEW t \in Clients
        PROVE  /\ req'[t].upload \in {0, req[t].upload}
               /\ req'[t].old.image \in {0, req[t].old.image}
               /\ req'[t].old.image # 0 => req'[t].item = req[t].item
               /\ Unwritten(req'[t]) => Unwritten(req[t])
    <2>1. r.old.image # 0 => r.item = q.item
      BY <1>3, CatConstants DEF GoesOn, SameOrder
    <2>2. r.upload \in {0, q.upload} /\ r.old.image \in {0, q.old.image}
      BY <1>2
    <2>3. QED
      BY <2>1, <2>2, <1>2, <1>3
  (* What the row shows now and has not shown before is the upload. *)
  <1>6. ASSUME NEW j \in Items
        PROVE  \/ row'[j].image = row[j].image
               \/ row'[j].image = 0
               \/ j = i /\ Unwritten(q) /\ ~Unwritten(r) /\ q.upload # 0
                    /\ row'[j].image = q.upload
    BY <1>2, <1>3
  <1>7. ASSUME NEW j \in Items, NEW k \in Items, j # k, row'[j].image # 0
        PROVE  row'[j].image # row'[k].image
    BY <1>3, <1>4, <1>6, <1>7
  <1>8. ASSUME NEW t \in Clients, NEW j \in Items, req'[t].old.image # 0,
               j # req'[t].item \/ req'[t].step = "drop"
        PROVE  row'[j].image # req'[t].old.image
    <2>1. req'[t].old.image = req[t].old.image /\ req'[t].item = req[t].item
      BY <1>5, <1>8
    <2>2. CASE j # req[t].item \/ req[t].step = "drop"
      BY <2>1, <2>2, <1>3, <1>4, <1>6, <1>8
    <2>3. CASE j = req[t].item /\ req[t].step # "drop"
      <3>1. t = s /\ j = i /\ r.step = "drop"
        BY <2>1, <2>3, <1>2, <1>3, <1>8
      <3>2. QED
        BY <3>1, <2>1, <1>2, <1>3, <1>4, <1>8
    <2>4. QED
      BY <2>2, <2>3
  <1>9. ASSUME NEW t \in Clients, NEW j \in Items, req'[t].upload # 0,
               Unwritten(req'[t]) \/ (req'[t].step = "fail" /\ j \notin unsure')
        PROVE  row'[j].image # req'[t].upload
    <2>1. req'[t].upload = req[t].upload
      BY <1>5, <1>9
    <2>2. CASE t # s
      <3>1. req'[t] = req[t] /\ (j \notin unsure \/ Unwritten(req[t]))
        BY <2>2, <1>2, <1>3, <1>9
      <3>2. row[j].image # req[t].upload
        BY <2>2, <3>1, <1>2, <1>3, <1>4, <1>9
      <3>3. Unwritten(q) /\ q.upload # 0 => q.upload # req[t].upload
        BY <2>2, <1>3, <1>4
      <3>4. QED
        BY <2>1, <3>2, <3>3, <1>6, <1>9
    <2>3. CASE t = s
      <3>1. Unwritten(q) /\ (j = i => x = row[i])
        BY <2>3, <1>2, <1>3, <1>9
      <3>2. row'[j] = row[j]
        BY <3>1, <1>2
      <3>3. QED
        BY <2>1, <2>3, <3>1, <3>2, <1>3, <1>4, <1>9
    <2>4. QED
      BY <2>2, <2>3
  <1>10. ASSUME NEW t \in Clients, req'[t].upload # 0, Unwritten(req'[t])
         PROVE  /\ req'[t].upload \in files'
                /\ \A u \in Clients : req'[u].old.image # req'[t].upload
                /\ \A u \in Clients \ {t} : req'[u].upload # req'[t].upload
    <2>1. req'[t].upload = req[t].upload /\ Unwritten(req[t])
      BY <1>5, <1>10
    <2>2. req[t].upload \notin HeldBy(q) \/ files' = files
      <3>1. CASE t = s
        BY <3>1, <2>1, <1>3 DEF Unwritten
      <3>2. CASE t # s
        BY <3>2, <2>1, <1>3, <1>4, <1>10 DEF HeldBy
      <3>3. QED
        BY <3>1, <3>2
    <2>3. req'[t].upload \in files'
      BY <2>1, <2>2, <1>3, <1>4, <1>10
    <2>4. QED
      BY <2>1, <2>3, <1>4, <1>5, <1>10
  <1>11. CatImagesInv'
    BY <1>7, <1>8, <1>9, <1>10 DEF CatImagesInv, At, Item
  <1>12. ASSUME NEW j \in Products \ unsure', row'[j].image # 0
         PROVE  row'[j].image \in files'
    <2>1. j \in Items /\ j \notin unsure
      BY <1>3 DEF Items
    <2>2. CASE files' = files
      <3>1. CASE row'[j].image = row[j].image
        BY <3>1, <2>1, <2>2, <1>1, <1>12 DEF ImagesInUseExist
      <3>2. CASE Unwritten(q) /\ q.upload # 0 /\ row'[j].image = q.upload
        BY <3>2, <2>2, <1>3, <1>4
      <3>3. QED
        BY <3>1, <3>2, <2>1, <1>6, <1>12
    <2>3. CASE files' = files \ HeldBy(q) /\ q.step \in {"fail", "drop"} /\ x = row[i]
      <3>1. row'[j] = row[j]
        BY <2>1, <2>3, <1>2
      <3>2. row[j].image \notin HeldBy(q)
        BY <2>1, <2>3, <3>1, <1>3, <1>4, <1>12 DEF HeldBy
      <3>3. QED
        BY <3>1, <3>2, <2>1, <2>3, <1>1, <1>12 DEF ImagesInUseExist
    <2>4. QED
      BY <2>2, <2>3, <1>3
  <1>13. QED
    BY <1>11, <1>12 DEF ImagesInUseExist

LEMMA StatementHeld ==
    ASSUME CatalogInv, NEW s \in Clients, NEW i, NEW q, NEW x, NEW r,
           CatStatement(s, i, q, x, r),
           (HeldBy(q) \union {row[i].image}) \intersect files'
             \subseteq strays' \union {x.image} \union HeldBy(r) \union {0}
    PROVE  CatHeldInv'
  <1>1. CatTypes /\ CatRequestsInv /\ CatHeldInv /\ 0 \notin files
    BY DEF CatalogInv, CatTypes, CatalogTypeOK
  <1>2. /\ i \in Items
        /\ row'[i] = x /\ (\A j \in Items \ {i} : row'[j] = row[j])
        /\ req'[s] = r /\ (\A t \in Clients \ {s} : req'[t] = req[t])
    BY <1>1, StatementData
  <1>3. q = req[s] /\ strays \subseteq strays' /\ files' \subseteq files
    BY DEF CatStatement
  <1>4. ASSUME NEW f \in files' \ strays'
        PROVE  \/ \E j \in Items : row'[j].image = f
               \/ \E t \in Clients : f \in HeldBy(req'[t])
    <2>1. f \in files \ strays /\ f # 0
      BY <1>1, <1>3
    <2>2. CASE f \in HeldBy(q) \union {row[i].image}
      <3>1. f = x.image \/ f \in HeldBy(r)
        BY <2>1, <2>2, <1>4
      <3>2. QED
        BY <3>1, <1>2
    <2>3. CASE f \notin HeldBy(q) \union {row[i].image}
      <3>1. CASE \E j \in Items : row[j].image = f
        BY <3>1, <2>3, <1>2
      <3>2. CASE \E t \in Clients : f \in HeldBy(req[t])
        BY <3>2, <2>3, <1>2, <1>3
      <3>3. QED
        BY <3>1, <3>2, <2>1, <1>1 DEF CatHeldInv
    <2>4. QED
      BY <2>2, <2>3
  <1>5. QED
    BY <1>4 DEF CatHeldInv

LEMMA StatementSlugs ==
    ASSUME CatalogInv, NEW s \in Clients, NEW i, NEW q, NEW x, NEW r,
           CatStatement(s, i, q, x, r),
           i \notin crossed \union custom' /\ x.state # "none" => Suffixed(x.slug, x.name)
    PROVE  SlugsFollowNames'
  <1>1. CatTypes /\ CatRequestsInv /\ SlugsFollowNames
    BY DEF CatalogInv
  <1>2. i \in Items /\ row'[i] = x /\ (\A j \in Items \ {i} : row'[j] = row[j])
    BY <1>1, StatementData
  <1>3. custom' \ {i} = custom \ {i} /\ crossed' = crossed
    BY DEF CatStatement
  <1>4. ASSUME NEW j \in Items \ (crossed \union custom'), row'[j].state # "none"
        PROVE  Suffixed(row'[j].slug, row'[j].name)
    <2>1. CASE j = i
      BY <2>1, <1>2, <1>4
    <2>2. CASE j # i
      <3>1. row'[j] = row[j] /\ j \notin custom
        BY <2>2, <1>2, <1>3, <1>4
      <3>2. QED
        BY <3>1, <1>1, <1>4 DEF SlugsFollowNames, Exists
    <2>3. QED
      BY <2>1, <2>2
  <1>5. QED
    BY <1>3, <1>4 DEF SlugsFollowNames, Exists, Suffixed

(* A statement keeps the invariant if the request keeps what it has        *)
(* checked, no image is forgotten, and the slug follows the name.          *)
LEMMA StatementKeepsCatalog ==
    ASSUME CatalogInv, NEW s \in Clients, NEW i, NEW q, NEW x, NEW r,
           CatStatement(s, i, q, x, r),
           Unwritten(r) => \A g \in ToCheck(q.pay, q.old) \ r.todo :
                             g \notin crossed => Active(g),
           (HeldBy(q) \union {row[i].image}) \intersect files'
             \subseteq strays' \union {x.image} \union HeldBy(r) \union {0},
           i \notin crossed \union custom' /\ x.state # "none" => Suffixed(x.slug, x.name)
    PROVE  CatalogInv'
  <1>1. CatTypes' /\ CatRequestsInv'
    BY StatementTypes
  <1>2. CatRowsInv' /\ CatNamedInv'
    BY StatementRows
  <1>3. CatFoundInv'
    BY StatementFound
  <1>4. CatImagesInv' /\ ImagesInUseExist'
    BY StatementImages
  <1>5. CatHeldInv'
    BY StatementHeld
  <1>6. SlugsFollowNames'
    BY StatementSlugs
  <1>7. QED
    BY <1>1, <1>2, <1>3, <1>4, <1>5, <1>6 DEF CatalogInv

-----------------------------------------------------------------------------
(* Requests that begin *)

(* A new request has its own upload and finds the row as it has read it.   *)
LEMMA CatBeginKeeps ==
    ASSUME CatalogInv, NEW s \in Clients, NEW op \in CatKind,
           NEW i \in Items, NEW p \in CatBody, NEW status \in {"ACTIVE", "INACTIVE"},
           BeginRequest(s, op, i, p, status), Fits(i, p),
           op = "create" => /\ i \notin NamedByOpen /\ ~Exists(i)
                              /\ p.name # Same /\ p.image # "remove",
           op # "create" => Live(i),
           op \in {"status", "delete"} => p = NoPayload
    PROVE  CatalogInv'
  <1> DEFINE u == IF p.image = "new" THEN begun + 1 ELSE 0
             r == [kind |-> op, item |-> i, pay |-> p, status |-> status,
                   upload |-> u, old |-> row[i],
                   step |-> IF Derived(op, i, p, row[i]) THEN "slug" ELSE "write",
                   k |-> 1, tries |-> 0, todo |-> ToCheck(p, row[i])]
  <1>1. /\ CatTypes /\ CatRequestsInv /\ CatRowsInv /\ CatNamedInv /\ CatFoundInv
        /\ CatImagesInv /\ CatHeldInv /\ SlugsFollowNames /\ ImagesInUseExist
    BY DEF CatalogInv
  <1>2. /\ req[s].kind = "none" /\ begun < MaxBegun /\ begun' = begun + 1
        /\ req' = [req EXCEPT ![s] = r]
        /\ files' = IF p.image = "new" THEN files \union {begun + 1} ELSE files
        /\ crossed' = crossed \union (({i} \union p.groups) \intersect NamedByOpen)
        /\ UNCHANGED <<row, custom, strays, unsure>>
    BY DEF BeginRequest
  <1>3. /\ begun \in Nat /\ begun + 1 \in Nat /\ MaxBegun \in Nat /\ MaxRetries # 0
        /\ MaxRetries \in Nat
    BY <1>1, CatalogAssumption DEF CatTypes, CatalogTypeOK
  <1>4. p.groups \subseteq Groups /\ Groups \subseteq Items
    BY DEF CatBody, Items
  <1>5. /\ r.kind = op /\ r.item = i /\ r.pay = p /\ r.upload = u /\ r.old = row[i]
        /\ r.step \in {"slug", "write"} /\ Unwritten(r) /\ r.tries = 0 /\ r.k = 1
        /\ r.todo = ToCheck(p, row[i])
        /\ op \in {"status", "delete"} => r.step = "write"
    BY DEF Unwritten, Derived
  <1>6. u \in Nat /\ (u # 0 <=> p.image = "new") /\ u \in {0, begun + 1}
        /\ (u # 0 => u \in files') /\ files \subseteq files' /\ files' \subseteq files \union {u}
    BY <1>2, <1>3
  <1>7. r \in CatRequest
    <2>1. row[i] \in Row /\ ToCheck(p, row[i]) \subseteq Groups
      BY <1>1, <1>4, CatRowTypes DEF ToCheck
    <2>2. 1 \in Nat \ {0} /\ 0 \in 0..MaxRetries
      BY <1>3
    <2>3. QED
      BY <2>1, <2>2, <1>6 DEF CatRequest
  <1>8. CatRequestOK(r)
    <2>1. op = "create" => row[i] = NoRow
      BY <1>1 DEF CatRowsInv
    <2>2. op \in CatKind \ {"create"} => row[i].state = "live"
      BY DEF Live
    <2>3. op # "none"
      BY DEF CatKind
    <2>4. i \in Groups => p.image = "keep" /\ p.groups = {}
      BY DEF Fits
    <2> HIDE DEF r
    <2>5. QED
      BY <2>1, <2>2, <2>3, <2>4, <1>5, <1>6 DEF CatRequestOK
  <1> HIDE DEF r, u
  <1>9. /\ req' \in [Clients -> CatRequest] /\ req'[s] = r
        /\ \A t \in Clients \ {s} : req'[t] = req[t]
    BY <1>1, <1>2, <1>7 DEF CatTypes
  <1>10. \A j \in Items : row[j].image \in Nat /\ row[j].image <= begun
    BY <1>1, CatRowTypes
  <1>11. \A t \in Clients : /\ req[t].upload \in Nat /\ req[t].upload <= begun
                            /\ req[t].old.image \in Nat /\ req[t].old.image <= begun
    BY <1>1, CatRequestTypes
  <1>12. CatTypes'
    <2>1. \A t \in Clients :
            /\ req'[t].kind \in {"none", "create", "update", "status", "delete"}
            /\ req'[t].item \in Items \union {Nothing} /\ req'[t].todo \subseteq Groups
            /\ req'[t].k \in Nat \ {0} /\ req'[t].tries \in 0..MaxRetries
      <3>1. \A t \in Clients : req'[t] \in CatRequest
        BY <1>9
      <3>2. QED
        BY <3>1 DEF CatRequest, CatKind
    <2>2. \A t \in Clients : req'[t].tries = MaxRetries => req'[t].step = "fail"
      BY <1>1, <1>3, <1>5, <1>9 DEF CatTypes, CatalogTypeOK, At
    <2>3. \A t \in Clients : req'[t].upload \in 0..begun'
      BY <1>2, <1>3, <1>5, <1>6, <1>9, <1>11
    <2>4. /\ files' \subseteq 1..begun' /\ strays' \subseteq 1..begun'
          /\ begun' \in 0..MaxBegun
      <3>1. files \subseteq 1..begun /\ strays \subseteq 1..begun
        BY <1>1 DEF CatTypes, CatalogTypeOK
      <3>2. QED
        BY <3>1, <1>2, <1>3
    <2>5. crossed' \subseteq Items
      BY <1>1, <1>2, <1>4 DEF CatTypes, CatalogTypeOK
    <2>6. CatalogTypeOK'
      BY <2>1, <2>2, <2>3, <2>4, <2>5, <1>1, <1>2 DEF CatTypes, CatalogTypeOK, At
    <2>7. \A t \in Clients : req'[t].old.image <= begun'
      BY <1>2, <1>3, <1>5, <1>9, <1>10, <1>11
    <2>8. \A j \in Items : row'[j].image <= begun'
      BY <1>2, <1>3, <1>10
    <2>9. QED
      BY <2>6, <2>7, <2>8, <1>9 DEF CatTypes
  <1>13. CatRequestsInv'
    BY <1>1, <1>8, <1>9 DEF CatRequestsInv
  <1>14. CatRowsInv'
    <2>1. /\ \A j \in Items : row[j].state = "none" => row[j] = NoRow
          /\ \A j \in Groups : row[j].image = 0
          /\ \A t \in Clients :
              /\ req[t].kind = "create" /\ Unwritten(req[t]) =>
                   /\ row[req[t].item].state = "none"
                   /\ \A v \in Clients \ {t} : req[v].item # req[t].item
              /\ req[t].kind \in CatKind \ {"create"} => row[req[t].item].state # "none"
      BY <1>1 DEF CatRowsInv, Exists, Item
    <2>2. op # "create" => row[i].state # "none"
      BY DEF Live
    <2>3. op = "create" => row[i].state = "none" /\ \A t \in Clients : req[t].item # i
      BY DEF Exists, NamedByOpen, Named
    <2>4. ASSUME NEW t \in Clients, req'[t].kind = "create", Unwritten(req'[t])
          PROVE  /\ row[req'[t].item].state = "none"
                 /\ \A v \in Clients \ {t} : req'[v].item # req'[t].item
      <3>1. CASE t = s
        BY <3>1, <2>3, <2>4, <1>5, <1>9
      <3>2. CASE t # s
        <4>1. req'[t] = req[t]
          BY <3>2, <1>9
        <4>2. row[req[t].item].state = "none"
          BY <4>1, <2>1, <2>4
        <4>3. i # req[t].item
          BY <4>2, <2>2, <2>3
        <4>4. QED
          BY <4>1, <4>2, <4>3, <2>1, <2>4, <1>5, <1>9
      <3>3. QED
        BY <3>1, <3>2
    <2>5. ASSUME NEW t \in Clients, req'[t].kind \in CatKind \ {"create"}
          PROVE  row[req'[t].item].state # "none"
      BY <2>1, <2>2, <2>5, <1>5, <1>9
    <2>6. QED
      BY <2>1, <2>4, <2>5, <1>2 DEF CatRowsInv, Exists, Item
  <1>15. CatNamedInv'
    <2>1. \A t \in Clients \ {s} : Named(t)' = Named(t)
      BY <1>9 DEF Named
    <2>2. Named(s)' = {i} \union p.groups
      BY <1>5, <1>9 DEF Named
    <2>3. \A t \in Clients : Named(t) \intersect ({i} \union p.groups) \subseteq crossed'
      BY <1>2 DEF NamedByOpen
    <2>4. crossed \subseteq crossed'
      BY <1>2
    <2>5. ASSUME NEW t \in Clients, NEW v \in Clients, t # v
          PROVE  Named(t)' \intersect Named(v)' \subseteq crossed' \union {Nothing}
      <3>1. CASE t = s \/ v = s
        BY <3>1, <2>1, <2>2, <2>3, <2>5
      <3>2. CASE t # s /\ v # s
        BY <3>2, <2>1, <2>4, <2>5, <1>1 DEF CatNamedInv
      <3>3. QED
        BY <3>1, <3>2
    <2>6. QED
      BY <2>5 DEF CatNamedInv
  <1>16. CatFoundInv'
    <2>1. crossed \subseteq crossed'
      BY <1>2
    <2>2. ASSUME NEW t \in Clients, NEW y, y = req'[t], Unwritten(y)
          PROVE  /\ y.item \notin crossed' => row[y.item] = y.old
                 /\ \A g \in ToCheck(y.pay, y.old) \ y.todo :
                      g \notin crossed' => Active(g)
      <3>1. CASE t = s
        BY <3>1, <2>2, <1>5, <1>9
      <3>2. CASE t # s
        <4>1. y = req[t]
          BY <3>2, <2>2, <1>9
        <4>2. Unwritten(req[t])
          BY <4>1, <2>2
        <4>3. /\ req[t].item \notin crossed => row[req[t].item] = req[t].old
              /\ \A g \in ToCheck(req[t].pay, req[t].old) \ req[t].todo :
                   g \notin crossed => Active(g)
          BY <4>2, <1>1 DEF CatFoundInv, Item, Pay
        <4>4. QED
          BY <4>1, <4>3, <2>1
      <3>3. QED
        BY <3>1, <3>2
    <2>3. QED
      BY <2>2, <1>2 DEF CatFoundInv, Item, Pay, Active, Live
  <1>17. CatImagesInv'
    <2>1. /\ \A j, k \in Items :
               j # k /\ row[j].image # 0 => row[j].image # row[k].image
          /\ \A t \in Clients, j \in Items :
              /\ req[t].old.image # 0 /\ (j # req[t].item \/ req[t].step = "drop") =>
                   row[j].image # req[t].old.image
              /\ req[t].upload # 0 /\ Unwritten(req[t]) => row[j].image # req[t].upload
              /\ req[t].upload # 0 /\ req[t].step = "fail" /\ j \notin unsure =>
                   row[j].image # req[t].upload
          /\ \A t \in Clients : req[t].upload # 0 /\ Unwritten(req[t]) =>
              /\ req[t].upload \in files
              /\ \A v \in Clients : req[v].old.image # req[t].upload
              /\ \A v \in Clients \ {t} : req[v].upload # req[t].upload
      BY <1>1 DEF CatImagesInv, At, Item
    <2>2. ASSUME NEW t \in Clients, NEW j \in Items
          PROVE  /\ req'[t].old.image # 0 /\ (j # req'[t].item \/ req'[t].step = "drop") =>
                      row[j].image # req'[t].old.image
                 /\ req'[t].upload # 0
                    /\ (Unwritten(req'[t]) \/ (req'[t].step = "fail" /\ j \notin unsure)) =>
                      row[j].image # req'[t].upload
      <3>1. CASE t = s
        <4>1. row[j].image # begun + 1
          BY <1>3, <1>10
        <4>2. QED
          BY <3>1, <4>1, <2>1, <1>5, <1>6, <1>9
      <3>2. CASE t # s
        BY <3>2, <2>1, <1>9
      <3>3. QED
        BY <3>1, <3>2
    <2>3. ASSUME NEW t \in Clients, req'[t].upload # 0, Unwritten(req'[t])
          PROVE  /\ req'[t].upload \in files'
                 /\ \A v \in Clients : req'[v].old.image # req'[t].upload
                 /\ \A v \in Clients \ {t} : req'[v].upload # req'[t].upload
      <3>1. CASE t = s
        <4>1. req'[t].upload = begun + 1 /\ req'[t].upload \in files'
          BY <3>1, <2>3, <1>5, <1>6, <1>9
        <4>2. row[i].image # begun + 1
          BY <1>3, <1>10
        <4>3. \A v \in Clients : req[v].old.image # begun + 1
                                  /\ req[v].upload # begun + 1
          BY <1>3, <1>11
        <4>4. QED
          BY <3>1, <4>1, <4>2, <4>3, <1>5, <1>9
      <3>2. CASE t # s
        <4>1. req'[t] = req[t] /\ req[t].upload # 0 /\ Unwritten(req[t])
          BY <3>2, <2>3, <1>9
        <4>2. row[i].image # req[t].upload /\ req[t].upload # begun + 1
          BY <4>1, <2>1, <1>3, <1>11
        <4>3. QED
          BY <4>1, <4>2, <2>1, <1>5, <1>6, <1>9
      <3>3. QED
        BY <3>1, <3>2
    <2>4. QED
      BY <2>1, <2>2, <2>3, <1>2 DEF CatImagesInv, At, Item
  <1>18. CatHeldInv'
    <2>1. u \in HeldBy(r)
      BY <1>5 DEF HeldBy
    <2>2. HeldBy(req[s]) = {}
      BY <1>1, <1>2, CatConstants DEF CatRequestsInv, CatRequestOK
    <2>3. ASSUME NEW f \in files' \ strays'
          PROVE  \/ \E j \in Items : row'[j].image = f
                 \/ \E t \in Clients : f \in HeldBy(req'[t])
      <3>1. CASE f = u
        BY <3>1, <2>1, <1>9
      <3>2. CASE f # u
        <4>1. f \in files \ strays
          BY <3>2, <2>3, <1>2, <1>6
        <4>2. QED
          BY <4>1, <2>2, <1>1, <1>2, <1>9 DEF CatHeldInv
      <3>3. QED
        BY <3>1, <3>2
    <2>4. QED
      BY <2>3 DEF CatHeldInv
  <1>19. SlugsFollowNames'
    BY <1>1, <1>2 DEF SlugsFollowNames, Exists, Suffixed
  <1>20. ImagesInUseExist'
    BY <1>1, <1>2, <1>6 DEF ImagesInUseExist
  <1>21. QED
    BY <1>12, <1>13, <1>14, <1>15, <1>16, <1>17, <1>18, <1>19, <1>20 DEF CatalogInv

(* The four handlers as they begin. *)
LEMMA CatBeginsKeep ==
    ASSUME CatalogInv, NEW s \in Clients,
           \/ BeginCreate(s) \/ BeginUpdate(s)
           \/ BeginStatus(s) \/ BeginDelete(s)
    PROVE  CatalogInv'
  <1>1. Bodies \subseteq CatBody /\ NoPayload \in CatBody
    BY CatConstants
  <1>2. \A i : Fits(i, NoPayload)
    BY DEF Fits, NoPayload
  <1>3. CASE BeginCreate(s)
    <2>1. PICK i \in Items \ NamedByOpen, p \in Bodies :
            /\ ~Exists(i) /\ Fits(i, p) /\ p.name # Same /\ p.image # "remove"
            /\ BeginRequest(s, "create", i, p, "ACTIVE")
      BY <1>3 DEF BeginCreate
    <2>2. "create" \in CatKind
      BY DEF CatKind
    <2>3. QED
      BY <2>1, <2>2, <1>1, CatBeginKeeps
  <1>4. CASE BeginUpdate(s)
    <2>1. PICK i \in Items, p \in Bodies :
            Live(i) /\ Fits(i, p) /\ BeginRequest(s, "update", i, p, "ACTIVE")
      BY <1>4 DEF BeginUpdate
    <2>2. "update" \in CatKind
      BY DEF CatKind
    <2>3. QED
      BY <2>1, <2>2, <1>1, CatBeginKeeps
  <1>5. CASE BeginStatus(s)
    <2>1. PICK i \in Items, status \in {"ACTIVE", "INACTIVE"} :
            Live(i) /\ BeginRequest(s, "status", i, NoPayload, status)
      BY <1>5 DEF BeginStatus
    <2>2. "status" \in CatKind
      BY DEF CatKind
    <2>3. QED
      BY <2>1, <2>2, <1>1, <1>2, CatBeginKeeps
  <1>6. CASE BeginDelete(s)
    <2>1. PICK i \in Items :
            Live(i) /\ BeginRequest(s, "delete", i, NoPayload, "ACTIVE")
      BY <1>6 DEF BeginDelete
    <2>2. "delete" \in CatKind
      BY DEF CatKind
    <2>3. QED
      BY <2>1, <2>2, <1>1, <1>2, CatBeginKeeps
  <1>7. QED
    BY <1>3, <1>4, <1>5, <1>6

-----------------------------------------------------------------------------
(* The statements *)

(* A request with a step left is about a row. *)
LEMMA OpenRequest ==
    ASSUME CatalogInv, NEW s \in Clients, req[s].step # "none"
    PROVE  /\ req[s].kind # "none" /\ req[s].item \in Items
           /\ req[s] \in CatRequest /\ CatRequestOK(req[s])
           /\ row[req[s].item] \in Row
           /\ [row EXCEPT ![req[s].item] = row[req[s].item]] = row
           /\ row \in [Items -> Row] /\ req \in [Clients -> CatRequest]
           /\ strays \subseteq 1..begun /\ unsure \subseteq Items
           /\ custom \subseteq Items /\ begun \in Nat /\ 0 \notin files
           /\ MaxRetries \in Nat \ {0}
  <1>1. CatTypes /\ CatRequestsInv
    BY DEF CatalogInv
  <1>2. req[s].kind # "none" /\ req[s].item \in Items
    BY <1>1, CatRequestTypes
  <1>3. /\ row \in [Items -> Row] /\ req \in [Clients -> CatRequest]
        /\ strays \subseteq 1..begun /\ unsure \subseteq Items
        /\ custom \subseteq Items /\ begun \in Nat /\ files \subseteq 1..begun
    BY <1>1 DEF CatTypes, CatalogTypeOK
  <1>4. MaxRetries \in Nat \ {0}
    BY CatalogAssumption
  <1>5. QED
    BY <1>1, <1>2, <1>3, <1>4 DEF CatRequestsInv

(* The slug of a row that no other request is about and that was not given *)
(* by a request follows its name.                                          *)
LEMMA SlugAsBefore ==
    ASSUME CatalogInv, NEW i \in Items, i \notin crossed \union custom,
           row[i].state # "none"
    PROVE  Suffixed(row[i].slug, row[i].name)
  BY DEF CatalogInv, SlugsFollowNames, Exists

(* A request that goes on without a write has only checked something.      *)
LEMMA ProceedKeeps ==
    ASSUME CatalogInv, NEW s \in Clients, NEW r \in CatRequest,
           Unwritten(req[s]), GoesOn(req[s], r), CatRequestOK(r),
           req' = [req EXCEPT ![s] = r],
           Unwritten(r) \/ r.step = "fail",
           r.tries = MaxRetries => r.step = "fail",
           UNCHANGED <<row, files, begun, crossed, custom, strays, unsure>>,
           Unwritten(r) => \A g \in ToCheck(req[s].pay, req[s].old) \ r.todo :
                             g \notin crossed => Active(g)
    PROVE  CatalogInv'
  <1> DEFINE q == req[s]
             i == q.item
             x == row[i]
  <1>1. q.step # "none" /\ q.step \in {"slug", "write"}
    BY DEF Unwritten
  <1>2. /\ q.kind # "none" /\ i \in Items /\ x \in Row
        /\ [row EXCEPT ![i] = x] = row
        /\ strays \subseteq 1..begun /\ unsure \subseteq Items /\ custom \subseteq Items
    BY <1>1, OpenRequest
  <1>3. r.upload = q.upload
    <2>1. r.step # "none"
      BY DEF Unwritten
    <2>2. QED
      BY <2>1, CatConstants DEF GoesOn, SameOrder
  <1>4. HeldBy(q) = {q.upload} /\ q.upload \in HeldBy(r)
    BY <1>1, <1>3 DEF HeldBy, Unwritten
  <1>5. i \notin crossed \union custom' /\ x.state # "none" => Suffixed(x.slug, x.name)
    BY <1>2, SlugAsBefore
  <1> HIDE DEF x
  <1>6. CatStatement(s, i, q, x, r)
    BY <1>1, <1>2 DEF CatStatement, Unwritten, x
  <1>7. (HeldBy(q) \union {row[i].image}) \intersect files'
          \subseteq strays' \union {x.image} \union HeldBy(r) \union {0}
    BY <1>4 DEF x
  <1> HIDE DEF q, i
  <1>8. QED
    BY <1>5, <1>6, <1>7, StatementKeepsCatalog DEF q

(* A request that has not written goes on, or gives up.                    *)
LEMMA ChecksData ==
    ASSUME CatalogInv, NEW s \in Clients, Unwritten(req[s]),
           NEW r \in CatRequest, SameOrder(req[s], r),
           req' = [req EXCEPT ![s] = r],
           r.step \in {"slug", "write", "fail"}, r.step = "slug" => req[s].step = "slug",
           r.tries = MaxRetries => r.step = "fail",
           UNCHANGED <<row, files, begun, crossed, custom, strays, unsure>>,
           \A g \in ToCheck(req[s].pay, req[s].old) \ r.todo :
             g \notin crossed => Active(g)
    PROVE  CatalogInv'
  <1>1. /\ req[s].kind # "none" /\ CatRequestOK(req[s])
        /\ req[s].step \in {"slug", "write"}
    BY OpenRequest DEF Unwritten
  <1>2. CatRequestOK(r)
    BY <1>1 DEF CatRequestOK, SameOrder
  <1>3. GoesOn(req[s], r) /\ (Unwritten(r) \/ r.step = "fail")
    BY DEF GoesOn, SameOrder, Unwritten
  <1>4. QED
    BY <1>2, <1>3, ProceedKeeps

(* Looking for a slug, checking a group, trying the next slug, giving up.  *)
LEMMA ChecksKeep ==
    ASSUME CatalogInv, NEW s \in Clients,
           FindSlug(s) \/ CheckGroup(s) \/ NextSlug(s) \/ Fails(s)
    PROVE  CatalogInv'
  <1> DEFINE q == req[s]
  <1>1. q.step \in {"slug", "write"} /\ Unwritten(q) /\ q.step # "none"
    BY DEF FindSlug, CheckGroup, NextSlug, Ready, Fails, At, Unwritten
  <1>2. /\ q \in CatRequest /\ req \in [Clients -> CatRequest] /\ MaxRetries \in Nat \ {0}
        /\ q.k \in Nat \ {0} /\ q.k + 1 \in Nat \ {0} /\ q.tries \in 0..MaxRetries
        /\ q.todo \subseteq Groups /\ q.pay.groups \subseteq Groups
    BY <1>1, OpenRequest, CatRequestTypes DEF CatalogInv
  <1>3. q.tries # MaxRetries /\ q.tries + 1 \in 0..MaxRetries
    <2>1. q.tries # MaxRetries
      BY <1>1 DEF CatalogInv, CatTypes, CatalogTypeOK, At
    <2>2. QED
      BY <2>1, <1>2
  <1>4. \A g \in ToCheck(q.pay, q.old) \ q.todo : g \notin crossed => Active(g)
    BY <1>1 DEF CatalogInv, CatFoundInv, Pay
  <1>5. /\ UNCHANGED <<row, files, begun, crossed, custom, strays, unsure>>
    BY DEF FindSlug, CheckGroup, NextSlug, Fails
  <1>6. CASE FindSlug(s)
    <2>1. PICK r : /\ r \in {[q EXCEPT !.k = q.k + 1], [q EXCEPT !.step = "write"]}
                   /\ req' = [req EXCEPT ![s] = r]
      BY <1>6 DEF FindSlug
    <2>2. r \in CatRequest
      <3>1. CASE r = [q EXCEPT !.k = q.k + 1]
        BY <3>1, <1>2 DEF CatRequest
      <3>2. CASE r = [q EXCEPT !.step = "write"]
        BY <3>2, <1>2 DEF CatRequest
      <3>3. QED
        BY <2>1, <3>1, <3>2
    <2>3. /\ SameOrder(q, r) /\ r.step \in {"write", q.step} /\ r.todo = q.todo
          /\ r.tries = q.tries
      BY <2>1, <1>2 DEF CatRequest, SameOrder
    <2> HIDE DEF q
    <2>4. QED
      BY <2>1, <2>2, <2>3, <1>1, <1>3, <1>4, <1>5, ChecksData DEF q
  <1>7. CASE CheckGroup(s)
    <2>1. PICK g \in q.todo : Active(g) /\ req' = [req EXCEPT ![s].todo = @ \ {g}]
      BY <1>7 DEF CheckGroup
    <2>2. PICK r : r = [q EXCEPT !.todo = q.todo \ {g}]
      OBVIOUS
    <2>3. req' = [req EXCEPT ![s] = r]
      BY <2>1, <2>2
    <2>4. r \in CatRequest
      BY <2>2, <1>2 DEF CatRequest
    <2>5. SameOrder(q, r) /\ r.step = q.step /\ r.todo = q.todo \ {g} /\ r.tries = q.tries
      BY <2>2, <1>2 DEF CatRequest, SameOrder
    <2>6. \A h \in ToCheck(q.pay, q.old) \ r.todo : h \notin crossed => Active(h)
      BY <2>1, <2>5, <1>4
    <2> HIDE DEF q
    <2>7. QED
      BY <2>3, <2>4, <2>5, <2>6, <1>1, <1>3, <1>5, ChecksData DEF q
  <1>8. CASE NextSlug(s)
    <2> DEFINE step == IF GivesUp(q.tries + 1) THEN "fail" ELSE q.step
               todo == IF q.kind = "update" THEN ToCheck(q.pay, q.old) ELSE {}
    <2>1. /\ q.todo = {} /\ q.step = "write"
          /\ req' = [req EXCEPT
               ![s].k = @ + 1, ![s].tries = @ + 1, ![s].step = step, ![s].todo = todo]
      BY <1>8 DEF NextSlug, Ready, At, Pay
    <2>2. /\ todo \subseteq Groups /\ step \in {"write", "fail"}
          /\ q.tries + 1 = MaxRetries => step = "fail"
          /\ \A h \in ToCheck(q.pay, q.old) \ todo : h \notin crossed => Active(h)
      BY <2>1, <1>2, <1>4 DEF ToCheck, GivesUp
    <2> HIDE DEF step, todo
    <2>3. PICK r : r = [q EXCEPT !.k = q.k + 1, !.tries = q.tries + 1, !.step = step, !.todo = todo]
      OBVIOUS
    <2>4. req' = [req EXCEPT ![s] = r]
      BY <2>1, <2>3, <1>2 DEF CatRequest
    <2>5. r \in CatRequest
      BY <2>2, <2>3, <1>2, <1>3 DEF CatRequest
    <2>6. SameOrder(q, r) /\ r.step = step /\ r.todo = todo /\ r.tries = q.tries + 1
      BY <2>3, <1>2 DEF CatRequest, SameOrder
    <2> HIDE DEF q
    <2>7. QED
      BY <2>2, <2>4, <2>5, <2>6, <1>1, <1>5, ChecksData DEF q
  <1>9. CASE Fails(s)
    <2>1. PICK r : r = [q EXCEPT !.step = "fail"]
      OBVIOUS
    <2>2. req' = [req EXCEPT ![s] = r]
      BY <1>9, <2>1 DEF Fails
    <2>3. r \in CatRequest
      BY <2>1, <1>2 DEF CatRequest
    <2>4. SameOrder(q, r) /\ r.step = "fail" /\ r.todo = q.todo
      BY <2>1, <1>2 DEF CatRequest, SameOrder
    <2> HIDE DEF q
    <2>5. QED
      BY <2>2, <2>3, <2>4, <1>1, <1>4, <1>5, ChecksData DEF q
  <1>10. QED
    BY <1>6, <1>7, <1>8, <1>9

(* A request ends, and the row it is about keeps its name, slug and image. *)
LEMMA EndingKeepsCatalog ==
    ASSUME CatalogInv, NEW s \in Clients, req[s].step # "none",
           NEW x \in Row, row' = [row EXCEPT ![req[s].item] = x], EndRequest(s),
           x.name = row[req[s].item].name, x.slug = row[req[s].item].slug,
           x.image = row[req[s].item].image,
           x.state = "none" <=> row[req[s].item].state = "none",
           x.state = "none" => x = row[req[s].item],
           UNCHANGED <<begun, crossed, custom, unsure>>,
           strays \subseteq strays', strays' \subseteq 1..begun,
           \/ files' = files
           \/ /\ files' = files \ HeldBy(req[s]) /\ req[s].step \in {"fail", "drop"}
              /\ x = row[req[s].item],
           HeldBy(req[s]) \intersect files' \subseteq strays'
    PROVE  CatalogInv'
  <1> DEFINE q == req[s]
             i == q.item
             r == NoRequest
  <1>1. q.kind # "none" /\ i \in Items /\ MaxRetries \in Nat \ {0}
        /\ unsure \subseteq Items /\ custom \subseteq Items
    BY OpenRequest
  <1>2. /\ r \in CatRequest /\ CatRequestOK(r) /\ ~Unwritten(r) /\ r.step = "none" /\ r.tries = 0
    BY CatConstants
  <1>3. req' = [req EXCEPT ![s] = r]
    BY DEF EndRequest
  <1>4. i \notin crossed \union custom' /\ x.state # "none" => Suffixed(x.slug, x.name)
    BY <1>1, SlugAsBefore
  <1> HIDE DEF r
  <1>5. CatStatement(s, i, q, x, r)
    BY <1>1, <1>2, <1>3 DEF CatStatement, GoesOn, r
  <1> HIDE DEF q, i
  <1>6. (HeldBy(q) \union {row[i].image}) \intersect files'
          \subseteq strays' \union {x.image} \union HeldBy(r) \union {0}
    BY DEF q, i
  <1>7. QED
    BY <1>2, <1>4, <1>5, <1>6, StatementKeepsCatalog

(* A request in its last step removes an image or fails to, one dies, and  *)
(* updateStatus and delete write one column.                               *)
LEMMA EndingsKeep ==
    ASSUME CatalogInv, NEW s \in Clients,
           \/ RemoveImage(s) \/ RemoveImageFails(s) \/ Crash(s)
           \/ SetStatus(s) \/ Delete(s)
    PROVE  CatalogInv'
  <1> DEFINE q == req[s]
             i == q.item
  <1>1. q.step # "none" /\ EndRequest(s) /\ UNCHANGED <<begun, crossed, custom, unsure>>
    BY DEF RemoveImage, RemoveImageFails, Crash, SetStatus, Delete, At
  <1>2. /\ q.kind # "none" /\ i \in Items /\ CatRequestOK(q)
        /\ row[i] \in Row /\ [row EXCEPT ![i] = row[i]] = row
        /\ strays \subseteq 1..begun /\ begun \in Nat /\ 0 \notin files
    BY <1>1, OpenRequest
  <1>3. /\ q.upload \in Nat /\ q.upload <= begun
        /\ q.old.image \in Nat /\ q.old.image <= begun
    BY CatRequestTypes DEF CatalogInv
  <1>4. HeldBy(q) \ {0} \subseteq 1..begun
    BY <1>2, <1>3 DEF HeldBy
  <1>5. q.step \in {"fail", "drop"} => Doomed(s) = HeldBy(q) \ {0}
    BY <1>2 DEF Doomed, At, HeldBy, CatRequestOK
  <1>6. CASE RemoveImage(s)
    <2>1. /\ q.step \in {"fail", "drop"} /\ files' = files \ HeldBy(q)
          /\ strays' = strays /\ row' = row
      BY <1>2, <1>5, <1>6 DEF RemoveImage, At
    <2>2. HeldBy(q) \intersect files' \subseteq strays'
      BY <2>1
    <2> HIDE DEF i, q
    <2>3. QED
      BY <2>1, <2>2, <1>1, <1>2, EndingKeepsCatalog DEF i, q
  <1>7. CASE RemoveImageFails(s) \/ Crash(s)
    <2>1. files' = files /\ row' = row
      BY <1>7 DEF RemoveImageFails, Crash
    <2>2. strays' = strays \union (HeldBy(q) \ {0})
      <3>1. CASE RemoveImageFails(s)
        BY <3>1, <1>5 DEF RemoveImageFails, At
      <3>2. CASE Crash(s)
        BY <3>2 DEF Crash, At, HeldBy
      <3>3. QED
        BY <1>7, <3>1, <3>2
    <2>3. HeldBy(q) \intersect files' \subseteq strays' /\ strays' \subseteq 1..begun
      BY <2>1, <2>2, <1>2, <1>4
    <2> HIDE DEF i, q
    <2>4. QED
      BY <2>1, <2>2, <2>3, <1>1, <1>2, EndingKeepsCatalog DEF i, q
  <1>8. CASE SetStatus(s) \/ Delete(s)
    <2>1. /\ files' = files /\ strays' = strays /\ q.kind \in {"status", "delete"}
          /\ q.step = "write"
      BY <1>8 DEF SetStatus, Delete, At
    <2>2. q.status \in {"ACTIVE", "INACTIVE"} /\ row[i].state # "none"
      BY <1>1, <1>2, <2>1, OpenRequest
         DEF CatalogInv, CatRowsInv, CatRequest, CatKind, Exists, Item
    <2>3. PICK x : /\ x \in {[row[i] EXCEPT !.status = q.status],
                             [row[i] EXCEPT !.state = "deleted"]}
                   /\ row' = [row EXCEPT ![i] = x]
      BY <1>8 DEF SetStatus, Delete, Item
    <2>4. /\ x \in Row /\ x.name = row[i].name /\ x.slug = row[i].slug
          /\ x.image = row[i].image /\ x.state # "none"
      <3>1. CASE x = [row[i] EXCEPT !.status = q.status]
        BY <3>1, <1>2, <2>2 DEF Row
      <3>2. CASE x = [row[i] EXCEPT !.state = "deleted"]
        BY <3>2, <1>2, <2>2 DEF Row
      <3>3. QED
        BY <2>3, <3>1, <3>2
    <2>5. HeldBy(q) \intersect files' \subseteq strays'
      <3>1. q.upload = 0
        BY <1>2, <2>1 DEF CatRequestOK, NoPayload
      <3>2. QED
        BY <3>1, <2>1, <1>2 DEF HeldBy
    <2> HIDE DEF i, q
    <2>6. QED
      BY <2>1, <2>2, <2>3, <2>4, <2>5, <1>1, <1>2, EndingKeepsCatalog DEF i, q
  <1>9. QED
    BY <1>6, <1>7, <1>8

(* A slug with a suffix is made of the name before it. *)
LEMMA CandidateSuffixed ==
    ASSUME NEW b \in Seq(Nat), NEW k \in Nat \ {0}
    PROVE  Candidate(b, k) \in Seq(Nat) /\ Suffixed(Candidate(b, k), b)
  <1>1. CASE k = 1
    BY <1>1 DEF Candidate, Suffixed
  <1>2. CASE k # 1
    <2> DEFINE c == Append(b, k)
    <2>1. Len(b) \in Nat /\ c \in Seq(Nat) /\ Len(c) = Len(b) + 1 /\ c[Len(b) + 1] = k
      OBVIOUS
    <2>2. SubSeq(c, 1, Len(b)) = b
      OBVIOUS
    <2>3. c[Len(c)] > 1
      BY <2>1, <1>2
    <2>4. Candidate(b, k) = c
      BY <1>2 DEF Candidate
    <2>5. QED
      BY <2>1, <2>2, <2>3, <2>4 DEF Suffixed
  <1>3. QED
    BY <1>1, <1>2

(* The slug that goes into the row, and the row it goes into.              *)
LEMMA NewRowData ==
    ASSUME CatalogInv, NEW s \in Clients, Ready(s),
           NEW q, q = req[s], NEW i, i = q.item, NEW x, x = NewRow(s)
    PROVE  /\ x \in Row /\ x.slug = Slug(s) /\ x.state # "none"
           /\ x.name = (IF q.pay.name = Same THEN row[i].name ELSE q.pay.name)
           /\ x.image = (IF q.pay.image = "keep" THEN row[i].image ELSE q.upload)
           /\ x.groups \subseteq row[i].groups \union q.pay.groups
  <1>1. /\ q.step = "write" /\ q.kind \in {"create", "update"} /\ q.step # "none"
    BY DEF Ready, At
  <1>2. /\ i \in Items /\ row[i] \in Row /\ CatRequestOK(q) /\ q \in CatRequest
    BY <1>1, OpenRequest
  <1>3. /\ q.upload \in Nat /\ q.pay \in CatBody /\ q.pay.groups \subseteq Groups
        /\ q.k \in Nat \ {0}
    BY CatRequestTypes DEF CatalogInv
  <1>4. Names \subseteq Seq(Nat)
    BY CatalogAssumption
  <1>5. q.pay.name \in Names \union {Same} /\ q.pay.slug \in Names \union {Same}
    BY <1>3 DEF CatBody
  <1>6. /\ row[i].name \in Names /\ row[i].slug \in Seq(Nat)
        /\ row[i].groups \subseteq Groups
        /\ row[i].image \in Nat /\ row[i].state \in {"none", "live", "deleted"}
    BY <1>2 DEF Row
  <1>7. Slug(s) \in Seq(Nat)
    <2>1. CASE DerivedBy(s)
      <3>1. q.pay.name # Same
        BY <2>1, <1>2 DEF DerivedBy, Derived, CatRequestOK, Pay
      <3>2. q.pay.name \in Seq(Nat)
        BY <3>1, <1>4, <1>5
      <3>3. Candidate(q.pay.name, q.k) \in Seq(Nat)
        BY <3>2, <1>3, CandidateSuffixed
      <3>4. QED
        BY <3>3, <2>1 DEF Slug, Pay
    <2>2. CASE ~DerivedBy(s)
      BY <2>2, <1>4, <1>5, <1>6 DEF Slug, Pay, Item
    <2>3. QED
      BY <2>1, <2>2
  <1>8. Moved(row[i].groups, q.pay.groups) \subseteq row[i].groups \union q.pay.groups
    BY DEF Moved
  <1> DEFINE state == IF q.kind = "create" THEN "live" ELSE row[i].state
             name == IF q.pay.name = Same THEN row[i].name ELSE q.pay.name
             image == IF q.pay.image = "keep" THEN row[i].image ELSE q.upload
             slug == Slug(s)
             groups == Moved(row[i].groups, q.pay.groups)
  <1>9. state \in {"none", "live", "deleted"} /\ state # "none"
    BY <1>1, <1>2, <1>6 DEF CatalogInv, CatRowsInv, Exists, Item, CatKind
  <1>10. name \in Names /\ image \in Nat /\ groups \subseteq Groups
    BY <1>3, <1>5, <1>6, <1>8
  <1>11. x = [row[i] EXCEPT !.state = state, !.name = name, !.slug = slug,
                               !.groups = groups, !.image = image]
    BY DEF NewRow, Item, Pay
  <1>12. slug \in Seq(Nat)
    BY <1>7
  <1>13. groups \subseteq row[i].groups \union q.pay.groups
    BY <1>8
  <1> HIDE DEF state, name, image, slug, groups
  <1>14. /\ x \in Row /\ x.state = state /\ x.name = name /\ x.slug = slug
         /\ x.groups = groups /\ x.image = image
    <2>1. PICK o \in Row : o = row[i]
      BY <1>2
    <2>2. x = [o EXCEPT !.state = state, !.name = name, !.slug = slug,
                        !.groups = groups, !.image = image]
      BY <2>1, <1>11
    <2>3. /\ state \in {"none", "live", "deleted"} /\ name \in Names /\ slug \in Seq(Nat)
          /\ image \in Nat /\ groups \in SUBSET Groups
      BY <1>9, <1>10, <1>12
    <2>4. /\ x.state = state /\ x.name = name /\ x.slug = slug /\ x.groups = groups
          /\ x.image = image /\ x.status \in {"ACTIVE", "INACTIVE"}
      BY <2>2 DEF Row
    <2>5. x = [state |-> x.state, status |-> x.status, name |-> x.name, slug |-> x.slug,
               groups |-> x.groups, image |-> x.image]
      BY <2>2 DEF Row
    <2>6. x \in Row
      BY <2>3, <2>4, <2>5 DEF Row
    <2>7. QED
      BY <2>4, <2>6
  <1>15. QED
    BY <1>9, <1>13, <1>14 DEF state, name, image, slug

(* The slug that a write leaves in a row that no other request is about    *)
(* and whose slug was not given.                                           *)
LEMMA WrittenSlug ==
    ASSUME CatalogInv, NEW s \in Clients, WriteRow(s),
           NEW q, q = req[s], NEW i, i = q.item, NEW x, x = NewRow(s),
           i \notin crossed, i \notin custom'
    PROVE  Suffixed(x.slug, x.name)
  <1>1. /\ Ready(s) /\ q.step = "write" /\ q.kind \in {"create", "update"} /\ q.step # "none"
        /\ custom' = IF ~DerivedBy(s) /\ q.pay.slug # Same THEN custom \union {i}
                     ELSE IF q.pay.name \notin {Same, q.old.name} THEN custom \ {i} ELSE custom
    BY DEF WriteRow, Ready, At, Pay, Item
  <1>2. /\ x.slug = Slug(s) /\ x.state # "none"
        /\ x.name = (IF q.pay.name = Same THEN row[i].name ELSE q.pay.name)
    BY <1>1, NewRowData
  <1>3. i \in Items /\ CatRequestOK(q)
    BY <1>1, OpenRequest
  <1>4. q.pay.name \in Names \union {Same} /\ q.k \in Nat \ {0} /\ Names \subseteq Seq(Nat)
    BY CatRequestTypes, CatalogAssumption DEF CatalogInv, CatBody
  <1>5. CASE DerivedBy(s)
    <2>1. q.pay.name # Same
      BY <1>3, <1>5 DEF DerivedBy, Derived, CatRequestOK, Pay
    <2>2. x.name = q.pay.name /\ q.pay.name \in Seq(Nat)
      BY <2>1, <1>2, <1>4
    <2>3. x.slug = Candidate(q.pay.name, q.k)
      BY <1>2, <1>5 DEF Slug, Pay
    <2>4. QED
      BY <2>2, <2>3, <1>4, CandidateSuffixed
  <1>6. CASE ~DerivedBy(s)
    <2>1. q.pay.slug = Same
      BY <1>1, <1>6
    <2>2. x.slug = IF i \in Categories /\ q.pay.name # Same
                   THEN q.pay.name ELSE row[i].slug
      BY <2>1, <1>2, <1>6 DEF Slug, Pay, Item
    <2>3. CASE i \in Categories /\ q.pay.name # Same
      BY <2>2, <2>3, <1>2 DEF Suffixed
    <2>4. CASE i \notin Categories \/ q.pay.name = Same
      <3>1. q.kind = "update" /\ q.pay.name \in {Same, q.old.name}
        BY <2>4, <1>1, <1>3, <1>6 DEF DerivedBy, Derived, CatRequestOK, Item, Pay
      <3>2. row[i] = q.old
        BY <1>1 DEF CatalogInv, CatFoundInv, Unwritten, Item
      <3>3. i \notin custom /\ row[i].state # "none"
        BY <2>1, <3>1, <3>2, <1>1, <1>3 DEF CatRequestOK, CatKind
      <3>4. x.slug = row[i].slug /\ x.name = row[i].name
        BY <2>2, <2>4, <3>1, <3>2, <1>2
      <3>5. QED
        BY <3>3, <3>4, <1>3, SlugAsBefore
    <2>5. QED
      BY <2>3, <2>4
  <1>7. QED
    BY <1>5, <1>6

(* A write, answered or not, leaves a row with a slug of its name; the     *)
(* image of the row that it replaces is dropped by the request, or was     *)
(* not known to it.                                                        *)
LEMMA CatWritesKeep ==
    ASSUME CatalogInv, NEW s \in Clients,
           Write(s) \/ WriteUnanswered(s)
    PROVE  CatalogInv'
  <1> DEFINE q == req[s]
             i == q.item
             drops == q.kind = "update" /\ q.pay.image # "keep" /\ q.old.image # 0
  <1>1. /\ WriteRow(s) /\ Ready(s) /\ q.step = "write" /\ q.kind \in {"create", "update"}
        /\ q.todo = {} /\ q.step # "none" /\ Unwritten(q)
        /\ custom' \in {custom, custom \union {i}, custom \ {i}}
        /\ UNCHANGED <<files, begun, crossed>>
    BY DEF Write, WriteUnanswered, WriteRow, Ready, At, Item, Unwritten
  <1>2. /\ q.kind # "none" /\ i \in Items /\ CatRequestOK(q) /\ q \in CatRequest
        /\ row[i] \in Row /\ MaxRetries # 0
        /\ strays \subseteq 1..begun /\ begun \in Nat
        /\ unsure \subseteq Items /\ custom \subseteq Items
    BY <1>1, OpenRequest
  <1>3. q.tries # MaxRetries
    BY <1>1 DEF CatalogInv, CatTypes, CatalogTypeOK, At
  <1>4. row[i].image \in Nat /\ row[i].image <= begun
    BY <1>2, CatRowTypes DEF CatalogInv
  <1>5. q.kind = "create" => row[i].image = 0
    <2>1. q.kind = "create" => ~Exists(i)
      BY <1>1 DEF CatalogInv, CatRowsInv, Item
    <2>2. ~Exists(i) => row[i] = NoRow
      BY <1>2 DEF CatalogInv, CatRowsInv
    <2>3. QED
      BY <2>1, <2>2, CatConstants
  <1>6. PICK x : x = NewRow(s)
    OBVIOUS
  <1>7. /\ x \in Row /\ x.state # "none"
        /\ x.image = (IF q.pay.image = "keep" THEN row[i].image ELSE q.upload)
    BY <1>1, <1>6, NewRowData
  <1>8. row' = [row EXCEPT ![i] = x]
    BY <1>1, <1>6 DEF WriteRow, Item
  <1>9. i \notin crossed \union custom' => Suffixed(x.slug, x.name)
    BY <1>1, <1>6, WrittenSlug
  <1>10. Replaces(s) <=> q.kind = "update" /\ q.pay.image # "keep"
    BY DEF Replaces, Pay
  <1>11. HeldBy(q) = {q.upload} /\ (q.upload # 0 => q.pay.image = "new")
    BY <1>1, <1>2 DEF HeldBy, CatRequestOK
  <1> HIDE DEF drops
  (* What is left to do, and which image is left behind. *)
  <1>12. ASSUME NEW r \in CatRequest, CatRequestOK(r), GoesOn(q, r), ~Unwritten(r),
                req' = [req EXCEPT ![s] = r], r.tries = q.tries \/ r.tries = 0,
                r.step = "drop" => x.image \in {0, q.upload},
                r.step = "fail" => i \in unsure',
                unsure \subseteq unsure', unsure' \subseteq Items,
                strays \subseteq strays', strays' \subseteq strays \union ({row[i].image} \ {0}),
                x.image # row[i].image =>
                  row[i].image \in strays' \union HeldBy(r) \union {0}
         PROVE  CatalogInv'
    <2>1. /\ r.tries # MaxRetries /\ custom' \ {i} = custom \ {i} /\ custom' \subseteq Items
          /\ strays' \subseteq 1..begun
      BY <1>1, <1>2, <1>3, <1>4, <1>12
    <2>2. x.image = row[i].image \/ x.image \in {0, q.upload}
      BY <1>7
    <2> HIDE DEF q, i
    <2>3. CatStatement(s, i, q, x, r)
      BY <2>1, <2>2, <1>1, <1>2, <1>7, <1>8, <1>12 DEF CatStatement, q, i
    <2>4. (HeldBy(q) \union {row[i].image}) \intersect files'
            \subseteq strays' \union {x.image} \union HeldBy(r) \union {0}
      BY <1>7, <1>11, <1>12
    <2>5. QED
      BY <2>3, <2>4, <1>9, <1>12, StatementKeepsCatalog
  <1>13. CASE Write(s) /\ drops
    <2>1. PICK r : r = [q EXCEPT !.step = "drop"]
      OBVIOUS
    <2>2. /\ req' = [req EXCEPT ![s] = r] /\ unsure' = unsure
          /\ strays' = strays \union ({row[i].image} \ {0, q.old.image})
      BY <2>1, <1>10, <1>13 DEF Write, Overwritten, Item, drops
    <2>3. r \in CatRequest
      BY <2>1, <1>2 DEF CatRequest
    <2>4. SameOrder(q, r) /\ r.step = "drop" /\ r.tries = q.tries
      BY <2>1, <1>2 DEF CatRequest, SameOrder
    <2>5. CatRequestOK(r) /\ GoesOn(q, r) /\ ~Unwritten(r) /\ HeldBy(r) = {q.old.image}
      BY <2>4, <1>2, <1>13 DEF CatRequestOK, SameOrder, GoesOn, Unwritten, HeldBy, drops
    <2>6. x.image = q.upload /\ row[i].image \in strays' \union HeldBy(r) \union {0}
      BY <2>2, <2>5, <1>7, <1>13 DEF drops
    <2>7. /\ strays \subseteq strays' /\ strays' \subseteq strays \union ({row[i].image} \ {0})
      BY <2>2
    <2> HIDE DEF q, i
    <2>8. QED
      BY <2>2, <2>3, <2>4, <2>5, <2>6, <2>7, <1>2, <1>12
  <1>14. CASE Write(s) /\ ~drops
    <2>1. /\ req' = [req EXCEPT ![s] = NoRequest] /\ unsure' = unsure
          /\ strays' = strays \union (IF Replaces(s) THEN {row[i].image} \ {0, q.old.image}
                                      ELSE {})
      BY <1>10, <1>14 DEF Write, EndRequest, Overwritten, Item, drops
    <2>2. q.pay.image # "keep" => row[i].image = 0 \/ (Replaces(s) /\ q.old.image = 0)
      BY <1>1, <1>5, <1>10, <1>14 DEF drops
    <2>3. row[i].image \in strays' \union {0} \/ x.image = row[i].image
      BY <2>1, <2>2, <1>7
    <2> HIDE DEF q, i
    <2>4. QED
      BY <2>1, <2>3, <1>2, <1>12, CatConstants DEF GoesOn
  <1>15. CASE WriteUnanswered(s)
    <2>1. PICK r : r = [q EXCEPT !.step = "fail"]
      OBVIOUS
    <2>2. /\ req' = [req EXCEPT ![s] = r] /\ unsure' = unsure \union {i}
          /\ strays' = strays \union (IF Replaces(s) THEN {row[i].image} \ {0} ELSE {})
      BY <2>1, <1>15 DEF WriteUnanswered, Item
    <2>3. r \in CatRequest
      BY <2>1, <1>2 DEF CatRequest
    <2>4. SameOrder(q, r) /\ r.step = "fail" /\ r.tries = q.tries
      BY <2>1, <1>2 DEF CatRequest, SameOrder
    <2>5. CatRequestOK(r) /\ GoesOn(q, r) /\ ~Unwritten(r)
      BY <2>4, <1>2 DEF CatRequestOK, SameOrder, GoesOn, Unwritten
    <2>6. row[i].image \in strays' \union {0} \/ x.image = row[i].image
      BY <2>2, <1>1, <1>5, <1>7, <1>10
    <2>7. /\ strays \subseteq strays' /\ strays' \subseteq strays \union ({row[i].image} \ {0})
          /\ unsure \subseteq unsure' /\ unsure' \subseteq Items /\ i \in unsure'
      BY <2>2, <1>2
    <2> HIDE DEF q, i
    <2>8. QED
      BY <2>2, <2>3, <2>4, <2>5, <2>6, <2>7, <1>12
  <1>16. QED
    BY <1>13, <1>14, <1>15

-----------------------------------------------------------------------------
(* The catalogue over its behaviours *)

(* The opening rows, and no request: the invariant holds at the start.     *)
LEMMA CatalogInvInit ==
    ASSUME CatalogInit
    PROVE  CatalogInv
  <1>1. /\ row = [i \in Items |-> IF i \in Seeded THEN OpeningRow(i) ELSE NoRow]
        /\ files = {} /\ req = [s \in Clients |-> NoRequest] /\ begun = 0
        /\ crossed = {} /\ custom = {} /\ strays = {} /\ unsure = {}
    BY DEF CatalogInit
  <1>2. MaxBegun \in Nat /\ MaxRetries \in Nat \ {0}
    BY CatalogAssumption
  <1>3. ASSUME NEW i
        PROVE  /\ OpeningRow(i) \in Row /\ OpeningRow(i).image = 0
               /\ OpeningRow(i).state = "live"
               /\ OpeningRow(i).slug = OpeningRow(i).name
    <2> DEFINE groups == IF i \in Products THEN Seeded \intersect Categories ELSE {}
    <2>1. PICK x : x = OpeningRow(i)
      OBVIOUS
    <2>2. PICK o \in Row : o = NoRow
      BY CatConstants
    <2>3. x = [o EXCEPT !.state = "live", !.groups = groups]
      BY <2>1, <2>2 DEF OpeningRow
    <2>4. groups \in SUBSET Groups /\ o.image = 0 /\ o.slug = o.name
      BY <2>2 DEF Groups, NoRow
    <2> HIDE DEF groups
    <2>5. /\ x.state = "live" /\ x.status = o.status /\ x.name = o.name /\ x.slug = o.slug
          /\ x.groups = groups /\ x.image = o.image
      BY <2>3 DEF Row
    <2>6. x = [state |-> x.state, status |-> x.status, name |-> x.name, slug |-> x.slug,
               groups |-> x.groups, image |-> x.image]
      BY <2>3 DEF Row
    <2>7. x \in Row
      BY <2>4, <2>5, <2>6 DEF Row
    <2>8. QED
      BY <2>1, <2>4, <2>5, <2>7
  <1>4. ASSUME NEW i \in Items
        PROVE  /\ row[i] \in Row /\ row[i].image = 0
               /\ row[i].slug = row[i].name
               /\ row[i].state = "none" => row[i] = NoRow
    <2>1. row[i] = IF i \in Seeded THEN OpeningRow(i) ELSE NoRow
      BY <1>1
    <2>2. NoRow.slug = NoRow.name
      BY DEF NoRow
    <2>3. QED
      BY <2>1, <2>2, <1>3, CatConstants
  <1>5. \A s \in Clients : req[s] = NoRequest
    BY <1>1
  <1>6. CatTypes
    <2>1. row \in [Items -> Row]
      BY <1>1, <1>3, CatConstants
    <2>2. req \in [Clients -> CatRequest]
      BY <1>1, CatConstants
    <2>3. \A s \in Clients :
            /\ req[s].kind = "none" /\ req[s].item = Nothing /\ req[s].upload = 0
            /\ req[s].k = 1 /\ req[s].tries = 0 /\ req[s].todo = {}
            /\ req[s].old.image = 0
      BY <1>5, CatConstants
    <2>4. CatalogTypeOK
      BY <2>1, <2>3, <1>1, <1>2 DEF CatalogTypeOK
    <2>5. QED
      BY <2>2, <2>3, <2>4, <1>1, <1>4 DEF CatTypes
  <1>7. CatRequestsInv
    BY <1>5, CatConstants DEF CatRequestsInv
  <1>8. CatRowsInv
    <2>1. \A i \in Groups : i \in Items
      BY DEF Items
    <2>2. \A s \in Clients : req[s].kind = "none"
      BY <1>5, CatConstants
    <2>3. QED
      BY <2>1, <2>2, <1>4 DEF CatRowsInv, Exists, CatKind
  <1>9. CatNamedInv
    BY <1>5, CatConstants DEF CatNamedInv, Named
  <1>10. CatFoundInv
    BY <1>5, CatConstants DEF CatFoundInv
  <1>11. CatImagesInv
    <2>1. \A s \in Clients : req[s].upload = 0 /\ req[s].old.image = 0
      BY <1>5, CatConstants
    <2>2. QED
      BY <2>1, <1>4 DEF CatImagesInv
  <1>12. CatHeldInv /\ ImagesInUseExist
    BY <1>1, <1>4 DEF CatHeldInv, ImagesInUseExist, Items
  <1>13. SlugsFollowNames
    BY <1>4 DEF SlugsFollowNames, Suffixed
  <1>14. QED
    BY <1>6, <1>7, <1>8, <1>9, <1>10, <1>11, <1>12, <1>13 DEF CatalogInv

(* A step without a change. *)
LEMMA CatalogInvStutter ==
    ASSUME CatalogInv, UNCHANGED catalogVars
    PROVE  CatalogInv'
  <1>1. /\ row' = row /\ files' = files /\ req' = req /\ begun' = begun
        /\ crossed' = crossed /\ custom' = custom /\ strays' = strays
        /\ unsure' = unsure
    BY DEF catalogVars
  <1>2. CatTypes' /\ CatRequestsInv' /\ CatRowsInv'
    BY <1>1 DEF CatalogInv, CatTypes, CatalogTypeOK, At, CatRequestsInv, CatRowsInv,
                Exists, Item
  <1>3. CatNamedInv' /\ CatFoundInv'
    BY <1>1 DEF CatalogInv, CatNamedInv, Named, CatFoundInv, Item, Pay,
                Active, Live
  <1>4. CatImagesInv' /\ CatHeldInv'
    BY <1>1 DEF CatalogInv, CatImagesInv, At, Item, CatHeldInv
  <1>5. SlugsFollowNames' /\ ImagesInUseExist'
    BY <1>1 DEF CatalogInv, SlugsFollowNames, Exists, Suffixed, ImagesInUseExist
  <1>6. QED
    BY <1>2, <1>3, <1>4, <1>5 DEF CatalogInv

(* Every step keeps the invariant. *)
LEMMA CatalogInvNext ==
    ASSUME CatalogInv, [CatalogNext]_catalogVars
    PROVE  CatalogInv'
  <1>1. ASSUME NEW s \in Clients,
               \/ BeginCreate(s) \/ BeginUpdate(s) \/ BeginStatus(s) \/ BeginDelete(s)
               \/ FindSlug(s) \/ CheckGroup(s) \/ Write(s) \/ WriteUnanswered(s)
               \/ NextSlug(s) \/ Fails(s) \/ RemoveImage(s) \/ RemoveImageFails(s)
               \/ Crash(s) \/ SetStatus(s) \/ Delete(s)
        PROVE  CatalogInv'
    BY <1>1, CatBeginsKeep, ChecksKeep, CatWritesKeep, EndingsKeep
  <1>2. CASE NoneOpen \/ UNCHANGED catalogVars
    BY <1>2, CatalogInvStutter DEF NoneOpen
  <1>3. QED
    BY <1>1, <1>2 DEF CatalogNext

(* What the invariant says of slugs and images. *)
LEMMA CatalogInvSound ==
    ASSUME CatalogInv
    PROVE  CatalogTypeOK /\ CatalogSound
  <1>1. ASSUME NEW f \in files \ strays
        PROVE  \/ \E i \in Products : row[i].image = f
               \/ \E s \in Clients : f \in {req[s].upload} \union Doomed(s)
    <2>1. f # 0
      BY DEF CatalogInv, CatTypes, CatalogTypeOK
    <2>2. CASE \E i \in Items : row[i].image = f
      BY <2>1, <2>2 DEF CatalogInv, CatRowsInv, Items
    <2>3. CASE \E s \in Clients : f \in HeldBy(req[s])
      BY <2>3 DEF HeldBy, Doomed, At
    <2>4. QED
      BY <2>2, <2>3 DEF CatalogInv, CatHeldInv
  <1>2. NoImageForgotten
    BY <1>1 DEF NoImageForgotten
  <1>3. QED
    BY <1>2 DEF CatalogInv, CatTypes, CatalogSound

(* The row that a request is about, when no other open request names it.   *)
LEMMA OwnRow ==
    ASSUME CatalogInv, NEW s \in Clients, At(s, "write"),
           NEW i, i = Item(s), i \notin crossed
    PROVE  row[i] = req[s].old /\ row[i].state # "deleted"
  <1>1. req[s].step # "none" /\ Unwritten(req[s])
    BY DEF At, Unwritten
  <1>2. row[i] = req[s].old
    BY <1>1 DEF CatalogInv, CatFoundInv
  <1>3. req[s].kind # "none" /\ CatRequestOK(req[s]) /\ req[s] \in CatRequest
    BY <1>1, OpenRequest
  <1>4. req[s].kind = "create" \/ req[s].kind \in CatKind \ {"create"}
    BY <1>3 DEF CatRequest
  <1>5. req[s].old.state \in {"none", "live"}
    BY <1>3, <1>4, CatConstants DEF CatRequestOK
  <1>6. QED
    BY <1>2, <1>5

(* A step puts a product into groups that its request has found active,    *)
(* and leaves deleted rows alone.                                          *)
LEMMA PlacementStep ==
    ASSUME CatalogInv, [CatalogNext]_catalogVars
    PROVE  PlacementSound
  <1> DEFINE Placed(i) == /\ \A g \in (row'[i].groups \ row[i].groups) \ crossed' :
                                Active(g)
                          /\ row[i].state = "deleted" => row'[i] = row[i]
  <1>1. SUFFICES ASSUME NEW i \in Items \ crossed'
                 PROVE  Placed(i)
    BY DEF PlacementSound
  <1>2. CASE row'[i] = row[i]
    BY <1>2
  <1>3. CASE row'[i] # row[i]
    <2>1. row \in [Items -> Row]
      BY DEF CatalogInv, CatTypes, CatalogTypeOK
    <2>2. ~UNCHANGED row
      BY <1>3
    <2>3. PICK s \in Clients : \/ Write(s) \/ WriteUnanswered(s)
                               \/ SetStatus(s) \/ Delete(s)
      <3>1. PICK s \in Clients :
              \/ BeginCreate(s) \/ BeginUpdate(s) \/ BeginStatus(s) \/ BeginDelete(s)
              \/ FindSlug(s) \/ CheckGroup(s) \/ Write(s) \/ WriteUnanswered(s)
              \/ NextSlug(s) \/ Fails(s) \/ RemoveImage(s) \/ RemoveImageFails(s)
              \/ Crash(s) \/ SetStatus(s) \/ Delete(s)
        BY <2>2 DEF CatalogNext, catalogVars, NoneOpen
      <3>2. ~(BeginCreate(s) \/ BeginUpdate(s) \/ BeginStatus(s) \/ BeginDelete(s))
        BY <2>2 DEF BeginCreate, BeginUpdate, BeginStatus, BeginDelete, BeginRequest
      <3>3. ~(FindSlug(s) \/ CheckGroup(s) \/ NextSlug(s) \/ Fails(s))
        BY <2>2 DEF FindSlug, CheckGroup, NextSlug, Fails
      <3>4. ~(RemoveImage(s) \/ RemoveImageFails(s) \/ Crash(s))
        BY <2>2 DEF RemoveImage, RemoveImageFails, Crash
      <3>5. QED
        BY <3>1, <3>2, <3>3, <3>4
    <2>4. At(s, "write") /\ crossed' = crossed
      BY <2>3 DEF Write, WriteUnanswered, WriteRow, Ready, SetStatus, Delete
    <2>5. i = Item(s)
      BY <2>1, <2>3, <1>3 DEF Write, WriteUnanswered, WriteRow, SetStatus, Delete
    <2>6. row[i] = req[s].old /\ row[i].state # "deleted"
      BY <2>4, <2>5, OwnRow
    <2>7. CASE Write(s) \/ WriteUnanswered(s)
      <3>1. Ready(s) /\ row' = [row EXCEPT ![i] = NewRow(s)] /\ req[s].todo = {}
        BY <2>5, <2>7 DEF Write, WriteUnanswered, WriteRow, Ready
      <3>2. row'[i].groups \subseteq row[i].groups \union req[s].pay.groups
        <4>1. PICK x : x = NewRow(s)
          OBVIOUS
        <4>2. x.groups \subseteq row[i].groups \union req[s].pay.groups
          BY <3>1, <4>1, <2>5, NewRowData DEF Item
        <4>3. QED
          BY <3>1, <4>1, <4>2, <2>1
      <3>3. \A g \in ToCheck(req[s].pay, req[s].old) :
              g \notin crossed => Active(g)
        BY <3>1, <2>4 DEF CatalogInv, CatFoundInv, Unwritten, At, Pay
      <3>4. QED
        BY <3>2, <3>3, <2>4, <2>6 DEF ToCheck
    <2>8. CASE SetStatus(s) \/ Delete(s)
      <3>1. row'[i].groups = row[i].groups
        BY <2>1, <2>5, <2>8 DEF SetStatus, Delete, Row
      <3>2. QED
        BY <3>1, <2>6
    <2>9. QED
      BY <2>3, <2>7, <2>8
  <1>4. QED
    BY <1>2, <1>3

(* The invariant of the catalogue holds of every state. *)
THEOREM CatalogInvariant ==
    CatalogSpec => []CatalogInv
  <1>1. CatalogInit => CatalogInv
    BY CatalogInvInit
  <1>2. CatalogInv /\ [CatalogNext]_catalogVars => CatalogInv'
    BY CatalogInvNext
  <1>3. QED
    BY <1>1, <1>2, PTL DEF CatalogSpec

(* Every variable has the shape of its table columns, and no request tries *)
(* more slugs than MAX_SLUG_RETRIES allows.                                *)
THEOREM CatalogTypeCorrect ==
    CatalogSpec => []CatalogTypeOK
  <1>1. CatalogInv => CatalogTypeOK
    BY CatalogInvSound
  <1>2. QED
    BY <1>1, CatalogInvariant, PTL

(* Slugs follow names, images in use exist and none is merely forgotten,   *)
(* however the requests interleave, fail and die.                          *)
THEOREM CatalogIsSound ==
    CatalogSpec => []CatalogSound
  <1>1. CatalogInv => CatalogSound
    BY CatalogInvSound
  <1>2. QED
    BY <1>1, CatalogInvariant, PTL

(* A product is put into groups that are active when it is written, and a  *)
(* deleted row keeps its columns.                                          *)
THEOREM CatalogRowsChangeByRule ==
    CatalogSpec => RowsChangeByRule
  <1>1. CatalogInv /\ [CatalogNext]_catalogVars => [PlacementSound]_catalogVars
    BY PlacementStep
  <1>2. QED
    BY <1>1, CatalogInvariant, PTL DEF CatalogSpec, RowsChangeByRule
=============================================================================
