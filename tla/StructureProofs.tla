-------------------------- MODULE StructureProofs --------------------------
(* Theorems about Structure for every number of sessions, warehouses and   *)
(* rows, and every list of requests.                                       *)
EXTENDS Structure, TLAPS

-----------------------------------------------------------------------------
(* The inductive invariant *)

(* What each handler's request is about, and which checks can be left.     *)
RequestOK(k, n, t, checks) ==
    /\ k = "none" => checks = <<>>
    /\ k = "create" =>
         n \in Nodes /\ t \in Above(n) /\ checks \in {<<"parent", "code">>, <<"code">>, <<>>}
    /\ k = "move" =>
         /\ n \in Nodes /\ t \in Above(n)
         /\ checks \in {<<"self">>, <<"parent", "children", "code">>, <<"children", "code">>,
                        <<"parent", "code">>, <<"code">>, <<>>}
         /\ checks = <<"parent", "code">> => n \in Bins
    /\ k = "status" =>
         n \in Nodes \union Warehouses /\ t \in Status /\ checks \in {<<"self">>, <<>>}
    /\ k = "delete" =>
         /\ n \in Nodes /\ t = Nowhere
         /\ checks \in {<<"self", "children">>, <<"children">>, <<"self">>, <<>>}
         /\ checks = <<"self">> => n \in Bins
    /\ k = "allocate" =>
         n \in Bins /\ t \in Warehouses /\ checks \in {<<"parent", "path">>, <<"path">>, <<>>}

RequestsInv == \A s \in Sessions : RequestOK(kind[s], node[s], to[s], todo[s])

(* A row that exists hangs on a row that exists, warehouses always do, and *)
(* only bins that exist hold stock.                                        *)
ExistInv ==
    /\ \A w \in Warehouses : Exists(w)
    /\ \A n \in Nodes : Exists(n) => Exists(up[n])
    /\ \A b \in Bins : holds[b] # Nowhere => Exists(b)

(* A bin and what it hangs on, up to the warehouse, and whether one of the *)
(* first i of these was named by two open requests.                        *)
Path(b) == <<b, up[b], up[up[b]], up[up[up[b]]], WarehouseOf(b)>>
CrossedUpTo(b, i) == \E j \in 1..i : Path(b)[j] \in crossed

(* The rows a request names whatever the tree looks like. *)
NamedAnyway(s) ==
    IF kind[s] = "none" THEN {}
    ELSE {node[s]} \union IF kind[s] = "allocate" THEN {} ELSE {to[s]} \ (Status \union {Nowhere})

(* What two open requests both name is crossed.  The path of an allocation *)
(* changes while it is open, but only above a row that is crossed.         *)
NamedInv ==
    \A s, t \in Sessions :
        s # t =>
            /\ NamedAnyway(s) \intersect NamedAnyway(t) \subseteq crossed
            /\ kind[s] = "allocate" /\ kind[t] # "allocate" /\ Exists(node[s]) =>
                 \A i \in 1..5 : Path(node[s])[i] \in NamedAnyway(t) => CrossedUpTo(node[s], i)

(* What a request has found when it read its own row and the parent. *)
FoundRows(s) ==
    /\ kind[s] \in {"create", "move"} /\ todo[s] \in {<<"children", "code">>, <<"code">>, <<>>} =>
         Exists(to[s]) /\ to[s] \notin deleted \ crossed
    /\ /\ kind[s] \in {"move", "status", "delete"}
       /\ todo[s] \notin {<<"self">>, <<"self", "children">>}
       => Exists(node[s]) /\ node[s] \notin deleted \ crossed

(* What it has found under its row. *)
FoundChildren(s) ==
    /\ kind[s] = "move" /\ node[s] \notin Bins /\ todo[s] \in {<<"code">>, <<>>} =>
         NoChildren(node[s]) \/ up[node[s]] = to[s] \/ node[s] \in crossed
    /\ kind[s] = "delete" /\ todo[s] = <<>> => NoChildren(node[s]) \/ node[s] \in crossed

(* What an allocation has found of its warehouse and its path. *)
FoundPath(s) ==
    /\ kind[s] = "allocate" /\ todo[s] # <<"parent", "path">> /\ Exists(node[s]) =>
         CrossedUpTo(node[s], 5) \/ WarehouseOf(node[s]) # to[s] \/ status[to[s]] = "ACTIVE"
    /\ kind[s] = "allocate" /\ todo[s] = <<>> =>
         /\ Exists(node[s])
         /\ CrossedUpTo(node[s], 5) \/ PathValid(node[s], to[s])

FoundInv == \A s \in Sessions : FoundRows(s) /\ FoundChildren(s) /\ FoundPath(s)

(* The inductive strengthening: the properties, and what each request      *)
(* names and has found.                                                    *)
StructureInv ==
    /\ TypeOK /\ TreeSound
    /\ RequestsInv /\ ExistInv /\ NamedInv /\ FoundInv

-----------------------------------------------------------------------------
(* The tree *)

(* The levels are apart, and each hangs on the one above. *)
LEMMA AboveOf ==
    /\ \A n \in Zones : Above(n) = Warehouses
    /\ \A n \in Aisles : Above(n) = Zones
    /\ \A n \in Shelves : Above(n) = Aisles
    /\ \A n \in Bins : Above(n) = Shelves
  BY StructureAssumption DEF Above, Nodes

LEMMA AboveType == \A n \in Nodes : Above(n) \subseteq Nodes \union Warehouses
  BY AboveOf DEF Nodes

(* Nothing hangs on a bin. *)
LEMMA NothingUnderBins ==
    ASSUME TypeOK, NEW b \in Bins
    PROVE  NoChildren(b)
  <1> SUFFICES ASSUME NEW c \in Nodes, up[c] = b, Live(c)
               PROVE  FALSE
    BY DEF NoChildren
  <1>1. b \in Above(c)
    BY DEF TypeOK, Live
  <1>2. b \in Nodes /\ b \notin Warehouses
    BY StructureAssumption DEF Nodes
  <1>3. QED
    BY <1>1, <1>2, AboveOf, StructureAssumption DEF Nodes

(* The path of a bin has one row of each level, and all of them exist. *)
LEMMA PathRows ==
    ASSUME TypeOK, ExistInv, NEW b \in Bins, Exists(b)
    PROVE  /\ up[b] \in Shelves /\ up[up[b]] \in Aisles /\ up[up[up[b]]] \in Zones
           /\ WarehouseOf(b) \in Warehouses
           /\ Exists(up[b]) /\ Exists(up[up[b]]) /\ Exists(up[up[up[b]]])
  <1>1. up[b] \in Shelves /\ Exists(up[b])
    BY AboveOf DEF TypeOK, ExistInv, Nodes
  <1>2. up[up[b]] \in Aisles /\ Exists(up[up[b]])
    BY <1>1, AboveOf DEF TypeOK, ExistInv, Nodes
  <1>3. up[up[up[b]]] \in Zones /\ Exists(up[up[up[b]]])
    BY <1>2, AboveOf DEF TypeOK, ExistInv, Nodes
  <1>4. WarehouseOf(b) \in Warehouses
    BY <1>3, AboveOf DEF TypeOK, Nodes, WarehouseOf
  <1>5. QED
    BY <1>1, <1>2, <1>3, <1>4

(* The entries of a path. *)
LEMMA PathEntries ==
    ASSUME NEW b
    PROVE  /\ Path(b)[1] = b /\ Path(b)[2] = up[b] /\ Path(b)[3] = up[up[b]]
           /\ Path(b)[4] = up[up[up[b]]] /\ Path(b)[5] = WarehouseOf(b)
  BY DEF Path

LEMMA PathSet ==
    ASSUME NEW b
    PROVE  {b} \union Ancestors(b) = {Path(b)[i] : i \in 1..5}
  <1>1. 1..5 = {1, 2, 3, 4, 5}
    OBVIOUS
  <1>2. {Path(b)[i] : i \in 1..5} = {Path(b)[1], Path(b)[2], Path(b)[3], Path(b)[4], Path(b)[5]}
    BY <1>1
  <1>3. QED
    BY <1>2, PathEntries DEF Ancestors, WarehouseOf

(* Writing the parent of a row changes no path that does not lead through  *)
(* it, and leaves a path that does as it is up to the row.                 *)
LEMMA PathWritten ==
    ASSUME TypeOK, ExistInv, NEW b \in Bins, Exists(b), NEW m,
           \A n \in Nodes \ {m} : up'[n] = up[n]
    PROVE  /\ \A i \in 1..4 : m = Path(b)[i] => \A j \in 1..i : Path(b)'[j] = Path(b)[j]
           /\ (\A i \in 1..4 : m # Path(b)[i]) => \A j \in 1..5 : Path(b)'[j] = Path(b)[j]
  <1>1. /\ b \in Nodes /\ up[b] \in Nodes /\ up[up[b]] \in Nodes /\ up[up[up[b]]] \in Nodes
        /\ b # up[b] /\ b # up[up[b]] /\ b # up[up[up[b]]]
        /\ up[b] # up[up[b]] /\ up[b] # up[up[up[b]]] /\ up[up[b]] # up[up[up[b]]]
    BY PathRows, StructureAssumption DEF Nodes
  <1>0. /\ Path(b)[1] = b /\ Path(b)[2] = up[b] /\ Path(b)[3] = up[up[b]]
        /\ Path(b)[4] = up[up[up[b]]]
    BY PathEntries
  <1>2. /\ Path(b)'[1] = b /\ Path(b)'[2] = up'[b] /\ Path(b)'[3] = up'[up'[b]]
        /\ Path(b)'[4] = up'[up'[up'[b]]] /\ Path(b)'[5] = up'[up'[up'[up'[b]]]]
    BY DEF Path, WarehouseOf
  <1>3. Path(b)[5] = up[up[up[up[b]]]]
    BY DEF Path, WarehouseOf
  <1>4. ASSUME NEW i \in 1..4, m = Path(b)[i], NEW j \in 1..i
        PROVE  Path(b)'[j] = Path(b)[j]
    <2>1. CASE i = 1
      BY <1>2, <1>4, <2>1, <1>0
    <2>2. CASE i = 2
      <3>1. m = up[b] /\ j \in {1, 2}
        BY <1>4, <2>2, <1>0
      <3>2. QED
        BY <1>1, <1>2, <3>1, <1>0
    <2>3. CASE i = 3
      <3>1. m = up[up[b]] /\ j \in {1, 2, 3}
        BY <1>4, <2>3, <1>0
      <3>2. QED
        BY <1>1, <1>2, <3>1, <1>0
    <2>4. CASE i = 4
      <3>1. m = up[up[up[b]]] /\ j \in {1, 2, 3, 4}
        BY <1>4, <2>4, <1>0
      <3>2. QED
        BY <1>1, <1>2, <3>1, <1>0
    <2>5. QED
      BY <2>1, <2>2, <2>3, <2>4
  <1>5. ASSUME \A i \in 1..4 : m # Path(b)[i], NEW j \in 1..5
        PROVE  Path(b)'[j] = Path(b)[j]
    <2>1. m # b /\ m # up[b] /\ m # up[up[b]] /\ m # up[up[up[b]]]
      BY <1>5, <1>0
    <2>2. up'[b] = up[b] /\ up'[up[b]] = up[up[b]] /\ up'[up[up[b]]] = up[up[up[b]]]
          /\ up'[up[up[up[b]]]] = up[up[up[up[b]]]]
      BY <1>1, <2>1
    <2>3. j \in {1, 2, 3, 4, 5}
      OBVIOUS
    <2>4. QED
      BY <1>2, <1>3, <2>2, <2>3, <1>0
  <1>6. QED
    BY <1>4, <1>5

-----------------------------------------------------------------------------
(* What the end of a request leaves to the others *)

(* A request writes its own row: where it hangs if it creates or moves it, *)
(* its status, or that it is deleted; an allocation writes none of these.  *)
WritesOwnRow(s) ==
    /\ \A n \in Nodes \ {node[s]} : up'[n] = up[n]
    /\ \A n \in (Nodes \union Warehouses) \ {node[s]} : status'[n] = status[n]
    /\ deleted \subseteq deleted' /\ deleted' \subseteq deleted \union {node[s]}
    /\ Exists(node[s]) => status'[node[s]] # "none"
    /\ status'[node[s]] # "none" =>
         Exists(node[s]) \/ (kind[s] = "create" /\ up'[node[s]] = to[s])
    /\ up' = up \/ (kind[s] \in {"create", "move"} /\ up'[node[s]] = to[s])
    /\ kind[s] = "allocate" => status' = status /\ deleted' = deleted

(* An ended request is none. *)
LEMMA EndData ==
    ASSUME TypeOK, NEW s \in Sessions, End(s)
    PROVE  /\ kind'[s] = "none" /\ todo'[s] = <<>> /\ node'[s] = Nowhere /\ to'[s] = Nowhere
           /\ \A t \in Sessions \ {s} :
                kind'[t] = kind[t] /\ node'[t] = node[t] /\ to'[t] = to[t] /\ todo'[t] = todo[t]
           /\ kind' \in [Sessions -> Kind] /\ todo' \in [Sessions -> Seq(Check)]
           /\ node' \in [Sessions -> Nodes \union Warehouses \union {Nowhere}]
           /\ to' \in [Sessions -> Nodes \union Warehouses \union Status \union {Nowhere}]
           /\ crossed' = crossed /\ served' = served
  BY DEF End, TypeOK, Kind

(* What a request names, by its kind. *)
LEMMA NamedRows ==
    ASSUME RequestsInv, NEW s \in Sessions
    PROVE  /\ kind[s] # "none" => node[s] \in NamedAnyway(s)
           /\ kind[s] \in {"create", "move"} =>
                /\ to[s] \in NamedAnyway(s) /\ to[s] \in Nodes \union Warehouses
                /\ node[s] \in Nodes
  <1>1. ASSUME kind[s] \in {"create", "move"}
        PROVE  to[s] \in Nodes \union Warehouses /\ node[s] \in Nodes
    BY <1>1, AboveType DEF RequestsInv, RequestOK
  <1>2. \A n \in Nodes \union Warehouses : n \notin Status \union {Nowhere}
    BY StructureAssumption
  <1>3. QED
    BY <1>1, <1>2 DEF NamedAnyway

(* A bin's path as it was, or, from a row below on, crossed. *)
LEMMA PathStep ==
    ASSUME StructureInv, NEW s \in Sessions, End(s), WritesOwnRow(s), kind[s] # "none",
           NEW a \in Sessions \ {s}, kind[a] = "allocate", Exists(node[a])',
           NEW i \in 1..5
    PROVE  \/ CrossedUpTo(node[a], i)'
           \/ Exists(node[a]) /\ \A j \in 1..i : Path(node[a])'[j] = Path(node[a])[j]
  <1> DEFINE b == node[a]
  <1>0. /\ TypeOK /\ ExistInv /\ RequestsInv /\ NamedInv
        /\ b \in Bins /\ b \in Nodes /\ node'[a] = b /\ crossed' = crossed
        /\ kind[s] # "none"
    <2>1. TypeOK /\ ExistInv /\ RequestsInv /\ NamedInv
      BY DEF StructureInv
    <2>2. b \in Bins
      BY <2>1 DEF RequestsInv, RequestOK
    <2>3. QED
      BY <2>1, <2>2, EndData DEF Nodes
  <1>1. CASE ~Exists(b)
    <2>1. b = node[s]
      BY <1>0, <1>1 DEF WritesOwnRow, Exists
    <2>2. b \in crossed
      BY <1>0, <2>1, NamedRows DEF NamedInv
    <2>3. Path(b)'[1] = b
      BY <1>0 DEF Path
    <2>4. CrossedUpTo(b, i)' <=> \E j \in 1..i : Path(b)'[j] \in crossed'
      BY <1>0 DEF CrossedUpTo
    <2>5. QED
      BY <1>0, <2>2, <2>3, <2>4
  <1>2. CASE Exists(b) /\ up' = up
    <2>1. up' = up
      BY <1>2
    <2>2. Path(b)' = Path(b)
      BY <1>0, <2>1 DEF Path, WarehouseOf
    <2>3. QED
      BY <1>2, <2>2
  <1>3. CASE Exists(b) /\ kind[s] \in {"create", "move"}
    <2>1. /\ \A k \in 1..4 : node[s] = Path(b)[k] => \A j \in 1..k : Path(b)'[j] = Path(b)[j]
          /\ (\A k \in 1..4 : node[s] # Path(b)[k]) => \A j \in 1..5 : Path(b)'[j] = Path(b)[j]
      <3>1. \A n \in Nodes \ {node[s]} : up'[n] = up[n]
        BY DEF WritesOwnRow
      <3>2. Exists(b)
        BY <1>3
      <3>3. QED
        BY <1>0, <3>1, <3>2, PathWritten
    <2>2. CASE \A k \in 1..4 : node[s] # Path(b)[k]
      BY <1>3, <2>1, <2>2
    <2>3. CASE \E k \in 1..4 : node[s] = Path(b)[k]
      <3>1. PICK k \in 1..4 : node[s] = Path(b)[k]
        BY <2>3
      <3>2. CrossedUpTo(b, k)
        <4>1. node[s] \in NamedAnyway(s)
          BY <1>0, NamedRows
        <4>2. kind[s] # "allocate" /\ k \in 1..5
          BY <1>3
        <4>3. QED
          BY <1>0, <1>3, <3>1, <4>1, <4>2 DEF NamedInv
      <3>3. \A j \in 1..k : Path(b)'[j] = Path(b)[j]
        BY <2>1, <3>1
      <3>4. CASE i <= k
        BY <1>3, <3>3, <3>4
      <3>5. CASE i > k
        <4>1. PICK j \in 1..k : Path(b)[j] \in crossed
          BY <3>2 DEF CrossedUpTo
        <4>2. j \in 1..i /\ Path(b)'[j] \in crossed'
          BY <1>0, <3>3, <3>5, <4>1
        <4>3. QED
          BY <1>0, <4>2 DEF CrossedUpTo
      <3>6. QED
        BY <3>4, <3>5
    <2>4. QED
      BY <2>2, <2>3
  <1>4. QED
    BY <1>1, <1>2, <1>3 DEF WritesOwnRow

(* What two open requests both name stays crossed. *)
LEMMA NamedKept ==
    ASSUME StructureInv, NEW s \in Sessions, End(s), WritesOwnRow(s), kind[s] # "none"
    PROVE  NamedInv'
  <1>0. TypeOK /\ RequestsInv /\ NamedInv /\ crossed' = crossed
    BY EndData DEF StructureInv
  <1>1. \A t \in Sessions \ {s} :
          NamedAnyway(t)' = NamedAnyway(t) /\ kind'[t] = kind[t] /\ node'[t] = node[t]
    BY <1>0, EndData DEF NamedAnyway
  <1>2. NamedAnyway(s)' = {} /\ kind'[s] = "none"
    BY <1>0, EndData DEF NamedAnyway
  <1>3. ASSUME NEW a \in Sessions, NEW t \in Sessions, a # t
        PROVE  NamedAnyway(a)' \intersect NamedAnyway(t)' \subseteq crossed'
    BY <1>0, <1>1, <1>2, <1>3 DEF NamedInv
  <1>4. ASSUME NEW a \in Sessions, NEW t \in Sessions, a # t,
               kind'[a] = "allocate", kind'[t] # "allocate", Exists(node[a])',
               NEW i \in 1..5, Path(node[a])'[i] \in NamedAnyway(t)'
        PROVE  CrossedUpTo(node[a], i)'
    <2>1. a # s /\ t # s
      BY <1>2, <1>4
    <2>2. kind[a] = "allocate" /\ kind[t] # "allocate" /\ node'[a] = node[a]
      BY <1>1, <1>4, <2>1
    <2>3. CASE CrossedUpTo(node[a], i)'
      BY <2>3
    <2>4. CASE Exists(node[a]) /\ \A j \in 1..i : Path(node[a])'[j] = Path(node[a])[j]
      <3>1. i \in 1..i
        OBVIOUS
      <3>2. Path(node[a])[i] \in NamedAnyway(t)
        BY <1>1, <1>4, <2>1, <2>4, <3>1
      <3>3. CrossedUpTo(node[a], i)
        BY <1>0, <1>4, <2>2, <2>4, <3>2 DEF NamedInv
      <3>4. QED
        BY <1>0, <2>2, <2>4, <3>3 DEF CrossedUpTo
    <2>5. QED
      BY <1>4, <2>1, <2>2, <2>3, <2>4, PathStep
  <1>5. QED
    BY <1>3, <1>4 DEF NamedInv

(* What the others have found is still so. *)
LEMMA FoundKept ==
    ASSUME StructureInv, NEW s \in Sessions, End(s), WritesOwnRow(s), kind[s] # "none"
    PROVE  FoundInv'
  <1>0. TypeOK /\ ExistInv /\ RequestsInv /\ NamedInv /\ FoundInv /\ crossed' = crossed
    BY EndData DEF StructureInv
  <1>1. kind'[s] = "none"
    BY <1>0, EndData
  <1>2. FoundRows(s)' /\ FoundChildren(s)' /\ FoundPath(s)'
    BY <1>1 DEF FoundRows, FoundChildren, FoundPath
  <1>3. \A n \in Nodes \union Warehouses : Exists(n) => Exists(n)'
    BY DEF WritesOwnRow, Exists
  <1>4. deleted \subseteq deleted' /\ deleted' \subseteq deleted \union {node[s]}
    BY DEF WritesOwnRow
  <1> SUFFICES ASSUME NEW t \in Sessions, t # s
               PROVE  FoundRows(t)' /\ FoundChildren(t)' /\ FoundPath(t)'
    BY <1>2 DEF FoundInv
  <1>5. /\ kind'[t] = kind[t] /\ node'[t] = node[t] /\ to'[t] = to[t] /\ todo'[t] = todo[t]
        /\ FoundRows(t) /\ FoundChildren(t) /\ FoundPath(t)
        /\ RequestOK(kind[t], node[t], to[t], todo[t])
    BY <1>0, EndData DEF FoundInv, RequestsInv
  <1>6. ASSUME kind[t] # "none", node[s] = node[t]
        PROVE  node[t] \in crossed
    BY <1>0, <1>6, NamedRows DEF NamedInv
  <1>7. ASSUME kind[t] \in {"create", "move"}, node[s] = to[t]
        PROVE  to[t] \in crossed
    <2>1. node[s] \in NamedAnyway(s) /\ to[t] \in NamedAnyway(t)
      BY <1>0, <1>7, NamedRows
    <2>2. QED
      BY <1>0, <1>7, <2>1 DEF NamedInv
  <1>8. ASSUME kind[t] # "none", kind[s] \in {"create", "move"}, to[s] = node[t]
        PROVE  node[t] \in crossed
    <2>1. to[s] \in NamedAnyway(s) /\ node[t] \in NamedAnyway(t)
      BY <1>0, <1>8, NamedRows
    <2>2. QED
      BY <1>0, <1>8, <2>1 DEF NamedInv
  <1>9. FoundRows(t)'
    <2>1. ASSUME kind[t] \in {"create", "move"},
                 todo[t] \in {<<"children", "code">>, <<"code">>, <<>>}
          PROVE  Exists(to[t])' /\ to'[t] \notin deleted' \ crossed'
      <3>1. to[t] \in Nodes \union Warehouses
        BY <1>0, <2>1, NamedRows
      <3>2. Exists(to[t]) /\ to[t] \notin deleted \ crossed
        BY <1>5, <2>1 DEF FoundRows
      <3>3. Exists(to[t])'
        BY <1>3, <1>5, <3>1, <3>2 DEF Exists
      <3>4. QED
        BY <1>0, <1>4, <1>5, <1>7, <2>1, <3>2, <3>3
    <2>2. ASSUME kind[t] \in {"move", "status", "delete"},
                 todo[t] \notin {<<"self">>, <<"self", "children">>}
          PROVE  Exists(node[t])' /\ node'[t] \notin deleted' \ crossed'
      <3>1. node[t] \in Nodes \union Warehouses
        BY <1>5, <2>2 DEF RequestOK
      <3>2. Exists(node[t]) /\ node[t] \notin deleted \ crossed
        BY <1>5, <2>2 DEF FoundRows
      <3>3. Exists(node[t])'
        BY <1>3, <1>5, <3>1, <3>2 DEF Exists
      <3>4. QED
        BY <1>0, <1>4, <1>5, <1>6, <2>2, <3>2, <3>3
    <2>3. QED
      BY <1>5, <2>1, <2>2 DEF FoundRows
  <1>10. ASSUME kind[t] # "none", node[t] \notin crossed, NoChildren(node[t])
         PROVE  NoChildren(node[t])'
    <2> SUFFICES ASSUME NEW c \in Nodes, up'[c] = node[t], Live(c)'
                 PROVE  FALSE
      BY <1>5 DEF NoChildren
    <2>1. CASE c # node[s]
      <3>1. up'[c] = up[c] /\ status'[c] = status[c]
        BY <2>1 DEF WritesOwnRow
      <3>2. Live(c)
        BY <1>4, <3>1 DEF Live, Exists
      <3>3. QED
        BY <1>10, <3>1, <3>2 DEF NoChildren
    <2>2. CASE c = node[s] /\ kind[s] \in {"create", "move"} /\ up'[c] = to[s]
      <3>1. to[s] = node[t]
        BY <2>2
      <3>2. QED
        BY <1>8, <1>10, <2>2, <3>1
    <2>3. CASE c = node[s] /\ ~(kind[s] \in {"create", "move"} /\ up'[c] = to[s])
      <3>1. up'[c] = up[c]
        BY <2>3 DEF WritesOwnRow
      <3>2. Live(c)
        BY <1>4, <2>3 DEF WritesOwnRow, Live, Exists
      <3>3. QED
        BY <1>10, <3>1, <3>2 DEF NoChildren
    <2>4. QED
      BY <2>1, <2>2, <2>3
  <1>11. FoundChildren(t)'
    <2>1. ASSUME kind[t] = "move", node[t] \notin Bins, todo[t] \in {<<"code">>, <<>>}
          PROVE  NoChildren(node[t])' \/ up'[node[t]] = to[t] \/ node[t] \in crossed
      <3>1. node[t] \in Nodes
        BY <1>5, <2>1 DEF RequestOK
      <3>2. ASSUME node[t] # node[s] PROVE up'[node[t]] = up[node[t]]
        BY <3>1, <3>2 DEF WritesOwnRow
      <3>3. NoChildren(node[t]) \/ up[node[t]] = to[t] \/ node[t] \in crossed
        BY <1>5, <2>1 DEF FoundChildren
      <3>4. QED
        BY <1>6, <1>10, <2>1, <3>2, <3>3
    <2>2. ASSUME kind[t] = "delete", todo[t] = <<>>
          PROVE  NoChildren(node[t])' \/ node[t] \in crossed
      BY <1>5, <1>10, <2>2 DEF FoundChildren
    <2>3. QED
      BY <1>0, <1>5, <2>1, <2>2 DEF FoundChildren
  <1>12. FoundPath(t)'
    <2>1. CASE kind[t] # "allocate" \/ todo[t] = <<"parent", "path">>
      <3>1. todo[t] = <<"parent", "path">> => todo[t] # <<>>
        OBVIOUS
      <3>2. QED
        BY <1>5, <2>1, <3>1 DEF FoundPath
    <2>2. CASE kind[t] = "allocate" /\ ~Exists(node[t])' /\ todo[t] # <<"parent", "path">>
      <3>1. node[t] \in Nodes
        BY <1>5, <2>2 DEF RequestOK, Nodes
      <3>2. ~Exists(node[t])
        BY <1>3, <1>5, <2>2, <3>1 DEF Exists
      <3>3. todo[t] # <<>>
        BY <1>5, <2>2, <3>2 DEF FoundPath
      <3>4. QED
        BY <1>5, <2>2, <3>3 DEF FoundPath
    <2>3. CASE kind[t] = "allocate" /\ Exists(node[t])' /\ todo[t] # <<"parent", "path">>
      <3>1. CASE CrossedUpTo(node[t], 5)'
        BY <2>3, <3>1 DEF FoundPath
      <3>2. CASE /\ ~CrossedUpTo(node[t], 5)'
                 /\ Exists(node[t]) /\ \A j \in 1..5 : Path(node[t])'[j] = Path(node[t])[j]
        <4> DEFINE b == node[t]
        <4>1. b \in Bins /\ to[t] \in Warehouses
          BY <1>5, <2>3 DEF RequestOK
        <4>2. \A i \in 1..5 : Path(b)[i] \notin crossed
          BY <1>0, <1>5, <3>2 DEF CrossedUpTo
        <4>3. ~CrossedUpTo(b, 5)
          BY <4>2 DEF CrossedUpTo
        <4>4. ASSUME kind[s] # "allocate", NEW i \in 1..5
              PROVE  Path(b)[i] # node[s]
          <5>1. node[s] \in NamedAnyway(s)
            BY <1>0, NamedRows
          <5>2. Path(b)[i] \in NamedAnyway(s) => CrossedUpTo(b, i)
            BY <1>0, <2>3, <3>2, <4>4 DEF NamedInv
          <5>3. ~CrossedUpTo(b, i)
            BY <4>2, <4>4 DEF CrossedUpTo
          <5>4. QED
            BY <5>1, <5>2, <5>3
        <4>5. ASSUME NEW n \in Nodes \union Warehouses, NEW i \in 1..5, n = Path(b)[i]
              PROVE  status'[n] = status[n] /\ (n \in deleted' => n \in deleted)
          BY <1>4, <4>4, <4>5 DEF WritesOwnRow
        <4>6. /\ Path(b)[1] = b /\ Path(b)[2] = up[b] /\ Path(b)[3] = up[up[b]]
              /\ Path(b)[4] = up[up[up[b]]] /\ Path(b)[5] = WarehouseOf(b)
          BY PathEntries
        <4>7. /\ Path(b)'[1] = b /\ Path(b)'[2] = up'[b] /\ Path(b)'[3] = up'[up'[b]]
              /\ Path(b)'[4] = up'[up'[up'[b]]] /\ Path(b)'[5] = WarehouseOf(b)'
          BY <1>5 DEF Path
        <4>8. /\ up'[b] = up[b] /\ up'[up'[b]] = up[up[b]]
              /\ up'[up'[up'[b]]] = up[up[up[b]]] /\ WarehouseOf(b)' = WarehouseOf(b)
          BY <3>2, <4>6, <4>7
        <4>9. /\ up[b] \in Shelves /\ up[up[b]] \in Aisles /\ up[up[up[b]]] \in Zones
              /\ WarehouseOf(b) \in Warehouses
          BY <1>0, <3>2, <4>1, PathRows
        <4>10. WarehouseOf(b) # to[t] \/ status[to[t]] = "ACTIVE"
          BY <1>5, <2>3, <3>2, <4>3 DEF FoundPath
        <4>11. WarehouseOf(b)' # to'[t] \/ status'[to[t]] = "ACTIVE"
          <5>1. CASE WarehouseOf(b) # to[t]
            BY <1>5, <4>8, <5>1
          <5>2. CASE WarehouseOf(b) = to[t] /\ status[to[t]] = "ACTIVE"
            BY <4>1, <4>5, <4>6, <5>2
          <5>3. QED
            BY <4>10, <5>1, <5>2
        <4>12. ASSUME todo[t] = <<>> PROVE PathValid(b, to[t])'
          <5>1. PathValid(b, to[t])
            BY <1>5, <2>3, <4>3, <4>12 DEF FoundPath
          <5>2. ASSUME NEW n \in {b, up[b], up[up[b]], up[up[up[b]]]}
                PROVE  Live(n)' /\ status'[n] = "ACTIVE"
            <6>1. Live(n) /\ status[n] = "ACTIVE"
              BY <5>1 DEF PathValid
            <6>2. n \in Nodes \union Warehouses
              BY <4>1, <4>9 DEF Nodes
            <6>3. \E i \in 1..5 : n = Path(b)[i]
              BY <4>6
            <6>4. status'[n] = status[n] /\ (n \in deleted' => n \in deleted)
              BY <4>5, <6>2, <6>3
            <6>5. QED
              BY <6>1, <6>4 DEF Live, Exists
          <5>3. WarehouseOf(b) = to[t]
            BY <5>1 DEF PathValid
          <5>4. {b, up[b], up[up[b]], up[up[up[b]]]}
                  = {b, up'[b], up'[up'[b]], up'[up'[up'[b]]]}
            BY <4>8
          <5>5. QED
            BY <1>5, <4>8, <5>2, <5>3, <5>4 DEF PathValid
        <4>13. QED
          BY <1>5, <2>3, <4>11, <4>12 DEF FoundPath
      <3>3. 5 \in 1..5
        OBVIOUS
      <3>4. \/ CrossedUpTo(node[t], 5)'
            \/ Exists(node[t]) /\ \A j \in 1..5 : Path(node[t])'[j] = Path(node[t])[j]
        BY <2>3, <3>3, PathStep
      <3>5. QED
        BY <3>1, <3>2, <3>4
    <2>4. QED
      BY <2>1, <2>2, <2>3
  <1>13. QED
    BY <1>9, <1>11, <1>12

(* The requests that go on are as they were. *)
LEMMA OthersKeep ==
    ASSUME StructureInv, NEW s \in Sessions, End(s), WritesOwnRow(s), kind[s] # "none"
    PROVE  RequestsInv' /\ NamedInv' /\ FoundInv'
  <1>1. RequestsInv'
    <2>1. TypeOK /\ RequestsInv
      BY DEF StructureInv
    <2>2. RequestOK("none", Nowhere, Nowhere, <<>>)
      BY DEF RequestOK
    <2>3. QED
      BY <2>1, <2>2, EndData DEF RequestsInv
  <1>2. QED
    BY <1>1, NamedKept, FoundKept

-----------------------------------------------------------------------------
(* Writes *)

(* A request with no check left, and what it has found. *)
LEMMA ReadyFacts ==
    ASSUME StructureInv, NEW s \in Sessions, NEW k \in Kind \ {"none"}, Ready(s, k)
    PROVE  /\ TypeOK /\ LiveUnderLive /\ RowsNameTheirWarehouse /\ ExistInv
           /\ kind[s] = k /\ kind[s] # "none" /\ todo[s] = <<>>
           /\ RequestOK(k, node[s], to[s], <<>>)
           /\ FoundRows(s) /\ FoundChildren(s) /\ FoundPath(s)
           /\ k \in {"move", "status", "delete"} =>
                Exists(node[s]) /\ node[s] \notin deleted \ crossed
           /\ k \in {"create", "move"} => Exists(to[s]) /\ to[s] \notin deleted \ crossed
  <1>1. /\ TypeOK /\ LiveUnderLive /\ RowsNameTheirWarehouse /\ ExistInv
        /\ kind[s] = k /\ kind[s] # "none" /\ todo[s] = <<>>
        /\ RequestOK(k, node[s], to[s], <<>>)
        /\ FoundRows(s) /\ FoundChildren(s) /\ FoundPath(s)
    BY DEF StructureInv, TreeSound, RequestsInv, FoundInv, Ready
  <1>2. <<>> # <<"self">> /\ <<>> # <<"self", "children">>
    OBVIOUS
  <1>3. QED
    BY <1>1, <1>2 DEF FoundRows

(* A step that changes no parent and creates nothing leaves the bins in    *)
(* the warehouses of their stock rows.                                     *)
LEMMA WarehousesKept ==
    ASSUME RowsNameTheirWarehouse, UNCHANGED <<up, holds, moved>>, crossed \subseteq crossed',
           \A b \in Bins : Live(b)' => Live(b)
    PROVE  RowsNameTheirWarehouse'
  <1> SUFFICES ASSUME NEW b \in Bins, b \notin moved', Live(b)', holds'[b] # Nowhere,
                      ({b} \union Ancestors(b)') \intersect crossed' = {}
               PROVE  holds'[b] = WarehouseOf(b)'
    BY DEF RowsNameTheirWarehouse
  <1>1. Ancestors(b)' = Ancestors(b) /\ WarehouseOf(b)' = WarehouseOf(b)
    BY DEF Ancestors, WarehouseOf
  <1>2. QED
    BY <1>1 DEF RowsNameTheirWarehouse

LEMMA SetStatusKeeps ==
    ASSUME StructureInv, NEW s \in Sessions, SetStatus(s)
    PROVE  StructureInv'
  <1>0. /\ Ready(s, "status") /\ End(s) /\ UNCHANGED <<up, deleted, holds, moved>>
        /\ status' = [status EXCEPT ![node[s]] = to[s]]
        /\ "status" \in Kind \ {"none"}
    BY DEF SetStatus, Kind
  <1>1. /\ TypeOK /\ LiveUnderLive /\ RowsNameTheirWarehouse /\ ExistInv
        /\ kind[s] = "status" /\ Exists(node[s])
        /\ node[s] \in Nodes \union Warehouses /\ to[s] \in Status
    BY <1>0, ReadyFacts DEF RequestOK
  <1>2. "none" \notin Status
    BY DEF Status
  <1>3. \A n : (status'[n] # "none") <=> (status[n] # "none")
    BY <1>0, <1>1, <1>2 DEF TypeOK, Exists
  <1>4. WritesOwnRow(s)
    BY <1>0, <1>1, <1>3 DEF WritesOwnRow, Exists, TypeOK
  <1>5. TypeOK'
    BY <1>0, <1>1, <1>3, EndData DEF TypeOK, Exists
  <1>6. crossed' = crossed /\ \A n \in Nodes : Live(n)' => Live(n)
    BY <1>0, <1>1, <1>3, EndData DEF Live, Exists
  <1>7. TreeSound'
    <2>1. LiveUnderLive'
      BY <1>0, <1>1, <1>6 DEF LiveUnderLive
    <2>2. QED
      BY <1>0, <1>1, <1>6, <2>1, WarehousesKept DEF TreeSound, Nodes
  <1>8. ExistInv'
    BY <1>0, <1>1, <1>3 DEF ExistInv, Exists
  <1>9. QED
    BY <1>0, <1>1, <1>4, <1>5, <1>7, <1>8, OthersKeep DEF StructureInv

LEMMA DeleteKeeps ==
    ASSUME StructureInv, NEW s \in Sessions, Delete(s)
    PROVE  StructureInv'
  <1>0. /\ Ready(s, "delete") /\ End(s) /\ UNCHANGED <<up, status, holds, moved>>
        /\ deleted' = deleted \union {node[s]}
        /\ "delete" \in Kind \ {"none"}
    BY DEF Delete, Kind
  <1>1. /\ TypeOK /\ LiveUnderLive /\ RowsNameTheirWarehouse /\ ExistInv
        /\ kind[s] = "delete" /\ Exists(node[s]) /\ node[s] \in Nodes
        /\ NoChildren(node[s]) \/ node[s] \in crossed
    BY <1>0, ReadyFacts DEF RequestOK, FoundChildren
  <1>4. WritesOwnRow(s)
    BY <1>0, <1>1 DEF WritesOwnRow, Exists
  <1>5. TypeOK'
    BY <1>0, <1>1, EndData DEF TypeOK, Exists
  <1>6. crossed' = crossed /\ \A n \in Nodes : Live(n)' => Live(n)
    BY <1>0, <1>1, EndData DEF Live, Exists
  <1>7. TreeSound'
    <2>1. ASSUME NEW n \in Nodes, Live(n)' PROVE up'[n] \notin deleted' \ crossed'
      BY <1>0, <1>1, <1>6, <2>1 DEF LiveUnderLive, NoChildren
    <2>2. QED
      BY <1>0, <1>1, <1>6, <2>1, WarehousesKept DEF TreeSound, LiveUnderLive, Nodes
  <1>8. ExistInv'
    BY <1>0, <1>1 DEF ExistInv, Exists
  <1>9. QED
    BY <1>0, <1>1, <1>4, <1>5, <1>7, <1>8, OthersKeep DEF StructureInv

(* The path an allocation has validated, if none of it is crossed. *)
LEMMA AllocationFound ==
    ASSUME StructureInv, NEW s \in Sessions, Ready(s, "allocate")
    PROVE  /\ TypeOK /\ LiveUnderLive /\ RowsNameTheirWarehouse /\ ExistInv
           /\ kind[s] = "allocate" /\ node[s] \in Bins /\ to[s] \in Warehouses /\ Exists(node[s])
           /\ ({node[s]} \union Ancestors(node[s])) \intersect crossed = {} =>
                PathValid(node[s], to[s]) /\ status[to[s]] = "ACTIVE"
  <1>0. "allocate" \in Kind \ {"none"}
    BY DEF Kind
  <1>1. /\ TypeOK /\ LiveUnderLive /\ RowsNameTheirWarehouse /\ ExistInv
        /\ kind[s] = "allocate" /\ node[s] \in Bins /\ to[s] \in Warehouses
        /\ todo[s] = <<>> /\ FoundPath(s)
    BY <1>0, ReadyFacts DEF RequestOK
  <1>2. <<>> # <<"parent", "path">>
    OBVIOUS
  <1>3. /\ Exists(node[s])
        /\ CrossedUpTo(node[s], 5) \/ PathValid(node[s], to[s])
        /\ CrossedUpTo(node[s], 5) \/ WarehouseOf(node[s]) # to[s] \/ status[to[s]] = "ACTIVE"
    BY <1>1, <1>2 DEF FoundPath
  <1>4. ASSUME ({node[s]} \union Ancestors(node[s])) \intersect crossed = {}
        PROVE  PathValid(node[s], to[s]) /\ status[to[s]] = "ACTIVE"
    <2>1. {node[s]} \union Ancestors(node[s]) = {Path(node[s])[i] : i \in 1..5}
      BY PathSet
    <2>2. ~CrossedUpTo(node[s], 5)
      BY <1>4, <2>1 DEF CrossedUpTo
    <2>3. PathValid(node[s], to[s])
      BY <1>3, <2>2
    <2>4. WarehouseOf(node[s]) = to[s]
      BY <2>3 DEF PathValid
    <2>5. QED
      BY <1>3, <2>2, <2>3, <2>4
  <1>5. QED
    BY <1>1, <1>3, <1>4

LEMMA AllocateKeeps ==
    ASSUME StructureInv, NEW s \in Sessions, Allocate(s)
    PROVE  StructureInv'
  <1>0. /\ Ready(s, "allocate") /\ End(s) /\ UNCHANGED <<up, status, deleted, moved>>
        /\ holds' = [holds EXCEPT ![node[s]] = IF @ = Nowhere THEN to[s] ELSE @]
    BY DEF Allocate
  <1>1. /\ TypeOK /\ LiveUnderLive /\ RowsNameTheirWarehouse /\ ExistInv
        /\ kind[s] = "allocate" /\ node[s] \in Bins /\ to[s] \in Warehouses /\ Exists(node[s])
        /\ ({node[s]} \union Ancestors(node[s])) \intersect crossed = {} =>
             PathValid(node[s], to[s])
    BY <1>0, AllocationFound
  <1>4. WritesOwnRow(s)
    BY <1>0, <1>1 DEF WritesOwnRow, Exists
  <1>5. TypeOK'
    <2>1. holds' \in [Bins -> Warehouses \union {Nowhere}]
      BY <1>0, <1>1 DEF TypeOK
    <2>2. QED
      BY <1>0, <1>1, <2>1, EndData DEF TypeOK, Exists
  <1>6. crossed' = crossed
    BY <1>0, <1>1, EndData
  <1>7. TreeSound'
    <2>1. LiveUnderLive'
      BY <1>0, <1>1, <1>6 DEF LiveUnderLive, Live, Exists
    <2>2. ASSUME NEW b \in Bins, b \notin moved', Live(b)', holds'[b] # Nowhere,
                 ({b} \union Ancestors(b)') \intersect crossed' = {}
          PROVE  holds'[b] = WarehouseOf(b)'
      <3>1. Ancestors(b)' = Ancestors(b) /\ WarehouseOf(b)' = WarehouseOf(b) /\ Live(b)
        BY <1>0, <2>2 DEF Ancestors, WarehouseOf, Live, Exists
      <3>2. CASE holds'[b] = holds[b]
        BY <1>0, <1>1, <1>6, <2>2, <3>1, <3>2 DEF RowsNameTheirWarehouse
      <3>3. CASE holds'[b] # holds[b]
        <4>1. b = node[s] /\ holds'[b] = to[s]
          BY <1>0, <1>1, <3>3 DEF TypeOK
        <4>2. PathValid(b, to[s])
          BY <1>1, <1>6, <2>2, <3>1, <4>1
        <4>3. QED
          BY <3>1, <4>1, <4>2 DEF PathValid
      <3>4. QED
        BY <3>2, <3>3
    <2>3. QED
      BY <2>1, <2>2 DEF TreeSound, RowsNameTheirWarehouse
  <1>8. ExistInv'
    BY <1>0, <1>1 DEF ExistInv, Exists, TypeOK
  <1>9. QED
    BY <1>0, <1>1, <1>4, <1>5, <1>7, <1>8, OthersKeep DEF StructureInv

LEMMA RefuseKeeps ==
    ASSUME StructureInv, NEW s \in Sessions, Refuse(s)
    PROVE  StructureInv'
  <1>0. kind[s] # "none" /\ End(s) /\ UNCHANGED <<up, status, deleted, holds, moved>>
    BY DEF Refuse, tables
  <1>1. TypeOK /\ TreeSound /\ ExistInv
    BY DEF StructureInv
  <1>2. crossed' = crossed
    BY <1>0, <1>1, EndData
  <1>3. TypeOK'
    BY <1>0, <1>1, EndData DEF TypeOK, Exists
  <1>4. TreeSound' /\ ExistInv'
    <2>1. \A b \in Bins : Live(b)' => Live(b)
      BY <1>0 DEF Live, Exists
    <2>2. LiveUnderLive' /\ ExistInv'
      BY <1>0, <1>1, <1>2 DEF TreeSound, LiveUnderLive, ExistInv, Live, Exists
    <2>3. QED
      BY <1>0, <1>1, <1>2, <2>1, <2>2, WarehousesKept DEF TreeSound
  <1>5. WritesOwnRow(s)
    BY <1>0 DEF WritesOwnRow, Exists
  <1>6. QED
    BY <1>0, <1>3, <1>4, <1>5, OthersKeep DEF StructureInv

LEMMA CreateKeeps ==
    ASSUME StructureInv, NEW s \in Sessions, Create(s)
    PROVE  StructureInv'
  <1>0. /\ Ready(s, "create") /\ End(s) /\ UNCHANGED <<deleted, holds, moved>>
        /\ ~Exists(node[s])
        /\ up' = [up EXCEPT ![node[s]] = to[s]]
        /\ status' = [status EXCEPT ![node[s]] = "ACTIVE"]
        /\ "create" \in Kind \ {"none"}
    BY DEF Create, Kind
  <1>1. /\ TypeOK /\ LiveUnderLive /\ RowsNameTheirWarehouse /\ ExistInv
        /\ kind[s] = "create" /\ node[s] \in Nodes /\ to[s] \in Above(node[s])
        /\ Exists(to[s]) /\ to[s] \notin deleted \ crossed
    BY <1>0, ReadyFacts DEF RequestOK
  <1>2. /\ to[s] \in Nodes \union Warehouses
        /\ up'[node[s]] = to[s] /\ \A n \in Nodes \ {node[s]} : up'[n] = up[n]
        /\ status'[node[s]] = "ACTIVE"
        /\ \A n \in (Nodes \union Warehouses) \ {node[s]} : status'[n] = status[n]
    BY <1>0, <1>1, AboveType DEF TypeOK
  <1>3. crossed' = crossed
    BY <1>0, <1>1, EndData
  <1>4. WritesOwnRow(s)
    BY <1>0, <1>1, <1>2 DEF WritesOwnRow, Exists
  <1>5. TypeOK'
    <2>1. /\ up' \in [Nodes -> Nodes \union Warehouses \union {Nowhere}]
          /\ status' \in [Nodes \union Warehouses -> Status \union {"none"}]
      BY <1>0, <1>1, <1>2 DEF TypeOK, Status
    <2>2. \A n \in Nodes : IF status'[n] # "none" THEN up'[n] \in Above(n) ELSE up'[n] = Nowhere
      BY <1>1, <1>2 DEF TypeOK, Exists
    <2>3. deleted' \subseteq {n \in Nodes : status'[n] # "none"}
      BY <1>0, <1>1, <1>2 DEF TypeOK, Exists
    <2>4. QED
      BY <1>0, <1>1, <2>1, <2>2, <2>3, EndData DEF TypeOK, Exists
  <1>6. TreeSound'
    <2>1. ASSUME NEW n \in Nodes, Live(n)' PROVE up'[n] \notin deleted' \ crossed'
      BY <1>0, <1>1, <1>2, <1>3, <2>1 DEF LiveUnderLive, Live, Exists
    <2>2. ASSUME NEW b \in Bins, b \notin moved', Live(b)', holds'[b] # Nowhere,
                 ({b} \union Ancestors(b)') \intersect crossed' = {}
          PROVE  holds'[b] = WarehouseOf(b)'
      <3>1. Exists(b) /\ holds[b] # Nowhere /\ b \in Nodes
        BY <1>0, <1>1, <2>2 DEF ExistInv, Nodes
      <3>2. Live(b)
        BY <1>0, <2>2, <3>1 DEF Live
      <3>3. \A i \in 1..4 : node[s] # Path(b)[i]
        <4>1. ASSUME NEW i \in 1..4 PROVE Exists(Path(b)[i])
          <5>1. /\ Exists(up[b]) /\ Exists(up[up[b]]) /\ Exists(up[up[up[b]]])
            BY <1>1, <3>1, PathRows
          <5>2. /\ Path(b)[1] = b /\ Path(b)[2] = up[b] /\ Path(b)[3] = up[up[b]]
                /\ Path(b)[4] = up[up[up[b]]]
            BY PathEntries
          <5>3. i \in {1, 2, 3, 4}
            OBVIOUS
          <5>4. QED
            BY <3>1, <5>1, <5>2, <5>3
        <4>2. QED
          BY <1>0, <4>1
      <3>4. \A j \in 1..5 : Path(b)'[j] = Path(b)[j]
        <4>1. TypeOK /\ ExistInv /\ Exists(b) /\ \A n \in Nodes \ {node[s]} : up'[n] = up[n]
          BY <1>1, <1>2, <3>1
        <4>2. QED
          BY <3>3, <4>1, PathWritten
      <3>5. Ancestors(b)' = Ancestors(b) /\ WarehouseOf(b)' = WarehouseOf(b)
        BY <3>4 DEF Path, Ancestors, WarehouseOf
      <3>6. QED
        BY <1>0, <1>1, <1>3, <2>2, <3>1, <3>2, <3>5 DEF RowsNameTheirWarehouse
    <2>3. QED
      BY <2>1, <2>2 DEF TreeSound, LiveUnderLive, RowsNameTheirWarehouse
  <1>7. ExistInv'
    <2>1. \A n \in Nodes \union Warehouses : Exists(n) => Exists(n)'
      BY <1>2 DEF Exists
    <2>2. ASSUME NEW n \in Nodes, Exists(n)' PROVE status'[up'[n]] # "none"
      <3>1. CASE n = node[s]
        BY <1>1, <1>2, <2>1, <3>1 DEF Exists
      <3>2. CASE n # node[s]
        <4>1. Exists(n) /\ up'[n] = up[n]
          BY <1>2, <2>2, <3>2 DEF Exists
        <4>2. Exists(up[n]) /\ up[n] \in Nodes \union Warehouses
          BY <1>1, <4>1, AboveType DEF ExistInv, TypeOK
        <4>3. QED
          BY <2>1, <4>1, <4>2 DEF Exists
      <3>3. QED
        BY <3>1, <3>2
    <2>3. QED
      BY <1>0, <1>1, <2>1, <2>2 DEF ExistInv, Exists, Nodes
  <1>8. QED
    BY <1>0, <1>1, <1>4, <1>5, <1>6, <1>7, OthersKeep DEF StructureInv

(* A live bin under a row that has no children: some row between them is   *)
(* crossed, or the row itself.                                             *)
LEMMA NoLiveBinBelow ==
    ASSUME TypeOK, ExistInv, LiveUnderLive, NEW b \in Bins, Live(b), NEW k \in 2..4,
           NoChildren(Path(b)[k]), \A j \in 1..k : Path(b)[j] \notin crossed
    PROVE  FALSE
  <1>1. /\ Path(b)[1] = b /\ Path(b)[2] = up[b] /\ Path(b)[3] = up[up[b]]
        /\ Path(b)[4] = up[up[up[b]]]
    BY PathEntries
  <1>2. /\ b \in Nodes /\ up[b] \in Nodes /\ up[up[b]] \in Nodes
        /\ Exists(up[b]) /\ Exists(up[up[b]])
    BY PathRows DEF Live, Nodes
  <1>3. CASE k = 2
    BY <1>1, <1>2, <1>3 DEF NoChildren
  <1>4. ASSUME k \in 3..4 PROVE Live(up[b])
    <2>1. Path(b)[2] \notin crossed
      BY <1>4
    <2>2. QED
      BY <1>1, <1>2, <2>1 DEF LiveUnderLive, Live
  <1>5. CASE k = 3
    BY <1>1, <1>2, <1>4, <1>5 DEF NoChildren
  <1>6. CASE k = 4
    <2>1. Path(b)[3] \notin crossed /\ Live(up[b])
      BY <1>4, <1>6
    <2>2. Live(up[up[b]])
      BY <1>1, <1>2, <2>1 DEF LiveUnderLive, Live
    <2>3. QED
      BY <1>1, <1>2, <1>6, <2>2 DEF NoChildren
  <1>7. QED
    BY <1>3, <1>5, <1>6

LEMMA MoveKeeps ==
    ASSUME StructureInv, NEW s \in Sessions, Move(s)
    PROVE  StructureInv'
  <1>0. /\ Ready(s, "move") /\ End(s) /\ UNCHANGED <<status, deleted, holds>>
        /\ up' = [up EXCEPT ![node[s]] = to[s]]
        /\ moved' = moved \union
             {b \in Bins : b = node[s] /\ holds[b] \notin {Nowhere, WarehouseOf(b)'}}
        /\ "move" \in Kind \ {"none"}
    BY DEF Move, Kind
  <1>1. /\ TypeOK /\ LiveUnderLive /\ RowsNameTheirWarehouse /\ ExistInv
        /\ kind[s] = "move" /\ todo[s] = <<>> /\ FoundChildren(s)
        /\ node[s] \in Nodes /\ to[s] \in Above(node[s])
        /\ Exists(node[s]) /\ node[s] \notin deleted \ crossed
        /\ Exists(to[s]) /\ to[s] \notin deleted \ crossed
    BY <1>0, ReadyFacts DEF RequestOK
  <1>2. /\ to[s] \in Nodes \union Warehouses
        /\ up'[node[s]] = to[s] /\ \A n \in Nodes \ {node[s]} : up'[n] = up[n]
    BY <1>0, <1>1, AboveType DEF TypeOK
  <1>3. crossed' = crossed
    BY <1>0, <1>1, EndData
  <1>4. WritesOwnRow(s)
    BY <1>0, <1>1, <1>2 DEF WritesOwnRow, Exists
  <1>5. TypeOK'
    <2>1. up' \in [Nodes -> Nodes \union Warehouses \union {Nowhere}]
      BY <1>0, <1>1, <1>2 DEF TypeOK
    <2>2. \A n \in Nodes : IF status[n] # "none" THEN up'[n] \in Above(n) ELSE up'[n] = Nowhere
      BY <1>1, <1>2 DEF TypeOK, Exists
    <2>3. moved' \subseteq Bins
      BY <1>0, <1>1 DEF TypeOK
    <2>4. QED
      BY <1>0, <1>1, <2>1, <2>2, <2>3, EndData DEF TypeOK, Exists
  <1>6. TreeSound'
    <2>1. ASSUME NEW n \in Nodes, Live(n)' PROVE up'[n] \notin deleted' \ crossed'
      BY <1>0, <1>1, <1>2, <1>3, <2>1 DEF LiveUnderLive, Live, Exists
    <2>2. ASSUME NEW b \in Bins, b \notin moved', Live(b)', holds'[b] # Nowhere,
                 ({b} \union Ancestors(b)') \intersect crossed' = {}
          PROVE  holds'[b] = WarehouseOf(b)'
      <3>1. b \notin moved /\ Live(b) /\ Exists(b) /\ holds[b] # Nowhere /\ b \in Nodes
        BY <1>0, <2>2 DEF Live, Exists, Nodes
      <3>2. ASSUME \A j \in 1..5 : Path(b)'[j] = Path(b)[j] PROVE holds[b] = WarehouseOf(b)'
        <4>1. Ancestors(b)' = Ancestors(b) /\ WarehouseOf(b)' = WarehouseOf(b)
          BY <3>2 DEF Path, Ancestors, WarehouseOf
        <4>2. QED
          BY <1>0, <1>1, <1>3, <2>2, <3>1, <4>1 DEF RowsNameTheirWarehouse
      <3>3. CASE b = node[s]
        BY <1>0, <2>2, <3>1, <3>3
      <3>4. CASE \A i \in 1..4 : node[s] # Path(b)[i]
        <4>1. TypeOK /\ ExistInv /\ Exists(b) /\ \A n \in Nodes \ {node[s]} : up'[n] = up[n]
          BY <1>1, <1>2, <3>1
        <4>2. \A j \in 1..5 : Path(b)'[j] = Path(b)[j]
          BY <3>4, <4>1, PathWritten
        <4>3. QED
          BY <1>0, <3>2, <4>2
      <3>5. CASE b # node[s] /\ \E i \in 1..4 : node[s] = Path(b)[i]
        <4>1. PICK k \in 1..4 : node[s] = Path(b)[k]
          BY <3>5
        <4>2. Path(b)[1] = b
          BY PathEntries
        <4>3. k \in 2..4
          BY <3>5, <4>1, <4>2
        <4>4. \A j \in 1..k : Path(b)'[j] = Path(b)[j]
          <5>1. TypeOK /\ ExistInv /\ Exists(b) /\ \A n \in Nodes \ {node[s]} : up'[n] = up[n]
            BY <1>1, <1>2, <3>1
          <5>2. QED
            BY <4>1, <5>1, PathWritten
        <4>5. ASSUME NEW j \in 1..k PROVE Path(b)[j] \notin crossed
          <5>1. Path(b)'[j] \in {b} \union Ancestors(b)'
            <6>1. j \in {1, 2, 3, 4}
              BY <4>3
            <6>2. QED
              BY <6>1 DEF Path, Ancestors
          <5>2. QED
            BY <1>3, <2>2, <4>4, <5>1
        <4>6. node[s] \notin crossed
          BY <4>1, <4>3, <4>5
        <4>7. node[s] \notin Bins
          <5>1. up[b] \in Shelves /\ up[up[b]] \in Aisles /\ up[up[up[b]]] \in Zones
            BY <1>1, <3>1, PathRows
          <5>2. k \in {2, 3, 4}
            BY <4>3
          <5>3. Path(b)[k] \in Shelves \union Aisles \union Zones
            BY <5>1, <5>2, PathEntries
          <5>4. QED
            BY <4>1, <5>3, StructureAssumption
        <4>8. NoChildren(node[s]) \/ up[node[s]] = to[s]
          BY <1>1, <4>6, <4>7 DEF FoundChildren
        <4>9. ~NoChildren(node[s])
          BY <1>1, <3>1, <4>1, <4>3, <4>5, NoLiveBinBelow
        <4>10. up' = up
          BY <1>0, <1>1, <4>8, <4>9 DEF TypeOK
        <4>11. Path(b)' = Path(b)
          BY <4>10 DEF Path, WarehouseOf
        <4>12. QED
          BY <1>0, <3>2, <4>11
      <3>6. QED
        BY <1>0, <3>2, <3>3, <3>4, <3>5
    <2>3. QED
      BY <2>1, <2>2 DEF TreeSound, LiveUnderLive, RowsNameTheirWarehouse
  <1>7. ExistInv'
    <2>1. ASSUME NEW n \in Nodes, Exists(n) PROVE status[up'[n]] # "none"
      <3>1. CASE n = node[s]
        BY <1>1, <1>2, <3>1 DEF Exists
      <3>2. CASE n # node[s]
        BY <1>1, <1>2, <2>1, <3>2 DEF ExistInv, Exists
      <3>3. QED
        BY <3>1, <3>2
    <2>2. QED
      BY <1>0, <1>1, <2>1 DEF ExistInv, Exists
  <1>8. QED
    BY <1>0, <1>1, <1>4, <1>5, <1>6, <1>7, OthersKeep DEF StructureInv

-----------------------------------------------------------------------------
(* New requests *)

(* What a request is when it begins. *)
Opens(k, n, t, checks) ==
    \/ k = "create" /\ n \in Nodes /\ t \in Above(n) /\ checks = <<"parent", "code">>
    \/ k = "move" /\ n \in Nodes /\ t \in Above(n) /\ checks = <<"self">>
    \/ k = "status" /\ n \in Nodes \union Warehouses /\ t \in Status /\ checks = <<"self">>
    \/ k = "delete" /\ n \in Nodes \ Bins /\ t = Nowhere /\ checks = <<"self", "children">>
    \/ k = "delete" /\ n \in Bins /\ t = Nowhere /\ checks = <<"self">>
    \/ k = "allocate" /\ n \in Bins /\ t \in Warehouses /\ checks = <<"parent", "path">>

(* The lists of checks are different. *)
LEMMA Lists ==
    /\ <<"parent", "code">> \notin {<<"children", "code">>, <<"code">>, <<>>}
    /\ <<"self">> \notin {<<"children", "code">>, <<"code">>, <<>>}
    /\ <<"self", "children">> # <<>> /\ <<"parent", "path">> # <<>> /\ <<"path">> # <<>>
    /\ <<"self">> # <<"parent", "code">> /\ <<"self", "children">> # <<"self">>
  OBVIOUS

LEMMA OpensOK ==
    ASSUME NEW k, NEW n, NEW t, NEW checks, Opens(k, n, t, checks)
    PROVE  /\ RequestOK(k, n, t, checks) /\ k \in Kind \ {"none"} /\ checks \in Seq(Check)
           /\ n \in Nodes \union Warehouses
           /\ t \in Nodes \union Warehouses \union Status \union {Nowhere}
           /\ k = "allocate" => n \in Bins /\ t \in Warehouses
           /\ k \in {"create", "move"} => checks \notin {<<"children", "code">>, <<"code">>, <<>>}
           /\ k \in {"move", "status", "delete"} => checks \in {<<"self">>, <<"self", "children">>}
           /\ k = "allocate" => checks = <<"parent", "path">>
  <1>1. ASSUME k = "create", n \in Nodes, t \in Above(n), checks = <<"parent", "code">>
        PROVE  RequestOK(k, n, t, checks) /\ checks \in Seq(Check)
               /\ checks \notin {<<"children", "code">>, <<"code">>, <<>>}
    BY <1>1, Lists DEF RequestOK, Check
  <1>2. ASSUME k = "move", n \in Nodes, t \in Above(n), checks = <<"self">>
        PROVE  RequestOK(k, n, t, checks) /\ checks \in Seq(Check)
               /\ checks \notin {<<"children", "code">>, <<"code">>, <<>>}
    BY <1>2, Lists DEF RequestOK, Check
  <1>3. ASSUME k = "status", n \in Nodes \union Warehouses, t \in Status, checks = <<"self">>
        PROVE  RequestOK(k, n, t, checks) /\ checks \in Seq(Check)
    BY <1>3, Lists DEF RequestOK, Check
  <1>4. ASSUME k = "delete", n \in Nodes \ Bins, t = Nowhere, checks = <<"self", "children">>
        PROVE  RequestOK(k, n, t, checks) /\ checks \in Seq(Check)
    BY <1>4, Lists DEF RequestOK, Check
  <1>5. ASSUME k = "delete", n \in Bins, t = Nowhere, checks = <<"self">>
        PROVE  RequestOK(k, n, t, checks) /\ checks \in Seq(Check)
    BY <1>5, Lists DEF RequestOK, Check, Nodes
  <1>6. ASSUME k = "allocate", n \in Bins, t \in Warehouses, checks = <<"parent", "path">>
        PROVE  RequestOK(k, n, t, checks) /\ checks \in Seq(Check)
    BY <1>6, Lists DEF RequestOK, Check
  <1>7. \A m \in Nodes : Above(m) \subseteq Nodes \union Warehouses
    BY AboveType
  <1>8. /\ k \in Kind \ {"none"} /\ n \in Nodes \union Warehouses
        /\ t \in Nodes \union Warehouses \union Status \union {Nowhere}
        /\ k = "allocate" => n \in Bins /\ t \in Warehouses /\ checks = <<"parent", "path">>
        /\ k \in {"move", "status", "delete"} => checks \in {<<"self">>, <<"self", "children">>}
    BY <1>7 DEF Opens, Kind, Nodes
  <1>9. k \in {"create", "move"} => checks \notin {<<"children", "code">>, <<"code">>, <<>>}
    BY Lists DEF Opens
  <1>10. RequestOK(k, n, t, checks) /\ checks \in Seq(Check)
    BY <1>1, <1>2, <1>3, <1>4, <1>5, <1>6 DEF Opens
  <1>11. QED
    BY <1>8, <1>9, <1>10

(* What is named is rows, and what is named anyway is named. *)
LEMMA NamedType ==
    ASSUME TypeOK, ExistInv, NEW k, NEW n, NEW t, NEW checks, RequestOK(k, n, t, checks),
           k \in Kind \ {"none"}
    PROVE  Named(k, n, t) \subseteq Nodes \union Warehouses
  <1>1. CASE k = "allocate" /\ Exists(n)
    <2>1. n \in Bins
      BY <1>1 DEF RequestOK
    <2>2. Ancestors(n) \subseteq Nodes \union Warehouses
      BY <1>1, <2>1, PathRows DEF Ancestors, WarehouseOf, Nodes
    <2>3. QED
      BY <1>1, <2>1, <2>2 DEF Named, Nodes
  <1>2. CASE k = "allocate" /\ ~Exists(n)
    BY <1>2 DEF RequestOK, Named, Nodes
  <1>3. CASE k # "allocate"
    BY <1>3, AboveType DEF RequestOK, Named, Kind
  <1>4. QED
    BY <1>1, <1>2, <1>3

LEMMA NamedByKind ==
    ASSUME TypeOK, NEW s \in Sessions
    PROVE  /\ NamedAnyway(s) \subseteq NamedByOpen
           /\ kind[s] = "allocate" /\ Exists(node[s]) =>
                \A i \in 1..5 : Path(node[s])[i] \in NamedByOpen
  <1>1. NamedAnyway(s) \subseteq IF kind[s] = "none" THEN {} ELSE Named(kind[s], node[s], to[s])
    BY DEF NamedAnyway, Named
  <1>2. ASSUME kind[s] = "allocate", Exists(node[s]), NEW i \in 1..5
        PROVE  Path(node[s])[i] \in Named(kind[s], node[s], to[s])
    <2>1. Path(node[s])[i] \in {node[s]} \union Ancestors(node[s])
      BY PathSet
    <2>2. QED
      BY <1>2, <2>1 DEF Named
  <1>3. QED
    BY <1>1, <1>2 DEF NamedByOpen

LEMMA BeginKeeps ==
    ASSUME StructureInv, NEW s \in Sessions, NEW k, NEW n, NEW t, NEW checks,
           Begin(s, k, n, t, checks), Opens(k, n, t, checks)
    PROVE  StructureInv'
  <1>0. /\ TypeOK /\ LiveUnderLive /\ RowsNameTheirWarehouse
        /\ RequestsInv /\ ExistInv /\ NamedInv /\ FoundInv
    BY DEF StructureInv, TreeSound
  <1>1. /\ UNCHANGED <<up, status, deleted, holds, moved>> /\ kind[s] = "none"
        /\ kind' = [kind EXCEPT ![s] = k] /\ node' = [node EXCEPT ![s] = n]
        /\ to' = [to EXCEPT ![s] = t] /\ todo' = [todo EXCEPT ![s] = checks]
        /\ crossed' = crossed \union (Named(k, n, t) \intersect NamedByOpen)
        /\ served' = served + 1
    BY DEF Begin, tables
  <1>2. /\ RequestOK(k, n, t, checks) /\ k \in Kind \ {"none"} /\ checks \in Seq(Check)
        /\ n \in Nodes \union Warehouses
        /\ t \in Nodes \union Warehouses \union Status \union {Nowhere}
        /\ k = "allocate" => n \in Bins /\ t \in Warehouses /\ checks = <<"parent", "path">>
        /\ k \in {"create", "move"} => checks \notin {<<"children", "code">>, <<"code">>, <<>>}
        /\ k \in {"move", "status", "delete"} => checks \in {<<"self">>, <<"self", "children">>}
    BY OpensOK
  <1>3. /\ kind'[s] = k /\ node'[s] = n /\ to'[s] = t /\ todo'[s] = checks
        /\ \A u \in Sessions \ {s} :
             kind'[u] = kind[u] /\ node'[u] = node[u] /\ to'[u] = to[u] /\ todo'[u] = todo[u]
    BY <1>0, <1>1 DEF TypeOK
  <1>4. TypeOK'
    <2>1. /\ kind' \in [Sessions -> Kind] /\ todo' \in [Sessions -> Seq(Check)]
          /\ node' \in [Sessions -> Nodes \union Warehouses \union {Nowhere}]
          /\ to' \in [Sessions -> Nodes \union Warehouses \union Status \union {Nowhere}]
      BY <1>0, <1>1, <1>2 DEF TypeOK
    <2>2. crossed' \subseteq Nodes \union Warehouses
      BY <1>0, <1>1, <1>2, NamedType DEF TypeOK
    <2>3. QED
      BY <1>0, <1>1, <2>1, <2>2 DEF TypeOK, Exists
  <1>5. TreeSound'
    <2>1. LiveUnderLive'
      BY <1>0, <1>1 DEF LiveUnderLive, Live, Exists
    <2>2. \A b \in Bins : Live(b)' => Live(b)
      BY <1>1 DEF Live, Exists
    <2>3. QED
      BY <1>0, <1>1, <2>1, <2>2, WarehousesKept DEF TreeSound
  <1>6. RequestsInv'
    BY <1>0, <1>2, <1>3 DEF RequestsInv
  <1>7. ExistInv'
    BY <1>0, <1>1 DEF ExistInv, Exists
  <1>8. \A u \in Sessions \ {s} : NamedAnyway(u)' = NamedAnyway(u)
    BY <1>3 DEF NamedAnyway
  <1>9. NamedAnyway(s)' \subseteq Named(k, n, t)
    BY <1>3 DEF NamedAnyway, Named
  <1>10. ASSUME NEW b \in Nodes, NEW i \in 1..5
         PROVE  /\ Path(b)' = Path(b) /\ (CrossedUpTo(b, i) => CrossedUpTo(b, i)')
                /\ Path(b)[i] \in crossed' => CrossedUpTo(b, i)'
    <2>1. Path(b)' = Path(b)
      BY <1>1 DEF Path, WarehouseOf
    <2>2. i \in 1..i
      OBVIOUS
    <2>3. QED
      BY <1>1, <2>1, <2>2 DEF CrossedUpTo
  <1>11. NamedInv'
    <2>1. ASSUME NEW a \in Sessions, NEW u \in Sessions, a # u
          PROVE  NamedAnyway(a)' \intersect NamedAnyway(u)' \subseteq crossed'
      <3>1. CASE a # s /\ u # s
        BY <1>0, <1>1, <1>8, <2>1, <3>1 DEF NamedInv
      <3>2. CASE a = s
        <4>1. NamedAnyway(u)' \subseteq NamedByOpen
          BY <1>0, <1>8, <2>1, <3>2, NamedByKind
        <4>2. QED
          BY <1>1, <1>9, <3>2, <4>1
      <3>3. CASE u = s
        <4>1. NamedAnyway(a)' \subseteq NamedByOpen
          BY <1>0, <1>8, <2>1, <3>3, NamedByKind
        <4>2. QED
          BY <1>1, <1>9, <3>3, <4>1
      <3>4. QED
        BY <3>1, <3>2, <3>3
    <2>2. ASSUME NEW a \in Sessions, NEW u \in Sessions, a # u,
                 kind'[a] = "allocate", kind'[u] # "allocate", Exists(node[a])',
                 NEW i \in 1..5, Path(node[a])'[i] \in NamedAnyway(u)'
          PROVE  CrossedUpTo(node[a], i)'
      <3>1. node'[a] \in Bins /\ node'[a] \in Nodes
        BY <1>6, <2>2 DEF RequestsInv, RequestOK, Nodes
      <3>2. PICK b \in Nodes : b = node'[a] /\ Exists(b) /\ b \in Bins
        BY <1>1, <2>2, <3>1 DEF Exists
      <3>3. Path(node[a])' = Path(b) /\ (CrossedUpTo(node[a], i)' <=> CrossedUpTo(b, i)')
        <4>1. Path(node[a])' = Path(b)'
          BY <3>2 DEF Path, WarehouseOf
        <4>2. CrossedUpTo(node[a], i)' <=> CrossedUpTo(b, i)'
          BY <4>1 DEF CrossedUpTo
        <4>3. QED
          BY <1>10, <4>1, <4>2
      <3>4. Path(b)[i] \in NamedAnyway(u)'
        BY <2>2, <3>3
      <3>5. CASE a # s /\ u # s
        <4>1. b = node[a] /\ kind[a] = "allocate" /\ kind[u] # "allocate"
              /\ Path(b)[i] \in NamedAnyway(u)
          BY <1>3, <1>8, <2>2, <3>2, <3>4, <3>5
        <4>2. CrossedUpTo(b, i)
          BY <1>0, <2>2, <3>2, <4>1 DEF NamedInv
        <4>3. QED
          BY <1>10, <3>3, <4>2
      <3>6. CASE a = s
        <4>1. Path(b)[i] \in NamedByOpen
          BY <1>0, <1>8, <2>2, <3>4, <3>6, NamedByKind
        <4>2. b = n /\ k = "allocate"
          BY <1>3, <2>2, <3>2, <3>6
        <4>3. Path(b)[i] \in Named(k, n, t)
          <5>1. Path(b)[i] \in {b} \union Ancestors(b)
            BY PathSet
          <5>2. QED
            BY <3>2, <4>2, <5>1 DEF Named
        <4>4. QED
          BY <1>1, <1>10, <3>3, <4>1, <4>3
      <3>7. CASE u = s /\ a # s
        <4>1. b = node[a] /\ kind[a] = "allocate"
          BY <1>3, <2>2, <3>2, <3>7
        <4>2. Path(b)[i] \in NamedByOpen
          BY <1>0, <2>2, <3>2, <4>1, NamedByKind
        <4>3. QED
          BY <1>1, <1>9, <1>10, <3>3, <3>4, <3>7, <4>2
      <3>8. QED
        BY <3>5, <3>6, <3>7
    <2>3. QED
      BY <2>1, <2>2 DEF NamedInv
  <1>12. FoundInv'
    <2>1. FoundRows(s)' /\ FoundChildren(s)' /\ FoundPath(s)'
      <3>1. checks # <<>> \/ k \notin {"delete", "allocate"}
        BY <1>2, Lists
      <3>2. QED
        BY <1>2, <1>3, <3>1 DEF FoundRows, FoundChildren, FoundPath
    <2>2. ASSUME NEW u \in Sessions, u # s
          PROVE  FoundRows(u)' /\ FoundChildren(u)' /\ FoundPath(u)'
      <3>1. /\ kind'[u] = kind[u] /\ node'[u] = node[u] /\ to'[u] = to[u] /\ todo'[u] = todo[u]
            /\ FoundRows(u) /\ FoundChildren(u) /\ FoundPath(u)
        BY <1>0, <1>3, <2>2 DEF FoundInv
      <3>2. FoundRows(u)' /\ FoundChildren(u)'
        BY <1>1, <3>1 DEF FoundRows, FoundChildren, NoChildren, Live, Exists
      <3>3. FoundPath(u)'
        <4>1. CASE kind[u] # "allocate"
          BY <3>1, <4>1 DEF FoundPath
        <4>2. CASE kind[u] = "allocate"
          <5>1. PICK b \in Nodes : b = node[u] /\ node'[u] = b
            BY <1>0, <3>1, <4>2 DEF RequestsInv, RequestOK, Nodes
          <5>2. /\ CrossedUpTo(b, 5) => CrossedUpTo(b, 5)'
                /\ WarehouseOf(b)' = WarehouseOf(b)
                /\ Exists(b)' = Exists(b)
            BY <1>1, <1>10 DEF WarehouseOf, Exists
          <5>3. CrossedUpTo(node[u], 5)' <=> CrossedUpTo(b, 5)'
            BY <5>1 DEF CrossedUpTo, Path, WarehouseOf
          <5>4. PathValid(node[u], to[u])' <=> PathValid(node[u], to[u])
            <6>1. \A n1 : Live(n1)' = Live(n1) /\ status'[n1] = status[n1]
              BY <1>1 DEF Live, Exists
            <6>2. /\ node'[u] = node[u] /\ to'[u] = to[u] /\ up'[node[u]] = up[node[u]]
                  /\ up'[up'[node[u]]] = up[up[node[u]]]
                  /\ up'[up'[up'[node[u]]]] = up[up[up[node[u]]]]
                  /\ WarehouseOf(node[u])' = WarehouseOf(node[u])
              BY <1>1, <3>1 DEF WarehouseOf
            <6>3. QED
              BY <6>1, <6>2 DEF PathValid
          <5>5. Exists(node[u])' = Exists(node[u]) /\ WarehouseOf(node[u])' = WarehouseOf(node[u])
            BY <1>1, <3>1 DEF Exists, WarehouseOf
          <5>6. QED
            BY <1>1, <3>1, <5>1, <5>2, <5>3, <5>4, <5>5 DEF FoundPath
        <4>3. QED
          BY <4>1, <4>2
      <3>4. QED
        BY <3>2, <3>3
    <2>3. QED
      BY <2>1, <2>2 DEF FoundInv
  <1>13. QED
    BY <1>4, <1>5, <1>6, <1>7, <1>11, <1>12 DEF StructureInv

LEMMA BeginsKeep ==
    ASSUME StructureInv, NEW s \in Sessions, BeginAny(s)
    PROVE  StructureInv'
  <1>1. ASSUME NEW level, NEW above,
               \A n \in level, p \in above : n \in Nodes /\ p \in Above(n),
               BeginCreate(s, level, above) \/ BeginMove(s, level, above)
        PROVE  StructureInv'
    <2>1. CASE BeginCreate(s, level, above)
      <3>1. PICK n \in level, p \in above : Begin(s, "create", n, p, <<"parent", "code">>)
        BY <2>1 DEF BeginCreate
      <3>2. Opens("create", n, p, <<"parent", "code">>)
        BY <1>1 DEF Opens
      <3>3. QED
        BY <3>1, <3>2, BeginKeeps
    <2>2. CASE BeginMove(s, level, above)
      <3>1. PICK n \in level, p \in above : Begin(s, "move", n, p, <<"self">>)
        BY <2>2 DEF BeginMove
      <3>2. Opens("move", n, p, <<"self">>)
        BY <1>1 DEF Opens
      <3>3. QED
        BY <3>1, <3>2, BeginKeeps
    <2>3. QED
      BY <1>1, <2>1, <2>2
  <1>2. ASSUME NEW level, level \subseteq Nodes \union Warehouses, BeginStatus(s, level)
        PROVE  StructureInv'
    <2>1. PICK n \in level, new \in Status : Begin(s, "status", n, new, <<"self">>)
      BY <1>2 DEF BeginStatus
    <2>2. Opens("status", n, new, <<"self">>)
      BY <1>2 DEF Opens
    <2>3. QED
      BY <2>1, <2>2, BeginKeeps
  <1>3. ASSUME NEW n \in Nodes \ Bins, Begin(s, "delete", n, Nowhere, <<"self", "children">>)
        PROVE  StructureInv'
    BY <1>3, BeginKeeps DEF Opens
  <1>4. ASSUME BeginDeleteBin(s)
        PROVE  StructureInv'
    BY <1>4, BeginKeeps DEF BeginDeleteBin, Opens
  <1>5. ASSUME BeginAllocate(s)
        PROVE  StructureInv'
    BY <1>5, BeginKeeps DEF BeginAllocate, Opens
  <1>6. CASE BeginCreateZone(s) \/ BeginUpdateZone(s)
    BY <1>1, <1>6, AboveOf DEF BeginCreateZone, BeginUpdateZone, Nodes
  <1>7. CASE BeginCreateAisle(s) \/ BeginUpdateAisle(s)
    BY <1>1, <1>7, AboveOf DEF BeginCreateAisle, BeginUpdateAisle, Nodes
  <1>8. CASE BeginCreateShelf(s) \/ BeginUpdateShelf(s)
    BY <1>1, <1>8, AboveOf DEF BeginCreateShelf, BeginUpdateShelf, Nodes
  <1>9. CASE BeginCreateBin(s) \/ BeginUpdateBin(s)
    BY <1>1, <1>9, AboveOf DEF BeginCreateBin, BeginUpdateBin, Nodes
  <1>10. CASE \/ BeginWarehouseStatus(s) \/ BeginZoneStatus(s) \/ BeginAisleStatus(s)
              \/ BeginShelfStatus(s) \/ BeginBinStatus(s)
    BY <1>2, <1>10 DEF BeginWarehouseStatus, BeginZoneStatus, BeginAisleStatus,
                       BeginShelfStatus, BeginBinStatus, Nodes
  <1>11. CASE BeginDeleteZone(s) \/ BeginDeleteAisle(s) \/ BeginDeleteShelf(s)
    <2>1. PICK n \in Zones \union Aisles \union Shelves :
            Begin(s, "delete", n, Nowhere, <<"self", "children">>)
      BY <1>11 DEF BeginDeleteZone, BeginDeleteAisle, BeginDeleteShelf
    <2>2. n \in Nodes \ Bins
      BY StructureAssumption DEF Nodes
    <2>3. QED
      BY <1>3, <2>1, <2>2
  <1>12. QED
    BY <1>4, <1>5, <1>6, <1>7, <1>8, <1>9, <1>10, <1>11 DEF BeginAny

-----------------------------------------------------------------------------
(* Checks *)

(* What depends on the tree alone stays while nothing of it changes. *)
LEMMA PathFactsKept ==
    ASSUME NEW s \in Sessions, UNCHANGED <<up, status, deleted, crossed>>,
           node'[s] = node[s], to'[s] = to[s]
    PROVE  /\ Exists(node[s])' = Exists(node[s]) /\ WarehouseOf(node[s])' = WarehouseOf(node[s])
           /\ Path(node[s])' = Path(node[s])
           /\ CrossedUpTo(node[s], 5)' = CrossedUpTo(node[s], 5)
           /\ status'[to'[s]] = status[to[s]]
           /\ PathValid(node[s], to[s])' <=> PathValid(node[s], to[s])
  <1>1. /\ Exists(node[s])' = Exists(node[s]) /\ WarehouseOf(node[s])' = WarehouseOf(node[s])
        /\ Path(node[s])' = Path(node[s]) /\ status'[to'[s]] = status[to[s]]
    BY DEF Exists, WarehouseOf, Path
  <1>2. CrossedUpTo(node[s], 5)' = CrossedUpTo(node[s], 5)
    BY <1>1 DEF CrossedUpTo
  <1>3. \A n : Live(n)' = Live(n) /\ status'[n] = status[n]
    BY DEF Live, Exists
  <1>4. /\ up'[node'[s]] = up[node[s]] /\ up'[up'[node'[s]]] = up[up[node[s]]]
        /\ up'[up'[up'[node'[s]]]] = up[up[up[node[s]]]]
    OBVIOUS
  <1>5. PathValid(node[s], to[s])' <=> PathValid(node[s], to[s])
    BY <1>1, <1>3, <1>4 DEF PathValid
  <1>6. QED
    BY <1>1, <1>2, <1>5

(* A check changes nothing but what is left to check. *)
LEMMA CheckKeeps ==
    ASSUME StructureInv, NEW s \in Sessions, kind[s] # "none",
           UNCHANGED <<tables, kind, node, to, served, crossed, moved>>,
           NEW left \in Seq(Check), todo' = [todo EXCEPT ![s] = left],
           RequestOK(kind[s], node[s], to[s], left),
           FoundRows(s)', FoundChildren(s)', FoundPath(s)'
    PROVE  StructureInv'
  <1>0. /\ TypeOK /\ TreeSound /\ RequestsInv /\ ExistInv /\ NamedInv /\ FoundInv
        /\ UNCHANGED <<up, status, deleted, holds, kind, node, to, served, crossed, moved>>
    BY DEF StructureInv, tables
  <1>1. todo'[s] = left /\ \A u \in Sessions \ {s} : todo'[u] = todo[u]
    BY <1>0 DEF TypeOK
  <1>2. TypeOK'
    <2>1. todo' \in [Sessions -> Seq(Check)]
      BY <1>0 DEF TypeOK
    <2>2. QED
      BY <1>0, <2>1 DEF TypeOK, Exists
  <1>3. TreeSound'
    BY <1>0 DEF TreeSound, LiveUnderLive, RowsNameTheirWarehouse, Live, Exists, Ancestors,
                WarehouseOf
  <1>4. RequestsInv'
    BY <1>0, <1>1 DEF RequestsInv
  <1>5. ExistInv' /\ NamedInv'
    <2>1. ExistInv'
      BY <1>0 DEF ExistInv, Exists
    <2>2. ASSUME NEW u \in Sessions
          PROVE  NamedAnyway(u)' = NamedAnyway(u) /\ Exists(node[u])' = Exists(node[u])
                 /\ Path(node[u])' = Path(node[u])
      BY <1>0 DEF NamedAnyway, Path, WarehouseOf, Exists
    <2>3. ASSUME NEW u \in Sessions, NEW i \in 1..5
          PROVE  CrossedUpTo(node[u], i)' = CrossedUpTo(node[u], i)
      BY <1>0, <2>2 DEF CrossedUpTo
    <2>4. QED
      BY <1>0, <2>1, <2>2, <2>3 DEF NamedInv
  <1>6. ASSUME NEW u \in Sessions, u # s
        PROVE  FoundRows(u)' /\ FoundChildren(u)' /\ FoundPath(u)'
    <2>1. /\ kind'[u] = kind[u] /\ node'[u] = node[u] /\ to'[u] = to[u] /\ todo'[u] = todo[u]
          /\ FoundRows(u) /\ FoundChildren(u) /\ FoundPath(u)
      BY <1>0, <1>1, <1>6 DEF FoundInv
    <2>2. FoundRows(u)' /\ FoundChildren(u)'
      BY <1>0, <2>1 DEF FoundRows, FoundChildren, NoChildren, Live, Exists
    <2>3. FoundPath(u)'
      BY <1>0, <2>1, PathFactsKept DEF FoundPath
    <2>4. QED
      BY <2>2, <2>3
  <1>7. QED
    BY <1>2, <1>3, <1>4, <1>5, <1>6 DEF StructureInv, FoundInv

(* What is left of each list of checks. *)
LEMMA Tails ==
    /\ Head(<<"self">>) = "self" /\ Tail(<<"self">>) = <<>>
    /\ Head(<<"code">>) = "code" /\ Tail(<<"code">>) = <<>>
    /\ Head(<<"children">>) = "children" /\ Tail(<<"children">>) = <<>>
    /\ Head(<<"path">>) = "path" /\ Tail(<<"path">>) = <<>>
    /\ Head(<<"parent", "code">>) = "parent" /\ Tail(<<"parent", "code">>) = <<"code">>
    /\ Head(<<"parent", "path">>) = "parent" /\ Tail(<<"parent", "path">>) = <<"path">>
    /\ Head(<<"self", "children">>) = "self" /\ Tail(<<"self", "children">>) = <<"children">>
    /\ Head(<<"children", "code">>) = "children" /\ Tail(<<"children", "code">>) = <<"code">>
    /\ Head(<<"parent", "children", "code">>) = "parent"
    /\ Tail(<<"parent", "children", "code">>) = <<"children", "code">>
  OBVIOUS

LEMMA JoinEmpty ==
    /\ \A q \in Seq(Check) : <<>> \o q = q /\ q \o <<>> = q
    /\ \A q \in Seq(Check) : q # <<>> => Tail(q) \in Seq(Check)
  OBVIOUS

(* A check that passes and asks for more, or for nothing more. *)
LEMMA CheckWithMore ==
    ASSUME TypeOK, NEW s \in Sessions, NEW more \in Seq(Check), todo[s] # <<>>,
           todo' = [todo EXCEPT ![s] = more \o Tail(@)]
    PROVE  /\ todo' = [todo EXCEPT ![s] = more \o Tail(todo[s])]
           /\ todo'[s] = more \o Tail(todo[s]) /\ Tail(todo[s]) \in Seq(Check)
           /\ more \o Tail(todo[s]) \in Seq(Check)
  <1>1. todo[s] \in Seq(Check)
    BY DEF TypeOK
  <1>2. Tail(todo[s]) \in Seq(Check)
    BY <1>1, JoinEmpty
  <1>3. QED
    BY <1>1, <1>2 DEF TypeOK

LEMMA CheckDone ==
    ASSUME TypeOK, NEW s \in Sessions, todo[s] # <<>>,
           todo' = [todo EXCEPT ![s] = <<>> \o Tail(@)]
    PROVE  /\ todo' = [todo EXCEPT ![s] = Tail(todo[s])]
           /\ todo'[s] = Tail(todo[s]) /\ Tail(todo[s]) \in Seq(Check)
  <1>1. todo[s] \in Seq(Check)
    BY DEF TypeOK
  <1>2. Tail(todo[s]) \in Seq(Check) /\ <<>> \o Tail(todo[s]) = Tail(todo[s])
    BY <1>1, JoinEmpty
  <1>3. todo' = [todo EXCEPT ![s] = Tail(todo[s])]
    BY <1>2
  <1>4. QED
    BY <1>2, <1>3 DEF TypeOK

(* Which check is made by which request, and what is left after it. *)
LEMMA Stage ==
    ASSUME NEW k \in Kind, NEW n, NEW t, NEW checks, RequestOK(k, n, t, checks), checks # <<>>
    PROVE  /\ Head(checks) = "self" =>
                \/ k \in {"move", "status"} /\ checks = <<"self">>
                \/ k = "delete" /\ checks = <<"self", "children">>
                \/ k = "delete" /\ checks = <<"self">> /\ n \in Bins
           /\ Head(checks) = "parent" =>
                \/ k = "create" /\ checks = <<"parent", "code">>
                \/ k = "move" /\ checks = <<"parent", "children", "code">>
                \/ k = "move" /\ checks = <<"parent", "code">> /\ n \in Bins
                \/ k = "allocate" /\ checks = <<"parent", "path">>
           /\ Head(checks) = "children" =>
                \/ k = "move" /\ checks = <<"children", "code">>
                \/ k = "delete" /\ checks = <<"children">>
           /\ Head(checks) = "code" => k \in {"create", "move"} /\ checks = <<"code">>
           /\ Head(checks) = "path" => k = "allocate" /\ checks = <<"path">>
  <1>1. CASE k = "none"
    BY <1>1 DEF RequestOK
  <1>2. CASE k = "create"
    <2>1. checks \in {<<"parent", "code">>, <<"code">>}
      BY <1>2 DEF RequestOK
    <2>2. Head(<<"parent", "code">>) = "parent" /\ Head(<<"code">>) = "code"
      BY Tails
    <2>3. QED
      BY <1>2, <2>1, <2>2
  <1>3. CASE k = "move"
    <2>1. /\ checks \in {<<"self">>, <<"parent", "children", "code">>, <<"children", "code">>,
                         <<"parent", "code">>, <<"code">>}
          /\ checks = <<"parent", "code">> => n \in Bins
      BY <1>3 DEF RequestOK
    <2>2. /\ Head(<<"parent", "code">>) = "parent" /\ Head(<<"code">>) = "code"
          /\ Head(<<"parent", "children", "code">>) = "parent"
          /\ Head(<<"children", "code">>) = "children" /\ Head(<<"self">>) = "self"
      BY Tails
    <2>3. QED
      BY <1>3, <2>1, <2>2
  <1>4. CASE k = "status"
    <2>1. checks = <<"self">>
      BY <1>4 DEF RequestOK
    <2>2. QED
      BY <1>4, <2>1, Tails
  <1>5. CASE k = "delete"
    <2>1. /\ checks \in {<<"self", "children">>, <<"children">>, <<"self">>}
          /\ checks = <<"self">> => n \in Bins
      BY <1>5 DEF RequestOK
    <2>2. /\ Head(<<"self", "children">>) = "self" /\ Head(<<"children">>) = "children"
          /\ Head(<<"self">>) = "self"
      BY Tails
    <2>3. QED
      BY <1>5, <2>1, <2>2
  <1>6. CASE k = "allocate"
    <2>1. checks \in {<<"parent", "path">>, <<"path">>}
      BY <1>6 DEF RequestOK
    <2>2. Head(<<"parent", "path">>) = "parent" /\ Head(<<"path">>) = "path"
      BY Tails
    <2>3. QED
      BY <1>6, <2>1, <2>2
  <1>7. QED
    BY <1>1, <1>2, <1>3, <1>4, <1>5, <1>6 DEF Kind

LEMMA CodeKeeps ==
    ASSUME StructureInv, NEW s \in Sessions, CheckCode(s)
    PROVE  StructureInv'
  <1>0. TypeOK /\ RequestOK(kind[s], node[s], to[s], todo[s]) /\ kind[s] \in Kind
        /\ FoundRows(s) /\ FoundChildren(s) /\ FoundPath(s)
    BY DEF StructureInv, RequestsInv, FoundInv, TypeOK
  <1>1. /\ todo[s] # <<>> /\ Head(todo[s]) = "code"
        /\ todo' = [todo EXCEPT ![s] = <<>> \o Tail(@)]
        /\ UNCHANGED <<tables, kind, node, to, served, crossed, moved>>
        /\ UNCHANGED <<up, status, deleted, holds>>
    BY DEF CheckCode, Passes, tables
  <1>2. /\ todo' = [todo EXCEPT ![s] = Tail(todo[s])] /\ todo'[s] = Tail(todo[s])
        /\ Tail(todo[s]) \in Seq(Check)
    BY <1>0, <1>1, CheckDone
  <1>3. kind[s] \in {"create", "move"} /\ todo[s] = <<"code">>
    BY <1>0, <1>1, Stage
  <1>4. Tail(todo[s]) = <<>>
    BY <1>3, Tails
  <1>5. RequestOK(kind[s], node[s], to[s], <<>>)
    <2>1. <<>> # <<"parent", "code">>
      OBVIOUS
    <2>2. QED
      BY <1>0, <1>3, <2>1 DEF RequestOK
  <1>6. FoundRows(s)' /\ FoundChildren(s)' /\ FoundPath(s)'
    <2>1. <<"code">> \notin {<<"self">>, <<"self", "children">>}
      OBVIOUS
    <2>2. QED
      BY <1>0, <1>1, <1>2, <1>3, <1>4, <2>1 DEF FoundRows, FoundChildren, FoundPath,
                                                NoChildren, Live, Exists
  <1>7. QED
    BY <1>1, <1>2, <1>3, <1>4, <1>5, <1>6, CheckKeeps

LEMMA ParentKeeps ==
    ASSUME StructureInv, NEW s \in Sessions, CheckParent(s)
    PROVE  StructureInv'
  <1>0. TypeOK /\ RequestOK(kind[s], node[s], to[s], todo[s]) /\ kind[s] \in Kind
        /\ FoundRows(s) /\ FoundChildren(s) /\ FoundPath(s)
    BY DEF StructureInv, RequestsInv, FoundInv, TypeOK
  <1>1. /\ Live(to[s]) /\ status[to[s]] = "ACTIVE"
        /\ todo[s] # <<>> /\ Head(todo[s]) = "parent"
        /\ todo' = [todo EXCEPT ![s] = <<>> \o Tail(@)]
        /\ UNCHANGED <<tables, kind, node, to, served, crossed, moved>>
        /\ UNCHANGED <<up, status, deleted, holds>>
    BY DEF CheckParent, Passes, tables
  <1>2. /\ todo' = [todo EXCEPT ![s] = Tail(todo[s])] /\ todo'[s] = Tail(todo[s])
        /\ Tail(todo[s]) \in Seq(Check)
    BY <1>0, <1>1, CheckDone
  <1>3. \/ kind[s] = "create" /\ todo[s] = <<"parent", "code">>
        \/ kind[s] = "move" /\ todo[s] = <<"parent", "children", "code">>
        \/ kind[s] = "move" /\ todo[s] = <<"parent", "code">> /\ node[s] \in Bins
        \/ kind[s] = "allocate" /\ todo[s] = <<"parent", "path">>
    BY <1>0, <1>1, Stage
  <1>4. /\ <<"parent", "code">> \notin {<<"self">>, <<"self", "children">>}
        /\ <<"parent", "children", "code">> \notin {<<"self">>, <<"self", "children">>}
        /\ <<"children", "code">> \notin {<<"code">>, <<>>, <<"parent", "code">>}
        /\ <<"code">> # <<"parent", "code">>
        /\ <<"path">> # <<>>
    OBVIOUS
  <1>5. RequestOK(kind[s], node[s], to[s], Tail(todo[s]))
    BY <1>0, <1>3, <1>4, Tails DEF RequestOK
  <1>6. FoundRows(s)' /\ FoundChildren(s)' /\ FoundPath(s)'
    <2>0. /\ UNCHANGED <<kind, node>> /\ UNCHANGED <<to, status>>
          /\ \/ kind[s] = "create" /\ todo'[s] = <<"code">>
             \/ kind[s] = "move" /\ todo'[s] = <<"children", "code">>
             \/ kind[s] = "move" /\ todo'[s] = <<"code">> /\ node[s] \in Bins
             \/ kind[s] = "allocate" /\ todo'[s] = <<"path">>
      BY <1>1, <1>2, <1>3, Tails
    <2>1. FoundRows(s)'
      BY <1>0, <1>1, <1>2, <1>3, <1>4 DEF FoundRows, Live, Exists
    <2>2. FoundChildren(s)'
      BY <1>4, <2>0 DEF FoundChildren
    <2>3. FoundPath(s)'
      BY <1>1, <1>4, <2>0 DEF FoundPath
    <2>4. QED
      BY <2>1, <2>2, <2>3
  <1>7. kind[s] # "none"
    BY <1>3
  <1>8. QED
    BY <1>1, <1>2, <1>5, <1>6, <1>7, CheckKeeps

LEMMA ChildrenKeeps ==
    ASSUME StructureInv, NEW s \in Sessions, CheckChildren(s)
    PROVE  StructureInv'
  <1>0. TypeOK /\ RequestOK(kind[s], node[s], to[s], todo[s]) /\ kind[s] \in Kind
        /\ FoundRows(s) /\ FoundChildren(s) /\ FoundPath(s)
    BY DEF StructureInv, RequestsInv, FoundInv, TypeOK
  <1>1. /\ NoChildren(node[s])
        /\ todo[s] # <<>> /\ Head(todo[s]) = "children"
        /\ todo' = [todo EXCEPT ![s] = <<>> \o Tail(@)]
        /\ UNCHANGED <<tables, kind, node, to, served, crossed, moved>>
        /\ UNCHANGED <<up, status, deleted, holds>>
    BY DEF CheckChildren, Passes, tables
  <1>2. /\ todo' = [todo EXCEPT ![s] = Tail(todo[s])] /\ todo'[s] = Tail(todo[s])
        /\ Tail(todo[s]) \in Seq(Check)
    BY <1>0, <1>1, CheckDone
  <1>3. \/ kind[s] = "move" /\ todo[s] = <<"children", "code">>
        \/ kind[s] = "delete" /\ todo[s] = <<"children">>
    BY <1>0, <1>1, Stage
  <1>4. /\ <<"children", "code">> \notin {<<"self">>, <<"self", "children">>}
        /\ <<"children">> \notin {<<"self">>, <<"self", "children">>}
        /\ <<"code">> # <<"parent", "code">> /\ <<>> # <<"self">>
    OBVIOUS
  <1>5. RequestOK(kind[s], node[s], to[s], Tail(todo[s]))
    BY <1>0, <1>3, <1>4, Tails DEF RequestOK
  <1>6. FoundRows(s)' /\ FoundChildren(s)' /\ FoundPath(s)'
    <2>1. NoChildren(node[s])'
      BY <1>1 DEF NoChildren, Live, Exists
    <2>2. FoundRows(s)'
      BY <1>0, <1>1, <1>2, <1>3, <1>4, Tails DEF FoundRows, Exists
    <2>3. FoundChildren(s)'
      BY <1>1, <2>1 DEF FoundChildren
    <2>4. FoundPath(s)'
      BY <1>1, <1>3 DEF FoundPath
    <2>5. QED
      BY <2>2, <2>3, <2>4
  <1>7. kind[s] # "none"
    BY <1>3
  <1>8. QED
    BY <1>1, <1>2, <1>5, <1>6, <1>7, CheckKeeps

LEMMA PathKeeps ==
    ASSUME StructureInv, NEW s \in Sessions, CheckPath(s)
    PROVE  StructureInv'
  <1>0. TypeOK /\ RequestOK(kind[s], node[s], to[s], todo[s]) /\ kind[s] \in Kind
        /\ FoundRows(s) /\ FoundChildren(s) /\ FoundPath(s)
    BY DEF StructureInv, RequestsInv, FoundInv, TypeOK
  <1>1. /\ Exists(node[s]) /\ PathValid(node[s], to[s])
        /\ todo[s] # <<>> /\ Head(todo[s]) = "path"
        /\ todo' = [todo EXCEPT ![s] = <<>> \o Tail(@)]
        /\ UNCHANGED <<tables, kind, node, to, served, crossed, moved>>
        /\ UNCHANGED <<up, status, deleted, holds, crossed>> /\ node' = node /\ to' = to
    BY DEF CheckPath, Passes, tables
  <1>2. /\ todo' = [todo EXCEPT ![s] = Tail(todo[s])] /\ todo'[s] = Tail(todo[s])
        /\ Tail(todo[s]) \in Seq(Check)
    BY <1>0, <1>1, CheckDone
  <1>3. kind[s] = "allocate" /\ todo[s] = <<"path">>
    BY <1>0, <1>1, Stage
  <1>4. Tail(todo[s]) = <<>>
    BY <1>3, Tails
  <1>5. RequestOK(kind[s], node[s], to[s], <<>>)
    BY <1>0, <1>3 DEF RequestOK
  <1>6. FoundRows(s)' /\ FoundChildren(s)' /\ FoundPath(s)'
    <2>1. <<"path">> # <<"parent", "path">>
      OBVIOUS
    <2>2. FoundRows(s)' /\ FoundChildren(s)'
      BY <1>1, <1>3 DEF FoundRows, FoundChildren
    <2>3. CrossedUpTo(node[s], 5) \/ WarehouseOf(node[s]) # to[s] \/ status[to[s]] = "ACTIVE"
      BY <1>0, <1>1, <1>3, <2>1 DEF FoundPath
    <2>4. FoundPath(s)'
      BY <1>1, <2>3, PathFactsKept DEF FoundPath
    <2>5. QED
      BY <2>2, <2>4
  <1>7. QED
    BY <1>1, <1>2, <1>3, <1>4, <1>5, <1>6, CheckKeeps

LEMMA SelfKeeps ==
    ASSUME StructureInv, NEW s \in Sessions, ReadSelf(s)
    PROVE  StructureInv'
  <1> DEFINE more == IF kind[s] # "move" THEN <<>>
                     ELSE IF up[node[s]] = to[s] THEN <<"code">> ELSE MoveChecks(node[s])
  <1>0. /\ TypeOK /\ LiveUnderLive /\ ExistInv
        /\ RequestOK(kind[s], node[s], to[s], todo[s]) /\ kind[s] \in Kind
    BY DEF StructureInv, RequestsInv, TreeSound, TypeOK
  <1>1. more \in Seq(Check)
    <2>1. /\ <<>> \in Seq(Check) /\ <<"code">> \in Seq(Check) /\ <<"parent", "code">> \in Seq(Check)
          /\ <<"parent", "children", "code">> \in Seq(Check)
      BY DEF Check
    <2>2. QED
      BY <2>1 DEF MoveChecks
  <1>2. /\ Live(node[s])
        /\ todo[s] # <<>> /\ Head(todo[s]) = "self"
        /\ todo' = [todo EXCEPT ![s] = more \o Tail(todo[s])] /\ todo'[s] = more \o Tail(todo[s])
        /\ Tail(todo[s]) \in Seq(Check) /\ more \o Tail(todo[s]) \in Seq(Check)
        /\ UNCHANGED <<tables, kind, node, to, served, crossed, moved>>
        /\ UNCHANGED <<up, status, deleted, holds>>
    <2>1. /\ Live(node[s])
          /\ todo[s] # <<>> /\ Head(todo[s]) = "self"
          /\ todo' = [todo EXCEPT ![s] = more \o Tail(@)]
          /\ UNCHANGED <<tables, kind, node, to, served, crossed, moved>>
          /\ UNCHANGED <<up, status, deleted, holds>>
      BY DEF ReadSelf, Passes, tables
    <2> HIDE DEF more
    <2>2. QED
      BY <1>0, <1>1, <2>1, CheckWithMore
  <1>3. \/ kind[s] \in {"move", "status"} /\ todo[s] = <<"self">>
        \/ kind[s] = "delete" /\ todo[s] = <<"self", "children">>
        \/ kind[s] = "delete" /\ todo[s] = <<"self">> /\ node[s] \in Bins
    <2> HIDE DEF more
    <2>1. QED
      BY <1>0, <1>2, Stage
  <1>4. CASE kind[s] = "move"
    <2>1. todo[s] = <<"self">>
      BY <1>3, <1>4
    <2>2. more \o Tail(todo[s]) = more
      <3> HIDE DEF more
      <3>1. QED
        BY <1>1, <2>1, Tails, JoinEmpty
    <2>3. /\ node[s] \in Nodes /\ to[s] \in Above(node[s])
      BY <1>0, <1>4 DEF RequestOK
    <2>4. \/ more = <<"code">> /\ up[node[s]] = to[s]
          \/ more = <<"parent", "code">> /\ node[s] \in Bins
          \/ more = <<"parent", "children", "code">>
      BY <1>4 DEF MoveChecks
    <2>5. /\ <<"code">> # <<"parent", "code">>
          /\ <<"parent", "children", "code">> # <<"parent", "code">>
          /\ <<"parent", "code">> \notin {<<"children", "code">>, <<"code">>, <<>>}
          /\ <<"parent", "children", "code">> \notin {<<"children", "code">>, <<"code">>, <<>>}
      OBVIOUS
    <2> HIDE DEF more
    <2>6. RequestOK(kind[s], node[s], to[s], more)
      BY <1>4, <2>3, <2>4, <2>5 DEF RequestOK
    <2>7. node[s] \notin deleted /\ Exists(node[s])
      BY <1>2 DEF Live
    <2>8. FoundRows(s)'
      <3>1. ASSUME more = <<"code">> PROVE Exists(to[s]) /\ to[s] \notin deleted \ crossed
        BY <1>0, <1>2, <2>3, <2>4, <2>5, <2>7, <3>1 DEF LiveUnderLive, ExistInv
      <3>2. QED
        BY <1>2, <1>4, <2>2, <2>4, <2>5, <2>7, <3>1 DEF FoundRows, Exists
    <2>9. FoundChildren(s)' /\ FoundPath(s)'
      BY <1>2, <1>4, <2>2, <2>4, <2>5 DEF FoundChildren, FoundPath
    <2>10. QED
      BY <1>2, <1>4, <2>2, <2>6, <2>8, <2>9, CheckKeeps
  <1>5. CASE kind[s] # "move"
    <2>1. more \o Tail(todo[s]) = Tail(todo[s])
      BY <1>2, <1>5, JoinEmpty
    <2>2. \/ kind[s] = "status" /\ Tail(todo[s]) = <<>>
          \/ kind[s] = "delete" /\ Tail(todo[s]) = <<"children">>
          \/ kind[s] = "delete" /\ Tail(todo[s]) = <<>> /\ node[s] \in Bins
      BY <1>3, <1>5, Tails
    <2> HIDE DEF more
    <2>3. <<"children">> # <<"self">> /\ <<>> # <<"self">> /\ <<"children">> # <<>>
      OBVIOUS
    <2>4. RequestOK(kind[s], node[s], to[s], Tail(todo[s]))
      BY <1>0, <2>2, <2>3 DEF RequestOK
    <2>5. node[s] \notin deleted /\ Exists(node[s])
      BY <1>2 DEF Live
    <2>6. FoundRows(s)'
      BY <1>2, <2>2, <2>5 DEF FoundRows, Exists
    <2>7. FoundChildren(s)'
      <3>1. ASSUME node[s] \in Bins PROVE NoChildren(node[s])'
        <4>1. NoChildren(node[s])
          BY <1>0, <3>1, NothingUnderBins
        <4>2. QED
          BY <1>2, <4>1 DEF NoChildren, Live, Exists
      <3>2. QED
        BY <1>2, <2>1, <2>2, <2>3, <3>1 DEF FoundChildren
    <2>8. FoundPath(s)'
      BY <1>2, <2>2 DEF FoundPath
    <2>9. kind[s] # "none"
      BY <2>2
    <2>10. QED
      BY <1>2, <2>1, <2>4, <2>6, <2>7, <2>8, <2>9, CheckKeeps
  <1>6. QED
    BY <1>4, <1>5

-----------------------------------------------------------------------------
(* The theorems *)

LEMMA InitKeeps == ASSUME Init PROVE StructureInv
  <1> USE DEF Init
  <1>1. \A n \in Nodes \union Warehouses :
          Exists(n) <=> n \in Warehouses \/ OpeningUp[n] # Nowhere
    BY StructureAssumption DEF Exists
  <1>2. TypeOK
    <2>1. /\ up \in [Nodes -> Nodes \union Warehouses \union {Nowhere}]
          /\ status \in [Nodes \union Warehouses -> Status \union {"none"}]
          /\ holds \in [Bins -> Warehouses \union {Nowhere}]
          /\ kind \in [Sessions -> Kind]
          /\ node \in [Sessions -> Nodes \union Warehouses \union {Nowhere}]
          /\ to \in [Sessions -> Nodes \union Warehouses \union Status \union {Nowhere}]
          /\ todo \in [Sessions -> Seq(Check)]
      BY StructureAssumption DEF Status, Kind
    <2>2. \A n \in Nodes : IF Exists(n) THEN up[n] \in Above(n) ELSE up[n] = Nowhere
      BY <1>1, StructureAssumption
    <2>3. QED
      BY <2>1, <2>2 DEF TypeOK
  <1>3. TreeSound
    BY DEF TreeSound, LiveUnderLive, RowsNameTheirWarehouse
  <1>4. RequestsInv
    BY DEF RequestsInv, RequestOK
  <1>5. ExistInv
    <2>1. ASSUME NEW n \in Nodes, Exists(n) PROVE Exists(up[n])
      <3>1. OpeningUp[n] # Nowhere /\ OpeningUp[n] \in Nodes \union Warehouses
        BY <1>1, <2>1, StructureAssumption
      <3>2. QED
        BY <1>1, <3>1, StructureAssumption
    <2>2. QED
      BY <1>1, <2>1 DEF ExistInv
  <1>6. NamedInv /\ FoundInv
    BY DEF NamedInv, NamedAnyway, FoundInv, FoundRows, FoundChildren, FoundPath
  <1>7. QED
    BY <1>2, <1>3, <1>4, <1>5, <1>6 DEF StructureInv

LEMMA StutterKeeps ==
    ASSUME StructureInv, UNCHANGED vars
    PROVE  StructureInv'
  <1>0. UNCHANGED <<up, status, deleted, holds, kind, node, to, todo, served, crossed, moved>>
    BY DEF vars, tables, request
  <1>1. TypeOK' /\ ExistInv' /\ RequestsInv'
    BY <1>0 DEF StructureInv, TypeOK, ExistInv, RequestsInv, Exists
  <1>2. TreeSound'
    BY <1>0 DEF StructureInv, TreeSound, LiveUnderLive, RowsNameTheirWarehouse, Live, Exists,
                Ancestors, WarehouseOf
  <1>3. \A u \in Sessions, i \in 1..5 :
          /\ NamedAnyway(u)' = NamedAnyway(u) /\ Exists(node[u])' = Exists(node[u])
          /\ Path(node[u])' = Path(node[u]) /\ CrossedUpTo(node[u], i)' = CrossedUpTo(node[u], i)
    BY <1>0 DEF NamedAnyway, CrossedUpTo, Path, WarehouseOf, Exists
  <1>4. NamedInv'
    BY <1>0, <1>3 DEF StructureInv, NamedInv
  <1>5. FoundInv'
    <2>1. ASSUME NEW u \in Sessions
          PROVE  FoundRows(u)' /\ FoundChildren(u)' /\ FoundPath(u)'
      <3>1. FoundRows(u) /\ FoundChildren(u) /\ FoundPath(u)
        BY DEF StructureInv, FoundInv
      <3>2. FoundRows(u)' /\ FoundChildren(u)'
        BY <1>0, <3>1 DEF FoundRows, FoundChildren, NoChildren, Live, Exists
      <3>3. FoundPath(u)'
        BY <1>0, <3>1, PathFactsKept DEF FoundPath
      <3>4. QED
        BY <3>2, <3>3
    <2>2. QED
      BY <2>1 DEF FoundInv
  <1>6. QED
    BY <1>1, <1>2, <1>4, <1>5 DEF StructureInv

LEMMA NextKeeps == ASSUME StructureInv, Next PROVE StructureInv'
  <1>1. ASSUME NEW s \in Sessions, BeginAny(s) PROVE StructureInv'
    BY <1>1, BeginsKeep
  <1>2. ASSUME NEW s \in Sessions,
               \/ ReadSelf(s) \/ CheckParent(s) \/ CheckChildren(s) \/ CheckCode(s) \/ CheckPath(s)
        PROVE  StructureInv'
    BY <1>2, SelfKeeps, ParentKeeps, ChildrenKeeps, CodeKeeps, PathKeeps
  <1>3. ASSUME NEW s \in Sessions,
               \/ Create(s) \/ Move(s) \/ SetStatus(s) \/ Delete(s) \/ Allocate(s) \/ Refuse(s)
        PROVE  StructureInv'
    BY <1>3, CreateKeeps, MoveKeeps, SetStatusKeeps, DeleteKeeps, AllocateKeeps, RefuseKeeps
  <1>4. CASE Quiescent
    BY <1>4, StutterKeeps DEF Quiescent
  <1>5. QED
    BY <1>1, <1>2, <1>3, <1>4 DEF Next

(* The tree, and what every open request names and has found of it. *)
THEOREM StructureInvariant == Spec => []StructureInv
  <1>1. Init => StructureInv
    BY InitKeeps
  <1>2. StructureInv /\ [Next]_vars => StructureInv'
    BY NextKeeps, StutterKeeps
  <1>3. QED
    BY <1>1, <1>2, PTL DEF Spec

(* Every reachable state is well typed: whatever is created, moved and     *)
(* deleted at once, a row that exists hangs on a row of the level above.   *)
THEOREM StructureTypeCorrect == Spec => []TypeOK
  <1>1. StructureInv => TypeOK
    BY DEF StructureInv
  <1>2. QED
    BY <1>1, StructureInvariant, PTL

(* Where requests do not cross, no live row hangs on a deleted one, and    *)
(* the stock row of a bin that was not moved counts for the warehouse the  *)
(* bin is in.                                                              *)
THEOREM TreeStaysSound == Spec => []TreeSound
  <1>1. StructureInv => TreeSound
    BY DEF StructureInv
  <1>2. QED
    BY <1>1, StructureInvariant, PTL

-----------------------------------------------------------------------------
(* What a write may do *)

(* Only an allocation changes a stock row's warehouse, and only moves,     *)
(* creations and status changes the tree.                                  *)
LEMMA WriteIsSound ==
    ASSUME StructureInv, Next
    PROVE  DeletedFrozen /\ AllocatedUnderActive
  <1>1. CASE UNCHANGED tables
    BY <1>1 DEF tables, DeletedFrozen, AllocatedUnderActive
  <1>2. ASSUME NEW s \in Sessions, Create(s) \/ Move(s) \/ SetStatus(s) \/ Delete(s)
        PROVE  DeletedFrozen /\ AllocatedUnderActive
    <2>1. TypeOK /\ End(s) /\ holds' = holds
      BY <1>2 DEF StructureInv, Create, Move, SetStatus, Delete
    <2>2. crossed' = crossed /\ deleted \subseteq {n \in Nodes : Exists(n)}
      BY <2>1, EndData DEF TypeOK
    <2>3. node[s] \notin deleted \ crossed
      <3>1. CASE Create(s)
        BY <2>2, <3>1 DEF Create
      <3>2. CASE Move(s)
        BY <3>2, ReadyFacts DEF Move, Kind
      <3>3. CASE SetStatus(s)
        BY <3>3, ReadyFacts DEF SetStatus, Kind
      <3>4. CASE Delete(s)
        BY <3>4, ReadyFacts DEF Delete, Kind
      <3>5. QED
        BY <1>2, <3>1, <3>2, <3>3, <3>4
    <2>4. /\ \A n \in Nodes \ {node[s]} : up'[n] = up[n] /\ status'[n] = status[n]
          /\ deleted \subseteq deleted'
      BY <1>2, <2>1 DEF Create, Move, SetStatus, Delete, TypeOK
    <2>5. DeletedFrozen
      BY <2>2, <2>3, <2>4 DEF DeletedFrozen
    <2>6. QED
      BY <2>1, <2>5 DEF AllocatedUnderActive
  <1>3. ASSUME NEW s \in Sessions, Allocate(s)
        PROVE  DeletedFrozen /\ AllocatedUnderActive
    <2>1. /\ TypeOK /\ End(s) /\ Ready(s, "allocate") /\ UNCHANGED <<up, status, deleted>>
          /\ holds' = [holds EXCEPT ![node[s]] = IF @ = Nowhere THEN to[s] ELSE @]
      BY <1>3 DEF StructureInv, Allocate
    <2>2. crossed' = crossed
      BY <2>1, EndData
    <2>3. ASSUME NEW b \in Bins, holds'[b] # holds[b],
                 ({b} \union Ancestors(b)) \intersect crossed' = {},
                 NEW n \in {b} \union Ancestors(b)
          PROVE  n \notin deleted /\ status[n] = "ACTIVE"
      <3>1. b = node[s]
        BY <2>1, <2>3 DEF TypeOK
      <3>2. PathValid(b, to[s]) /\ status[to[s]] = "ACTIVE" /\ to[s] \in Warehouses
        BY <2>1, <2>2, <2>3, <3>1, AllocationFound
      <3>3. CASE n \in {b, up[b], up[up[b]], up[up[up[b]]]}
        BY <3>2, <3>3 DEF PathValid, Live
      <3>4. CASE n = WarehouseOf(b)
        <4>1. n = to[s]
          BY <3>2, <3>4 DEF PathValid
        <4>2. n \notin Nodes
          BY <3>2, <4>1, StructureAssumption
        <4>3. QED
          BY <2>1, <3>2, <4>1, <4>2 DEF TypeOK
      <3>5. QED
        BY <2>3, <3>3, <3>4 DEF Ancestors, WarehouseOf
    <2>4. QED
      BY <2>1, <2>3 DEF DeletedFrozen, AllocatedUnderActive
  <1>4. ASSUME NEW s \in Sessions, BeginAny(s)
        PROVE  UNCHANGED tables
    BY <1>4 DEF BeginAny, BeginCreateZone, BeginCreateAisle, BeginCreateShelf, BeginCreateBin,
       BeginUpdateZone, BeginUpdateAisle, BeginUpdateShelf, BeginUpdateBin, BeginWarehouseStatus,
       BeginZoneStatus, BeginAisleStatus, BeginShelfStatus, BeginBinStatus, BeginDeleteZone,
       BeginDeleteAisle, BeginDeleteShelf, BeginDeleteBin, BeginAllocate, BeginCreate, BeginMove,
       BeginStatus, Begin
  <1>5. ASSUME NEW s \in Sessions,
               \/ ReadSelf(s) \/ CheckParent(s) \/ CheckChildren(s) \/ CheckCode(s)
               \/ CheckPath(s) \/ Refuse(s)
        PROVE  UNCHANGED tables
    BY <1>5 DEF ReadSelf, CheckParent, CheckChildren, CheckCode, CheckPath, Passes, Refuse
  <1>6. CASE Quiescent
    BY <1>1, <1>6 DEF Quiescent, vars
  <1>7. QED
    BY <1>1, <1>2, <1>3, <1>4, <1>5, <1>6 DEF Next

(* Where requests do not cross, a deleted row stays as it is and stock is  *)
(* allocated under active rows only, though every handler writes by id     *)
(* without looking again.                                                  *)
THEOREM WritesStaySound == Spec => WritesSound
  <1>1. StructureInv /\ [Next]_vars => [DeletedFrozen /\ AllocatedUnderActive]_vars
    BY WriteIsSound
  <1>2. QED
    BY <1>1, StructureInvariant, PTL DEF Spec, WritesSound
=============================================================================
