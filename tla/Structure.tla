------------------------------ MODULE Structure ------------------------------
(***************************************************************************)
(* The physical structure of the warehouses, and the stock rows that hang  *)
(* on it: warehouse, zone, aisle, shelf, bin (ZoneService, AisleService,   *)
(* ShelfService, BinService, WarehouseService), and the validation of a    *)
(* bin's path that allocateStock and transferStock begin with.             *)
(* Every handler checks with plain reads, one statement after the other,   *)
(* and then writes one row by its id without looking again.  Rows are      *)
(* deleted softly; names, capacities and quantities are left out.  The     *)
(* stock row of a bin keeps the warehouse it was created for.              *)
(***************************************************************************)
EXTENDS Integers, Sequences

CONSTANTS
    Sessions,     \* requests that can run at the same time
    Warehouses, Zones, Aisles, Shelves, Bins,  \* ids that rows have or can get
    Code,         \* code of every zone, aisle, shelf and bin
    OpeningUp,    \* the parent of each row at the start, Nowhere: not created
    Requests,     \* bound: the requests that are sent
    MaxRequests,  \* bound: requests of one behaviour
    Nowhere       \* no row

Nodes == Zones \union Aisles \union Shelves \union Bins

Status == {"ACTIVE", "INACTIVE"}

(* The level above a row. *)
Above(n) ==
    CASE n \in Zones -> Warehouses [] n \in Aisles -> Zones
      [] n \in Shelves -> Aisles   [] n \in Bins -> Shelves

(* An id belongs to one table; a row that exists hangs on one that does.   *)
ASSUME StructureAssumption ==
    /\ Nowhere \notin Nodes \union Warehouses
    /\ (Nodes \union Warehouses) \intersect Status = {}
    /\ Warehouses \intersect Nodes = {}
    /\ Zones \intersect (Aisles \union Shelves \union Bins) = {}
    /\ Aisles \intersect (Shelves \union Bins) = {}
    /\ Shelves \intersect Bins = {}
    /\ OpeningUp \in [Nodes -> Nodes \union Warehouses \union {Nowhere}]
    /\ \A n \in Nodes :
         OpeningUp[n] # Nowhere =>
             /\ OpeningUp[n] \in Above(n)
             /\ OpeningUp[n] \in Nodes => OpeningUp[OpeningUp[n]] # Nowhere
    /\ MaxRequests \in Nat

VARIABLES
    up,       \* warehouseId of a zone, zoneId of an aisle, aisleId, shelfId
    status,   \* status of each row, "none" before it is created
    deleted,  \* the rows with isDeleted
    holds,    \* warehouseId of a bin's stock row, Nowhere without one
    kind,     \* which operation a session runs, "none" between requests
    node,     \* the row it is about
    to,       \* the parent, the status or the warehouse it names
    todo,     \* the checks it has still to make
    served,   \* requests begun so far
    crossed,  \* history: rows that two open requests named at once
    moved     \* history: bins moved away from the warehouse of their stock row

tables == <<up, status, deleted, holds>>
request == <<kind, node, to, todo>>
vars == <<tables, request, served, crossed, moved>>

Kind == {"none", "create", "move", "status", "delete", "allocate"}
Check == {"self", "parent", "children", "code", "path"}

Exists(n) == status[n] # "none"
Live(n) == Exists(n) /\ n \notin deleted

(* A bin's shelf, aisle, zone and warehouse. *)
Ancestors(b) == {up[b], up[up[b]], up[up[up[b]]], up[up[up[up[b]]]]}
WarehouseOf(b) == up[up[up[up[b]]]]

-----------------------------------------------------------------------------
(* Requests *)

(* The rows a request depends on. *)
Named(k, n, t) ==
    {n} \union IF k = "allocate" /\ Exists(n) THEN Ancestors(n) ELSE {t} \ (Status \union {Nowhere})
NamedByOpen == UNION {IF kind[s] = "none" THEN {} ELSE Named(kind[s], node[s], to[s]) : s \in Sessions}

Begin(s, k, n, t, checks) ==
    /\ kind[s] = "none"
    /\ [kind |-> k, node |-> n, to |-> t] \in Requests
    /\ served < MaxRequests
    /\ served' = served + 1
    /\ kind' = [kind EXCEPT ![s] = k]
    /\ node' = [node EXCEPT ![s] = n]
    /\ to' = [to EXCEPT ![s] = t]
    /\ todo' = [todo EXCEPT ![s] = checks]
    /\ crossed' = crossed \union (Named(k, n, t) \intersect NamedByOpen)
    /\ UNCHANGED <<tables, moved>>

BeginCreate(s, level, above) ==
    \E n \in level, p \in above : ~Exists(n) /\ Begin(s, "create", n, p, <<"parent", "code">>)

BeginCreateZone(s) == BeginCreate(s, Zones, Warehouses)
BeginCreateAisle(s) == BeginCreate(s, Aisles, Zones)
BeginCreateShelf(s) == BeginCreate(s, Shelves, Aisles)
BeginCreateBin(s) == BeginCreate(s, Bins, Shelves)

(* The checks that apply depend on the row as it is read. *)
BeginMove(s, level, above) ==
    \E n \in level, p \in above : Begin(s, "move", n, p, <<"self">>)

BeginUpdateZone(s) == BeginMove(s, Zones, Warehouses)
BeginUpdateAisle(s) == BeginMove(s, Aisles, Zones)
BeginUpdateShelf(s) == BeginMove(s, Shelves, Aisles)
BeginUpdateBin(s) == BeginMove(s, Bins, Shelves)

BeginStatus(s, level) ==
    \E n \in level, new \in Status : Begin(s, "status", n, new, <<"self">>)

BeginWarehouseStatus(s) == BeginStatus(s, Warehouses)
BeginZoneStatus(s) == BeginStatus(s, Zones)
BeginAisleStatus(s) == BeginStatus(s, Aisles)
BeginShelfStatus(s) == BeginStatus(s, Shelves)
BeginBinStatus(s) == BeginStatus(s, Bins)

BeginDeleteZone(s) == \E n \in Zones : Begin(s, "delete", n, Nowhere, <<"self", "children">>)
BeginDeleteAisle(s) == \E n \in Aisles : Begin(s, "delete", n, Nowhere, <<"self", "children">>)
BeginDeleteShelf(s) == \E n \in Shelves : Begin(s, "delete", n, Nowhere, <<"self", "children">>)

(* What lies in a bin is not looked at. *)
BeginDeleteBin(s) == \E n \in Bins : Begin(s, "delete", n, Nowhere, <<"self">>)

(* allocateStock, or transferStock with its destination. *)
BeginAllocate(s) ==
    \E b \in Bins, w \in Warehouses : Begin(s, "allocate", b, w, <<"parent", "path">>)

-----------------------------------------------------------------------------
(* Checks: plain reads of what is committed *)

(* The check named is next and its condition holds; otherwise the handler  *)
(* throws, which is a Refuse.                                              *)
Passes(s, check, condition, more) ==
    /\ todo[s] # <<>> /\ Head(todo[s]) = check
    /\ condition
    /\ todo' = [todo EXCEPT ![s] = more \o Tail(@)]
    /\ UNCHANGED <<tables, kind, node, to, served, crossed, moved>>

(* MoveChecks that moves a row with what hangs on it. *)
MoveChecks_AnyRow(n) == <<"parent", "code">>

(* What moving a row asks for when the parent is to change; a bin is moved *)
(* with what lies in it.                                                   *)
MoveChecks(n) ==
    IF n \in Bins THEN <<"parent", "code">> ELSE <<"parent", "children", "code">>

(* ReadSelf that takes any id for a row that is not deleted. *)
ReadSelf_AnyRow(s) ==
    Passes(s, "self", TRUE,
           IF kind[s] # "move" THEN <<>>
           ELSE IF up[node[s]] = to[s] THEN <<"code">> ELSE MoveChecks(node[s]))

ReadSelf(s) ==
    Passes(s, "self", Live(node[s]),
           IF kind[s] # "move" THEN <<>>
           ELSE IF up[node[s]] = to[s] THEN <<"code">> ELSE MoveChecks(node[s]))

(* CheckParent that does not ask whether it was deleted. *)
CheckParent_AnyRow(s) == Passes(s, "parent", status[to[s]] = "ACTIVE", <<>>)

CheckParent(s) == Passes(s, "parent", Live(to[s]) /\ status[to[s]] = "ACTIVE", <<>>)

(* NoChildren that looks at active rows only. *)
NoChildren_Active(n) == \A c \in Nodes : up[c] = n => ~Live(c) \/ status[c] = "INACTIVE"

(* "Cannot delete zone while active aisles exist.": active is not deleted. *)
NoChildren(n) == \A c \in Nodes : up[c] = n => ~Live(c)

CheckChildren(s) == Passes(s, "children", NoChildren(node[s]), <<>>)

CheckCode(s) ==
    Passes(s, "code",
           \A c \in Nodes \ {node[s]} :
               Live(c) /\ up[c] = to[s] => Code[c] # Code[node[s]], <<>>)

(* PathValid for a bin of any warehouse. *)
PathValid_AnyWarehouse(b, w) ==
    \A n \in {b, up[b], up[up[b]], up[up[up[b]]]} : Live(n) /\ status[n] = "ACTIVE"

(* PathValid that leaves out the zone. *)
PathValid_NoZone(b, w) ==
    /\ \A n \in {b, up[b], up[up[b]]} : Live(n) /\ status[n] = "ACTIVE"
    /\ WarehouseOf(b) = w

(* fetchAndValidateBinHierarchy *)
PathValid(b, w) ==
    /\ \A n \in {b, up[b], up[up[b]], up[up[up[b]]]} : Live(n) /\ status[n] = "ACTIVE"
    /\ WarehouseOf(b) = w

CheckPath(s) ==
    Passes(s, "path", Exists(node[s]) /\ PathValid(node[s], to[s]), <<>>)

-----------------------------------------------------------------------------
(* Writes: one row, by its id *)

End(s) ==
    /\ kind' = [kind EXCEPT ![s] = "none"]
    /\ node' = [node EXCEPT ![s] = Nowhere]
    /\ to' = [to EXCEPT ![s] = Nowhere]
    /\ todo' = [todo EXCEPT ![s] = <<>>]
    /\ UNCHANGED <<served, crossed>>

Ready(s, k) == kind[s] = k /\ todo[s] = <<>>

(* The unique index on (parent, code), which deleted rows fill too. *)
Unique(n, p) == \A c \in Nodes \ {n} : up[c] = p => Code[c] # Code[n]

Create(s) ==
    /\ Ready(s, "create")
    /\ ~Exists(node[s])
    /\ Unique(node[s], to[s])
    /\ up' = [up EXCEPT ![node[s]] = to[s]]
    /\ status' = [status EXCEPT ![node[s]] = "ACTIVE"]
    /\ End(s)
    /\ UNCHANGED <<deleted, holds, moved>>

Move(s) ==
    /\ Ready(s, "move")
    /\ Unique(node[s], to[s])
    /\ up' = [up EXCEPT ![node[s]] = to[s]]
    /\ moved' = moved \union {b \in Bins : b = node[s] /\ holds[b] \notin {Nowhere, WarehouseOf(b)'}}
    /\ End(s)
    /\ UNCHANGED <<status, deleted, holds>>

SetStatus(s) ==
    /\ Ready(s, "status")
    /\ status' = [status EXCEPT ![node[s]] = to[s]]
    /\ End(s)
    /\ UNCHANGED <<up, deleted, holds, moved>>

Delete(s) ==
    /\ Ready(s, "delete")
    /\ deleted' = deleted \union {node[s]}
    /\ End(s)
    /\ UNCHANGED <<up, status, holds, moved>>

(* Upsert of the stock row: only a new one is given the warehouse. *)
Allocate(s) ==
    /\ Ready(s, "allocate")
    /\ holds' = [holds EXCEPT ![node[s]] = IF @ = Nowhere THEN to[s] ELSE @]
    /\ End(s)
    /\ UNCHANGED <<up, status, deleted, moved>>

(* A check throws, the unique index refuses, or the connection is lost. *)
Refuse(s) == kind[s] # "none" /\ End(s) /\ UNCHANGED <<tables, moved>>

-----------------------------------------------------------------------------
Init ==
    /\ up = OpeningUp
    /\ status = [n \in Nodes \union Warehouses |->
                   IF n \in Nodes /\ OpeningUp[n] = Nowhere THEN "none" ELSE "ACTIVE"]
    /\ deleted = {}
    /\ holds = [b \in Bins |-> Nowhere]
    /\ kind = [s \in Sessions |-> "none"]
    /\ node = [s \in Sessions |-> Nowhere]
    /\ to = [s \in Sessions |-> Nowhere]
    /\ todo = [s \in Sessions |-> <<>>]
    /\ served = 0
    /\ crossed = {}
    /\ moved = {}

(* Nobody is obliged to send a request. *)
Quiescent == (\A s \in Sessions : kind[s] = "none") /\ UNCHANGED vars

BeginAny(s) ==
    \/ BeginCreateZone(s) \/ BeginCreateAisle(s) \/ BeginCreateShelf(s) \/ BeginCreateBin(s)
    \/ BeginUpdateZone(s) \/ BeginUpdateAisle(s) \/ BeginUpdateShelf(s) \/ BeginUpdateBin(s)
    \/ BeginWarehouseStatus(s) \/ BeginZoneStatus(s) \/ BeginAisleStatus(s)
    \/ BeginShelfStatus(s) \/ BeginBinStatus(s)
    \/ BeginDeleteZone(s) \/ BeginDeleteAisle(s) \/ BeginDeleteShelf(s) \/ BeginDeleteBin(s)
    \/ BeginAllocate(s)

Next ==
    \/ \E s \in Sessions :
        \/ BeginAny(s)
        \/ ReadSelf(s) \/ CheckParent(s) \/ CheckChildren(s) \/ CheckCode(s) \/ CheckPath(s)
        \/ Create(s) \/ Move(s) \/ SetStatus(s) \/ Delete(s) \/ Allocate(s)
        \/ Refuse(s)
    \/ Quiescent

Spec == Init /\ [][Next]_vars

-----------------------------------------------------------------------------
(* Properties *)

(* Every variable has the shape of its table columns or working data; a    *)
(* row that exists hangs on a row of the level above, so that every bin    *)
(* has a warehouse.                                                        *)
TypeOK ==
    /\ up \in [Nodes -> Nodes \union Warehouses \union {Nowhere}]
    /\ status \in [Nodes \union Warehouses -> Status \union {"none"}]
    /\ \A n \in Nodes : IF Exists(n) THEN up[n] \in Above(n) ELSE up[n] = Nowhere
    /\ deleted \subseteq {n \in Nodes : Exists(n)}
    /\ holds \in [Bins -> Warehouses \union {Nowhere}]
    /\ kind \in [Sessions -> Kind]
    /\ node \in [Sessions -> Nodes \union Warehouses \union {Nowhere}]
    /\ to \in [Sessions -> Nodes \union Warehouses \union Status \union {Nowhere}]
    /\ todo \in [Sessions -> Seq(Check)]
    /\ served \in Nat
    /\ crossed \subseteq Nodes \union Warehouses
    /\ moved \subseteq Bins

(* A row that is not deleted does not hang on a deleted one: the children  *)
(* of a row are counted before it is deleted, and a parent is looked at    *)
(* before something is put under it, so only two requests that are open    *)
(* together and name the same row can bring it about.                      *)
LiveUnderLive ==
    \A n \in Nodes : Live(n) => up[n] \notin deleted \ crossed

(* The stock row of a bin counts for the warehouse the bin is in: a bin's  *)
(* path is compared with the warehouse when the row is made, and a zone,   *)
(* aisle or shelf with something under it is not moved.  A bin is, with    *)
(* its stock; leaving that and crossing requests aside, it holds.          *)
RowsNameTheirWarehouse ==
    \A b \in Bins \ moved :
        Live(b) /\ holds[b] # Nowhere /\ ({b} \union Ancestors(b)) \intersect crossed = {}
        => holds[b] = WarehouseOf(b)

(* The tree holds together where requests do not cross. *)
TreeSound == LiveUnderLive /\ RowsNameTheirWarehouse

(* A deleted row stays as it was: it is not moved, and its status not      *)
(* changed, though every handler writes by id whatever became of the row.  *)
DeletedFrozen ==
    \A n \in deleted \ crossed' : n \in deleted' /\ up'[n] = up[n] /\ status'[n] = status[n]

(* Stock is allocated to a bin only while its whole path is ACTIVE ("is    *)
(* inactive or deleted" otherwise) and the warehouse is, too.              *)
AllocatedUnderActive ==
    \A b \in Bins :
        holds'[b] # holds[b] /\ ({b} \union Ancestors(b)) \intersect crossed' = {} =>
            \A n \in {b} \union Ancestors(b) : n \notin deleted /\ status[n] = "ACTIVE"

(* What a write may do where requests do not cross. *)
WritesSound == [][DeletedFrozen /\ AllocatedUnderActive]_vars
=============================================================================
