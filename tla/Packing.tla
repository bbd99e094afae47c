------------------------------- MODULE Packing -------------------------------
(***************************************************************************)
(* The packing task of one picked sales order (PackingService).            *)
(*   createTask     createPackingTask     start   startPacking             *)
(*   createPackage  createPackage         cancel  cancelPackingTask        *)
(*   add            addPackageItems       close   closePackage             *)
(*   assign         assignPacker                                           *)
(*   cancelOrder    SalesOrderService.cancelSalesOrder                     *)
(* Every handler reads and checks first, without a lock, and writes later  *)
(* without checking the status again.  Only addPackageItems locks: each    *)
(* task item it packs, in one order, until its transaction ends.  The      *)
(* order is picked completely; weights are left out, and the status of a   *)
(* task item follows from its quantities.                                  *)
(***************************************************************************)
EXTENDS Integers, Sequences, FiniteSetsExt

CONSTANTS
    Sessions,     \* requests that can run at the same time
    Items,        \* packing task items, numbered in localeCompare order
    Required,     \* requiredQuantity: the picked quantity of each item
    Packages,     \* packages that can be created
    Staff,        \* active STAFF users of the task's warehouse
    Manager,      \* a user of any other role
    Handlers,     \* the handlers in use
    MaxLines,     \* bound: lines of one payload
    MaxRequests,  \* bound: requests of one behaviour
    NoSession,    \* nobody holds the row lock
    NoPackage,    \* a session that works on no package
    NoPacker      \* nobody is assigned to the task

ASSUME PackingAssumption ==
    /\ Items \subseteq Nat /\ Items # {} /\ IsFiniteSet(Items)
    /\ IsFiniteSet(Packages)
    /\ Required \in [Items -> Nat \ {0}]
    /\ MaxLines \in Nat /\ MaxRequests \in Nat
    /\ NoSession \notin Sessions
    /\ NoPackage \notin Packages
    /\ Manager \notin Staff /\ NoPacker \notin Staff /\ NoPacker # Manager

VARIABLES
    so,        \* SalesOrder.status
    task,      \* PackingTask.status, "none" before it is created
    packed,    \* PackingTaskItem.packedQuantity
    pkg,       \* Package.status, "none" before it is created
    packedBy,  \* PackingTask.packedById
    contents,  \* PackageItem: quantity of each item in each package
    holder,    \* the session that holds the lock on a task item
    kind,      \* which handler a session runs, "none" between requests
    user,      \* the user who sends the request; the packer to be, for assign
    package,   \* the package a session works on
    lines,     \* payload lines a session has still to pack
    opened,    \* the session has read its package and found it usable
    own,       \* packedQuantity as the session wrote it, where added is not 0
    added,     \* quantities of the package items the session inserted
    verdict,   \* overallStatus, "none" before it is computed
    served,    \* requests begun so far
    outdated,  \* history: another request committed since the session began
    stale      \* history: a request committed although it was outdated

tables == <<so, task, packed, pkg, packedBy, contents>>
request == <<kind, user, package, lines, opened, own, added, verdict>>
history == <<outdated, stale>>
vars == <<tables, holder, request, served, history>>

SalesOrderStatus == {"CONFIRMED", "SHIPPED", "DELIVERED", "CANCELLED"}
PackingStatus == {"PENDING", "IN_PROGRESS", "PARTIALLY_PACKED", "PACKED", "CANCELLED"}
PackageStatus == {"none", "OPEN", "PACKED"}
Line == [item: Items, quantity: Nat \ {0}]

Zero == [i \in Items |-> 0]

(* Open that forgets the cancelled tasks. *)
Open_Cancelled == task \notin {"none", "PACKED"}

(* The task is neither missing, cancelled nor completed. *)
Open == task \notin {"none", "CANCELLED", "PACKED"}

(* MayWork that does not ask whose task it is. *)
MayWork_Anyone(u) == TRUE

(* assertStaffOwnership: staff only work on a task assigned to them. *)
MayWork(u) == u \in Staff => packedBy = u

-----------------------------------------------------------------------------
(* Requests: the first read of a handler and its check of the status. *)

Begin(s, handler, u, p, ls) ==
    /\ handler \in Handlers
    /\ kind[s] = "none"
    /\ served < MaxRequests
    /\ served' = served + 1
    /\ kind' = [kind EXCEPT ![s] = handler]
    /\ user' = [user EXCEPT ![s] = u]
    /\ package' = [package EXCEPT ![s] = p]
    /\ lines' = [lines EXCEPT ![s] = ls]
    /\ UNCHANGED <<tables, holder, opened, own, added, verdict, history>>

BeginCreateTask(s) ==
    /\ so # "CANCELLED"
    /\ task = "none"
    /\ Begin(s, "createTask", Manager, NoPackage, <<>>)

(* Requests of the packers' handlers: by a manager, or by the packer. *)
BeginWork(s, handler, p, ls) ==
    \E u \in Staff \union {Manager} : MayWork(u) /\ Begin(s, handler, u, p, ls)

(* "Only pending packing tasks can be started." *)
BeginStart(s) == task = "PENDING" /\ BeginWork(s, "start", NoPackage, <<>>)

BeginCancel(s) == Open /\ Begin(s, "cancel", Manager, NoPackage, <<>>)

(* The packer to be is active, STAFF, and of the task's warehouse. *)
BeginAssign(s) == \E u \in Staff : Open /\ Begin(s, "assign", u, NoPackage, <<>>)

BeginCreatePackage(s) == Open /\ BeginWork(s, "createPackage", NoPackage, <<>>)

BeginClose(s) ==
    \E p \in Packages : Open /\ pkg[p] # "none" /\ BeginWork(s, "close", p, <<>>)

InLockOrder_PayloadOrder(ls) == TRUE

(* Lines sorted by packingTaskItemId; an item may be listed twice. *)
InLockOrder(ls) == \A i, j \in DOMAIN ls : i < j => ls[i].item <= ls[j].item

BeginAdd(s) ==
    \E p \in Packages, n \in 1..MaxLines :
        \E ls \in [1..n -> {l \in [item: Items, quantity: 1..MaxLines] :
                              l.quantity <= Required[l.item]}] :
            /\ Open
            /\ pkg[p] # "none"
            /\ InLockOrder(ls)
            /\ BeginWork(s, "add", p, ls)

(* "Only confirmed sales orders can be cancelled." *)
BeginCancelOrder(s) ==
    so = "CONFIRMED" /\ Begin(s, "cancelOrder", Manager, NoPackage, <<>>)

-----------------------------------------------------------------------------
(* Statements *)

(* Usable whatever the package's status. *)
Usable_AnyStatus(s) == kind[s] = "close" => contents[package[s]] # Zero

(* The package is OPEN; one to be closed is not empty. *)
Usable(s) ==
    /\ pkg[package[s]] = "OPEN"
    /\ kind[s] = "close" => contents[package[s]] # Zero

ReadPackage(s) ==
    /\ kind[s] \in {"add", "close"} /\ ~opened[s]
    /\ Usable(s)
    /\ opened' = [opened EXCEPT ![s] = TRUE]
    /\ UNCHANGED <<tables, holder, kind, user, package, lines, own, added, verdict, served, history>>

(* A task item as session s reads it: its own write, or the committed one. *)
RowFor(s, i) == IF added[s][i] > 0 THEN own[s][i] ELSE packed[i]

(* Free for a read that does not wait. *)
Free_NoLock(s, i) == TRUE

Free(s, i) == holder[i] \in {NoSession, s}

(* Fits against the row as it was before the payload. *)
Fits_BeforePayload(s, l) == l.quantity <= Required[l.item] - packed[l.item]

(* "Cannot pack more than remaining required quantity." *)
Fits(s, l) == l.quantity <= Required[l.item] - RowFor(s, l.item)

(* The item is locked and read again, then the package item inserted and   *)
(* packedQuantity written.                                                 *)
PackItem(s) ==
    LET l == Head(lines[s])
    IN  /\ kind[s] = "add" /\ opened[s] /\ lines[s] # <<>>
        /\ Free(s, l.item)
        /\ Fits(s, l)
        /\ holder' = [holder EXCEPT ![l.item] = s]
        /\ own' = [own EXCEPT ![s][l.item] = RowFor(s, l.item) + l.quantity]
        /\ added' = [added EXCEPT ![s][l.item] = @ + l.quantity]
        /\ lines' = [lines EXCEPT ![s] = Tail(@)]
        /\ UNCHANGED <<tables, kind, user, package, opened, verdict, served, history>>

Sum(q) == SumFunctionOnSet(q, Items)

(* StatusOf with the statuses of a picking task. *)
StatusOf_Picking(q) == IF Sum(q) >= Sum(Required) THEN "PICKED" ELSE "PARTIALLY_PICKED"

(* StatusOf that asks for one complete item. *)
StatusOf_AnyItem(q) ==
    IF \E i \in Items : q[i] >= Required[i] THEN "PACKED" ELSE "PARTIALLY_PACKED"

(* StatusOf that asks for more than is required. *)
StatusOf_Strict(q) == IF Sum(q) > Sum(Required) THEN "PACKED" ELSE "PARTIALLY_PACKED"

StatusOf(q) ==
    IF Sum(q) >= Sum(Required) THEN "PACKED"
    ELSE IF Sum(q) > 0 THEN "PARTIALLY_PACKED" ELSE "IN_PROGRESS"

(* The status is computed from all items, those of others as committed. *)
ReadItems(s) ==
    /\ kind[s] = "add" /\ opened[s] /\ lines[s] = <<>> /\ verdict[s] = "none"
    /\ verdict' = [verdict EXCEPT ![s] = StatusOf([i \in Items |-> RowFor(s, i)])]
    /\ UNCHANGED <<tables, holder, kind, user, package, lines, opened, own, added, served, history>>

-----------------------------------------------------------------------------
(* Writes: each transaction's rows come into force when it commits.        *)

(* The request is over: its locks and its working data are gone. *)
End(s) ==
    /\ holder' = [i \in Items |-> IF holder[i] = s THEN NoSession ELSE holder[i]]
    /\ kind' = [kind EXCEPT ![s] = "none"]
    /\ user' = [user EXCEPT ![s] = Manager]
    /\ package' = [package EXCEPT ![s] = NoPackage]
    /\ lines' = [lines EXCEPT ![s] = <<>>]
    /\ opened' = [opened EXCEPT ![s] = FALSE]
    /\ own' = [own EXCEPT ![s] = Zero]
    /\ added' = [added EXCEPT ![s] = Zero]
    /\ verdict' = [verdict EXCEPT ![s] = "none"]
    /\ UNCHANGED served

(* The tables change: what the other open requests have read is outdated.  *)
Commit(s) ==
    /\ End(s)
    /\ outdated' = [t \in Sessions |-> t # s /\ kind[t] # "none"]
    /\ stale' = (stale \/ outdated[s])

(* The unique index on salesOrderId lets one task in. *)
CreateTask(s) ==
    /\ kind[s] = "createTask"
    /\ task = "none"
    /\ task' = "PENDING"
    /\ Commit(s)
    /\ UNCHANGED <<so, packed, pkg, packedBy, contents>>

SetTaskStatus(s, handler, status) ==
    /\ kind[s] = handler
    /\ task' = status
    /\ Commit(s)
    /\ UNCHANGED <<so, packed, pkg, packedBy, contents>>

StartPacking(s) == SetTaskStatus(s, "start", "IN_PROGRESS")

CancelTask(s) == SetTaskStatus(s, "cancel", "CANCELLED")

(* Only packedById is written: the status stays what others make of it.   *)
AssignPacker(s) ==
    /\ kind[s] = "assign"
    /\ packedBy' = user[s]
    /\ Commit(s)
    /\ UNCHANGED <<so, task, packed, pkg, contents>>

CreatePackage(s) ==
    \E p \in Packages :
        /\ kind[s] = "createPackage"
        /\ pkg[p] = "none"
        /\ pkg' = [pkg EXCEPT ![p] = "OPEN"]
        /\ Commit(s)
        /\ UNCHANGED <<so, task, packed, packedBy, contents>>

ClosePackage(s) ==
    /\ kind[s] = "close" /\ opened[s]
    /\ pkg' = [pkg EXCEPT ![package[s]] = "PACKED"]
    /\ Commit(s)
    /\ UNCHANGED <<so, task, packed, packedBy, contents>>

AddPackageItems(s) ==
    /\ verdict[s] # "none"
    /\ task' = verdict[s]
    /\ packed' = [i \in Items |-> RowFor(s, i)]
    /\ contents' = [contents EXCEPT ![package[s]] = [i \in Items |-> @[i] + added[s][i]]]
    /\ Commit(s)
    /\ UNCHANGED <<so, pkg, packedBy>>

(* The reservations are consumed by now; only the status is left to set. *)
CancelOrder(s) ==
    /\ kind[s] = "cancelOrder"
    /\ so' = "CANCELLED"
    /\ Commit(s)
    /\ UNCHANGED <<task, packed, pkg, packedBy, contents>>

(* A check throws, the transaction times out or the connection is lost. *)
Rollback(s) ==
    /\ kind[s] # "none"
    /\ End(s)
    /\ outdated' = [outdated EXCEPT ![s] = FALSE]
    /\ UNCHANGED <<tables, stale>>

-----------------------------------------------------------------------------
Init ==
    /\ so = "CONFIRMED"
    /\ task = "none"
    /\ packed = Zero
    /\ pkg = [p \in Packages |-> "none"]
    /\ packedBy = NoPacker
    /\ contents = [p \in Packages |-> Zero]
    /\ holder = [i \in Items |-> NoSession]
    /\ kind = [s \in Sessions |-> "none"]
    /\ user = [s \in Sessions |-> Manager]
    /\ package = [s \in Sessions |-> NoPackage]
    /\ lines = [s \in Sessions |-> <<>>]
    /\ opened = [s \in Sessions |-> FALSE]
    /\ own = [s \in Sessions |-> Zero]
    /\ added = [s \in Sessions |-> Zero]
    /\ verdict = [s \in Sessions |-> "none"]
    /\ served = 0
    /\ outdated = [s \in Sessions |-> FALSE]
    /\ stale = FALSE

(* Nobody is obliged to send a request. *)
Quiescent == (\A s \in Sessions : kind[s] = "none") /\ UNCHANGED vars

Step(s) ==
    \/ BeginCreateTask(s) \/ BeginStart(s) \/ BeginCancel(s) \/ BeginAssign(s)
    \/ BeginCreatePackage(s)
    \/ BeginClose(s) \/ BeginAdd(s) \/ BeginCancelOrder(s)
    \/ ReadPackage(s) \/ PackItem(s) \/ ReadItems(s)
    \/ CreateTask(s) \/ StartPacking(s) \/ CancelTask(s) \/ AssignPacker(s)
    \/ CreatePackage(s) \/ ClosePackage(s) \/ AddPackageItems(s) \/ CancelOrder(s)

Next ==
    \/ \E s \in Sessions : Step(s) \/ Rollback(s)
    \/ Quiescent

Spec == Init /\ [][Next]_vars

-----------------------------------------------------------------------------
(* Properties *)

(* Every variable has the shape of its table columns or working data. *)
TypeOK ==
    /\ so \in SalesOrderStatus
    /\ task \in PackingStatus \union {"none"}
    /\ packed \in [Items -> Nat]
    /\ pkg \in [Packages -> PackageStatus]
    /\ packedBy \in Staff \union {NoPacker}
    /\ contents \in [Packages -> [Items -> Nat]]
    /\ holder \in [Items -> Sessions \union {NoSession}]
    /\ kind \in [Sessions -> Handlers \union {"none"}]
    /\ user \in [Sessions -> Staff \union {Manager}]
    /\ package \in [Sessions -> Packages \union {NoPackage}]
    /\ lines \in [Sessions -> Seq(Line)]
    /\ opened \in [Sessions -> BOOLEAN]
    /\ own \in [Sessions -> [Items -> Nat]]
    /\ added \in [Sessions -> [Items -> Nat]]
    /\ verdict \in [Sessions -> PackingStatus \union {"none"}]
    /\ served \in Nat
    /\ outdated \in [Sessions -> BOOLEAN]
    /\ stale \in BOOLEAN

(* "Lock the PackingTaskItem row to prevent concurrent over-packing": no   *)
(* number of packers packs more of an item than was picked.                *)
PackedWithinRequired == \A i \in Items : packed[i] <= Required[i]

(* What the packages hold of an item is what the task says is packed: no   *)
(* packer's update of packedQuantity is lost, none lacks its package item. *)
PackagesHoldWhatIsPacked ==
    \A i \in Items : packed[i] = SumFunctionOnSet([p \in Packages |-> contents[p][i]], Packages)

(* The quantities of the task and of its packages, under the item locks.   *)
QuantitiesAgree == PackedWithinRequired /\ PackagesHoldWhatIsPacked

Complete == \A i \in Items : packed[i] = Required[i]

(* A PACKED task, the one a shipment may be created for, is complete,      *)
(* whatever the packer that set the status did not see.                    *)
PackedMeansComplete == task = "PACKED" => Complete

(* A task whose items are all packed says so ("recalculates overall        *)
(* PackingTask status"): nothing is left to add to it, so it could never   *)
(* become PACKED later, and without that the order cannot be shipped.      *)
CompleteMeansPacked == task # "none" /\ Complete => task \in {"PACKED", "CANCELLED"}

(* The status of a task and its items: the first half always, the second   *)
(* as long as no request commits on an outdated read, whatever requests    *)
(* are open together.                                                      *)
StatusTellsProgress == PackedMeansComplete /\ (~stale => CompleteMeansPacked)

(* Session s cannot pack its next line before the lock on i is released. *)
WaitsFor(s, i) ==
    /\ kind[s] = "add" /\ opened[s] /\ lines[s] # <<>>
    /\ Head(lines[s]).item = i
    /\ ~Free(s, i)

(* A packer only waits for an item above all the items it has locked       *)
(* ("deterministic lock ordering (prevents deadlocks)").                   *)
WaitsUpward ==
    \A s \in Sessions, i, j \in Items : WaitsFor(s, i) /\ holder[j] = s => j < i

(* A completed or cancelled task is frozen with everything in it: it is    *)
(* not started, cancelled, assigned or packed again ("Cannot add items to  *)
(* a cancelled or completed packing task."), its last package stays OPEN   *)
(* for good, and after a cancellation the order cannot be packed at all.   *)
FinishedTaskFrozen ==
    task \in {"PACKED", "CANCELLED"} => <<task, packed, pkg, packedBy, contents>>' =
                                        <<task, packed, pkg, packedBy, contents>>

(* "Cannot add items to a closed package." *)
ClosedPackageFrozen ==
    \A p \in Packages : pkg[p] = "PACKED" => pkg'[p] = "PACKED" /\ contents'[p] = contents[p]

(* "STAFF users may only operate on tasks they are assigned to": nothing   *)
(* is written for a packer the task has been taken from meanwhile.         *)
OnlyThePackerWrites ==
    \A s \in Sessions :
        kind[s] \in {"start", "createPackage", "close", "add"} /\ kind'[s] = "none"
            /\ tables' # tables => user[s] \in {packedBy, Manager}

(* What is closed, and whose it is, is settled: as long as no request      *)
(* commits on an outdated read.                                            *)
ClosedStaysClosed ==
    [][~stale' => FinishedTaskFrozen /\ ClosedPackageFrozen /\ OnlyThePackerWrites]_vars
=============================================================================
