------------------------------ MODULE Shipping ------------------------------
(***************************************************************************)
(* The shipment of the order that Packing packs (ShippingService).         *)
(*   ship    createShipment                                                *)
(*   status  updateShipmentStatus                                          *)
(*   inform  updateShipment                                                *)
(* Composed with Packing: a shipment asks for a PACKED task and sets the   *)
(* status of the order that cancelSalesOrder sets too.  All reads are      *)
(* without a lock; carrier, address and the like are one counter of edits. *)
(***************************************************************************)
EXTENDS Packing

VARIABLES
    shipment,     \* Shipment.status, "none" before it is created
    information,  \* how often carrier, address, ... were changed
    target        \* the status a session is to set, "none" otherwise

shippingTables == <<shipment, information>>
allVars == <<vars, shipment, information, target>>

ShipmentStatus == {"READY", "SHIPPED", "IN_TRANSIT", "DELIVERED", "CANCELLED"}

-----------------------------------------------------------------------------
(* Requests *)

(* ReadyToShip once packing has begun. *)
ReadyToShip_Started == task \in {"PARTIALLY_PACKED", "PACKED"}

(* "Packing has not been completed" otherwise. *)
ReadyToShip == task = "PACKED" /\ \A i \in Items : packed[i] >= Required[i]

(* Shippable whatever became of the order. *)
Shippable_AnyOrder == shipment = "none" /\ ReadyToShip

Shippable == so # "CANCELLED" /\ shipment = "none" /\ ReadyToShip

BeginShip(s) ==
    /\ Shippable
    /\ Begin(s, "ship", Manager, NoPackage, <<>>)
    /\ UNCHANGED <<shippingTables, target>>

(* Allowed that lets a shipment be cancelled on its way. *)
Allowed_CancelLater(a, b) ==
    \/ a = "READY" /\ b = "SHIPPED"
    \/ a \in {"READY", "SHIPPED"} /\ b = "CANCELLED"
    \/ a = "SHIPPED" /\ b = "IN_TRANSIT"
    \/ a = "IN_TRANSIT" /\ b = "DELIVERED"

(* Allowed transitions *)
Allowed(a, b) ==
    \/ a = "READY" /\ b \in {"SHIPPED", "CANCELLED"}
    \/ a = "SHIPPED" /\ b = "IN_TRANSIT"
    \/ a = "IN_TRANSIT" /\ b = "DELIVERED"

BeginStatus(s) ==
    \E new \in ShipmentStatus :
        /\ Allowed(shipment, new)
        /\ target' = [target EXCEPT ![s] = new]
        /\ Begin(s, "status", Manager, NoPackage, <<>>)
        /\ UNCHANGED shippingTables

(* Editable until the goods arrive. *)
Editable_UntilDelivered == shipment \in {"READY", "SHIPPED", "IN_TRANSIT"}

(* "Modification is only allowed in 'READY' status." *)
Editable == shipment = "READY"

BeginInform(s) ==
    /\ Editable
    /\ Begin(s, "inform", Manager, NoPackage, <<>>)
    /\ UNCHANGED <<shippingTables, target>>

-----------------------------------------------------------------------------
(* Writes *)

(* The unique index on salesOrderId lets one shipment in; the order is     *)
(* SHIPPED whatever it was.                                                *)
CreateShipment(s) ==
    /\ kind[s] = "ship"
    /\ shipment = "none"
    /\ shipment' = "READY"
    /\ so' = "SHIPPED"
    /\ Commit(s)
    /\ UNCHANGED <<task, packed, pkg, packedBy, contents, information, target>>

(* OrderAfter that hands on every status. *)
OrderAfter_Same(new, old) == new

(* OrderAfter that forgets the delivery. *)
OrderAfter_ShippedOnly(new, old) == IF new = "SHIPPED" THEN "SHIPPED" ELSE old

(* What a shipment's new status makes of its order. *)
OrderAfter(new, old) == IF new \in {"SHIPPED", "DELIVERED"} THEN new ELSE old

UpdateShipmentStatus(s) ==
    /\ kind[s] = "status"
    /\ shipment' = target[s]
    /\ so' = OrderAfter(target[s], so)
    /\ target' = [target EXCEPT ![s] = "none"]
    /\ Commit(s)
    /\ UNCHANGED <<task, packed, pkg, packedBy, contents, information>>

UpdateShipment(s) ==
    /\ kind[s] = "inform"
    /\ information' = information + 1
    /\ Commit(s)
    /\ UNCHANGED <<tables, shipment, target>>

(* Rollback also forgets the status to set. *)
Abandon(s) ==
    /\ Rollback(s)
    /\ target' = [target EXCEPT ![s] = "none"]
    /\ UNCHANGED shippingTables

-----------------------------------------------------------------------------
ShippingInit ==
    /\ Init
    /\ shipment = "none"
    /\ information = 0
    /\ target = [s \in Sessions |-> "none"]

ShippingNext ==
    \/ \E s \in Sessions :
        \/ BeginShip(s) \/ BeginStatus(s) \/ BeginInform(s)
        \/ CreateShipment(s) \/ UpdateShipmentStatus(s) \/ UpdateShipment(s)
        \/ Step(s) /\ UNCHANGED <<shippingTables, target>>
        \/ Abandon(s)
    \/ Quiescent /\ UNCHANGED <<shippingTables, target>>

ShippingSpec == ShippingInit /\ [][ShippingNext]_allVars

-----------------------------------------------------------------------------
(* Properties *)

(* Every variable has the shape of its table columns or working data; the  *)
(* shipment's statuses are not all statuses of an order.                   *)
ShippingTypeOK ==
    /\ TypeOK
    /\ shipment \in ShipmentStatus \union {"none"}
    /\ information \in Nat
    /\ target \in [Sessions -> ShipmentStatus \union {"none"}]

(* Only a completely packed order is shipped, and what was packed stays    *)
(* packed, although the task's status may be overwritten afterwards and    *)
(* the shipment is created after its checks, not with them.                *)
ShippedComplete == shipment # "none" => Complete

(* The order is SHIPPED from the creation of its shipment on, DELIVERED    *)
(* when the shipment is, and CANCELLED only without a shipment ("Cannot    *)
(* create shipment for a cancelled Sales Order.", "Only confirmed sales    *)
(* orders can be cancelled."), as long as no request commits on an         *)
(* outdated read.                                                          *)
OrderFollowsShipment ==
    ~stale =>
        /\ so = "DELIVERED" <=> shipment = "DELIVERED"
        /\ so = "SHIPPED" <=> shipment \notin {"none", "DELIVERED"}

(* A shipment goes from READY over SHIPPED and IN_TRANSIT to DELIVERED, or *)
(* from READY to CANCELLED, and never back; and what left the warehouse    *)
(* keeps the carrier and address it left with ("Modification is only       *)
(* allowed in 'READY' status."); a cancelled or delivered order stays so.   *)
(* All this as long as no request commits on an outdated read.             *)
ShipmentLifeCycle ==
    [][~stale' =>
         /\ <<shipment, shipment'>> \in
              {<<"none", "READY">>, <<"READY", "SHIPPED">>, <<"READY", "CANCELLED">>,
               <<"SHIPPED", "IN_TRANSIT">>, <<"IN_TRANSIT", "DELIVERED">>,
               <<shipment, shipment>>}
         /\ shipment # "READY" => information' = information
         /\ so \in {"CANCELLED", "DELIVERED"} => so' = so]_allVars
=============================================================================
