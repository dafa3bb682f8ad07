-------------------------- MODULE ShipmentStatuses --------------------------
(***************************************************************************)
(* The shipment status enumeration and the pure workflow table of          *)
(* apps/api/src/shipments/shipment-workflow.ts, with the two status sets   *)
(* ShipmentsService keeps as private fields.                               *)
(***************************************************************************)
EXTENDS Naturals

\* enum ShipmentStatus of prisma/schema.prisma.
ShipmentStatus ==
    {"DRAFT", "QUOTED", "BOOKED", "RECEIVED", "LOADED", "IN_TRANSIT",
     "ARRIVED", "CUSTOMS_CLEARANCE", "READY_FOR_DELIVERY", "DELIVERED",
     "CANCELLED"}

\* The row of a shipment that was not inserted yet, and of one that was
\* deleted: identifiers are UUIDs, so a deleted one is never used again.
NotCreated == "NOT_CREATED"
Deleted    == "DELETED"
RowStatus  == ShipmentStatus \cup {NotCreated, Deleted}

\* The edges of the table; DELIVERED and CANCELLED have none.
SHIPMENT_WORKFLOW_TRANSITIONS ==
    { <<"DRAFT", "QUOTED">>,      <<"DRAFT", "CANCELLED">>,
      <<"QUOTED", "BOOKED">>,     <<"QUOTED", "CANCELLED">>,
      <<"BOOKED", "RECEIVED">>,   <<"BOOKED", "CANCELLED">>,
      <<"RECEIVED", "LOADED">>,   <<"RECEIVED", "CANCELLED">>,
      <<"LOADED", "IN_TRANSIT">>, <<"LOADED", "CANCELLED">>,
      <<"IN_TRANSIT", "ARRIVED">>,
      <<"ARRIVED", "CUSTOMS_CLEARANCE">>,
      <<"CUSTOMS_CLEARANCE", "READY_FOR_DELIVERY">>,
      <<"READY_FOR_DELIVERY", "DELIVERED">> }

isShipmentTransitionAllowed(from, to) ==
    <<from, to>> \in SHIPMENT_WORKFLOW_TRANSITIONS

\* The way through the table without the cancellations, and what lies ahead.
shipmentWay ==
    <<"DRAFT", "QUOTED", "BOOKED", "RECEIVED", "LOADED", "IN_TRANSIT", "ARRIVED",
      "CUSTOMS_CLEARANCE", "READY_FOR_DELIVERY", "DELIVERED">>
statusesAfter(s) ==
    {shipmentWay[n] : n \in {k \in DOMAIN shipmentWay : \E j \in 1 .. (k - 1) : shipmentWay[j] = s}}

isShipmentTerminalStatus(s) == s \in {"DELIVERED", "CANCELLED"}

\* ShipmentsService.controlledWorkflowStatuses: statuses the generic update
\* may neither enter nor leave.
controlledWorkflowStatuses ==
    {"LOADED", "IN_TRANSIT", "ARRIVED", "CUSTOMS_CLEARANCE",
     "READY_FOR_DELIVERY", "DELIVERED", "CANCELLED"}

\* ShipmentsService.readinessProtectedStatuses: CUSTOMS_CLEARANCE and
\* CANCELLED are entered without a readiness check.
readinessProtectedStatuses ==
    {"LOADED", "IN_TRANSIT", "ARRIVED", "READY_FOR_DELIVERY", "DELIVERED"}

=============================================================================
