------------------------- MODULE MCShipmentWorkflow -------------------------
(* Instances of ShipmentWorkflow for TLC. *)
EXTENDS ShipmentWorkflow, TLC

\* Requests are interchangeable, and so are the vehicles of a yard.
Symmetry == Permutations(Workers) \cup Permutations(Vehicles)
WorkerSymmetry == Permutations(Workers)
=============================================================================
