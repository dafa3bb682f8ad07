------------------------ MODULE MCVehicleInspections ------------------------
(* Instances of VehicleInspections for TLC. *)
EXTENDS VehicleInspections, TLC

\* Requests, vehicles and damage reports are interchangeable.
Symmetry ==
    Permutations(Workers) \cup Permutations(Vehicles) \cup
    Permutations(Reports)
=============================================================================
