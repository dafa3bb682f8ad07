------------------------------- MODULE MCFleet -------------------------------
(* Instances of Fleet for TLC. *)
EXTENDS Fleet, TLC

VehicleSymmetry == Permutations(Vehicles)
=============================================================================
