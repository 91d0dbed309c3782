---------------------------- MODULE MCEcsWorld ----------------------------
(* EcsWorld for TLC: component types are interchangeable. *)
EXTENDS EcsWorld, TLC

ComponentSymmetry == Permutations(Components)
=============================================================================
