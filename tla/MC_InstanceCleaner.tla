------------------------- MODULE MC_InstanceCleaner -------------------------
(* Model-checking instance of InstanceCleaner: instance ids are            *)
(* interchangeable model values.                                           *)
EXTENDS InstanceCleaner, TLC

MCInstanceSymmetry == Permutations(Instances)
=============================================================================
