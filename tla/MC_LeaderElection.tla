------------------------- MODULE MC_LeaderElection -------------------------
(* Model-checking instance of LeaderElection: the constants' values are    *)
(* given in the .cfg files; peers are model values.                        *)
EXTENDS LeaderElection, TLC

MCPeerSymmetry == Permutations(Peers)
=============================================================================
