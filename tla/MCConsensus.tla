---------------------------- MODULE MCConsensus ----------------------------
(* Instances of Consensus for TLC: see the .cfg files for the bounds.      *)
EXTENDS Consensus
=============================================================================
