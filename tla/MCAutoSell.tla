----------------------------- MODULE MCAutoSell -----------------------------
(* Instances of AutoSell for TLC: see the .cfg files for the bounds.       *)
EXTENDS AutoSell
=============================================================================
