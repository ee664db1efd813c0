--------------------------- MODULE MCOperatorSell ---------------------------
(* Instances of OperatorSell for TLC: see the .cfg files for the bounds.   *)
EXTENDS OperatorSell
=============================================================================
