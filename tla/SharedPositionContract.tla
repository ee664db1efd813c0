----------------------- MODULE SharedPositionContract -----------------------
(***************************************************************************)
(* What is left of the promise of PositionContract once the operator's     *)
(* sell buttons share the position with its seller.                        *)
(*                                                                         *)
(* A button holds nothing.  All it may do beyond selling tokens is to      *)
(* close a position that has not ended, held by a seller or not, when the  *)
(* wallet has no token left: the close that sell_executor.rs promises      *)
(* after a full sale.  (The code keeps that promise in Selling only, see   *)
(* FullSaleCloses of OperatorSell.)  A seller is not told: it keeps the    *)
(* closed position until it lets go of it, and may then report it failed.  *)
(***************************************************************************)
EXTENDS PositionContract

CloseByButton ==
  /\ phase \in {"Confirming", "Active", "Selling"}
  /\ tokens = "sold"
  /\ phase' = "Closed"
  /\ UNCHANGED <<owners, tokens>>

\* The seller finds nothing to sell, and fails what a button closed.
FailClosed(s) ==
  /\ phase = "Closed"
  /\ owners = {s}
  /\ owners' = {}
  /\ phase' = "Failed"
  /\ UNCHANGED tokens

SharedNext ==
  \/ Next
  \/ CloseByButton
  \/ \E s \in Sellers : FailClosed(s)

SharedSpec == Init /\ [][SharedNext]_vars
=============================================================================
