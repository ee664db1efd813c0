------------------------------ MODULE Position ------------------------------
(***************************************************************************)
(* The position record and its state machine (autosell/position.rs).       *)
(*                                                                         *)
(* A transition method checks the state, returns whether it applied, and   *)
(* leaves the record alone when it did not.  Here a method maps a record   *)
(* to the record it leaves.  Prices and names are left out: no transition  *)
(* looks at them.                                                          *)
(***************************************************************************)
EXTENDS Naturals

States == {"Pending", "Submitted", "Confirming", "Active",
           "Selling", "Closed", "Failed"}

\* What the positions map answers for a token it does not hold.
NoPosition == [state |-> "Absent", attempts |-> 0]

PositionOrNone == [state : States \cup {"Absent"}, attempts : Nat]

Exists(p) == p.state # "Absent"

\* Position::new
NewPosition == [state |-> "Pending", attempts |-> 0]

MarkSubmitted(p) ==
  IF p.state = "Pending" THEN [p EXCEPT !.state = "Submitted"] ELSE p

MarkConfirming(p) ==
  IF p.state = "Submitted" THEN [p EXCEPT !.state = "Confirming"] ELSE p

MarkActive(p) ==
  IF p.state \in {"Confirming", "Submitted"}
  THEN [p EXCEPT !.state = "Active"] ELSE p

Sellable(p) == p.state \in {"Active", "Confirming", "Submitted"}

MarkSelling(p) ==
  IF Sellable(p)
  THEN [p EXCEPT !.state = "Selling", !.attempts = @ + 1] ELSE p

MarkClosed(p) ==
  IF p.state = "Selling" THEN [p EXCEPT !.state = "Closed"] ELSE p

\* From any state; only a token without a position is left alone.
MarkFailed(p) ==
  IF Exists(p) THEN [p EXCEPT !.state = "Failed"] ELSE p

RevertToActive(p) ==
  IF p.state = "Selling" THEN [p EXCEPT !.state = "Active"] ELSE p

\* can_sell, can_check_stop_loss / can_check_take_profit.
CanSell(p) == p.state \in {"Active", "Confirming"}
CanCheckExit(p) == p.state = "Active"

\* The states in which the fallback monitor looks for a buy to confirm.
Unconfirmed(p) == p.state \in {"Submitted", "Confirming"}

\* get_active_positions: what the operator's /sellall covers.
Listed(p) == p.state \notin {"Absent", "Closed", "Failed", "Selling"}
=============================================================================
