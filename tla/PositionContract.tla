-------------------------- MODULE PositionContract --------------------------
(***************************************************************************)
(* What the auto-sell promises about the position of one token, without    *)
(* the tasks, caches, retries and timeouts it is made of.                  *)
(*                                                                         *)
(* A position is opened at most once and never comes back after its end.   *)
(* It is Active only for tokens that were bought; one seller at a time     *)
(* holds it; only that seller takes it from Selling back to Active, or to  *)
(* Closed when no token is left.  It may be given up at any moment; its    *)
(* seller then lets go of it without reviving it.                          *)
(***************************************************************************)

CONSTANT Sellers

VARIABLES
  phase,   \* where the position is
  owners,  \* the seller that holds it, if any
  tokens   \* whether its tokens are bought, and still there

vars == <<phase, owners, tokens>>

Phases == {"Unopened", "Confirming", "Active", "Selling",
           "Closed", "Failed", "Dropped"}

TypeOK ==
  /\ phase \in Phases
  /\ owners \in SUBSET Sellers
  /\ tokens \in {"none", "held", "sold"}

Init ==
  /\ phase = "Unopened"
  /\ owners = {}
  /\ tokens = "none"

Open ==
  /\ phase = "Unopened"
  /\ phase' = "Confirming"
  /\ UNCHANGED <<owners, tokens>>

Confirm ==
  /\ phase = "Confirming"
  /\ tokens # "none"
  /\ phase' = "Active"
  /\ UNCHANGED <<owners, tokens>>

Take(s) ==
  /\ phase \in {"Confirming", "Active"}
  /\ owners = {}
  /\ phase' = "Selling"
  /\ owners' = {s}
  /\ UNCHANGED tokens

Release(s) ==
  /\ phase = "Selling"
  /\ tokens # "none"
  /\ owners = {s}
  /\ owners' = {}
  /\ phase' = "Active"
  /\ UNCHANGED tokens

Close(s) ==
  /\ phase = "Selling"
  /\ tokens = "sold"
  /\ owners = {s}
  /\ owners' = {}
  /\ phase' = "Closed"
  /\ UNCHANGED tokens

\* The seller lets go of a position it failed, or that was given up.
Abandon(s) ==
  /\ owners = {s}
  /\ owners' = {}
  /\ phase' = IF phase = "Selling" THEN "Failed" ELSE phase
  /\ UNCHANGED tokens

GiveUp ==
  /\ phase \notin {"Unopened", "Dropped"}
  /\ phase' = "Failed"
  /\ UNCHANGED <<owners, tokens>>

Drop ==
  /\ phase \in {"Closed", "Failed"}
  /\ phase' = "Dropped"
  /\ UNCHANGED <<owners, tokens>>

Buy ==
  /\ tokens = "none"
  /\ tokens' = "held"
  /\ UNCHANGED <<phase, owners>>

SellOut ==
  /\ tokens = "held"
  /\ tokens' = "sold"
  /\ UNCHANGED <<phase, owners>>

Next ==
  \/ Open
  \/ Confirm
  \/ \E s \in Sellers : Take(s) \/ Release(s) \/ Close(s) \/ Abandon(s)
  \/ GiveUp
  \/ Drop
  \/ Buy
  \/ SellOut

Spec == Init /\ [][Next]_vars
=============================================================================
