---------------------------- MODULE OperatorSell ----------------------------
(***************************************************************************)
(* AutoSell together with the operator's sell buttons (25% .. 100%):       *)
(* handle_partial_sell of tx/sell_executor.rs, spawned by telegram.rs.     *)
(*                                                                         *)
(* A button sells a share of the token balance without taking the          *)
(* position, so it runs at the same time as the automatic sale and shares  *)
(* the balance, the caches and, after a full sale, the position with it.   *)
(***************************************************************************)
EXTENDS AutoSell

CONSTANTS
  Presses,   \* bound: presses of a button handled at the same time
  Percents   \* the percentages of the buttons

ASSUME OperatorSellAssumption ==
  /\ IsFiniteSet(Presses)
  /\ Percents \subseteq 1 .. 100

VARIABLE partial  \* the tasks that handle the presses

allVars == <<vars, partial>>

-----------------------------------------------------------------------------

PartialTask == [pc : {"idle", "reading", "trying", "waiting", "sold"},
                percent : Percents \cup {0},
                try : 0 .. MaxRetries,
                amount : 0 .. Bought,
                tx : {"none", "pending", "landed", "failed"}]

IdlePress ==
  [pc |-> "idle", percent |-> 0, try |-> 0, amount |-> 0, tx |-> "none"]

PartialTypeOK == TypeOK /\ partial \in [Presses -> PartialTask]

PartialInit == Init /\ partial = [o \in Presses |-> IdlePress]

Portion(b, percent) == IF percent >= 100 THEN b ELSE (b * percent) \div 100

\* The buttons belong to messages, which outlive the position.
Press(o, percent) ==
  /\ partial[o].pc = "idle"
  /\ confirmer # "none"
  /\ partial' = [partial EXCEPT ![o].pc = "reading", ![o].percent = percent]
  /\ UNCHANGED vars

ReadPartial(o) ==
  /\ partial[o].pc = "reading"
  /\ \E b \in ReadableBalances :
       LET a == Portion(b, partial[o].percent)
       IN  partial' = [partial EXCEPT ![o] =
                         IF a = 0 THEN IdlePress
                         ELSE [@ EXCEPT !.pc = "trying", !.amount = a,
                                        !.try = 1]]
  /\ UNCHANGED vars

NextPartialTry(o) ==
  IF partial[o].try < MaxRetries
  THEN [partial[o] EXCEPT !.pc = "trying", !.try = @ + 1, !.tx = "none"]
  ELSE IdlePress

\* A sale through Jupiter.
TryPartial(o) ==
  /\ partial[o].pc = "trying"
  /\ \/ /\ partial' = [partial EXCEPT ![o].pc = "waiting",
                                     ![o].tx = "pending"]
        /\ UNCHANGED late
     \/ /\ partial' = [partial EXCEPT ![o] = NextPartialTry(o)]
        /\ Abandoned(partial[o].amount)
  /\ UNCHANGED <<pos, held, buyTx, balance, ataVars, confirmer, fallback,
                 task>>

\* The chain, as SellSettles (external).
PartialSettles(o) ==
  /\ partial[o].tx = "pending"
  /\ \/ /\ partial[o].amount <= balance
        /\ balance' = balance - partial[o].amount
        /\ partial' = [partial EXCEPT ![o].tx = "landed"]
     \/ /\ partial' = [partial EXCEPT ![o].tx = "failed"]
        /\ UNCHANGED balance
  /\ UNCHANGED <<pos, held, buyTx, late, ataVars, confirmer, fallback, task>>

PartialConfirmed(o) ==
  /\ partial[o].pc = "waiting"
  /\ SaleConfirmed(partial[o].tx)
  /\ partial' = [partial EXCEPT ![o].pc = "sold"]
  /\ UNCHANGED vars

PartialUnconfirmed(o) ==
  /\ partial[o].pc = "waiting"
  /\ partial' = [partial EXCEPT ![o] = NextPartialTry(o)]
  /\ IF partial[o].tx = "pending" THEN Abandoned(partial[o].amount)
     ELSE UNCHANGED late
  /\ UNCHANGED <<pos, held, buyTx, balance, ataVars, confirmer, fallback,
                 task>>

\* Seeded fault: every successful sale ends the position.
AnySale(percent) == percent > 0

FullSale(percent) == percent >= 100

\* Seeded fault: what is left after a part is sold is put on sale again.
ReopenAfterPart(p, percent) ==
  IF FullSale(percent) THEN MarkClosed(p) ELSE RevertToActive(p)

AfterPartial(p, percent) == IF FullSale(percent) THEN MarkClosed(p) ELSE p

FinishPartial(o) ==
  /\ partial[o].pc = "sold"
  /\ pos' = AfterPartial(pos, partial[o].percent)
  /\ IF FullSale(partial[o].percent)
     THEN /\ \/ ataCache' = NotCached
             \/ tracked /\ ataCache' = balance
          /\ tracked' = FALSE
     ELSE UNCHANGED <<ataCache, tracked>>
  /\ partial' = [partial EXCEPT ![o] = IdlePress]
  /\ UNCHANGED <<held, chainVars, ataEvents, confirmer, fallback, task>>

PartialNext ==
  \E o \in Presses :
    \/ \E percent \in Percents : Press(o, percent)
    \/ ReadPartial(o)
    \/ TryPartial(o)
    \/ PartialSettles(o)
    \/ PartialConfirmed(o)
    \/ PartialUnconfirmed(o)
    \/ FinishPartial(o)

OperatorNext == (Next /\ UNCHANGED partial) \/ PartialNext

OperatorSpec == PartialInit /\ [][OperatorNext]_allVars

-----------------------------------------------------------------------------

(* A button may close the position under the task that is selling it, but  *)
(* never makes it sellable again while that task is at work: a second      *)
(* automatic sale of it is ruled out with the buttons in play, too.        *)
NotResoldMeanwhile == Owners # {} => ~Sellable(pos)

(* sell_executor.rs 501: a full sale closes the position.  mark_closed     *)
(* only closes a position in Selling, and a button does not put it there.  *)
FullSaleCloses ==
  [][\A o \in Presses :
       partial[o].pc = "sold" /\ partial'[o].pc = "idle"
         /\ partial[o].percent >= 100
         => ~Sellable(pos')]_allVars

ButtonContract == INSTANCE SharedPositionContract WITH
  Sellers <- SellTasks, phase <- Phase, owners <- Owners, tokens <- Tokens

(* Buttons and tasks together: a button ends the position only when its    *)
(* tokens are gone, and never gives it to anybody; one seller at a time    *)
(* still holds it, and neither it nor a button brings a position back from *)
(* its end.  See SharedPositionContract; that a button ends the position   *)
(* whenever it should is FullSaleCloses.                                   *)
KeepsButtonContract == ButtonContract!SharedSpec
=============================================================================
