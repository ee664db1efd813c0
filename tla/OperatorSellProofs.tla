-------------------------- MODULE OperatorSellProofs --------------------------
(***************************************************************************)
(* The sell buttons beside the automatic sale, for every number of presses *)
(* and every choice of the limits.                                         *)
(*                                                                         *)
(* A button takes nothing, so SellExclusive does not hold with buttons: it *)
(* may close the position under the task that sells it.  What holds is     *)
(* weaker (Shared), and enough for NotResoldMeanwhile.  That a position    *)
(* closed by a button is sold needs what the press knows of the balance,   *)
(* beside the Evidence of the tasks.                                       *)
(***************************************************************************)
EXTENDS OperatorSell, AutoSellProofs

-----------------------------------------------------------------------------
(* Types.                                                                  *)

\* A share of the balance is an amount.
LEMMA PortionTyped ==
  ASSUME NEW b \in 0 .. Bought, NEW percent \in Percents
  PROVE  Portion(b, percent) \in 0 .. Bought
<1> USE AutoSellAssumption, OperatorSellAssumption
<1>1. b \in Nat /\ percent \in 1 .. 100
  OBVIOUS
<1> DEFINE x == b * percent
<1>2. x \in Nat /\ x <= b * 100
  BY <1>1
<1> HIDE DEF x
<1>3. x \div 100 \in Nat /\ x \div 100 <= b
  BY <1>1, <1>2
<1>4. x \div 100 \in 0 .. Bought
  BY <1>1, <1>3
<1> QED BY <1>4 DEF Portion, x

LEMMA PressesTyped ==
  ASSUME PartialTypeOK, NEW o \in Presses
  PROVE  /\ partial[o] \in PartialTask
         /\ IdlePress \in PartialTask
         /\ NextPartialTry(o) \in PartialTask
<1>1. MaxRetries \in Nat /\ MaxRetries > 0
  BY AutoSellAssumption
<1>2. partial[o] \in PartialTask
  BY DEF PartialTypeOK
<1>3. IdlePress \in PartialTask
  <2>1. 0 \in 0 .. MaxRetries /\ 0 \in 0 .. Bought /\ 0 \in Percents \cup {0}
    BY AutoSellAssumption
  <2> QED BY <2>1 DEF IdlePress, PartialTask
<1>4. NextPartialTry(o) \in PartialTask
  <2>1. CASE partial[o].try < MaxRetries
    <3>1. partial[o].try + 1 \in 0 .. MaxRetries
      BY <1>1, <1>2, <2>1 DEF PartialTask
    <3> QED BY <1>2, <2>1, <3>1 DEF NextPartialTry, PartialTask
  <2>2. CASE ~(partial[o].try < MaxRetries)
    BY <1>3, <2>2 DEF NextPartialTry
  <2> QED BY <2>1, <2>2
<1> QED BY <1>2, <1>3, <1>4

LEMMA PartialTypeStep ==
  ASSUME PartialTypeOK, [OperatorNext]_allVars
  PROVE  PartialTypeOK'
<1> USE AutoSellAssumption
<1>1. CASE Next /\ UNCHANGED partial
  BY <1>1, TypeStep DEF PartialTypeOK
<1>2. ASSUME NEW o \in Presses, NEW percent \in Percents, Press(o, percent)
      PROVE  PartialTypeOK'
  <2>1. TypeOK' BY <1>2, TypeStep DEF Press, PartialTypeOK
  <2>2. partial[o] \in PartialTask BY PressesTyped
  <2>3. [partial[o] EXCEPT !.pc = "reading", !.percent = percent]
          \in PartialTask
    BY <2>2 DEF PartialTask
  <2> QED BY <1>2, <2>1, <2>3 DEF Press, PartialTypeOK
<1>3. ASSUME NEW o \in Presses, ReadPartial(o) PROVE PartialTypeOK'
  <2>1. TypeOK' BY <1>3, TypeStep DEF ReadPartial, PartialTypeOK
  <2>2. partial[o] \in PartialTask /\ IdlePress \in PartialTask
    BY PressesTyped
  <2>3. PICK b \in ReadableBalances :
          LET a == Portion(b, partial[o].percent)
          IN  partial' = [partial EXCEPT ![o] =
                            IF a = 0 THEN IdlePress
                            ELSE [@ EXCEPT !.pc = "trying", !.amount = a,
                                           !.try = 1]]
    BY <1>3 DEF ReadPartial
  <2>4. b \in 0 .. Bought BY BalancesTyped DEF PartialTypeOK
  <2> DEFINE a == Portion(b, partial[o].percent)
  <2>5. a \in 0 .. Bought
    <3>1. CASE partial[o].percent \in Percents
      BY <2>4, <3>1, PortionTyped
    <3>2. CASE partial[o].percent = 0
      <4>1. (b * 0) \div 100 = 0 BY <2>4
      <4> QED BY <3>2, <4>1 DEF Portion
    <3> QED BY <2>2, <3>1, <3>2 DEF PartialTask
  <2> HIDE DEF a
  <2>6. [partial[o] EXCEPT !.pc = "trying", !.amount = a, !.try = 1]
          \in PartialTask
    <3>1. 1 \in 0 .. MaxRetries OBVIOUS
    <3> QED BY <2>2, <2>5, <3>1 DEF PartialTask
  <2>7. partial' \in [Presses -> PartialTask]
    BY <2>2, <2>3, <2>6 DEF a, PartialTypeOK
  <2> QED BY <2>1, <2>7 DEF PartialTypeOK
<1>4. ASSUME NEW o \in Presses, TryPartial(o) PROVE PartialTypeOK'
  <2>1. partial[o] \in PartialTask /\ NextPartialTry(o) \in PartialTask
    BY PressesTyped
  <2>2. [partial[o] EXCEPT !.pc = "waiting", !.tx = "pending"] \in PartialTask
    BY <2>1 DEF PartialTask
  <2>3. partial' \in [Presses -> PartialTask]
    BY <1>4, <2>1, <2>2 DEF TryPartial, PartialTypeOK
  <2>4. late' \in [1 .. Bought -> 0 .. MaxLate]
    BY <1>4, LateTyped DEF TryPartial, PartialTypeOK, TypeOK
  <2> QED BY <1>4, <2>3, <2>4 DEF TryPartial, PartialTypeOK, TypeOK, ataVars
<1>5. ASSUME NEW o \in Presses, PartialSettles(o) PROVE PartialTypeOK'
  <2>1. partial[o] \in PartialTask BY PressesTyped
  <2>2. /\ [partial[o] EXCEPT !.tx = "landed"] \in PartialTask
        /\ [partial[o] EXCEPT !.tx = "failed"] \in PartialTask
    BY <2>1 DEF PartialTask
  <2>3. partial' \in [Presses -> PartialTask]
    BY <1>5, <2>2 DEF PartialSettles, PartialTypeOK
  <2>4. partial[o].amount \in 0 .. Bought /\ balance \in 0 .. Bought
    BY <2>1 DEF PartialTask, PartialTypeOK, TypeOK
  <2>5. balance' \in 0 .. Bought
    BY <1>5, <2>4 DEF PartialSettles
  <2> QED BY <1>5, <2>3, <2>5 DEF PartialSettles, PartialTypeOK, TypeOK, ataVars
<1>6. ASSUME NEW o \in Presses, PartialConfirmed(o) PROVE PartialTypeOK'
  <2>1. TypeOK' BY <1>6, TypeStep DEF PartialConfirmed, PartialTypeOK
  <2>2. partial[o] \in PartialTask BY PressesTyped
  <2>3. [partial[o] EXCEPT !.pc = "sold"] \in PartialTask
    BY <2>2 DEF PartialTask
  <2> QED BY <1>6, <2>1, <2>3 DEF PartialConfirmed, PartialTypeOK
<1>7. ASSUME NEW o \in Presses, PartialUnconfirmed(o) PROVE PartialTypeOK'
  <2>1. NextPartialTry(o) \in PartialTask
    BY PressesTyped
  <2>2. partial' \in [Presses -> PartialTask]
    BY <1>7, <2>1 DEF PartialUnconfirmed, PartialTypeOK
  <2>3. late' \in [1 .. Bought -> 0 .. MaxLate]
    BY <1>7, LateTyped DEF PartialUnconfirmed, PartialTypeOK, TypeOK
  <2> QED BY <1>7, <2>2, <2>3
          DEF PartialUnconfirmed, PartialTypeOK, TypeOK, ataVars
<1>8. ASSUME NEW o \in Presses, FinishPartial(o) PROVE PartialTypeOK'
  <2>1. IdlePress \in PartialTask
    BY PressesTyped
  <2>2. partial' \in [Presses -> PartialTask]
    BY <1>8, <2>1 DEF FinishPartial, PartialTypeOK
  <2>3. pos' \in PositionOrNone
    BY <1>8, PositionTyped DEF FinishPartial, AfterPartial, PartialTypeOK, TypeOK
  <2>4. ataCache' \in 0 .. NotCached
    BY <1>8, BalancesTyped DEF FinishPartial, PartialTypeOK, TypeOK
  <2>5. tracked' \in BOOLEAN
    BY <1>8, Zenon DEF FinishPartial, PartialTypeOK, TypeOK
  <2> QED BY <1>8, <2>2, <2>3, <2>4, <2>5
          DEF FinishPartial, PartialTypeOK, TypeOK, chainVars
<1>9. CASE UNCHANGED allVars
  <2>1. UNCHANGED vars /\ UNCHANGED partial BY <1>9 DEF allVars
  <2> QED BY <2>1, TypeStep DEF PartialTypeOK
<1> QED BY <1>1, <1>2, <1>3, <1>4, <1>5, <1>6, <1>7, <1>8, <1>9
        DEF OperatorNext, PartialNext

\* The presses keep their types beside everything AutoSell has.
THEOREM PartialTypeCorrect == OperatorSpec => []PartialTypeOK
<1>1. PartialInit => PartialTypeOK
  <2> SUFFICES ASSUME PartialInit PROVE PartialTypeOK OBVIOUS
  <2>1. TypeOK BY TypeInit DEF PartialInit
  <2>2. IdlePress \in PartialTask
    <3>1. 0 \in 0 .. MaxRetries /\ 0 \in 0 .. Bought /\ 0 \in Percents \cup {0}
      BY AutoSellAssumption
    <3> QED BY <3>1 DEF IdlePress, PartialTask
  <2> QED BY <2>1, <2>2 DEF PartialInit, PartialTypeOK
<1> QED BY <1>1, PartialTypeStep, PTL DEF OperatorSpec
-----------------------------------------------------------------------------
(* Who sells the position.                                                 *)

\* SellExclusive, but for a position closed under the task that sells it.
Shared ==
  /\ \A t, u \in Owners : t = u
  /\ pos.state = "Selling" => Owners # {}
  /\ Owners # {} => pos.state \in {"Selling", "Failed", "Absent", "Closed"}

\* Nothing opens a closed position again, and nobody takes it: the task that
\* holds it can only let go of it.
LEMMA ClosedStays ==
  ASSUME TypeOK, Lifecycle, pos.state = "Closed", [Next]_vars
  PROVE  /\ pos'.state \in {"Closed", "Failed", "Absent"}
         /\ Owners' = Owners \/ \E t \in SellTasks : LetsGo(t)
<1> DEFINE Dead == pos'.state \in {"Closed", "Failed", "Absent"}
<1>1. /\ MarkActive(pos) = pos /\ MarkSelling(pos) = pos
      /\ MarkClosed(pos) = pos /\ RevertToActive(pos) = pos
      /\ MarkFailed(pos).state \in {"Closed", "Failed", "Absent"}
      /\ ~Sellable(pos) /\ ~Unconfirmed(pos)
  BY DEF TypeOK, PositionOrNone, MarkActive, MarkSelling, MarkClosed,
         RevertToActive, MarkFailed, Sellable, Unconfirmed
<1>2. NoPosition.state = "Absent"
  BY DEF NoPosition
<1>3. ASSUME UNCHANGED task PROVE Owners' = Owners
  BY <1>3 DEF Owners
<1>4. CASE Buying
  BY <1>3, <1>4 DEF Buying, TrackMint, FireBuy, OpenPosition, Lifecycle
<1>5. CASE Chain
  <2>1. CASE \E t \in SellTasks : SellSettles(t)
    <3>1. PICK t \in SellTasks : SellSettles(t) BY <2>1
    <3>2. Owners' = Owners BY <3>1, OwnersKept DEF KeepsOwners
    <3> QED BY <3>1, <3>2 DEF SellSettles
  <2> QED BY <1>3, <1>5, <2>1 DEF Chain, BuyLands, BuyFails, LateSellLands, Tick
<1>6. CASE Monitoring
  BY <1>1, <1>2, <1>3, <1>6
  DEF Monitoring, AtaUpdate, AtaEvent, FallbackCheck, FallbackRead,
      FallbackApply, FallbackPurge
<1>7. CASE ConfirmerStep
  BY <1>1, <1>3, <1>7
  DEF ConfirmerStep, ConfirmerStatus, ConfirmerCredit, ConfirmerSucceeds,
      ConfirmSuccess, ConfirmerExpires
<1>8. CASE Signalling
  <2>1. PICK t \in SellTasks : Signal(t)
    BY <1>8 DEF Signalling, GrpcSignal, FallbackPriceSignal,
                FallbackLifetimeSignal, ManualSignal, FollowSignal
  <2>2. Owners' = Owners BY <2>1, OwnersKept DEF KeepsOwners
  <2> QED BY <2>1, <2>2 DEF Signal
<1>9. ASSUME NEW t \in SellTasks, SellStep(t)
      PROVE  Dead /\ (Owners' = Owners \/ \E u \in SellTasks : LetsGo(u))
  <2>1. Dead
    BY <1>1, <1>9
    DEF SellStep, CheckAttempts, GiveUp, BeginSelling, ReadBalance, FailZero,
        TrySell, SellConfirmed, SellUnconfirmed, CloseSold, ReadRemaining,
        Revert, AfterFailedSale, FailEmpty
  <2>2. CASE BeginSelling(t) BY <1>1, <2>1, <2>2, OwnerTakes
  <2>3. CASE KeepsOwners(t) BY <2>1, <2>3, OwnersKept
  <2>4. CASE LetsGo(t) BY <2>1, <2>4
  <2>5. BeginSelling(t) \/ KeepsOwners(t) \/ LetsGo(t)
    BY <1>9 DEF SellStep, KeepsOwners, LetsGo
  <2> QED BY <2>1, <2>2, <2>3, <2>4, <2>5
<1>10. CASE UNCHANGED vars
  BY <1>3, <1>10 DEF vars
<1> QED BY <1>4, <1>5, <1>6, <1>7, <1>8, <1>9, <1>10 DEF Next

LEMMA ConfirmerStays ==
  ASSUME confirmer # "none", [Next]_vars
  PROVE  confirmer' # "none"
<1>1. CASE Buying
  BY <1>1 DEF Buying, TrackMint, FireBuy, OpenPosition
<1>2. CASE Chain
  BY <1>2 DEF Chain, BuyLands, BuyFails, SellSettles, LateSellLands, Tick
<1>3. CASE Monitoring
  BY <1>3 DEF Monitoring, AtaUpdate, AtaEvent, FallbackCheck, FallbackRead,
              FallbackApply, FallbackPurge
<1>4. CASE ConfirmerStep
  BY <1>4 DEF ConfirmerStep, ConfirmerStatus, ConfirmerCredit,
              ConfirmerSucceeds, ConfirmerExpires
<1>5. CASE Signalling
  BY <1>5 DEF Signalling, GrpcSignal, FallbackPriceSignal,
              FallbackLifetimeSignal, ManualSignal, FollowSignal, Signal
<1>6. CASE \E t \in SellTasks : SellStep(t)
  BY <1>6 DEF SellStep, CheckAttempts, GiveUp, BeginSelling, ReadBalance,
              FailZero, TrySell, SellConfirmed, SellUnconfirmed, CloseSold,
              ReadRemaining, Revert, FailEmpty
<1>7. CASE UNCHANGED vars
  BY <1>7 DEF vars
<1> QED BY <1>1, <1>2, <1>3, <1>4, <1>5, <1>6, <1>7 DEF Next

\* A step of the tasks without buttons.
LEMMA SharedAlone ==
  ASSUME TypeOK, Shared, Lifecycle, [Next]_vars
  PROVE  Shared' /\ Lifecycle'
<1>1. CASE pos.state = "Closed" /\ Owners # {}
  <2>1. pos'.state \in {"Closed", "Failed", "Absent"}
    BY <1>1, ClosedStays
  <2>2. confirmer' # "none"
    <3>1. confirmer # "none" BY <1>1 DEF Lifecycle
    <3> QED BY <3>1, ConfirmerStays
  <2>3. Owners' \subseteq Owners
    <3>1. ASSUME NEW t \in SellTasks, LetsGo(t)
          PROVE  Owners' \subseteq Owners
      BY <3>1, OwnerLetsGo
    <3> QED BY <1>1, <3>1, ClosedStays
  <2> QED BY <2>1, <2>2, <2>3 DEF Shared, Lifecycle
<1>2. CASE ~(pos.state = "Closed" /\ Owners # {})
  <2>1. SellExclusive BY <1>2 DEF Shared, SellExclusive
  <2>2. SellExclusive' /\ Lifecycle' BY <2>1, ExclusiveStep
  <2> QED BY <2>2 DEF Shared, SellExclusive
<1> QED BY <1>1, <1>2

\* A press leaves the tasks alone, and the position but for closing it.
LEMMA PressTouches ==
  ASSUME PartialNext
  PROVE  /\ UNCHANGED <<held, buyTx, ataEvents, confirmer, fallback, task>>
         /\ pos' \in {pos, MarkClosed(pos)}
  BY DEF PartialNext, Press, ReadPartial, TryPartial, PartialSettles,
         PartialConfirmed, PartialUnconfirmed, FinishPartial, AfterPartial,
         vars, chainVars, ataVars

LEMMA SharedStep ==
  ASSUME PartialTypeOK, Shared, Lifecycle, [OperatorNext]_allVars
  PROVE  Shared' /\ Lifecycle'
<1>1. CASE [Next]_vars
  BY <1>1, SharedAlone DEF PartialTypeOK
<1>2. CASE PartialNext
  <2>1. Owners' = Owners /\ UNCHANGED confirmer /\ pos' \in {pos, MarkClosed(pos)}
    BY <1>2, PressTouches DEF Owners
  <2>2. pos' = pos \/ (pos.state = "Selling" /\ pos'.state = "Closed")
    BY <2>1 DEF MarkClosed, PartialTypeOK, TypeOK, PositionOrNone
  <2> QED BY <2>1, <2>2 DEF Shared, Lifecycle
<1> QED BY <1>1, <1>2 DEF OperatorNext, allVars

\* With any number of presses beside any number of signals, a position that a
\* task is selling is not put on sale again.
THEOREM NotResold == OperatorSpec => []NotResoldMeanwhile
<1>1. PartialInit => Shared /\ Lifecycle
  BY DEF PartialInit, Init, Shared, Lifecycle, Owners, OwnerPoints, NoPosition,
         IdleTask
<1>2. Shared => NotResoldMeanwhile
  BY DEF Shared, NotResoldMeanwhile, Sellable
<1> QED BY <1>1, <1>2, PartialTypeCorrect, SharedStep, PTL DEF OperatorSpec
-----------------------------------------------------------------------------
(* What a press knows of the balance.                                      *)

\* A full sale sells no less than what is there, so it leaves nothing.
PressEvidence(o) ==
  /\ partial[o].tx # "none" => partial[o].pc \in {"waiting", "sold"}
  /\ FullSale(partial[o].percent) =>
       /\ partial[o].pc \in {"trying", "waiting", "sold"}
            => buyTx = "landed" /\ partial[o].amount >= balance
       /\ partial[o].tx = "landed" \/ partial[o].pc = "sold" => balance = 0

AllEvidence == Evidence /\ \A o \in Presses : PressEvidence(o)

\* Once bought, the tokens only become fewer.
LEMMA BalanceFalls ==
  ASSUME TypeOK, buyTx = "landed", [Next]_vars
  PROVE  buyTx' = "landed" /\ balance' <= balance /\ balance' \in Nat
<1>0. balance \in Nat
  BY AutoSellAssumption DEF TypeOK
<1>1. CASE Buying
  BY <1>0, <1>1 DEF Buying, TrackMint, FireBuy, OpenPosition, chainVars
<1>2. CASE Chain
  <2>1. ASSUME NEW t \in SellTasks, SellSettles(t)
        PROVE  buyTx' = "landed" /\ balance' <= balance /\ balance' \in Nat
    <3>1. task[t] \in SellTask BY TasksTyped
    <3>2. task[t].amount \in Nat BY <3>1, AutoSellAssumption DEF SellTask
    <3> QED BY <1>0, <2>1, <3>2 DEF SellSettles
  <2> QED BY <1>0, <1>2, <2>1
          DEF Chain, BuyLands, BuyFails, LateSellLands, Tick, chainVars
<1>3. CASE Monitoring
  BY <1>0, <1>3 DEF Monitoring, AtaUpdate, AtaEvent, FallbackCheck,
                    FallbackRead, FallbackApply, FallbackPurge, chainVars
<1>4. CASE ConfirmerStep
  BY <1>0, <1>4 DEF ConfirmerStep, ConfirmerStatus, ConfirmerCredit,
                    ConfirmerSucceeds, ConfirmerExpires, chainVars
<1>5. CASE Signalling
  BY <1>0, <1>5 DEF Signalling, GrpcSignal, FallbackPriceSignal,
                    FallbackLifetimeSignal, ManualSignal, FollowSignal, Signal,
                    chainVars
<1>6. CASE \E t \in SellTasks : SellStep(t)
  <2>1. UNCHANGED <<buyTx, balance>>
    BY <1>6, Zenon
    DEF SellStep, CheckAttempts, GiveUp, BeginSelling, ReadBalance, FailZero,
        TrySell, SellConfirmed, SellUnconfirmed, CloseSold, ReadRemaining,
        Revert, FailEmpty, chainVars
  <2> QED BY <1>0, <2>1
<1>7. CASE UNCHANGED vars
  BY <1>0, <1>7 DEF vars, chainVars
<1> QED BY <1>1, <1>2, <1>3, <1>4, <1>5, <1>6, <1>7 DEF Next

\* Fewer tokens are no less evidence for anybody.
LEMMA PressKeeps ==
  ASSUME NEW o \in Presses, PressEvidence(o), PartialTypeOK,
         UNCHANGED partial[o],
         balance \in Nat, balance' \in Nat,
         buyTx = "landed" => buyTx' = "landed" /\ balance' <= balance
  PROVE  PressEvidence(o)'
<1>1. partial[o] \in PartialTask BY PressesTyped
<1>2. partial[o].amount \in Nat BY <1>1, AutoSellAssumption DEF PartialTask
<1>3. partial[o].tx = "landed" /\ FullSale(partial[o].percent)
        => partial[o].pc \in {"waiting", "sold"} /\ buyTx = "landed"
  BY DEF PressEvidence
<1> QED BY <1>2, <1>3 DEF PressEvidence, FullSale
\* The next try knows what the last one knew.
LEMMA TriesAgain ==
  ASSUME NEW o \in Presses, PressEvidence(o), PartialTypeOK,
         partial[o].pc \in {"trying", "waiting"},
         partial'[o] = NextPartialTry(o), UNCHANGED <<buyTx, balance>>
  PROVE  PressEvidence(o)'
<1>1. partial[o] \in PartialTask BY PressesTyped
<1>2. CASE partial[o].try < MaxRetries
  <2>1. /\ partial'[o].pc = "trying" /\ partial'[o].tx = "none"
        /\ partial'[o].percent = partial[o].percent
        /\ partial'[o].amount = partial[o].amount
    BY <1>1, <1>2 DEF NextPartialTry, PartialTask
  <2> QED BY <2>1 DEF PressEvidence
<1>3. CASE ~(partial[o].try < MaxRetries)
  BY <1>3 DEF NextPartialTry, PressEvidence, IdlePress, FullSale
<1> QED BY <1>2, <1>3

\* The steps of a press: its own evidence, and everybody else's.
LEMMA PressStep ==
  ASSUME PartialTypeOK, AllEvidence, PartialNext
  PROVE  AllEvidence'
<1> USE AutoSellAssumption
<1>0. /\ balance \in Nat /\ balance \in 0 .. Bought
      /\ ataCache \in Nat /\ NotCached \in Nat
  BY DEF PartialTypeOK, TypeOK, NotCached
\* What is left to show of a step that leaves the caches and the position.
<1>a. ASSUME UNCHANGED <<pos, buyTx, ataVars, confirmer, fallback, task>>,
             balance' \in Nat, balance' <= balance
      PROVE  Evidence'
  <2>1. UNCHANGED <<ataCache, ataEvents>> BY <1>a DEF ataVars
  <2>2. \A t \in SellTasks : TaskEvidence(t)'
    <3> SUFFICES ASSUME NEW t \in SellTasks PROVE TaskEvidence(t)'
      OBVIOUS
    <3>1. task[t] \in SellTask BY TasksTyped DEF PartialTypeOK
    <3>2. task[t].amount \in Nat BY <3>1 DEF SellTask
    <3>3. TaskEvidence(t) BY DEF AllEvidence, Evidence
    <3> QED BY <1>0, <1>a, <3>2, <3>3 DEF TaskEvidence
  <2>3. ActiveMeansBought' /\ ClosedMeansSold'
    BY <1>0, <1>a DEF AllEvidence, Evidence, ActiveMeansBought, ClosedMeansSold
  <2> QED BY <1>0, <1>a, <2>1, <2>2, <2>3 DEF AllEvidence, Evidence
\* The presses another one leaves alone.
<1>b. ASSUME NEW o \in Presses, NEW u \in Presses, u # o,
             UNCHANGED <<partial[u], buyTx>>,
             balance' \in Nat, balance' <= balance
      PROVE  PressEvidence(u)'
  BY <1>0, <1>b, PressKeeps DEF AllEvidence
<1>1. ASSUME NEW o \in Presses, NEW percent \in Percents, Press(o, percent)
      PROVE  AllEvidence'
  <2>1. UNCHANGED <<pos, buyTx, balance, ataVars, confirmer, fallback, task>>
    BY <1>1 DEF Press, vars, chainVars
  <2>2. \A u \in Presses \ {o} : partial'[u] = partial[u]
    BY <1>1 DEF Press, PartialTypeOK
  <2>3. PressEvidence(o)'
    <3>1. /\ partial'[o].pc = "reading" /\ partial'[o].tx = partial[o].tx
          /\ partial[o].pc = "idle"
      BY <1>1, PressesTyped DEF Press, PartialTypeOK, PartialTask
    <3> QED BY <3>1 DEF AllEvidence, PressEvidence
  <2> QED BY <1>0, <1>a, <1>b, <2>1, <2>2, <2>3 DEF AllEvidence
<1>2. ASSUME NEW o \in Presses, ReadPartial(o) PROVE AllEvidence'
  <2>1. UNCHANGED <<pos, buyTx, balance, ataVars, confirmer, fallback, task>>
    BY <1>2 DEF ReadPartial, vars, chainVars
  <2>2. \A u \in Presses \ {o} : partial'[u] = partial[u]
    BY <1>2 DEF ReadPartial, PartialTypeOK
  <2>3. PICK b \in ReadableBalances :
          LET a == Portion(b, partial[o].percent)
          IN  partial' = [partial EXCEPT ![o] =
                            IF a = 0 THEN IdlePress
                            ELSE [@ EXCEPT !.pc = "trying", !.amount = a,
                                           !.try = 1]]
    BY <1>2 DEF ReadPartial
  <2>4. b \in Nat /\ (b >= balance \/ b = 0)
    BY <1>0 DEF ReadableBalances, RpcBalances, AllEvidence, Evidence
  <2>5. b > 0 => buyTx = "landed"
    BY <1>0 DEF ReadableBalances, RpcBalances, AllEvidence, Evidence
  <2> DEFINE a == Portion(b, partial[o].percent)
  <2>6. PressEvidence(o)'
    <3>1. CASE a = 0
      <4>1. partial'[o] = IdlePress BY <2>3, <3>1 DEF PartialTypeOK
      <4> QED BY <4>1 DEF PressEvidence, IdlePress, FullSale
    <3>2. CASE a # 0
      <4>1. partial[o] \in PartialTask /\ partial[o].tx = "none"
        BY <1>2, PressesTyped DEF ReadPartial, AllEvidence, PressEvidence
      <4>2. partial'[o] = [partial[o] EXCEPT !.pc = "trying", !.amount = a,
                                             !.try = 1]
        BY <2>3, <3>2 DEF PartialTypeOK
      <4> HIDE DEF a
      <4>3. /\ partial'[o].pc = "trying" /\ partial'[o].tx = "none"
            /\ partial'[o].amount = a
            /\ partial'[o].percent = partial[o].percent
        BY <4>1, <4>2 DEF PartialTask
      <4>4. FullSale(partial[o].percent) => a = b
        BY DEF a, FullSale, Portion
      <4>5. FullSale(partial[o].percent) => b > 0 /\ b >= balance
        BY <1>0, <2>4, <3>2, <4>4
      <4> QED BY <2>1, <2>5, <4>3, <4>4, <4>5 DEF PressEvidence
    <3> QED BY <3>1, <3>2
  <2> QED BY <1>0, <1>a, <1>b, <2>1, <2>2, <2>6 DEF AllEvidence
<1>3. ASSUME NEW o \in Presses, TryPartial(o) PROVE AllEvidence'
  <2>1. UNCHANGED <<pos, buyTx, balance, ataVars, confirmer, fallback, task>>
    BY <1>3 DEF TryPartial
  <2>2. \A u \in Presses \ {o} : partial'[u] = partial[u]
    BY <1>3 DEF TryPartial, PartialTypeOK
  <2>3. PressEvidence(o)'
    <3>1. /\ partial[o] \in PartialTask /\ NextPartialTry(o) \in PartialTask
          /\ PressEvidence(o) /\ partial[o].pc = "trying"
      BY <1>3, PressesTyped DEF TryPartial, AllEvidence
    <3>2. CASE partial' = [partial EXCEPT ![o].pc = "waiting",
                                         ![o].tx = "pending"]
      <4>1. /\ partial'[o].pc = "waiting" /\ partial'[o].tx = "pending"
            /\ partial'[o].percent = partial[o].percent
            /\ partial'[o].amount = partial[o].amount
        BY <3>1, <3>2 DEF PartialTypeOK, PartialTask
      <4> QED BY <2>1, <3>1, <4>1 DEF PressEvidence
    <3>3. CASE partial' = [partial EXCEPT ![o] = NextPartialTry(o)]
      <4>1. partial'[o] = NextPartialTry(o) BY <3>3 DEF PartialTypeOK
      <4> QED BY <2>1, <3>1, <4>1, TriesAgain
    <3> QED BY <1>3, <3>2, <3>3 DEF TryPartial
  <2> QED BY <1>0, <1>a, <1>b, <2>1, <2>2, <2>3 DEF AllEvidence
<1>4. ASSUME NEW o \in Presses, PartialSettles(o) PROVE AllEvidence'
  <2>1. UNCHANGED <<pos, buyTx, ataVars, confirmer, fallback, task>>
    BY <1>4 DEF PartialSettles
  <2>2. \A u \in Presses \ {o} : partial'[u] = partial[u]
    BY <1>4 DEF PartialSettles, PartialTypeOK
  <2>3. /\ partial[o] \in PartialTask /\ partial[o].amount \in Nat
        /\ PressEvidence(o) /\ partial[o].tx = "pending"
    BY <1>4, PressesTyped DEF PartialSettles, AllEvidence, PartialTask
  <2>4. balance' \in Nat /\ balance' <= balance
    BY <1>0, <1>4, <2>3 DEF PartialSettles
  <2>5. PressEvidence(o)'
    <3>1. CASE /\ partial[o].amount <= balance
               /\ balance' = balance - partial[o].amount
               /\ partial' = [partial EXCEPT ![o].tx = "landed"]
      <4>1. partial'[o] = [partial[o] EXCEPT !.tx = "landed"]
        BY <3>1 DEF PartialTypeOK
      <4>2. /\ partial'[o].pc = partial[o].pc /\ partial'[o].tx = "landed"
            /\ partial'[o].percent = partial[o].percent
            /\ partial'[o].amount = partial[o].amount
        BY <2>3, <4>1 DEF PartialTask
      <4>3. FullSale(partial[o].percent) =>
              buyTx = "landed" /\ partial[o].amount >= balance
        BY <2>3 DEF PressEvidence
      <4>4. FullSale(partial[o].percent) => balance' = 0
        BY <1>0, <2>3, <3>1, <4>3
      <4> QED BY <1>0, <2>1, <2>3, <2>4, <4>2, <4>3, <4>4 DEF PressEvidence
    <3>2. CASE /\ partial' = [partial EXCEPT ![o].tx = "failed"]
               /\ UNCHANGED balance
      <4>1. partial'[o] = [partial[o] EXCEPT !.tx = "failed"]
        BY <3>2 DEF PartialTypeOK
      <4>2. /\ partial'[o].pc = partial[o].pc /\ partial'[o].tx = "failed"
            /\ partial'[o].percent = partial[o].percent
            /\ partial'[o].amount = partial[o].amount
        BY <2>3, <4>1 DEF PartialTask
      <4> QED BY <2>1, <2>3, <3>2, <4>2 DEF PressEvidence
    <3> QED BY <1>4, <3>1, <3>2 DEF PartialSettles
  <2> QED BY <1>0, <1>a, <1>b, <2>1, <2>2, <2>4, <2>5 DEF AllEvidence
<1>5. ASSUME NEW o \in Presses, PartialConfirmed(o) PROVE AllEvidence'
  <2>1. UNCHANGED <<pos, buyTx, balance, ataVars, confirmer, fallback, task>>
    BY <1>5 DEF PartialConfirmed, vars, chainVars
  <2>2. \A u \in Presses \ {o} : partial'[u] = partial[u]
    BY <1>5 DEF PartialConfirmed, PartialTypeOK
  <2>3. PressEvidence(o)'
    <3>1. /\ partial[o] \in PartialTask /\ PressEvidence(o)
          /\ partial[o].pc = "waiting" /\ partial[o].tx = "landed"
      BY <1>5, PressesTyped DEF PartialConfirmed, SaleConfirmed, AllEvidence
    <3>2. partial'[o] = [partial[o] EXCEPT !.pc = "sold"]
      BY <1>5 DEF PartialConfirmed, PartialTypeOK
    <3>3. /\ partial'[o].pc = "sold" /\ partial'[o].tx = "landed"
          /\ partial'[o].percent = partial[o].percent
          /\ partial'[o].amount = partial[o].amount
      BY <3>1, <3>2 DEF PartialTask
    <3> QED BY <2>1, <3>1, <3>3 DEF PressEvidence
  <2> QED BY <1>0, <1>a, <1>b, <2>1, <2>2, <2>3 DEF AllEvidence
<1>6. ASSUME NEW o \in Presses, PartialUnconfirmed(o) PROVE AllEvidence'
  <2>1. UNCHANGED <<pos, buyTx, balance, ataVars, confirmer, fallback, task>>
    BY <1>6 DEF PartialUnconfirmed
  <2>2. \A u \in Presses \ {o} : partial'[u] = partial[u]
    BY <1>6 DEF PartialUnconfirmed, PartialTypeOK
  <2>3. PressEvidence(o)'
    <3>1. PressEvidence(o) /\ partial[o].pc = "waiting"
      BY <1>6 DEF PartialUnconfirmed, AllEvidence
    <3>2. partial'[o] = NextPartialTry(o)
      BY <1>6 DEF PartialUnconfirmed, PartialTypeOK
    <3> QED BY <2>1, <3>1, <3>2, TriesAgain
  <2> QED BY <1>0, <1>a, <1>b, <2>1, <2>2, <2>3 DEF AllEvidence
<1>7. ASSUME NEW o \in Presses, FinishPartial(o) PROVE AllEvidence'
  <2>1. UNCHANGED <<held, buyTx, balance, ataEvents, confirmer, fallback, task>>
    BY <1>7 DEF FinishPartial, chainVars
  <2>2. \A u \in Presses \ {o} : partial'[u] = partial[u]
    BY <1>7 DEF FinishPartial, PartialTypeOK
  <2>3. PressEvidence(o)'
    <3>1. partial'[o] = IdlePress
      BY <1>7 DEF FinishPartial, PartialTypeOK
    <3> QED BY <3>1 DEF PressEvidence, IdlePress, FullSale
  <2>4. FullSale(partial[o].percent) => buyTx = "landed" /\ balance = 0
    BY <1>7 DEF FinishPartial, AllEvidence, PressEvidence
  <2>5. /\ pos' = pos \/ (FullSale(partial[o].percent) /\ pos' = MarkClosed(pos))
        /\ MarkClosed(pos).state = "Active" => pos.state = "Active"
    BY <1>7 DEF FinishPartial, AfterPartial, MarkClosed, PartialTypeOK, TypeOK,
                PositionOrNone
  <2>6. ActiveMeansBought' /\ ClosedMeansSold'
    BY <2>1, <2>4, <2>5
    DEF AllEvidence, Evidence, ActiveMeansBought, ClosedMeansSold
  <2>7. /\ ataCache' >= balance'
        /\ ataCache' # NotCached \/ ataEvents' # {} => buyTx' = "landed"
    BY <1>0, <1>7, <2>1, <2>4
    DEF FinishPartial, AllEvidence, Evidence, NotCached, PartialTypeOK, TypeOK
  <2>8. \A t \in SellTasks : TaskEvidence(t)'
    BY <2>1 DEF AllEvidence, Evidence, TaskEvidence
  <2>9. Evidence'
    BY <2>1, <2>6, <2>7, <2>8 DEF AllEvidence, Evidence
  <2> QED BY <1>0, <1>b, <2>1, <2>2, <2>3, <2>9 DEF AllEvidence
<1> QED BY <1>1, <1>2, <1>3, <1>4, <1>5, <1>6, <1>7 DEF PartialNext

LEMMA EvidenceBesideButtons ==
  ASSUME PartialTypeOK, AllEvidence, [OperatorNext]_allVars
  PROVE  AllEvidence'
<1>1. CASE [Next]_vars /\ UNCHANGED partial
  <2>1. Evidence' BY <1>1, EvidenceStep DEF AllEvidence, PartialTypeOK
  <2>2. TypeOK' BY <1>1, TypeStep DEF PartialTypeOK
  <2>3. balance \in Nat /\ balance' \in Nat
    BY <2>2, AutoSellAssumption DEF PartialTypeOK, TypeOK
  <2>4. buyTx = "landed" => buyTx' = "landed" /\ balance' <= balance
    BY <1>1, BalanceFalls DEF PartialTypeOK
  <2>5. ASSUME NEW o \in Presses PROVE PressEvidence(o)'
    BY <1>1, <2>3, <2>4, PressKeeps DEF AllEvidence
  <2> QED BY <2>1, <2>5 DEF AllEvidence
<1>2. CASE PartialNext
  BY <1>2, PressStep
<1> QED BY <1>1, <1>2 DEF OperatorNext, allVars

\* With the buttons in play, too, a position is closed only when the wallet
\* has no token left.
THEOREM ClosedIsSoldByButtonToo == OperatorSpec => []ClosedMeansSold
<1>1. PartialInit => AllEvidence
  BY AutoSellAssumption
  DEF PartialInit, Init, AllEvidence, Evidence, TaskEvidence, PressEvidence,
      ActiveMeansBought, ClosedMeansSold, NoPosition, IdleTask, IdlePress,
      NotCached, FullSale
<1>2. AllEvidence => ClosedMeansSold
  BY DEF AllEvidence, Evidence
<1> QED BY <1>1, <1>2, PartialTypeCorrect, EvidenceBesideButtons, PTL
        DEF OperatorSpec
-----------------------------------------------------------------------------
(* Refinement.                                                             *)

\* What the contract of the tasks allows, the one with the buttons does.
LEMMA ContractIsKept ==
  ASSUME [Contract!Next]_Contract!vars
  PROVE  [ButtonContract!SharedNext]_ButtonContract!vars
  BY DEF Contract!Next, Contract!vars, Contract!Open, Contract!Confirm,
         Contract!Take, Contract!Release, Contract!Close, Contract!Abandon,
         Contract!GiveUp, Contract!Drop, Contract!Buy, Contract!SellOut,
         ButtonContract!SharedNext, ButtonContract!Next, ButtonContract!vars,
         ButtonContract!Open, ButtonContract!Confirm, ButtonContract!Take,
         ButtonContract!Release, ButtonContract!Close, ButtonContract!Abandon,
         ButtonContract!GiveUp, ButtonContract!Drop, ButtonContract!Buy,
         ButtonContract!SellOut

\* A task whose position a button closed keeps the rest of the contract.
LEMMA ClosedUnderSeller ==
  ASSUME TypeOK, Shared, Lifecycle, Evidence,
         pos.state = "Closed", Owners # {}, [Next]_vars
  PROVE  [ButtonContract!SharedNext]_ButtonContract!vars
<1>1. Phase = "Closed" /\ Phase' \in {"Closed", "Failed", "Dropped"}
  <2>1. confirmer' # "none"
    BY ConfirmerStays DEF Lifecycle
  <2> QED BY <2>1, ClosedStays DEF Phase, Exists
<1>2. Tokens = "sold" /\ Tokens' = "sold"
  <2>1. buyTx = "landed" /\ balance = 0
    BY DEF Evidence, ClosedMeansSold
  <2>2. buyTx' = "landed" /\ balance' <= balance /\ balance' \in Nat
    BY <2>1, BalanceFalls
  <2> QED BY <2>1, <2>2 DEF Tokens
<1>3. CASE Owners' = Owners
  BY <1>1, <1>2, <1>3
  DEF ButtonContract!SharedNext, ButtonContract!Next, ButtonContract!GiveUp,
      ButtonContract!Drop, ButtonContract!vars
<1>4. ASSUME NEW t \in SellTasks, LetsGo(t)
      PROVE  ButtonContract!SharedNext
  <2>1. Owners = {t} /\ Owners' = {}
    BY <1>4, OwnerLetsGo DEF Shared
  <2>2. pos'.state \in {"Closed", "Failed"}
    BY <1>4
    DEF LetsGo, FailZero, CloseSold, Revert, FailEmpty, MarkFailed, MarkClosed,
        AfterFailedSale, RevertToActive, Exists, TypeOK, PositionOrNone
  <2>3. Phase' \in {"Closed", "Failed"}
    BY <2>2 DEF Phase, Exists
  <2> QED BY <1>1, <1>2, <2>1, <2>3
          DEF ButtonContract!SharedNext, ButtonContract!Next,
              ButtonContract!Abandon, ButtonContract!FailClosed
<1> QED BY <1>3, <1>4, ClosedStays

\* The press itself: a sale, or the end of a position whose tokens are gone.
LEMMA PressKeepsContract ==
  ASSUME PartialTypeOK, AllEvidence, PartialNext
  PROVE  [ButtonContract!SharedNext]_ButtonContract!vars
<1>1. UNCHANGED <<Owners, confirmer, buyTx>>
  BY PressTouches DEF Owners
<1>2. ASSUME UNCHANGED <<pos, balance>>
      PROVE  UNCHANGED ButtonContract!vars
  BY <1>1, <1>2 DEF ButtonContract!vars, Phase, Tokens
<1>3. ASSUME NEW o \in Presses, PartialSettles(o)
      PROVE  [ButtonContract!SharedNext]_ButtonContract!vars
  <2>1. /\ balance \in Nat /\ balance' \in Nat /\ balance' <= balance
    <3>1. partial[o] \in PartialTask BY PressesTyped
    <3>2. partial[o].amount \in Nat /\ balance \in Nat
      BY <3>1, AutoSellAssumption DEF PartialTask, PartialTypeOK, TypeOK
    <3> QED BY <1>3, <3>2 DEF PartialSettles
  <2>2. Tokens' = Tokens \/ (Tokens = "held" /\ Tokens' = "sold")
    BY <1>1, <2>1 DEF Tokens
  <2>3. Phase' = Phase
    BY <1>3 DEF PartialSettles, Phase
  <2> QED BY <1>1, <2>2, <2>3
          DEF ButtonContract!SharedNext, ButtonContract!Next,
              ButtonContract!SellOut, ButtonContract!vars
<1>4. ASSUME NEW o \in Presses, FinishPartial(o)
      PROVE  [ButtonContract!SharedNext]_ButtonContract!vars
  <2>1. UNCHANGED balance
    BY <1>4 DEF FinishPartial, chainVars
  <2>2. CASE pos' = pos
    BY <1>2, <2>1, <2>2
  <2>3. CASE pos' # pos
    <3>1. FullSale(partial[o].percent) /\ pos' = MarkClosed(pos)
      BY <1>4, <2>3 DEF FinishPartial, AfterPartial
    <3>2. Phase = "Selling" /\ Phase' = "Closed"
      BY <2>3, <3>1
      DEF MarkClosed, Phase, Exists, PartialTypeOK, TypeOK, PositionOrNone
    <3>3. Tokens = "sold" /\ Tokens' = Tokens
      <4>1. buyTx = "landed" /\ balance = 0
        BY <1>4, <3>1 DEF FinishPartial, AllEvidence, PressEvidence
      <4> QED BY <1>1, <2>1, <4>1 DEF Tokens
    <3> QED BY <1>1, <3>2, <3>3
            DEF ButtonContract!SharedNext, ButtonContract!CloseByButton
  <2> QED BY <2>2, <2>3
<1>5. ASSUME NEW o \in Presses,
             \/ \E percent \in Percents : Press(o, percent)
             \/ ReadPartial(o)
             \/ TryPartial(o)
             \/ PartialConfirmed(o)
             \/ PartialUnconfirmed(o)
      PROVE  UNCHANGED <<pos, balance>>
  BY <1>5 DEF Press, ReadPartial, TryPartial, PartialConfirmed,
              PartialUnconfirmed, vars, chainVars
<1> QED BY <1>2, <1>3, <1>4, <1>5 DEF PartialNext

LEMMA ButtonContractStep ==
  ASSUME PartialTypeOK, Shared, Lifecycle, AllEvidence, AllEvidence',
         [OperatorNext]_allVars
  PROVE  [ButtonContract!SharedNext]_ButtonContract!vars
<1>1. CASE [Next]_vars /\ pos.state = "Closed" /\ Owners # {}
  BY <1>1, ClosedUnderSeller DEF AllEvidence, PartialTypeOK
<1>2. CASE [Next]_vars /\ ~(pos.state = "Closed" /\ Owners # {})
  <2>1. SellExclusive BY <1>2 DEF Shared, SellExclusive
  <2>2. [Contract!Next]_Contract!vars
    BY <1>2, <2>1, ContractStep DEF AllEvidence, PartialTypeOK
  <2> QED BY <2>2, ContractIsKept
<1>3. CASE PartialNext
  BY <1>3, PressKeepsContract
<1> QED BY <1>1, <1>2, <1>3 DEF OperatorNext, allVars

(* Tasks and buttons together implement the contract of a position that is *)
(* shared with buttons: whatever presses and signals meet, the position is *)
(* closed only without tokens, held by one seller at a time, and not       *)
(* revived.                                                                *)
THEOREM ImplementsButtonContract == OperatorSpec => KeepsButtonContract
<1>1. PartialInit => Shared /\ Lifecycle /\ AllEvidence
  BY AutoSellAssumption
  DEF PartialInit, Init, Shared, Lifecycle, Owners, OwnerPoints, AllEvidence,
      Evidence, TaskEvidence, PressEvidence, ActiveMeansBought,
      ClosedMeansSold, NoPosition, IdleTask, IdlePress, NotCached, FullSale
<1>2. PartialInit => ButtonContract!Init
  BY DEF PartialInit, Init, ButtonContract!Init, Phase, Owners, OwnerPoints,
         Tokens, NoPosition, Exists, IdleTask
<1> QED BY <1>1, <1>2, PartialTypeCorrect, SharedStep, EvidenceBesideButtons,
           ButtonContractStep, PTL
        DEF OperatorSpec, KeepsButtonContract, ButtonContract!SharedSpec
=============================================================================
