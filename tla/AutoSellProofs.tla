-------------------------- MODULE AutoSellProofs --------------------------
(***************************************************************************)
(* Proofs about AutoSell, for every number of sell tasks, every limit of   *)
(* attempts and retries, and every choice of the timeouts.                 *)
(*                                                                         *)
(* The argument has three parts, each an inductive invariant of its own    *)
(* over TypeOK: who holds the position (SellExclusive, Lifecycle), what    *)
(* the tasks know about the buy and the balance (Evidence), and how many   *)
(* sales the tasks may still begin (AttemptsInv).  The first two give the  *)
(* refinement of PositionContract.                                         *)
(***************************************************************************)
EXTENDS AutoSell, FiniteSetTheorems, TLAPS

-----------------------------------------------------------------------------
(* Types.                                                                  *)

\* The transitions of position.rs map positions to positions.
LEMMA PositionTyped ==
  ASSUME NEW p \in PositionOrNone
  PROVE  /\ MarkSubmitted(p) \in PositionOrNone
         /\ MarkConfirming(p) \in PositionOrNone
         /\ MarkActive(p) \in PositionOrNone
         /\ MarkSelling(p) \in PositionOrNone
         /\ MarkClosed(p) \in PositionOrNone
         /\ MarkFailed(p) \in PositionOrNone
         /\ RevertToActive(p) \in PositionOrNone
  <1>1. \A s \in States : [p EXCEPT !.state = s] \in PositionOrNone
    BY DEF PositionOrNone
  <1>2. [p EXCEPT !.state = "Selling", !.attempts = p.attempts + 1]
          \in PositionOrNone
    <2>1. p.attempts + 1 \in Nat
      BY DEF PositionOrNone
    <2>2. [p EXCEPT !.state = "Selling"] \in PositionOrNone
      BY <1>1 DEF States
    <2> QED BY <2>1, <2>2 DEF PositionOrNone
  <1>3. /\ MarkSubmitted(p) \in PositionOrNone
        /\ MarkConfirming(p) \in PositionOrNone
    BY <1>1 DEF MarkSubmitted, MarkConfirming, States
  <1>4. /\ MarkActive(p) \in PositionOrNone
        /\ RevertToActive(p) \in PositionOrNone
    BY <1>1 DEF MarkActive, RevertToActive, States
  <1>5. MarkSelling(p) \in PositionOrNone
    BY <1>2 DEF MarkSelling
  <1>6. MarkClosed(p) \in PositionOrNone /\ MarkFailed(p) \in PositionOrNone
    BY <1>1 DEF MarkClosed, MarkFailed, States
  <1> QED BY <1>3, <1>4, <1>5, <1>6

\* The position main.rs inserts.
LEMMA OpenedPosition ==
  /\ MarkConfirming(MarkSubmitted(NewPosition))
       = [state |-> "Confirming", attempts |-> 0]
  /\ [state |-> "Confirming", attempts |-> 0] \in PositionOrNone
  /\ NoPosition \in PositionOrNone
  BY DEF MarkConfirming, MarkSubmitted, NewPosition, NoPosition,
         PositionOrNone, States

ControlPoints == {"received", "givingUp", "cleared", "reading", "sold",
                  "remains", "empty"}

\* A sell task moves on, tries again or ends as a sell task.
LEMMA TasksTyped ==
  ASSUME TypeOK, NEW t \in SellTasks
  PROVE  /\ task[t] \in SellTask
         /\ NextTry(t) \in SellTask
         /\ IdleTask \in SellTask
         /\ Finish(t) => task' \in [SellTasks -> SellTask]
         /\ \A pc \in ControlPoints :
              Goto(t, pc) => task' \in [SellTasks -> SellTask]
  <1>1. MaxRetries \in Nat /\ MaxRetries > 0
    BY AutoSellAssumption
  <1>2. task[t] \in SellTask
    BY DEF TypeOK
  <1>3. IdleTask \in SellTask
    <2>1. 0 \in 0 .. MaxRetries /\ 0 \in 0 .. Bought
      BY AutoSellAssumption
    <2> QED BY <2>1 DEF IdleTask, SellTask
  <1>4. NextTry(t) \in SellTask
    <2>1. CASE task[t].try < MaxRetries
      <3>1. task[t].try + 1 \in 0 .. MaxRetries
        BY <1>1, <1>2, <2>1 DEF SellTask
      <3> QED BY <1>2, <2>1, <3>1 DEF NextTry, SellTask
    <2>2. CASE ~(task[t].try < MaxRetries)
      BY <1>2, <2>2 DEF NextTry, SellTask
    <2> QED BY <2>1, <2>2
  <1>5. Finish(t) => task' \in [SellTasks -> SellTask]
    BY <1>3 DEF Finish, TypeOK
  <1>6. ASSUME NEW pc \in ControlPoints, Goto(t, pc)
        PROVE task' \in [SellTasks -> SellTask]
    <2>1. [task[t] EXCEPT !.pc = pc] \in SellTask
      BY <1>2, <1>6 DEF SellTask, ControlPoints
    <2> QED BY <2>1, <1>6 DEF Goto, TypeOK
  <1> QED BY <1>2, <1>3, <1>4, <1>5, <1>6

\* What the cache and the RPC answer is an amount.
LEMMA BalancesTyped ==
  ASSUME TypeOK
  PROVE  /\ balance \in 0 .. NotCached /\ NotCached \in 0 .. NotCached
         /\ RpcBalances \subseteq 0 .. Bought
         /\ ReadableBalances \subseteq 0 .. Bought
  BY AutoSellAssumption DEF TypeOK, NotCached, RpcBalances, ReadableBalances

LEMMA LateTyped ==
  ASSUME TypeOK, NEW a, Abandoned(a)
  PROVE  late' \in [1 .. Bought -> 0 .. MaxLate]
  <1>1. CASE UNCHANGED late
    BY <1>1 DEF TypeOK
  <1>2. CASE late[a] < MaxLate /\ late' = [late EXCEPT ![a] = @ + 1]
    <2>1. a \in 1 .. Bought => late[a] + 1 \in 0 .. MaxLate
      BY <1>2, AutoSellAssumption DEF TypeOK
    <2> QED BY <1>2, <2>1 DEF TypeOK
  <1> QED BY <1>1, <1>2 DEF Abandoned

LEMMA TypeInit ==
  ASSUME Init
  PROVE  TypeOK
  <1>1. IdleTask \in SellTask /\ 0 \in 0 .. Horizon /\ 0 \in 0 .. Bought
        /\ NotCached \in 0 .. NotCached /\ 0 \in 0 .. MaxLate
    <2>1. 0 \in 0 .. MaxRetries /\ 0 \in 0 .. Bought
      BY AutoSellAssumption
    <2> QED BY <2>1, AutoSellAssumption DEF IdleTask, SellTask, NotCached
  <1> QED BY <1>1, OpenedPosition DEF Init, TypeOK

LEMMA TypeStep ==
  ASSUME TypeOK, [Next]_vars
  PROVE  TypeOK'
  <1> USE AutoSellAssumption DEF chainVars, ataVars
  <1>1. ASSUME TrackMint PROVE TypeOK'
    BY <1>1 DEF TypeOK, TrackMint
  <1>2. ASSUME FireBuy PROVE TypeOK'
    BY <1>2 DEF TypeOK, FireBuy
  <1>3. ASSUME OpenPosition PROVE TypeOK'
    BY <1>3, OpenedPosition DEF TypeOK, OpenPosition
  <1>4. ASSUME BuyLands PROVE TypeOK'
    BY <1>4 DEF TypeOK, BuyLands
  <1>5. ASSUME BuyFails PROVE TypeOK'
    BY <1>5 DEF TypeOK, BuyFails
  <1>6. ASSUME NEW t \in SellTasks, SellSettles(t) PROVE TypeOK'
    <2>1. task[t] \in SellTask
      BY TasksTyped
    <2>2. /\ [task[t] EXCEPT !.tx = "landed"] \in SellTask
          /\ [task[t] EXCEPT !.tx = "failed"] \in SellTask
      BY <2>1 DEF SellTask
    <2>3. task' \in [SellTasks -> SellTask]
      BY <1>6, <2>2 DEF SellSettles, TypeOK
    <2>4. balance' \in 0 .. Bought
      BY <1>6, <2>1 DEF SellSettles, TypeOK, SellTask
    <2> QED BY <1>6, <2>3, <2>4 DEF SellSettles, TypeOK
  <1>7. ASSUME NEW a \in 1 .. Bought, LateSellLands(a) PROVE TypeOK'
    <2>1. late[a] - 1 \in 0 .. MaxLate /\ balance - a \in 0 .. Bought
      BY <1>7 DEF LateSellLands, TypeOK
    <2>2. late' \in [1 .. Bought -> 0 .. MaxLate]
      BY <1>7, <2>1 DEF LateSellLands, TypeOK
    <2> QED BY <1>7, <2>1, <2>2 DEF LateSellLands, TypeOK
  <1>8. ASSUME Tick PROVE TypeOK'
    BY <1>8 DEF TypeOK, Tick
  <1>9. ASSUME AtaUpdate PROVE TypeOK'
    BY <1>9, BalancesTyped DEF TypeOK, AtaUpdate
  <1>10. ASSUME NEW a \in 0 .. Bought, AtaEvent(a) PROVE TypeOK'
    BY <1>10, PositionTyped DEF TypeOK, AtaEvent
  <1>11. ASSUME ConfirmerStatus PROVE TypeOK'
    BY <1>11, PositionTyped DEF TypeOK, ConfirmerStatus
  <1>12. ASSUME ConfirmerCredit PROVE TypeOK'
    BY <1>12 DEF TypeOK, ConfirmerCredit
  <1>13. ASSUME ConfirmerSucceeds PROVE TypeOK'
    BY <1>13, PositionTyped DEF TypeOK, ConfirmerSucceeds, ConfirmSuccess
  <1>14. ASSUME ConfirmerExpires PROVE TypeOK'
    BY <1>14, PositionTyped DEF TypeOK, ConfirmerExpires
  <1>15. ASSUME FallbackCheck PROVE TypeOK'
    BY <1>15 DEF TypeOK, FallbackCheck
  <1>16. ASSUME FallbackRead PROVE TypeOK'
    BY <1>16 DEF TypeOK, FallbackRead
  <1>17. ASSUME FallbackApply PROVE TypeOK'
    BY <1>17, PositionTyped DEF TypeOK, FallbackApply
  <1>18. ASSUME FallbackPurge PROVE TypeOK'
    BY <1>18, OpenedPosition DEF TypeOK, FallbackPurge
  <1>19. ASSUME NEW t \in SellTasks, GrpcSignal(t) PROVE TypeOK'
    BY <1>19, TasksTyped DEF TypeOK, GrpcSignal, Signal, ControlPoints
  <1>20. ASSUME NEW t \in SellTasks, FallbackPriceSignal(t) PROVE TypeOK'
    BY <1>20, TasksTyped DEF TypeOK, FallbackPriceSignal, Signal, ControlPoints
  <1>21. ASSUME NEW t \in SellTasks, FallbackLifetimeSignal(t) PROVE TypeOK'
    BY <1>21, TasksTyped
    DEF TypeOK, FallbackLifetimeSignal, Signal, ControlPoints
  <1>22. ASSUME NEW t \in SellTasks, ManualSignal(t) PROVE TypeOK'
    BY <1>22, TasksTyped DEF TypeOK, ManualSignal, Signal, ControlPoints
  <1>23. ASSUME NEW t \in SellTasks, FollowSignal(t) PROVE TypeOK'
    BY <1>23, TasksTyped DEF TypeOK, FollowSignal, Signal, ControlPoints
  <1>24. ASSUME NEW t \in SellTasks, CheckAttempts(t) PROVE TypeOK'
    BY <1>24, TasksTyped DEF TypeOK, CheckAttempts, ControlPoints
  <1>25. ASSUME NEW t \in SellTasks, GiveUp(t) PROVE TypeOK'
    BY <1>25, PositionTyped, TasksTyped DEF TypeOK, GiveUp
  <1>26. ASSUME NEW t \in SellTasks, BeginSelling(t) PROVE TypeOK'
    BY <1>26, PositionTyped, TasksTyped DEF TypeOK, BeginSelling, ControlPoints
  <1>27. ASSUME NEW t \in SellTasks, ReadBalance(t) PROVE TypeOK'
    <2>1. PICK b \in 0 .. Bought :
            task' = [task EXCEPT
                       ![t].pc = IF b = 0 THEN "zero" ELSE "trying",
                       ![t].amount = b,
                       ![t].try = IF b = 0 THEN 0 ELSE 1]
      BY <1>27, BalancesTyped DEF ReadBalance
    <2>2. 0 \in 0 .. MaxRetries /\ 1 \in 0 .. MaxRetries
      OBVIOUS
    <2>3. task[t] \in SellTask
      BY TasksTyped
    <2>4. \A pc \in {"zero", "trying"}, n \in 0 .. MaxRetries :
            [task[t] EXCEPT !.pc = pc, !.amount = b, !.try = n] \in SellTask
      BY <2>3 DEF SellTask
    <2>5. task' \in [SellTasks -> SellTask]
      BY <2>1, <2>2, <2>4 DEF TypeOK
    <2> QED BY <1>27, <2>5 DEF ReadBalance, TypeOK
  <1>28. ASSUME NEW t \in SellTasks, FailZero(t) PROVE TypeOK'
    BY <1>28, PositionTyped, TasksTyped DEF TypeOK, FailZero
  <1>29. ASSUME NEW t \in SellTasks, TrySell(t) PROVE TypeOK'
    <2>1. task[t] \in SellTask /\ NextTry(t) \in SellTask
      BY TasksTyped
    <2>2. [task[t] EXCEPT !.pc = "waiting", !.tx = "pending"] \in SellTask
      BY <2>1 DEF SellTask
    <2>3. task' \in [SellTasks -> SellTask]
      BY <1>29, <2>1, <2>2 DEF TrySell, TypeOK
    <2>4. late' \in [1 .. Bought -> 0 .. MaxLate]
      BY <1>29, LateTyped DEF TrySell, TypeOK
    <2> QED BY <1>29, <2>3, <2>4 DEF TrySell, TypeOK
  <1>30. ASSUME NEW t \in SellTasks, SellConfirmed(t) PROVE TypeOK'
    BY <1>30, TasksTyped DEF TypeOK, SellConfirmed, ControlPoints
  <1>31. ASSUME NEW t \in SellTasks, SellUnconfirmed(t) PROVE TypeOK'
    <2>1. task' \in [SellTasks -> SellTask]
      BY <1>31, TasksTyped DEF SellUnconfirmed, TypeOK
    <2>2. late' \in [1 .. Bought -> 0 .. MaxLate]
      BY <1>31, LateTyped DEF SellUnconfirmed, TypeOK
    <2> QED BY <1>31, <2>1, <2>2 DEF SellUnconfirmed, TypeOK
  <1>32. ASSUME NEW t \in SellTasks, CloseSold(t) PROVE TypeOK'
    BY <1>32, PositionTyped, TasksTyped, BalancesTyped DEF TypeOK, CloseSold
  <1>33. ASSUME NEW t \in SellTasks, ReadRemaining(t) PROVE TypeOK'
    BY <1>33, TasksTyped DEF TypeOK, ReadRemaining, ControlPoints
  <1>34. ASSUME NEW t \in SellTasks, Revert(t) PROVE TypeOK'
    BY <1>34, PositionTyped, TasksTyped DEF TypeOK, Revert, AfterFailedSale
  <1>35. ASSUME NEW t \in SellTasks, FailEmpty(t) PROVE TypeOK'
    BY <1>35, PositionTyped, TasksTyped DEF TypeOK, FailEmpty
  <1>36. CASE UNCHANGED vars
    BY <1>36 DEF TypeOK, vars
  <1> QED BY <1>1, <1>2, <1>3, <1>4, <1>5, <1>6, <1>7, <1>8, <1>9, <1>10,
             <1>11, <1>12, <1>13, <1>14, <1>15, <1>16, <1>17, <1>18, <1>19,
             <1>20, <1>21, <1>22, <1>23, <1>24, <1>25, <1>26, <1>27, <1>28,
             <1>29, <1>30, <1>31, <1>32, <1>33, <1>34, <1>35, <1>36
               DEF Next, Buying, Chain, Monitoring, ConfirmerStep, Signalling,
                   SellStep

(* Every variable keeps its type.                                          *)
THEOREM TypeCorrect == Spec => []TypeOK
  BY TypeInit, TypeStep, PTL DEF Spec

-----------------------------------------------------------------------------
(* Who holds the position.                                                 *)

\* A step of one task changes the owners by that task at most.
LEMMA OwnersStep ==
  ASSUME NEW t \in SellTasks,
         \A u \in SellTasks \ {t} : task'[u].pc = task[u].pc
  PROVE  /\ task'[t].pc \in OwnerPoints => Owners' = Owners \cup {t}
         /\ task'[t].pc \notin OwnerPoints => Owners' = Owners \ {t}
  BY DEF Owners

\* The steps that neither take the position nor let go of it.
KeepsOwners(t) ==
  \/ SellSettles(t)
  \/ Signal(t)
  \/ CheckAttempts(t)
  \/ GiveUp(t)
  \/ ReadBalance(t)
  \/ TrySell(t)
  \/ SellConfirmed(t)
  \/ SellUnconfirmed(t)
  \/ ReadRemaining(t)

LetsGo(t) == FailZero(t) \/ CloseSold(t) \/ Revert(t) \/ FailEmpty(t)

LEMMA OwnersKept ==
  ASSUME TypeOK, NEW t \in SellTasks, KeepsOwners(t)
  PROVE  Owners' = Owners
<1>1. CASE SellSettles(t)
  <2>1. \A u \in SellTasks \ {t} : task'[u] = task[u]
    BY <1>1 DEF TypeOK, SellSettles
  <2>2. task[t].pc \in OwnerPoints <=> task'[t].pc \in OwnerPoints
    BY <1>1 DEF TypeOK, SellSettles, SellTask, OwnerPoints
  <2> QED BY <2>1, <2>2, OwnersStep DEF Owners
<1>2. CASE Signal(t)
  <2>1. \A u \in SellTasks \ {t} : task'[u] = task[u]
    BY <1>2 DEF TypeOK, Signal, Goto
  <2> QED BY <1>2, <2>1 DEF TypeOK, Signal, Owners, OwnerPoints, Goto
<1>3. CASE CheckAttempts(t)
  <2>1. \A u \in SellTasks \ {t} : task'[u] = task[u]
    BY <1>3 DEF TypeOK, CheckAttempts, Goto
  <2> QED BY <1>3, <2>1 DEF TypeOK, CheckAttempts, Owners, OwnerPoints, Goto
<1>4. CASE GiveUp(t)
  <2>1. \A u \in SellTasks \ {t} : task'[u] = task[u]
    BY <1>4 DEF TypeOK, GiveUp, Finish
  <2>2. task'[t].pc = "idle"
    BY <1>4 DEF TypeOK, GiveUp, Finish, IdleTask
  <2>3. task[t].pc = "givingUp"
    BY <1>4 DEF GiveUp
  <2> QED BY <2>1, <2>2, <2>3, OwnersStep DEF Owners, OwnerPoints
<1>5. CASE ReadBalance(t)
  <2>1. \A u \in SellTasks \ {t} : task'[u] = task[u]
    BY <1>5 DEF TypeOK, ReadBalance
  <2> QED BY <1>5, <2>1 DEF TypeOK, ReadBalance, Owners, OwnerPoints
<1>6. CASE TrySell(t)
  <2>1. \A u \in SellTasks \ {t} : task'[u] = task[u]
    BY <1>6 DEF TypeOK, TrySell
  <2>2. task[t].pc \in OwnerPoints <=> task'[t].pc \in OwnerPoints
    BY <1>6 DEF TypeOK, TrySell, NextTry, SellTask, OwnerPoints
  <2> QED BY <2>1, <2>2, OwnersStep DEF Owners
<1>7. CASE SellConfirmed(t)
  <2>1. \A u \in SellTasks \ {t} : task'[u] = task[u]
    BY <1>7 DEF TypeOK, SellConfirmed, Goto
  <2> QED BY <1>7, <2>1 DEF TypeOK, SellConfirmed, Owners, OwnerPoints, Goto
<1>8. CASE SellUnconfirmed(t)
  <2>1. \A u \in SellTasks \ {t} : task'[u] = task[u]
    BY <1>8 DEF TypeOK, SellUnconfirmed
  <2>2. task[t].pc \in OwnerPoints <=> task'[t].pc \in OwnerPoints
    BY <1>8 DEF TypeOK, SellUnconfirmed, NextTry, SellTask, OwnerPoints
  <2> QED BY <2>1, <2>2, OwnersStep DEF Owners
<1>9. CASE ReadRemaining(t)
  <2>1. \A u \in SellTasks \ {t} : task'[u] = task[u]
    BY <1>9 DEF TypeOK, ReadRemaining, Goto
  <2> QED BY <1>9, <2>1 DEF TypeOK, ReadRemaining, Owners, OwnerPoints, Goto
<1> QED BY <1>1, <1>2, <1>3, <1>4, <1>5, <1>6, <1>7, <1>8, <1>9 DEF KeepsOwners

\* mark_selling makes the task an owner exactly when it answers true.
LEMMA OwnerTakes ==
  ASSUME TypeOK, NEW t \in SellTasks, BeginSelling(t)
  PROVE  /\ t \notin Owners
         /\ Sellable(pos) => Owners' = Owners \cup {t}
         /\ ~Sellable(pos) => Owners' = Owners
  <1>1. t \notin Owners
    BY DEF BeginSelling, Owners, OwnerPoints
  <1>2. \A u \in SellTasks \ {t} : task'[u].pc = task[u].pc
    BY DEF TypeOK, BeginSelling, Goto, Finish
  <1>3. Sellable(pos) => task'[t].pc = "reading"
    BY DEF TypeOK, SellTask, BeginSelling, TookPosition, Goto
  <1>4. ~Sellable(pos) => task'[t].pc = "idle"
    BY DEF TypeOK, BeginSelling, TookPosition, Finish, IdleTask
  <1> QED BY <1>1, <1>2, <1>3, <1>4, OwnersStep DEF OwnerPoints

LEMMA OwnerLetsGo ==
  ASSUME TypeOK, NEW t \in SellTasks, LetsGo(t)
  PROVE  t \in Owners /\ Owners' = Owners \ {t}
  <1>1. t \in Owners
    BY DEF LetsGo, FailZero, CloseSold, Revert, FailEmpty, Owners, OwnerPoints
  <1>2. Finish(t)
    BY DEF LetsGo, FailZero, CloseSold, Revert, FailEmpty
  <1>3. \A u \in SellTasks \ {t} : task'[u].pc = task[u].pc
    BY <1>2 DEF TypeOK, Finish
  <1>4. task'[t].pc = "idle"
    BY <1>2 DEF TypeOK, Finish, IdleTask
  <1> QED BY <1>1, <1>3, <1>4, OwnersStep DEF OwnerPoints

\* What SellExclusive needs to be inductive: nobody owns a position that
\* was never opened, and no task ever sees it before it is Confirming.
Lifecycle ==
  /\ confirmer = "none" => pos.state = "Absent" /\ Owners = {}
  /\ pos.state \notin {"Pending", "Submitted"}

LEMMA ExclusiveStep ==
  ASSUME TypeOK, SellExclusive, Lifecycle, [Next]_vars
  PROVE  SellExclusive' /\ Lifecycle'
<1>1. ASSUME TrackMint PROVE (SellExclusive /\ Lifecycle)'
  BY <1>1 DEF TrackMint, SellExclusive, Lifecycle, Owners, chainVars, ataVars
<1>2. ASSUME FireBuy PROVE (SellExclusive /\ Lifecycle)'
  BY <1>2 DEF FireBuy, SellExclusive, Lifecycle, Owners, chainVars, ataVars
<1>3. ASSUME OpenPosition PROVE (SellExclusive /\ Lifecycle)'
  BY <1>3, OpenedPosition DEF OpenPosition, SellExclusive, Lifecycle, Owners
<1>4. ASSUME BuyLands PROVE (SellExclusive /\ Lifecycle)'
  BY <1>4 DEF BuyLands, SellExclusive, Lifecycle, Owners, chainVars, ataVars
<1>5. ASSUME BuyFails PROVE (SellExclusive /\ Lifecycle)'
  BY <1>5 DEF BuyFails, SellExclusive, Lifecycle, Owners, chainVars, ataVars
<1>6. ASSUME NEW t \in SellTasks,
             SellSettles(t) PROVE (SellExclusive /\ Lifecycle)'
  <2>1. Owners' = Owners
    BY <1>6, OwnersKept DEF KeepsOwners
  <2> QED BY <1>6, <2>1 DEF SellSettles, SellExclusive, Lifecycle
<1>7. ASSUME NEW a \in 1 .. Bought,
             LateSellLands(a) PROVE (SellExclusive /\ Lifecycle)'
  BY <1>7
  DEF LateSellLands, SellExclusive, Lifecycle, Owners, chainVars, ataVars
<1>8. ASSUME Tick PROVE (SellExclusive /\ Lifecycle)'
  BY <1>8 DEF Tick, SellExclusive, Lifecycle, Owners, chainVars, ataVars
<1>9. ASSUME AtaUpdate PROVE (SellExclusive /\ Lifecycle)'
  BY <1>9 DEF AtaUpdate, SellExclusive, Lifecycle, Owners, chainVars, ataVars
<1>10. ASSUME NEW a \in 0 .. Bought,
              AtaEvent(a) PROVE (SellExclusive /\ Lifecycle)'
  BY <1>10
  DEF TypeOK, PositionOrNone, AtaEvent, SellExclusive, Lifecycle, Owners,
      MarkActive, Unconfirmed
<1>11. ASSUME ConfirmerStatus PROVE (SellExclusive /\ Lifecycle)'
  BY <1>11
  DEF TypeOK, PositionOrNone, ConfirmerStatus, SellExclusive, Lifecycle,
      Owners, MarkFailed, Exists
<1>12. ASSUME ConfirmerCredit PROVE (SellExclusive /\ Lifecycle)'
  BY <1>12
  DEF ConfirmerCredit, SellExclusive, Lifecycle, Owners, chainVars, ataVars
<1>13. ASSUME ConfirmerSucceeds PROVE (SellExclusive /\ Lifecycle)'
  BY <1>13
  DEF TypeOK, PositionOrNone, ConfirmerSucceeds, SellExclusive, Lifecycle,
      Owners, ConfirmSuccess, MarkActive
<1>14. ASSUME ConfirmerExpires PROVE (SellExclusive /\ Lifecycle)'
  BY <1>14
  DEF TypeOK, PositionOrNone, ConfirmerExpires, SellExclusive, Lifecycle,
      Owners, MarkFailed, Exists
<1>15. ASSUME FallbackCheck PROVE (SellExclusive /\ Lifecycle)'
  BY <1>15
  DEF FallbackCheck, SellExclusive, Lifecycle, Owners, chainVars, ataVars
<1>16. ASSUME FallbackRead PROVE (SellExclusive /\ Lifecycle)'
  BY <1>16
  DEF FallbackRead, SellExclusive, Lifecycle, Owners, chainVars, ataVars
<1>17. ASSUME FallbackApply PROVE (SellExclusive /\ Lifecycle)'
  BY <1>17
  DEF TypeOK, PositionOrNone, FallbackApply, SellExclusive, Lifecycle, Owners,
      MarkActive, MarkFailed, Exists
<1>18. ASSUME FallbackPurge PROVE (SellExclusive /\ Lifecycle)'
  BY <1>18
  DEF TypeOK, PositionOrNone, FallbackPurge, SellExclusive, Lifecycle, Owners,
      NoPosition
<1>19. ASSUME NEW t \in SellTasks,
              GrpcSignal(t) PROVE (SellExclusive /\ Lifecycle)'
  <2>1. Owners' = Owners
    BY <1>19, OwnersKept DEF KeepsOwners, GrpcSignal
  <2> QED BY <1>19, <2>1 DEF GrpcSignal, Signal, SellExclusive, Lifecycle
<1>20. ASSUME NEW t \in SellTasks,
              FallbackPriceSignal(t) PROVE (SellExclusive /\ Lifecycle)'
  <2>1. Owners' = Owners
    BY <1>20, OwnersKept DEF KeepsOwners, FallbackPriceSignal
  <2> QED BY <1>20, <2>1
          DEF FallbackPriceSignal, Signal, SellExclusive, Lifecycle
<1>21. ASSUME NEW t \in SellTasks,
              FallbackLifetimeSignal(t) PROVE (SellExclusive /\ Lifecycle)'
  <2>1. Owners' = Owners
    BY <1>21, OwnersKept DEF KeepsOwners, FallbackLifetimeSignal
  <2> QED BY <1>21, <2>1
          DEF FallbackLifetimeSignal, Signal, SellExclusive, Lifecycle
<1>22. ASSUME NEW t \in SellTasks,
              ManualSignal(t) PROVE (SellExclusive /\ Lifecycle)'
  <2>1. Owners' = Owners
    BY <1>22, OwnersKept DEF KeepsOwners, ManualSignal
  <2> QED BY <1>22, <2>1 DEF ManualSignal, Signal, SellExclusive, Lifecycle
<1>23. ASSUME NEW t \in SellTasks,
              FollowSignal(t) PROVE (SellExclusive /\ Lifecycle)'
  <2>1. Owners' = Owners
    BY <1>23, OwnersKept DEF KeepsOwners, FollowSignal
  <2> QED BY <1>23, <2>1 DEF FollowSignal, Signal, SellExclusive, Lifecycle
<1>24. ASSUME NEW t \in SellTasks,
              CheckAttempts(t) PROVE (SellExclusive /\ Lifecycle)'
  <2>1. Owners' = Owners
    BY <1>24, OwnersKept DEF KeepsOwners
  <2> QED BY <1>24, <2>1 DEF CheckAttempts, SellExclusive, Lifecycle
<1>25. ASSUME NEW t \in SellTasks,
              GiveUp(t) PROVE (SellExclusive /\ Lifecycle)'
  <2>1. Owners' = Owners
    BY <1>25, OwnersKept DEF KeepsOwners
  <2> QED BY <1>25, <2>1
          DEF GiveUp, SellExclusive, Lifecycle, TypeOK, PositionOrNone,
              MarkFailed, Exists
<1>26. ASSUME NEW t \in SellTasks,
              BeginSelling(t) PROVE (SellExclusive /\ Lifecycle)'
  BY <1>26, OwnerTakes
  DEF TypeOK, PositionOrNone, BeginSelling, SellExclusive, Lifecycle,
      MarkSelling, Sellable
<1>27. ASSUME NEW t \in SellTasks,
              ReadBalance(t) PROVE (SellExclusive /\ Lifecycle)'
  <2>1. Owners' = Owners
    BY <1>27, OwnersKept DEF KeepsOwners
  <2> QED BY <1>27, <2>1 DEF ReadBalance, SellExclusive, Lifecycle
<1>28. ASSUME NEW t \in SellTasks,
              FailZero(t) PROVE (SellExclusive /\ Lifecycle)'
  <2>1. t \in Owners /\ Owners' = Owners \ {t}
    BY <1>28, OwnerLetsGo DEF LetsGo
  <2> QED BY <1>28, <2>1
          DEF TypeOK, PositionOrNone, FailZero, SellExclusive, Lifecycle,
              MarkFailed, Exists
<1>29. ASSUME NEW t \in SellTasks,
              TrySell(t) PROVE (SellExclusive /\ Lifecycle)'
  <2>1. Owners' = Owners
    BY <1>29, OwnersKept DEF KeepsOwners
  <2> QED BY <1>29, <2>1 DEF TrySell, SellExclusive, Lifecycle
<1>30. ASSUME NEW t \in SellTasks,
              SellConfirmed(t) PROVE (SellExclusive /\ Lifecycle)'
  <2>1. Owners' = Owners
    BY <1>30, OwnersKept DEF KeepsOwners
  <2> QED BY <1>30, <2>1 DEF SellConfirmed, SellExclusive, Lifecycle
<1>31. ASSUME NEW t \in SellTasks,
              SellUnconfirmed(t) PROVE (SellExclusive /\ Lifecycle)'
  <2>1. Owners' = Owners
    BY <1>31, OwnersKept DEF KeepsOwners
  <2> QED BY <1>31, <2>1 DEF SellUnconfirmed, SellExclusive, Lifecycle
<1>32. ASSUME NEW t \in SellTasks,
              CloseSold(t) PROVE (SellExclusive /\ Lifecycle)'
  <2>1. t \in Owners /\ Owners' = Owners \ {t}
    BY <1>32, OwnerLetsGo DEF LetsGo
  <2> QED BY <1>32, <2>1
          DEF TypeOK, PositionOrNone, CloseSold, SellExclusive, Lifecycle,
              MarkClosed
<1>33. ASSUME NEW t \in SellTasks,
              ReadRemaining(t) PROVE (SellExclusive /\ Lifecycle)'
  <2>1. Owners' = Owners
    BY <1>33, OwnersKept DEF KeepsOwners
  <2> QED BY <1>33, <2>1 DEF ReadRemaining, SellExclusive, Lifecycle
<1>34. ASSUME NEW t \in SellTasks,
              Revert(t) PROVE (SellExclusive /\ Lifecycle)'
  <2>1. t \in Owners /\ Owners' = Owners \ {t}
    BY <1>34, OwnerLetsGo DEF LetsGo
  <2> QED BY <1>34, <2>1
          DEF TypeOK, PositionOrNone, Revert, SellExclusive, Lifecycle,
              AfterFailedSale, RevertToActive
<1>35. ASSUME NEW t \in SellTasks,
              FailEmpty(t) PROVE (SellExclusive /\ Lifecycle)'
  <2>1. t \in Owners /\ Owners' = Owners \ {t}
    BY <1>35, OwnerLetsGo DEF LetsGo
  <2> QED BY <1>35, <2>1
          DEF TypeOK, PositionOrNone, FailEmpty, SellExclusive, Lifecycle,
              MarkFailed, Exists
<1>36. CASE UNCHANGED vars
  BY <1>36 DEF SellExclusive, Lifecycle, Owners, vars
<1> QED BY <1>1, <1>2, <1>3, <1>4, <1>5, <1>6, <1>7, <1>8, <1>9, <1>10, <1>11,
           <1>12, <1>13, <1>14, <1>15, <1>16, <1>17, <1>18, <1>19, <1>20,
           <1>21, <1>22, <1>23, <1>24, <1>25, <1>26, <1>27, <1>28, <1>29,
           <1>30, <1>31, <1>32, <1>33, <1>34, <1>35, <1>36
             DEF Next, Buying, Chain, Monitoring, ConfirmerStep, Signalling,
                 SellStep

(* At most one task sells the position, and while it does no other task    *)
(* takes, closes or reopens it.                                            *)
THEOREM SellingIsExclusive == Spec => []SellExclusive
<1>1. Init => SellExclusive /\ Lifecycle
  BY
  DEF Init, SellExclusive, Lifecycle, Owners, OwnerPoints, NoPosition, IdleTask
<1> QED BY <1>1, TypeCorrect, ExclusiveStep, PTL DEF Spec

-----------------------------------------------------------------------------
(* What the tasks know of the buy and of the balance.                      *)

\* A task sells no less than what is there, so its sale leaves nothing.
TaskEvidence(t) ==
  /\ task[t].pc \in {"trying", "waiting", "sold"}
       => buyTx = "landed" /\ task[t].amount >= balance
  /\ task[t].pc = "remains" => buyTx = "landed"
  /\ task[t].tx # "none" => task[t].pc \in {"waiting", "sold"}
  /\ task[t].tx = "landed" \/ task[t].pc = "sold" => balance = 0

\* Nothing but the landed buy puts a positive balance anywhere, and what is
\* cached is out of date on one side only: the balance never grows again.
Evidence ==
  /\ buyTx # "landed" => balance = 0
  /\ ataCache # NotCached \/ ataEvents # {} => buyTx = "landed"
  /\ ataCache >= balance
  /\ confirmer \in {"confirmed", "credited"} => buyTx = "landed"
  /\ fallback = "credited" => buyTx = "landed"
  /\ ActiveMeansBought
  /\ ClosedMeansSold
  /\ \A t \in SellTasks : TaskEvidence(t)

LEMMA EvidenceStep ==
  ASSUME TypeOK, Evidence, [Next]_vars
  PROVE  Evidence'
<1> USE AutoSellAssumption DEF chainVars, ataVars
<1>1. ASSUME TrackMint PROVE Evidence'
  BY <1>1
  DEF TypeOK, NotCached, TrackMint, Evidence, TaskEvidence, ActiveMeansBought,
      ClosedMeansSold
<1>2. ASSUME FireBuy PROVE Evidence'
  BY <1>2
  DEF TypeOK, NotCached, FireBuy, Evidence, TaskEvidence, ActiveMeansBought,
      ClosedMeansSold
<1>3. ASSUME OpenPosition PROVE Evidence'
  BY <1>3, OpenedPosition
  DEF OpenPosition, Evidence, TaskEvidence, ActiveMeansBought, ClosedMeansSold
<1>4. ASSUME BuyLands PROVE Evidence'
  BY <1>4
  DEF TypeOK, NotCached, BuyLands, Evidence, TaskEvidence, ActiveMeansBought,
      ClosedMeansSold
<1>5. ASSUME BuyFails PROVE Evidence'
  BY <1>5
  DEF TypeOK, NotCached, BuyFails, Evidence, TaskEvidence, ActiveMeansBought,
      ClosedMeansSold
<1>6. ASSUME NEW t \in SellTasks, SellSettles(t) PROVE Evidence'
  <2>1. \A u \in SellTasks \ {t} : TaskEvidence(u)'
    BY <1>6 DEF TypeOK, SellTask, SellSettles, Evidence, TaskEvidence
  <2>2. TaskEvidence(t)'
    <3>1. /\ task[t] \in SellTask
          /\ task[t].pc \in {"waiting", "sold"}
          /\ task[t].amount >= balance
          /\ buyTx = "landed"
      BY <1>6, TasksTyped DEF SellSettles, Evidence, TaskEvidence
    <3>2. CASE /\ task[t].amount <= balance
               /\ balance' = balance - task[t].amount
               /\ task' = [task EXCEPT ![t].tx = "landed"]
      <4>1. balance' = 0
        BY <3>1, <3>2 DEF TypeOK, SellTask
      <4>2. task'[t] = [task[t] EXCEPT !.tx = "landed"]
        BY <3>2 DEF TypeOK
      <4> QED BY <1>6, <3>1, <4>1, <4>2 DEF SellTask, SellSettles, TaskEvidence
    <3>3. CASE /\ task' = [task EXCEPT ![t].tx = "failed"]
               /\ UNCHANGED balance
      <4>1. task'[t] = [task[t] EXCEPT !.tx = "failed"]
        BY <3>3 DEF TypeOK
      <4> QED BY <1>6, <3>1, <3>3, <4>1
        DEF SellTask, SellSettles, Evidence, TaskEvidence
    <3> QED BY <1>6, <3>2, <3>3 DEF SellSettles
  <2>3. balance' <= balance /\ balance' \in Nat
    <3>1. task[t].amount \in Nat /\ balance \in Nat
      BY TasksTyped DEF TypeOK, SellTask
    <3> QED BY <1>6, <3>1 DEF SellSettles
  <2> QED BY <1>6, <2>1, <2>2, <2>3
          DEF TypeOK, NotCached, SellSettles, Evidence, ActiveMeansBought,
              ClosedMeansSold
<1>7. ASSUME NEW a \in 1 .. Bought, LateSellLands(a) PROVE Evidence'
  <2>1. balance' \in Nat /\ balance' < balance
    BY <1>7 DEF TypeOK, LateSellLands
  <2>2. \A t \in SellTasks : TaskEvidence(t)'
    <3> SUFFICES ASSUME NEW t \in SellTasks PROVE TaskEvidence(t)'
      OBVIOUS
    <3>1. TaskEvidence(t) BY DEF Evidence
    <3>2. task' = task /\ buyTx' = buyTx
      BY <1>7 DEF LateSellLands
    <3>3. task[t] \in SellTask
      BY TasksTyped
    <3>4. task[t].amount \in Nat
      BY <3>3 DEF SellTask
    <3>5. balance \in Nat
      BY DEF TypeOK
    <3> QED BY <2>1, <3>1, <3>2, <3>4, <3>5 DEF TaskEvidence
  <2>3. buyTx = "landed"
    BY <1>7, <2>1 DEF TypeOK, LateSellLands, Evidence
  <2>4. balance \in Nat /\ ataCache \in Nat
    BY DEF TypeOK, NotCached
  <2>5. /\ UNCHANGED <<pos, buyTx, ataCache, ataEvents, confirmer, fallback>>
        /\ ataCache' >= balance'
    BY <1>7, <2>1, <2>4 DEF LateSellLands, Evidence
  <2>6. ClosedMeansSold' /\ ActiveMeansBought'
    BY <2>1, <2>3, <2>4, <2>5 DEF Evidence, ClosedMeansSold, ActiveMeansBought
  <2> QED BY <2>2, <2>3, <2>5, <2>6 DEF Evidence
<1>8. ASSUME Tick PROVE Evidence'
  BY <1>8
  DEF TypeOK, NotCached, Tick, Evidence, TaskEvidence, ActiveMeansBought,
      ClosedMeansSold
<1>9. ASSUME AtaUpdate PROVE Evidence'
  BY <1>9
  DEF TypeOK, NotCached, AtaUpdate, Evidence, TaskEvidence, ActiveMeansBought,
      ClosedMeansSold
<1>10. ASSUME NEW a \in 0 .. Bought, AtaEvent(a) PROVE Evidence'
  BY <1>10
  DEF TypeOK, PositionOrNone, NotCached, AtaEvent, Evidence, TaskEvidence,
      ActiveMeansBought, ClosedMeansSold, MarkActive, Unconfirmed
<1>11. ASSUME ConfirmerStatus PROVE Evidence'
  BY <1>11
  DEF TypeOK, PositionOrNone, NotCached, ConfirmerStatus, Evidence,
      TaskEvidence, ActiveMeansBought, ClosedMeansSold, MarkFailed, Exists
<1>12. ASSUME ConfirmerCredit PROVE Evidence'
  BY <1>12
  DEF TypeOK, NotCached, ConfirmerCredit, Evidence, TaskEvidence,
      ActiveMeansBought, ClosedMeansSold
<1>13. ASSUME ConfirmerSucceeds PROVE Evidence'
  BY <1>13
  DEF TypeOK, PositionOrNone, NotCached, ConfirmerSucceeds, Evidence,
      TaskEvidence, ActiveMeansBought, ClosedMeansSold, ConfirmSuccess,
      MarkActive
<1>14. ASSUME ConfirmerExpires PROVE Evidence'
  BY <1>14
  DEF TypeOK, PositionOrNone, NotCached, ConfirmerExpires, Evidence,
      TaskEvidence, ActiveMeansBought, ClosedMeansSold, MarkFailed, Exists
<1>15. ASSUME FallbackCheck PROVE Evidence'
  BY <1>15
  DEF TypeOK, NotCached, FallbackCheck, Evidence, TaskEvidence,
      ActiveMeansBought, ClosedMeansSold
<1>16. ASSUME FallbackRead PROVE Evidence'
  BY <1>16
  DEF TypeOK, RpcBalances, HasTokens, FallbackRead, Evidence, TaskEvidence,
      ActiveMeansBought, ClosedMeansSold
<1>17. ASSUME FallbackApply PROVE Evidence'
  BY <1>17
  DEF TypeOK, PositionOrNone, NotCached, FallbackApply, Evidence, TaskEvidence,
      ActiveMeansBought, ClosedMeansSold, MarkActive, MarkFailed, Exists
<1>18. ASSUME FallbackPurge PROVE Evidence'
  BY <1>18
  DEF TypeOK, PositionOrNone, NotCached, FallbackPurge, Evidence, TaskEvidence,
      ActiveMeansBought, ClosedMeansSold, NoPosition
<1>19. ASSUME NEW t \in SellTasks, GrpcSignal(t) PROVE Evidence'
  <2>1. \A u \in SellTasks \ {t} : TaskEvidence(u)'
    BY <1>19
    DEF TypeOK, SellTask, GrpcSignal, Signal, Evidence, TaskEvidence, Goto
  <2>2. TaskEvidence(t)'
    BY <1>19
    DEF TypeOK, SellTask, GrpcSignal, Signal, Evidence, TaskEvidence, Goto
  <2> QED BY <1>19, <2>1, <2>2
          DEF TypeOK, GrpcSignal, Signal, Evidence, ActiveMeansBought,
              ClosedMeansSold
<1>20. ASSUME NEW t \in SellTasks, FallbackPriceSignal(t) PROVE Evidence'
  <2>1. \A u \in SellTasks \ {t} : TaskEvidence(u)'
    BY <1>20
    DEF TypeOK, SellTask, FallbackPriceSignal, Signal, Evidence, TaskEvidence,
        Goto
  <2>2. TaskEvidence(t)'
    BY <1>20
    DEF TypeOK, SellTask, FallbackPriceSignal, Signal, Evidence, TaskEvidence,
        Goto
  <2> QED BY <1>20, <2>1, <2>2
          DEF TypeOK, FallbackPriceSignal, Signal, Evidence, ActiveMeansBought,
              ClosedMeansSold
<1>21. ASSUME NEW t \in SellTasks, FallbackLifetimeSignal(t) PROVE Evidence'
  <2>1. \A u \in SellTasks \ {t} : TaskEvidence(u)'
    BY <1>21
    DEF TypeOK, SellTask, FallbackLifetimeSignal, Signal, Evidence,
        TaskEvidence, Goto
  <2>2. TaskEvidence(t)'
    BY <1>21
    DEF TypeOK, SellTask, FallbackLifetimeSignal, Signal, Evidence,
        TaskEvidence, Goto
  <2> QED BY <1>21, <2>1, <2>2
          DEF TypeOK, FallbackLifetimeSignal, Signal, Evidence,
              ActiveMeansBought, ClosedMeansSold
<1>22. ASSUME NEW t \in SellTasks, ManualSignal(t) PROVE Evidence'
  <2>1. \A u \in SellTasks \ {t} : TaskEvidence(u)'
    BY <1>22
    DEF TypeOK, SellTask, ManualSignal, Signal, Evidence, TaskEvidence, Goto
  <2>2. TaskEvidence(t)'
    BY <1>22
    DEF TypeOK, SellTask, ManualSignal, Signal, Evidence, TaskEvidence, Goto
  <2> QED BY <1>22, <2>1, <2>2
          DEF TypeOK, ManualSignal, Signal, Evidence, ActiveMeansBought,
              ClosedMeansSold
<1>23. ASSUME NEW t \in SellTasks, FollowSignal(t) PROVE Evidence'
  <2>1. \A u \in SellTasks \ {t} : TaskEvidence(u)'
    BY <1>23
    DEF TypeOK, SellTask, FollowSignal, Signal, Evidence, TaskEvidence, Goto
  <2>2. TaskEvidence(t)'
    BY <1>23
    DEF TypeOK, SellTask, FollowSignal, Signal, Evidence, TaskEvidence, Goto
  <2> QED BY <1>23, <2>1, <2>2
          DEF TypeOK, FollowSignal, Signal, Evidence, ActiveMeansBought,
              ClosedMeansSold
<1>24. ASSUME NEW t \in SellTasks, CheckAttempts(t) PROVE Evidence'
  <2>1. \A u \in SellTasks \ {t} : TaskEvidence(u)'
    BY <1>24 DEF TypeOK, SellTask, CheckAttempts, Evidence, TaskEvidence, Goto
  <2>2. TaskEvidence(t)'
    BY <1>24 DEF TypeOK, SellTask, CheckAttempts, Evidence, TaskEvidence, Goto
  <2> QED BY <1>24, <2>1, <2>2
          DEF TypeOK, CheckAttempts, Evidence, ActiveMeansBought,
              ClosedMeansSold
<1>25. ASSUME NEW t \in SellTasks, GiveUp(t) PROVE Evidence'
  <2>1. \A u \in SellTasks \ {t} : TaskEvidence(u)'
    BY <1>25
    DEF TypeOK, SellTask, GiveUp, Evidence, TaskEvidence, Finish, IdleTask
  <2>2. TaskEvidence(t)'
    BY <1>25
    DEF TypeOK, SellTask, GiveUp, Evidence, TaskEvidence, Finish, IdleTask
  <2> QED BY <1>25, <2>1, <2>2
          DEF TypeOK, GiveUp, Evidence, ActiveMeansBought, ClosedMeansSold,
              PositionOrNone, MarkFailed, Exists
<1>26. ASSUME NEW t \in SellTasks, BeginSelling(t) PROVE Evidence'
  <2>1. \A u \in SellTasks \ {t} : TaskEvidence(u)'
    BY <1>26
    DEF TypeOK, SellTask, BeginSelling, Evidence, TaskEvidence, Goto, Finish,
        IdleTask
  <2>2. TaskEvidence(t)'
    BY <1>26
    DEF TypeOK, SellTask, BeginSelling, Evidence, TaskEvidence, Goto, Finish,
        IdleTask
  <2> QED BY <1>26, <2>1, <2>2
          DEF TypeOK, BeginSelling, Evidence, ActiveMeansBought,
              ClosedMeansSold, PositionOrNone, MarkSelling, Sellable
<1>27. ASSUME NEW t \in SellTasks, ReadBalance(t) PROVE Evidence'
  <2>1. \A u \in SellTasks \ {t} : TaskEvidence(u)'
    BY <1>27
    DEF TypeOK, SellTask, ReadBalance, Evidence, TaskEvidence,
        ReadableBalances, RpcBalances
  <2>2. TaskEvidence(t)'
    BY <1>27
    DEF TypeOK, SellTask, ReadBalance, Evidence, TaskEvidence,
        ReadableBalances, RpcBalances
  <2> QED BY <1>27, <2>1, <2>2
          DEF TypeOK, ReadBalance, Evidence, ActiveMeansBought, ClosedMeansSold
<1>28. ASSUME NEW t \in SellTasks, FailZero(t) PROVE Evidence'
  <2>1. \A u \in SellTasks \ {t} : TaskEvidence(u)'
    BY <1>28
    DEF TypeOK, SellTask, FailZero, Evidence, TaskEvidence, Finish, IdleTask
  <2>2. TaskEvidence(t)'
    BY <1>28
    DEF TypeOK, SellTask, FailZero, Evidence, TaskEvidence, Finish, IdleTask
  <2> QED BY <1>28, <2>1, <2>2
          DEF TypeOK, FailZero, Evidence, ActiveMeansBought, ClosedMeansSold,
              PositionOrNone, MarkFailed, Exists
<1>29. ASSUME NEW t \in SellTasks, TrySell(t) PROVE Evidence'
  <2>1. \A u \in SellTasks \ {t} : TaskEvidence(u)'
    BY <1>29 DEF TypeOK, SellTask, TrySell, Evidence, TaskEvidence, NextTry
  <2>2. TaskEvidence(t)'
    <3>1. task[t] \in SellTask /\ TaskEvidence(t) /\ task[t].pc = "trying"
      BY <1>29, TasksTyped DEF TrySell, Evidence
    <3>2. CASE task' = [task EXCEPT ![t].pc = "waiting", ![t].tx = "pending"]
      <4>1. task'[t] = [task[t] EXCEPT !.pc = "waiting", !.tx = "pending"]
        BY <3>2 DEF TypeOK
      <4> QED BY <1>29, <3>1, <4>1 DEF SellTask, TrySell, TaskEvidence
    <3>3. CASE task' = [task EXCEPT ![t] = NextTry(t)]
      <4>1. task'[t] = NextTry(t)
        BY <3>3 DEF TypeOK
      <4> QED BY <1>29, <3>1, <4>1 DEF SellTask, TrySell, TaskEvidence, NextTry
    <3> QED BY <1>29, <3>2, <3>3 DEF TrySell
  <2> QED BY <1>29, <2>1, <2>2
          DEF TypeOK, TrySell, Evidence, ActiveMeansBought, ClosedMeansSold
<1>30. ASSUME NEW t \in SellTasks, SellConfirmed(t) PROVE Evidence'
  <2>1. \A u \in SellTasks \ {t} : TaskEvidence(u)'
    BY <1>30
    DEF TypeOK, SellTask, SellConfirmed, Evidence, TaskEvidence, Goto,
        SaleConfirmed
  <2>2. TaskEvidence(t)'
    BY <1>30
    DEF TypeOK, SellTask, SellConfirmed, Evidence, TaskEvidence, Goto,
        SaleConfirmed
  <2> QED BY <1>30, <2>1, <2>2
          DEF TypeOK, SellConfirmed, Evidence, ActiveMeansBought,
              ClosedMeansSold
<1>31. ASSUME NEW t \in SellTasks, SellUnconfirmed(t) PROVE Evidence'
  <2>1. \A u \in SellTasks \ {t} : TaskEvidence(u)'
    BY <1>31
    DEF TypeOK, SellTask, SellUnconfirmed, Evidence, TaskEvidence, NextTry
  <2>2. TaskEvidence(t)'
    BY <1>31
    DEF TypeOK, SellTask, SellUnconfirmed, Evidence, TaskEvidence, NextTry
  <2> QED BY <1>31, <2>1, <2>2
          DEF TypeOK, SellUnconfirmed, Evidence, ActiveMeansBought,
              ClosedMeansSold
<1>32. ASSUME NEW t \in SellTasks, CloseSold(t) PROVE Evidence'
  <2>1. \A u \in SellTasks \ {t} : TaskEvidence(u)'
    BY <1>32
    DEF TypeOK, SellTask, CloseSold, Evidence, TaskEvidence, Finish, IdleTask
  <2>2. TaskEvidence(t)'
    BY <1>32
    DEF TypeOK, SellTask, CloseSold, Evidence, TaskEvidence, Finish, IdleTask
  <2>3. balance = 0 /\ buyTx = "landed"
    BY <1>32 DEF CloseSold, Evidence, TaskEvidence
  <2> QED BY <1>32, <2>1, <2>2, <2>3
          DEF TypeOK, NotCached, CloseSold, Evidence, ActiveMeansBought,
              ClosedMeansSold, PositionOrNone, MarkClosed
<1>33. ASSUME NEW t \in SellTasks, ReadRemaining(t) PROVE Evidence'
  <2>1. \A u \in SellTasks \ {t} : TaskEvidence(u)'
    BY <1>33
    DEF TypeOK, SellTask, ReadRemaining, Evidence, TaskEvidence, Goto,
        RpcBalances, HasTokens
  <2>2. TaskEvidence(t)'
    BY <1>33
    DEF TypeOK, SellTask, ReadRemaining, Evidence, TaskEvidence, Goto,
        RpcBalances, HasTokens
  <2> QED BY <1>33, <2>1, <2>2
          DEF TypeOK, ReadRemaining, Evidence, ActiveMeansBought,
              ClosedMeansSold
<1>34. ASSUME NEW t \in SellTasks, Revert(t) PROVE Evidence'
  <2>1. \A u \in SellTasks \ {t} : TaskEvidence(u)'
    BY <1>34
    DEF TypeOK, SellTask, Revert, Evidence, TaskEvidence, Finish, IdleTask
  <2>2. TaskEvidence(t)'
    BY <1>34
    DEF TypeOK, SellTask, Revert, Evidence, TaskEvidence, Finish, IdleTask
  <2>3. buyTx = "landed"
    BY <1>34 DEF Revert, Evidence, TaskEvidence
  <2> QED BY <1>34, <2>1, <2>2, <2>3
          DEF TypeOK, Revert, Evidence, ActiveMeansBought, ClosedMeansSold,
              PositionOrNone, AfterFailedSale, RevertToActive
<1>35. ASSUME NEW t \in SellTasks, FailEmpty(t) PROVE Evidence'
  <2>1. \A u \in SellTasks \ {t} : TaskEvidence(u)'
    BY <1>35
    DEF TypeOK, SellTask, FailEmpty, Evidence, TaskEvidence, Finish, IdleTask
  <2>2. TaskEvidence(t)'
    BY <1>35
    DEF TypeOK, SellTask, FailEmpty, Evidence, TaskEvidence, Finish, IdleTask
  <2> QED BY <1>35, <2>1, <2>2
          DEF TypeOK, FailEmpty, Evidence, ActiveMeansBought, ClosedMeansSold,
              PositionOrNone, MarkFailed, Exists
<1>36. CASE UNCHANGED vars
  BY <1>36 DEF Evidence, TaskEvidence, ActiveMeansBought, ClosedMeansSold, vars
<1> QED BY <1>1, <1>2, <1>3, <1>4, <1>5, <1>6, <1>7, <1>8, <1>9, <1>10, <1>11,
           <1>12, <1>13, <1>14, <1>15, <1>16, <1>17, <1>18, <1>19, <1>20,
           <1>21, <1>22, <1>23, <1>24, <1>25, <1>26, <1>27, <1>28, <1>29,
           <1>30, <1>31, <1>32, <1>33, <1>34, <1>35, <1>36
             DEF Next, Buying, Chain, Monitoring, ConfirmerStep, Signalling,
                 SellStep

LEMMA EvidenceHolds == Spec => []Evidence
<1>1. Init => Evidence
  BY AutoSellAssumption
  DEF Init, Evidence, TaskEvidence, ActiveMeansBought, ClosedMeansSold,
      NoPosition, IdleTask, NotCached
<1> QED BY <1>1, TypeCorrect, EvidenceStep, PTL DEF Spec

(* A position is closed only when all its tokens are sold.                 *)
THEOREM ClosedIsSold == Spec => []ClosedMeansSold
<1>1. Evidence => ClosedMeansSold
  BY DEF Evidence
<1> QED BY <1>1, EvidenceHolds, PTL

(* No path of confirmation, nor a failed sale, makes a position Active     *)
(* whose buy did not land.                                                 *)
THEOREM ActiveIsBought == Spec => []ActiveMeansBought
<1>1. Evidence => ActiveMeansBought
  BY DEF Evidence
<1> QED BY <1>1, EvidenceHolds, PTL

-----------------------------------------------------------------------------
(* How many sales are begun.  A task that read the attempts and has not    *)
(* taken the position yet counts like an attempt.                          *)

Cleared == {t \in SellTasks : task[t].pc = "cleared"}

AttemptsInv ==
  /\ ~Exists(pos) => pos.attempts = 0
  /\ pos.attempts + Cardinality(Cleared)
       <= MaxAttempts - 1 + Cardinality(SellTasks)

LEMMA ClearedFinite ==
  /\ IsFiniteSet(Cleared)
  /\ Cardinality(Cleared) \in Nat
  /\ Cardinality(SellTasks) \in Nat
  /\ Cardinality(Cleared) <= Cardinality(SellTasks)
  <1>1. IsFiniteSet(SellTasks)
    BY AutoSellAssumption
  <1>2. Cleared \subseteq SellTasks
    BY DEF Cleared
  <1> QED BY <1>1, <1>2, FS_Subset, FS_CardinalityType

LEMMA AttemptsStep ==
  ASSUME TypeOK, AttemptsInv, [Next]_vars
  PROVE  AttemptsInv'
<1>1. ASSUME TrackMint PROVE AttemptsInv'
  BY <1>1 DEF TrackMint, AttemptsInv, Cleared, chainVars, ataVars
<1>2. ASSUME FireBuy PROVE AttemptsInv'
  BY <1>2 DEF FireBuy, AttemptsInv, Cleared, chainVars, ataVars
<1>3. ASSUME OpenPosition PROVE AttemptsInv'
  <2>1. Cleared' = Cleared
    BY <1>3 DEF OpenPosition, Cleared
  <2> QED BY <1>3, <2>1, OpenedPosition, ClearedFinite, AutoSellAssumption
          DEF OpenPosition, AttemptsInv, TypeOK, PositionOrNone, Exists
<1>4. ASSUME BuyLands PROVE AttemptsInv'
  BY <1>4 DEF BuyLands, AttemptsInv, Cleared, chainVars, ataVars
<1>5. ASSUME BuyFails PROVE AttemptsInv'
  BY <1>5 DEF BuyFails, AttemptsInv, Cleared, chainVars, ataVars
<1>6. ASSUME NEW t \in SellTasks, SellSettles(t) PROVE AttemptsInv'
  <2>1. \A u \in SellTasks \ {t} : task'[u] = task[u]
    BY <1>6 DEF TypeOK, SellSettles
  <2>2. Cleared' = Cleared
    BY <1>6, <2>1 DEF TypeOK, SellTask, SellSettles, Cleared
  <2>3. pos' = pos
    BY <1>6 DEF SellSettles
  <2> QED BY <2>2, <2>3 DEF AttemptsInv
<1>7. ASSUME NEW a \in 1 .. Bought, LateSellLands(a) PROVE AttemptsInv'
  BY <1>7 DEF LateSellLands, AttemptsInv, Cleared, chainVars, ataVars
<1>8. ASSUME Tick PROVE AttemptsInv'
  BY <1>8 DEF Tick, AttemptsInv, Cleared, chainVars, ataVars
<1>9. ASSUME AtaUpdate PROVE AttemptsInv'
  BY <1>9 DEF AtaUpdate, AttemptsInv, Cleared, chainVars, ataVars
<1>10. ASSUME NEW a \in 0 .. Bought, AtaEvent(a) PROVE AttemptsInv'
  <2>1. Cleared' = Cleared
    BY <1>10 DEF AtaEvent, Cleared
  <2>2. pos'.attempts = pos.attempts /\ (Exists(pos) => Exists(pos'))
    BY <1>10 DEF AtaEvent, TypeOK, PositionOrNone, Exists, MarkActive
  <2> QED BY <2>1, <2>2 DEF AttemptsInv
<1>11. ASSUME ConfirmerStatus PROVE AttemptsInv'
  <2>1. Cleared' = Cleared
    BY <1>11 DEF ConfirmerStatus, Cleared
  <2>2. pos'.attempts = pos.attempts /\ (Exists(pos) => Exists(pos'))
    BY <1>11 DEF ConfirmerStatus, TypeOK, PositionOrNone, Exists, MarkFailed
  <2> QED BY <2>1, <2>2 DEF AttemptsInv
<1>12. ASSUME ConfirmerCredit PROVE AttemptsInv'
  BY <1>12 DEF ConfirmerCredit, AttemptsInv, Cleared, chainVars, ataVars
<1>13. ASSUME ConfirmerSucceeds PROVE AttemptsInv'
  <2>1. Cleared' = Cleared
    BY <1>13 DEF ConfirmerSucceeds, Cleared
  <2>2. pos'.attempts = pos.attempts /\ (Exists(pos) => Exists(pos'))
    BY <1>13
    DEF ConfirmerSucceeds, TypeOK, PositionOrNone, Exists, ConfirmSuccess,
        MarkActive
  <2> QED BY <2>1, <2>2 DEF AttemptsInv
<1>14. ASSUME ConfirmerExpires PROVE AttemptsInv'
  <2>1. Cleared' = Cleared
    BY <1>14 DEF ConfirmerExpires, Cleared
  <2>2. pos'.attempts = pos.attempts /\ (Exists(pos) => Exists(pos'))
    BY <1>14 DEF ConfirmerExpires, TypeOK, PositionOrNone, Exists, MarkFailed
  <2> QED BY <2>1, <2>2 DEF AttemptsInv
<1>15. ASSUME FallbackCheck PROVE AttemptsInv'
  BY <1>15 DEF FallbackCheck, AttemptsInv, Cleared, chainVars, ataVars
<1>16. ASSUME FallbackRead PROVE AttemptsInv'
  BY <1>16 DEF FallbackRead, AttemptsInv, Cleared, chainVars, ataVars
<1>17. ASSUME FallbackApply PROVE AttemptsInv'
  <2>1. Cleared' = Cleared
    BY <1>17 DEF FallbackApply, Cleared
  <2>2. pos'.attempts = pos.attempts /\ (Exists(pos) => Exists(pos'))
    BY <1>17
    DEF FallbackApply, TypeOK, PositionOrNone, Exists, MarkActive, MarkFailed
  <2> QED BY <2>1, <2>2 DEF AttemptsInv
<1>18. ASSUME FallbackPurge PROVE AttemptsInv'
  <2>1. Cleared' = Cleared
    BY <1>18 DEF FallbackPurge, Cleared
  <2>2. pos'.attempts = 0
    BY <1>18 DEF FallbackPurge, NoPosition
  <2> QED BY <2>1, <2>2, ClearedFinite, AutoSellAssumption
          DEF AttemptsInv, TypeOK, PositionOrNone, Exists
<1>19. ASSUME NEW t \in SellTasks, GrpcSignal(t) PROVE AttemptsInv'
  <2>1. \A u \in SellTasks \ {t} : task'[u] = task[u]
    BY <1>19 DEF TypeOK, GrpcSignal, Signal, Goto
  <2>2. Cleared' = Cleared
    BY <1>19, <2>1 DEF TypeOK, SellTask, GrpcSignal, Signal, Cleared, Goto
  <2>3. pos' = pos
    BY <1>19 DEF GrpcSignal, Signal
  <2> QED BY <2>2, <2>3 DEF AttemptsInv
<1>20. ASSUME NEW t \in SellTasks, FallbackPriceSignal(t) PROVE AttemptsInv'
  <2>1. \A u \in SellTasks \ {t} : task'[u] = task[u]
    BY <1>20 DEF TypeOK, FallbackPriceSignal, Signal, Goto
  <2>2. Cleared' = Cleared
    BY <1>20, <2>1
    DEF TypeOK, SellTask, FallbackPriceSignal, Signal, Cleared, Goto
  <2>3. pos' = pos
    BY <1>20 DEF FallbackPriceSignal, Signal
  <2> QED BY <2>2, <2>3 DEF AttemptsInv
<1>21. ASSUME NEW t \in SellTasks, FallbackLifetimeSignal(t) PROVE AttemptsInv'
  <2>1. \A u \in SellTasks \ {t} : task'[u] = task[u]
    BY <1>21 DEF TypeOK, FallbackLifetimeSignal, Signal, Goto
  <2>2. Cleared' = Cleared
    BY <1>21, <2>1
    DEF TypeOK, SellTask, FallbackLifetimeSignal, Signal, Cleared, Goto
  <2>3. pos' = pos
    BY <1>21 DEF FallbackLifetimeSignal, Signal
  <2> QED BY <2>2, <2>3 DEF AttemptsInv
<1>22. ASSUME NEW t \in SellTasks, ManualSignal(t) PROVE AttemptsInv'
  <2>1. \A u \in SellTasks \ {t} : task'[u] = task[u]
    BY <1>22 DEF TypeOK, ManualSignal, Signal, Goto
  <2>2. Cleared' = Cleared
    BY <1>22, <2>1 DEF TypeOK, SellTask, ManualSignal, Signal, Cleared, Goto
  <2>3. pos' = pos
    BY <1>22 DEF ManualSignal, Signal
  <2> QED BY <2>2, <2>3 DEF AttemptsInv
<1>23. ASSUME NEW t \in SellTasks, FollowSignal(t) PROVE AttemptsInv'
  <2>1. \A u \in SellTasks \ {t} : task'[u] = task[u]
    BY <1>23 DEF TypeOK, FollowSignal, Signal, Goto
  <2>2. Cleared' = Cleared
    BY <1>23, <2>1 DEF TypeOK, SellTask, FollowSignal, Signal, Cleared, Goto
  <2>3. pos' = pos
    BY <1>23 DEF FollowSignal, Signal
  <2> QED BY <2>2, <2>3 DEF AttemptsInv
<1>24. ASSUME NEW t \in SellTasks, CheckAttempts(t) PROVE AttemptsInv'
  <2>1. pos' = pos /\ \A u \in SellTasks \ {t} : task'[u] = task[u]
    BY <1>24 DEF CheckAttempts, Goto, TypeOK
  <2>2. CASE Exists(pos) /\ ~AttemptsLeft(pos)
    <3>1. Cleared' = Cleared
      BY <1>24, <2>1, <2>2 DEF CheckAttempts, Goto, Cleared, TypeOK, SellTask
    <3> QED BY <2>1, <3>1 DEF AttemptsInv
  <2>3. CASE ~(Exists(pos) /\ ~AttemptsLeft(pos))
    <3>1. pos.attempts <= MaxAttempts - 1
      BY <2>3, AutoSellAssumption
      DEF AttemptsInv, AttemptsLeft, TypeOK, PositionOrNone
    <3>2. /\ Cardinality(Cleared') \in Nat
          /\ Cardinality(Cleared') <= Cardinality(SellTasks)
      <4>1. Cleared' \subseteq SellTasks
        BY DEF Cleared
      <4> QED BY <4>1, AutoSellAssumption, FS_Subset, FS_CardinalityType
    <3>3. ~Exists(pos') => pos'.attempts = 0
      BY <2>1 DEF AttemptsInv, Exists
    <3>4. pos.attempts \in Nat /\ MaxAttempts \in Nat
      BY AutoSellAssumption DEF TypeOK, PositionOrNone
    <3>5. pos.attempts + Cardinality(Cleared')
            <= MaxAttempts - 1 + Cardinality(SellTasks)
      BY <3>1, <3>2, <3>4, ClearedFinite
    <3> QED BY <2>1, <3>3, <3>5 DEF AttemptsInv
  <2> QED BY <2>2, <2>3
<1>25. ASSUME NEW t \in SellTasks, GiveUp(t) PROVE AttemptsInv'
  <2>1. \A u \in SellTasks \ {t} : task'[u] = task[u]
    BY <1>25 DEF TypeOK, GiveUp, Finish, IdleTask
  <2>2. Cleared' = Cleared
    BY <1>25, <2>1 DEF TypeOK, SellTask, GiveUp, Cleared, Finish, IdleTask
  <2>3. pos'.attempts = pos.attempts /\ (Exists(pos) => Exists(pos'))
    BY <1>25 DEF GiveUp, TypeOK, PositionOrNone, Exists, MarkFailed
  <2> QED BY <2>2, <2>3 DEF AttemptsInv
<1>26. ASSUME NEW t \in SellTasks, BeginSelling(t) PROVE AttemptsInv'
  <2>1. t \in Cleared
    BY <1>26 DEF BeginSelling, Cleared
  <2>2. \A u \in SellTasks \ {t} : task'[u] = task[u]
    BY <1>26 DEF BeginSelling, Goto, Finish, TypeOK
  <2>3. task'[t].pc # "cleared"
    BY <1>26 DEF BeginSelling, Goto, Finish, IdleTask, TypeOK, SellTask
  <2>4. Cleared' = Cleared \ {t}
    BY <2>2, <2>3 DEF Cleared
  <2>5. Cardinality(Cleared') = Cardinality(Cleared) - 1
    BY <2>1, <2>4, ClearedFinite, FS_RemoveElement
  <2>6. /\ pos'.attempts \in {pos.attempts, pos.attempts + 1}
        /\ Exists(pos) => Exists(pos')
        /\ ~Exists(pos) => pos' = pos
    BY <1>26
    DEF BeginSelling, MarkSelling, Sellable, Exists, TypeOK, PositionOrNone
  <2>7. ~Exists(pos') => pos'.attempts = 0
    BY <2>6 DEF AttemptsInv
  <2>8. pos.attempts \in Nat /\ MaxAttempts \in Nat
    BY AutoSellAssumption DEF TypeOK, PositionOrNone
  <2>9. pos'.attempts + Cardinality(Cleared')
          <= MaxAttempts - 1 + Cardinality(SellTasks)
    BY <2>5, <2>6, <2>8, ClearedFinite DEF AttemptsInv
  <2> QED BY <2>7, <2>9 DEF AttemptsInv
<1>27. ASSUME NEW t \in SellTasks, ReadBalance(t) PROVE AttemptsInv'
  <2>1. \A u \in SellTasks \ {t} : task'[u] = task[u]
    BY <1>27 DEF TypeOK, ReadBalance
  <2>2. Cleared' = Cleared
    BY <1>27, <2>1 DEF TypeOK, SellTask, ReadBalance, Cleared
  <2>3. pos' = pos
    BY <1>27 DEF ReadBalance
  <2> QED BY <2>2, <2>3 DEF AttemptsInv
<1>28. ASSUME NEW t \in SellTasks, FailZero(t) PROVE AttemptsInv'
  <2>1. \A u \in SellTasks \ {t} : task'[u] = task[u]
    BY <1>28 DEF TypeOK, FailZero, Finish, IdleTask
  <2>2. Cleared' = Cleared
    BY <1>28, <2>1 DEF TypeOK, SellTask, FailZero, Cleared, Finish, IdleTask
  <2>3. pos'.attempts = pos.attempts /\ (Exists(pos) => Exists(pos'))
    BY <1>28 DEF FailZero, TypeOK, PositionOrNone, Exists, MarkFailed
  <2> QED BY <2>2, <2>3 DEF AttemptsInv
<1>29. ASSUME NEW t \in SellTasks, TrySell(t) PROVE AttemptsInv'
  <2>1. \A u \in SellTasks \ {t} : task'[u] = task[u]
    BY <1>29 DEF TypeOK, TrySell, NextTry
  <2>2. Cleared' = Cleared
    BY <1>29, <2>1 DEF TypeOK, SellTask, TrySell, Cleared, NextTry
  <2>3. pos' = pos
    BY <1>29 DEF TrySell
  <2> QED BY <2>2, <2>3 DEF AttemptsInv
<1>30. ASSUME NEW t \in SellTasks, SellConfirmed(t) PROVE AttemptsInv'
  <2>1. \A u \in SellTasks \ {t} : task'[u] = task[u]
    BY <1>30 DEF TypeOK, SellConfirmed, Goto
  <2>2. Cleared' = Cleared
    BY <1>30, <2>1 DEF TypeOK, SellTask, SellConfirmed, Cleared, Goto
  <2>3. pos' = pos
    BY <1>30 DEF SellConfirmed
  <2> QED BY <2>2, <2>3 DEF AttemptsInv
<1>31. ASSUME NEW t \in SellTasks, SellUnconfirmed(t) PROVE AttemptsInv'
  <2>1. \A u \in SellTasks \ {t} : task'[u] = task[u]
    BY <1>31 DEF TypeOK, SellUnconfirmed, NextTry
  <2>2. Cleared' = Cleared
    BY <1>31, <2>1 DEF TypeOK, SellTask, SellUnconfirmed, Cleared, NextTry
  <2>3. pos' = pos
    BY <1>31 DEF SellUnconfirmed
  <2> QED BY <2>2, <2>3 DEF AttemptsInv
<1>32. ASSUME NEW t \in SellTasks, CloseSold(t) PROVE AttemptsInv'
  <2>1. \A u \in SellTasks \ {t} : task'[u] = task[u]
    BY <1>32 DEF TypeOK, CloseSold, Finish, IdleTask
  <2>2. Cleared' = Cleared
    BY <1>32, <2>1 DEF TypeOK, SellTask, CloseSold, Cleared, Finish, IdleTask
  <2>3. pos'.attempts = pos.attempts /\ (Exists(pos) => Exists(pos'))
    BY <1>32 DEF CloseSold, TypeOK, PositionOrNone, Exists, MarkClosed
  <2> QED BY <2>2, <2>3 DEF AttemptsInv
<1>33. ASSUME NEW t \in SellTasks, ReadRemaining(t) PROVE AttemptsInv'
  <2>1. \A u \in SellTasks \ {t} : task'[u] = task[u]
    BY <1>33 DEF TypeOK, ReadRemaining, Goto
  <2>2. Cleared' = Cleared
    BY <1>33, <2>1 DEF TypeOK, SellTask, ReadRemaining, Cleared, Goto
  <2>3. pos' = pos
    BY <1>33 DEF ReadRemaining
  <2> QED BY <2>2, <2>3 DEF AttemptsInv
<1>34. ASSUME NEW t \in SellTasks, Revert(t) PROVE AttemptsInv'
  <2>1. \A u \in SellTasks \ {t} : task'[u] = task[u]
    BY <1>34 DEF TypeOK, Revert, Finish, IdleTask
  <2>2. Cleared' = Cleared
    BY <1>34, <2>1 DEF TypeOK, SellTask, Revert, Cleared, Finish, IdleTask
  <2>3. pos'.attempts = pos.attempts /\ (Exists(pos) => Exists(pos'))
    BY <1>34
    DEF Revert, TypeOK, PositionOrNone, Exists, AfterFailedSale, RevertToActive
  <2> QED BY <2>2, <2>3 DEF AttemptsInv
<1>35. ASSUME NEW t \in SellTasks, FailEmpty(t) PROVE AttemptsInv'
  <2>1. \A u \in SellTasks \ {t} : task'[u] = task[u]
    BY <1>35 DEF TypeOK, FailEmpty, Finish, IdleTask
  <2>2. Cleared' = Cleared
    BY <1>35, <2>1 DEF TypeOK, SellTask, FailEmpty, Cleared, Finish, IdleTask
  <2>3. pos'.attempts = pos.attempts /\ (Exists(pos) => Exists(pos'))
    BY <1>35 DEF FailEmpty, TypeOK, PositionOrNone, Exists, MarkFailed
  <2> QED BY <2>2, <2>3 DEF AttemptsInv
<1>36. CASE UNCHANGED vars
  BY <1>36 DEF AttemptsInv, Cleared, vars
<1> QED BY <1>1, <1>2, <1>3, <1>4, <1>5, <1>6, <1>7, <1>8, <1>9, <1>10, <1>11,
           <1>12, <1>13, <1>14, <1>15, <1>16, <1>17, <1>18, <1>19, <1>20,
           <1>21, <1>22, <1>23, <1>24, <1>25, <1>26, <1>27, <1>28, <1>29,
           <1>30, <1>31, <1>32, <1>33, <1>34, <1>35, <1>36
             DEF Next, Buying, Chain, Monitoring, ConfirmerStep, Signalling,
                 SellStep

(* The limit of attempts is overrun by fewer sales than there are tasks.   *)
THEOREM AttemptsAreBounded == Spec => []AttemptsBounded
<1>1. Init => AttemptsInv
  <2> SUFFICES ASSUME Init PROVE AttemptsInv
    OBVIOUS
  <2>1. Cleared = {}
    BY DEF Init, Cleared, IdleTask
  <2>2. Cardinality(Cleared) = 0
    BY <2>1, FS_EmptySet
  <2> QED BY <2>2, ClearedFinite, AutoSellAssumption
          DEF Init, AttemptsInv, NoPosition
<1>2. TypeOK /\ AttemptsInv => AttemptsBounded
  BY ClearedFinite, AutoSellAssumption
  DEF TypeOK, PositionOrNone, AttemptsInv, AttemptsBounded
<1> QED BY <1>1, <1>2, TypeCorrect, AttemptsStep, PTL DEF Spec

-----------------------------------------------------------------------------
(* The sales run down.                                                     *)

\* What is left depends on the place in the code and on the try alone.
LEMMA StepsLeftTyped ==
  ASSUME TypeOK, NEW t \in SellTasks
  PROVE  StepsLeft(t) \in Nat
<1>1. MaxRetries \in Nat /\ task[t].try \in 0 .. MaxRetries
  BY TasksTyped, AutoSellAssumption DEF SellTask
<1> QED BY <1>1 DEF StepsLeft

LEMMA StepsLeftKept ==
  ASSUME NEW t \in SellTasks, task'[t].pc = task[t].pc,
         task'[t].try = task[t].try
  PROVE  StepsLeft(t)' = StepsLeft(t)
  BY DEF StepsLeft

LEMMA NextTryParts ==
  ASSUME NEW t \in SellTasks, task[t] \in SellTask
  PROVE  IF task[t].try < MaxRetries
         THEN NextTry(t).pc = "trying" /\ NextTry(t).try = task[t].try + 1
         ELSE NextTry(t).pc = "exhausted"
  BY DEF NextTry, SellTask

\* The next try is nearer to the end than a try or a wait for its answer.
LEMMA NextTryIsNearer ==
  ASSUME TypeOK, NEW t \in SellTasks, task[t].pc \in {"trying", "waiting"},
         task' = [task EXCEPT ![t] = NextTry(t)]
  PROVE  StepsLeft(t)' < StepsLeft(t)
<1>1. /\ MaxRetries \in Nat /\ task[t].try \in 0 .. MaxRetries
      /\ task[t] \in SellTask
  BY TasksTyped, AutoSellAssumption DEF SellTask
<1>2. task'[t] = NextTry(t)
  BY DEF TypeOK
<1>3. StepsLeft(t) >= 2 * (MaxRetries - task[t].try) + 3
  BY <1>1 DEF StepsLeft
<1>4. CASE task[t].try < MaxRetries
  <2>1. task'[t].pc = "trying" /\ task'[t].try = task[t].try + 1
    BY <1>1, <1>2, <1>4, NextTryParts
  <2>2. StepsLeft(t)' = 2 * (MaxRetries - (task[t].try + 1)) + 4
    BY <1>1, <2>1 DEF StepsLeft
  <2>3. StepsLeft(t) \in Nat BY StepsLeftTyped
  <2> QED BY <1>1, <1>3, <2>2, <2>3
<1>5. CASE ~(task[t].try < MaxRetries)
  <2>1. task'[t].pc = "exhausted"
    BY <1>1, <1>2, <1>5, NextTryParts
  <2>2. StepsLeft(t)' = 2
    BY <2>1 DEF StepsLeft
  <2>3. StepsLeft(t) \in Nat BY StepsLeftTyped
  <2> QED BY <1>1, <1>3, <2>2, <2>3
<1> QED BY <1>4, <1>5

\* A step of the task itself.
LEMMA SellStepRunsDown ==
  ASSUME TypeOK, NEW t \in SellTasks, SellStep(t)
  PROVE  /\ StepsLeft(t)' < StepsLeft(t)
         /\ \A u \in SellTasks \ {t} : task'[u] = task[u]
<1>1. /\ MaxRetries \in Nat \ {0} /\ task[t].try \in 0 .. MaxRetries
      /\ task[t] \in SellTask
  BY TasksTyped, AutoSellAssumption DEF SellTask
<1>2. ASSUME Finish(t), task[t].pc \in {"cleared", "givingUp", "zero", "sold",
                                       "remains", "empty"}
      PROVE  StepsLeft(t)' < StepsLeft(t)
  <2>1. task'[t].pc = "idle"
    BY <1>2 DEF Finish, IdleTask, TypeOK
  <2> QED BY <1>1, <1>2, <2>1 DEF StepsLeft
<1>3. ASSUME NEW pc \in ControlPoints, Goto(t, pc)
      PROVE  task'[t].pc = pc
  BY <1>1, <1>3 DEF Goto, TypeOK, SellTask
<1>4. \A u \in SellTasks \ {t} : task'[u] = task[u]
  BY DEF SellStep, CheckAttempts, GiveUp, BeginSelling, ReadBalance, FailZero,
         TrySell, SellConfirmed, SellUnconfirmed, CloseSold, ReadRemaining,
         Revert, FailEmpty, Goto, Finish, TypeOK
<1>5. CASE CheckAttempts(t)
  <2>1. task'[t].pc \in {"givingUp", "cleared"}
    BY <1>3, <1>5 DEF CheckAttempts, ControlPoints
  <2> QED BY <1>1, <1>4, <1>5, <2>1 DEF CheckAttempts, StepsLeft
<1>6. CASE GiveUp(t) \/ FailZero(t) \/ CloseSold(t) \/ Revert(t) \/ FailEmpty(t)
  BY <1>2, <1>4, <1>6 DEF GiveUp, FailZero, CloseSold, Revert, FailEmpty
<1>7. CASE BeginSelling(t)
  <2>1. CASE TookPosition(pos)
    <3>1. task'[t].pc = "reading"
      BY <1>3, <1>7, <2>1 DEF BeginSelling, ControlPoints
    <3> QED BY <1>1, <1>4, <1>7, <3>1 DEF BeginSelling, StepsLeft
  <2>2. CASE ~TookPosition(pos)
    BY <1>2, <1>4, <1>7, <2>2 DEF BeginSelling
  <2> QED BY <2>1, <2>2
<1>8. CASE ReadBalance(t)
  <2>1. \/ task'[t].pc = "zero"
        \/ task'[t].pc = "trying" /\ task'[t].try = 1
    BY <1>1, <1>8 DEF ReadBalance, TypeOK, SellTask
  <2>2. StepsLeft(t) = 2 * MaxRetries + 3
    BY <1>8 DEF ReadBalance, StepsLeft
  <2>3. StepsLeft(t)' \in {1, 2 * (MaxRetries - 1) + 4}
    BY <2>1 DEF StepsLeft
  <2> QED BY <1>1, <1>4, <2>2, <2>3
<1>9. CASE TrySell(t)
  <2>1. CASE task' = [task EXCEPT ![t].pc = "waiting", ![t].tx = "pending"]
    <3>1. task'[t].pc = "waiting" /\ task'[t].try = task[t].try
      BY <1>1, <2>1 DEF TypeOK, SellTask
    <3> QED BY <1>1, <1>4, <1>9, <3>1 DEF TrySell, StepsLeft
  <2>2. CASE task' = [task EXCEPT ![t] = NextTry(t)]
    BY <1>4, <1>9, <2>2, NextTryIsNearer DEF TrySell
  <2> QED BY <1>9, <2>1, <2>2 DEF TrySell
<1>10. CASE SellConfirmed(t)
  <2>1. task'[t].pc = "sold"
    BY <1>3, <1>10 DEF SellConfirmed, ControlPoints
  <2> QED BY <1>1, <1>4, <1>10, <2>1 DEF SellConfirmed, StepsLeft
<1>11. CASE SellUnconfirmed(t)
  BY <1>4, <1>11, NextTryIsNearer DEF SellUnconfirmed
<1>12. CASE ReadRemaining(t)
  <2>1. task'[t].pc \in {"remains", "empty"}
    BY <1>3, <1>12 DEF ReadRemaining, ControlPoints
  <2> QED BY <1>1, <1>4, <1>12, <2>1 DEF ReadRemaining, StepsLeft
<1> QED BY <1>5, <1>6, <1>7, <1>8, <1>9, <1>10, <1>11, <1>12 DEF SellStep

\* Whatever else happens.
LEMMA OthersDoNotDelay ==
  ASSUME TypeOK, NEW t \in SellTasks, task[t].pc # "idle", [Next]_vars
  PROVE  StepsLeft(t)' <= StepsLeft(t)
<1>1. StepsLeft(t) \in Nat BY StepsLeftTyped
<1>2. ASSUME task'[t] = task[t] PROVE StepsLeft(t)' <= StepsLeft(t)
  BY <1>1, <1>2, StepsLeftKept
<1>3. CASE Buying
  BY <1>2, <1>3 DEF Buying, TrackMint, FireBuy, OpenPosition
<1>4. CASE Chain
  <2>1. ASSUME NEW u \in SellTasks, SellSettles(u)
        PROVE  StepsLeft(t)' <= StepsLeft(t)
    <3>1. task[t] \in SellTask BY TasksTyped
    <3>2. PICK tx \in {"landed", "failed"} : task' = [task EXCEPT ![u].tx = tx]
      BY <2>1 DEF SellSettles
    <3>3. task'[t] \in {task[t], [task[t] EXCEPT !.tx = tx]}
      BY <3>2 DEF TypeOK
    <3>4. task'[t].pc = task[t].pc /\ task'[t].try = task[t].try
      BY <3>1, <3>3 DEF SellTask
    <3> QED BY <1>1, <3>4, StepsLeftKept
  <2> QED BY <1>2, <1>4, <2>1 DEF Chain, BuyLands, BuyFails, LateSellLands, Tick
<1>5. CASE Monitoring
  BY <1>2, <1>5 DEF Monitoring, AtaUpdate, AtaEvent, FallbackCheck,
                    FallbackRead, FallbackApply, FallbackPurge
<1>6. CASE ConfirmerStep
  BY <1>2, <1>6 DEF ConfirmerStep, ConfirmerStatus, ConfirmerCredit,
                    ConfirmerSucceeds, ConfirmerExpires
<1>7. CASE Signalling
  <2>1. PICK u \in SellTasks : Signal(u)
    BY <1>7 DEF Signalling, GrpcSignal, FallbackPriceSignal,
                FallbackLifetimeSignal, ManualSignal, FollowSignal
  <2> QED BY <1>2, <2>1 DEF Signal, Goto, TypeOK
<1>8. ASSUME NEW u \in SellTasks, SellStep(u)
      PROVE  StepsLeft(t)' <= StepsLeft(t)
  <2>1. CASE u = t
    <3>1. StepsLeft(t)' < StepsLeft(t) BY <1>8, <2>1, SellStepRunsDown
    <3>2. /\ MaxRetries \in Nat /\ task'[t] \in SellTask
          /\ task'[t].try \in 0 .. MaxRetries
      BY TypeStep, AutoSellAssumption DEF TypeOK, SellTask
    <3>3. StepsLeft(t)' \in Nat BY <3>2 DEF StepsLeft
    <3> QED BY <1>1, <3>1, <3>3
  <2>2. CASE u # t
    BY <1>2, <1>8, <2>2, SellStepRunsDown
  <2> QED BY <2>1, <2>2
<1>9. CASE UNCHANGED vars
  BY <1>2, <1>9 DEF vars
<1> QED BY <1>3, <1>4, <1>5, <1>6, <1>7, <1>8, <1>9 DEF Next

\* Every handling of a signal comes to its end after at most five steps and
\* two for each try, whatever the other tasks and the chain do: the part of
\* SellingEnds that does not depend on scheduling, for every number of tries.
THEOREM SalesComeToAnEnd == Spec => SalesRunDown
<1>1. ASSUME TypeOK, [Next]_vars
      PROVE  \A t \in SellTasks :
               /\ SellStep(t) => StepsLeft(t)' < StepsLeft(t)
               /\ task[t].pc # "idle" => StepsLeft(t)' <= StepsLeft(t)
  BY <1>1, SellStepRunsDown, OthersDoNotDelay
<1> QED BY <1>1, TypeCorrect, PTL DEF Spec, SalesRunDown
-----------------------------------------------------------------------------
(* Refinement.                                                             *)

\* Every step of every task is a step of the contract, or changes nothing
\* that the contract speaks of.
LEMMA ContractStep ==
  ASSUME TypeOK, SellExclusive, Lifecycle, Evidence, Evidence', [Next]_vars
  PROVE  [Contract!Next]_Contract!vars
<1> DEFINE Stutters == Phase' = Phase /\ Owners' = Owners /\ Tokens' = Tokens
<1> DEFINE Goal == Contract!Next \/ Stutters
<1> USE DEF chainVars, ataVars
<1>1. ASSUME TrackMint PROVE Goal
  BY <1>1 DEF TrackMint, Phase, Tokens, Owners
<1>2. ASSUME FireBuy PROVE Goal
  BY <1>2 DEF FireBuy, Phase, Tokens, Owners
<1>3. ASSUME OpenPosition PROVE Goal
  <2>1. Phase = "Unopened" /\ Phase' = "Confirming"
    BY <1>3, OpenedPosition DEF OpenPosition, Lifecycle, Phase, Exists
  <2>2. UNCHANGED <<Owners, Tokens>>
    BY <1>3 DEF OpenPosition, Owners, Tokens
  <2> QED BY <2>1, <2>2 DEF Contract!Next, Contract!Open
<1>4. ASSUME BuyLands PROVE Goal
  <2>1. Tokens = "none" /\ Tokens' = "held"
    BY <1>4, AutoSellAssumption DEF BuyLands, Tokens
  <2>2. UNCHANGED <<Phase, Owners>>
    BY <1>4 DEF BuyLands, Phase, Owners
  <2> QED BY <2>1, <2>2 DEF Contract!Next, Contract!Buy
<1>5. ASSUME BuyFails PROVE Goal
  BY <1>5 DEF BuyFails, Phase, Tokens, Owners
<1>6. ASSUME NEW t \in SellTasks, SellSettles(t) PROVE Goal
  <2>1. balance \in Nat /\ balance' \in Nat /\ balance' <= balance
    <3>1. task[t].amount \in Nat /\ balance \in Nat
      BY TasksTyped DEF TypeOK, SellTask
    <3> QED BY <1>6, <3>1 DEF SellSettles
  <2>2. Tokens' = Tokens \/ (Tokens = "held" /\ Tokens' = "sold")
    BY <1>6, <2>1 DEF SellSettles, Tokens
  <2>3. Owners' = Owners
    BY <1>6, OwnersKept DEF KeepsOwners
  <2>4. Phase' = Phase
    BY <1>6 DEF SellSettles, Phase
  <2> QED BY <2>2, <2>3, <2>4 DEF Contract!Next, Contract!SellOut
<1>7. ASSUME NEW a \in 1 .. Bought, LateSellLands(a) PROVE Goal
  <2>1. balance \in Nat /\ balance' \in Nat /\ balance' <= balance
    BY <1>7 DEF TypeOK, LateSellLands
  <2>2. Tokens' = Tokens \/ (Tokens = "held" /\ Tokens' = "sold")
    BY <1>7, <2>1 DEF LateSellLands, Tokens
  <2>3. Owners' = Owners
    BY <1>7 DEF LateSellLands, Owners
  <2>4. Phase' = Phase
    BY <1>7 DEF LateSellLands, Phase
  <2> QED BY <2>2, <2>3, <2>4 DEF Contract!Next, Contract!SellOut
<1>8. ASSUME Tick PROVE Goal
  BY <1>8 DEF Tick, Phase, Tokens, Owners
<1>9. ASSUME AtaUpdate PROVE Goal
  BY <1>9 DEF AtaUpdate, Phase, Tokens, Owners
<1>10. ASSUME NEW a \in 0 .. Bought, AtaEvent(a) PROVE Goal
  <2>1. UNCHANGED <<Owners, Tokens>>
    BY <1>10 DEF AtaEvent, Owners, Tokens
  <2>2. \/ Phase' = Phase
        \/ Phase = "Confirming" /\ Phase' = "Active"
        \/ Phase \notin {"Unopened", "Dropped"} /\ Phase' = "Failed"
    BY <1>10
    DEF AtaEvent, MarkActive, TypeOK, PositionOrNone, States, Lifecycle, Phase,
        Exists
  <2>3. Phase' = "Active" => Tokens' # "none"
    BY DEF Evidence, ActiveMeansBought, Phase, Tokens, Exists
  <2> QED BY <2>1, <2>2, <2>3
          DEF Contract!Next, Contract!Confirm, Contract!GiveUp
<1>11. ASSUME ConfirmerStatus PROVE Goal
  <2>1. UNCHANGED <<Owners, Tokens>>
    BY <1>11 DEF ConfirmerStatus, Owners, Tokens
  <2>2. \/ Phase' = Phase
        \/ Phase = "Confirming" /\ Phase' = "Active"
        \/ Phase \notin {"Unopened", "Dropped"} /\ Phase' = "Failed"
    BY <1>11
    DEF ConfirmerStatus, MarkFailed, TypeOK, PositionOrNone, States, Lifecycle,
        Phase, Exists
  <2>3. Phase' = "Active" => Tokens' # "none"
    BY DEF Evidence, ActiveMeansBought, Phase, Tokens, Exists
  <2> QED BY <2>1, <2>2, <2>3
          DEF Contract!Next, Contract!Confirm, Contract!GiveUp
<1>12. ASSUME ConfirmerCredit PROVE Goal
  BY <1>12 DEF ConfirmerCredit, Phase, Tokens, Owners
<1>13. ASSUME ConfirmerSucceeds PROVE Goal
  <2>1. UNCHANGED <<Owners, Tokens>>
    BY <1>13 DEF ConfirmerSucceeds, Owners, Tokens
  <2>2. \/ Phase' = Phase
        \/ Phase = "Confirming" /\ Phase' = "Active"
        \/ Phase \notin {"Unopened", "Dropped"} /\ Phase' = "Failed"
    BY <1>13
    DEF ConfirmerSucceeds, ConfirmSuccess, MarkActive, TypeOK, PositionOrNone,
        States, Lifecycle, Phase, Exists
  <2>3. Phase' = "Active" => Tokens' # "none"
    BY DEF Evidence, ActiveMeansBought, Phase, Tokens, Exists
  <2> QED BY <2>1, <2>2, <2>3
          DEF Contract!Next, Contract!Confirm, Contract!GiveUp
<1>14. ASSUME ConfirmerExpires PROVE Goal
  <2>1. UNCHANGED <<Owners, Tokens>>
    BY <1>14 DEF ConfirmerExpires, Owners, Tokens
  <2>2. \/ Phase' = Phase
        \/ Phase = "Confirming" /\ Phase' = "Active"
        \/ Phase \notin {"Unopened", "Dropped"} /\ Phase' = "Failed"
    BY <1>14
    DEF ConfirmerExpires, MarkFailed, TypeOK, PositionOrNone, States,
        Lifecycle, Phase, Exists
  <2>3. Phase' = "Active" => Tokens' # "none"
    BY DEF Evidence, ActiveMeansBought, Phase, Tokens, Exists
  <2> QED BY <2>1, <2>2, <2>3
          DEF Contract!Next, Contract!Confirm, Contract!GiveUp
<1>15. ASSUME FallbackCheck PROVE Goal
  BY <1>15 DEF FallbackCheck, Phase, Tokens, Owners
<1>16. ASSUME FallbackRead PROVE Goal
  BY <1>16 DEF FallbackRead, Phase, Tokens, Owners
<1>17. ASSUME FallbackApply PROVE Goal
  <2>1. UNCHANGED <<Owners, Tokens>>
    BY <1>17 DEF FallbackApply, Owners, Tokens
  <2>2. \/ Phase' = Phase
        \/ Phase = "Confirming" /\ Phase' = "Active"
        \/ Phase \notin {"Unopened", "Dropped"} /\ Phase' = "Failed"
    BY <1>17
    DEF FallbackApply, MarkActive, MarkFailed, TypeOK, PositionOrNone, States,
        Lifecycle, Phase, Exists
  <2>3. Phase' = "Active" => Tokens' # "none"
    BY DEF Evidence, ActiveMeansBought, Phase, Tokens, Exists
  <2> QED BY <2>1, <2>2, <2>3
          DEF Contract!Next, Contract!Confirm, Contract!GiveUp
<1>18. ASSUME FallbackPurge PROVE Goal
  <2>1. UNCHANGED <<Owners, Tokens>>
    BY <1>18 DEF FallbackPurge, Owners, Tokens
  <2>2. Phase \in {"Closed", "Failed"} /\ Phase' = "Dropped"
    BY <1>18 DEF FallbackPurge, NoPosition, Lifecycle, Phase, Exists
  <2> QED BY <2>1, <2>2 DEF Contract!Next, Contract!Drop
<1>19. ASSUME NEW t \in SellTasks, GrpcSignal(t) PROVE Goal
  <2>1. Owners' = Owners
    BY <1>19, OwnersKept DEF KeepsOwners, GrpcSignal
  <2> QED BY <1>19, <2>1 DEF GrpcSignal, Signal, Phase, Tokens
<1>20. ASSUME NEW t \in SellTasks, FallbackPriceSignal(t) PROVE Goal
  <2>1. Owners' = Owners
    BY <1>20, OwnersKept DEF KeepsOwners, FallbackPriceSignal
  <2> QED BY <1>20, <2>1 DEF FallbackPriceSignal, Signal, Phase, Tokens
<1>21. ASSUME NEW t \in SellTasks, FallbackLifetimeSignal(t) PROVE Goal
  <2>1. Owners' = Owners
    BY <1>21, OwnersKept DEF KeepsOwners, FallbackLifetimeSignal
  <2> QED BY <1>21, <2>1 DEF FallbackLifetimeSignal, Signal, Phase, Tokens
<1>22. ASSUME NEW t \in SellTasks, ManualSignal(t) PROVE Goal
  <2>1. Owners' = Owners
    BY <1>22, OwnersKept DEF KeepsOwners, ManualSignal
  <2> QED BY <1>22, <2>1 DEF ManualSignal, Signal, Phase, Tokens
<1>23. ASSUME NEW t \in SellTasks, FollowSignal(t) PROVE Goal
  <2>1. Owners' = Owners
    BY <1>23, OwnersKept DEF KeepsOwners, FollowSignal
  <2> QED BY <1>23, <2>1 DEF FollowSignal, Signal, Phase, Tokens
<1>24. ASSUME NEW t \in SellTasks, CheckAttempts(t) PROVE Goal
  <2>1. Owners' = Owners
    BY <1>24, OwnersKept DEF KeepsOwners
  <2> QED BY <1>24, <2>1 DEF CheckAttempts, Phase, Tokens
<1>25. ASSUME NEW t \in SellTasks, GiveUp(t) PROVE Goal
  <2>1. Owners' = Owners
    BY <1>25, OwnersKept DEF KeepsOwners
  <2>2. Tokens' = Tokens
    BY <1>25 DEF GiveUp, Tokens
  <2>3. \/ Phase' = Phase
        \/ Phase \notin {"Unopened", "Dropped"} /\ Phase' = "Failed"
    BY <1>25
    DEF GiveUp, MarkFailed, TypeOK, PositionOrNone, States, Phase, Exists
  <2> QED BY <2>1, <2>2, <2>3 DEF Contract!Next, Contract!GiveUp
<1>26. ASSUME NEW t \in SellTasks, BeginSelling(t) PROVE Goal
  <2>1. Tokens' = Tokens
    BY <1>26 DEF BeginSelling, Tokens
  <2>2. CASE Sellable(pos)
    <3>1. Owners = {} /\ Owners' = {t}
      BY <1>26, <2>2, OwnerTakes DEF SellExclusive, Sellable
    <3>2. Phase \in {"Confirming", "Active"} /\ Phase' = "Selling"
      BY <1>26, <2>2
      DEF BeginSelling, MarkSelling, Sellable, TypeOK, PositionOrNone,
          Lifecycle, Phase, Exists
    <3> QED BY <2>1, <3>1, <3>2 DEF Contract!Next, Contract!Take
  <2>3. CASE ~Sellable(pos)
    <3>1. Owners' = Owners
      BY <1>26, <2>3, OwnerTakes
    <3>2. Phase' = Phase
      BY <1>26, <2>3 DEF BeginSelling, MarkSelling, Phase
    <3> QED BY <2>1, <3>1, <3>2
  <2> QED BY <2>2, <2>3
<1>27. ASSUME NEW t \in SellTasks, ReadBalance(t) PROVE Goal
  <2>1. Owners' = Owners
    BY <1>27, OwnersKept DEF KeepsOwners
  <2> QED BY <1>27, <2>1 DEF ReadBalance, Phase, Tokens
<1>28. ASSUME NEW t \in SellTasks, FailZero(t) PROVE Goal
  <2>1. Owners = {t} /\ Owners' = {} /\ Tokens' = Tokens
    <3>1. t \in Owners /\ Owners' = Owners \ {t}
      BY <1>28, OwnerLetsGo DEF LetsGo
    <3> QED BY <1>28, <3>1 DEF FailZero, SellExclusive, Owners, Tokens
  <2>2. pos.state \in {"Selling", "Failed", "Absent"}
    BY <2>1 DEF SellExclusive
  <2>3. Phase' = IF Phase = "Selling" THEN "Failed" ELSE Phase
    BY <1>28, <2>2
    DEF FailZero, MarkFailed, TypeOK, PositionOrNone, Phase, Exists
  <2> QED BY <2>1, <2>3 DEF Contract!Next, Contract!Abandon
<1>29. ASSUME NEW t \in SellTasks, TrySell(t) PROVE Goal
  <2>1. Owners' = Owners
    BY <1>29, OwnersKept DEF KeepsOwners
  <2> QED BY <1>29, <2>1 DEF TrySell, Phase, Tokens
<1>30. ASSUME NEW t \in SellTasks, SellConfirmed(t) PROVE Goal
  <2>1. Owners' = Owners
    BY <1>30, OwnersKept DEF KeepsOwners
  <2> QED BY <1>30, <2>1 DEF SellConfirmed, Phase, Tokens
<1>31. ASSUME NEW t \in SellTasks, SellUnconfirmed(t) PROVE Goal
  <2>1. Owners' = Owners
    BY <1>31, OwnersKept DEF KeepsOwners
  <2> QED BY <1>31, <2>1 DEF SellUnconfirmed, Phase, Tokens
<1>32. ASSUME NEW t \in SellTasks, CloseSold(t) PROVE Goal
  <2>1. Owners = {t} /\ Owners' = {} /\ Tokens' = Tokens
    <3>1. t \in Owners /\ Owners' = Owners \ {t}
      BY <1>32, OwnerLetsGo DEF LetsGo
    <3> QED BY <1>32, <3>1 DEF CloseSold, SellExclusive, Owners, Tokens
  <2>2. pos.state \in {"Selling", "Failed", "Absent"}
    BY <2>1 DEF SellExclusive
  <2>3. CASE pos.state = "Selling"
    <3>1. Phase = "Selling" /\ Phase' = "Closed" /\ pos'.state = "Closed"
      BY <1>32, <2>3
      DEF CloseSold, MarkClosed, TypeOK, PositionOrNone, Phase, Exists
    <3>2. Tokens = "sold"
      BY <2>1, <3>1 DEF Evidence, ClosedMeansSold, Tokens, TypeOK
    <3> QED BY <2>1, <3>1, <3>2 DEF Contract!Next, Contract!Close
  <2>4. CASE pos.state # "Selling"
    <3>1. Phase' = Phase /\ Phase # "Selling"
      BY <1>32, <2>2, <2>4 DEF CloseSold, MarkClosed, Phase, Exists
    <3> QED BY <2>1, <3>1 DEF Contract!Next, Contract!Abandon
  <2> QED BY <2>3, <2>4
<1>33. ASSUME NEW t \in SellTasks, ReadRemaining(t) PROVE Goal
  <2>1. Owners' = Owners
    BY <1>33, OwnersKept DEF KeepsOwners
  <2> QED BY <1>33, <2>1 DEF ReadRemaining, Phase, Tokens
<1>34. ASSUME NEW t \in SellTasks, Revert(t) PROVE Goal
  <2>1. Owners = {t} /\ Owners' = {} /\ Tokens' = Tokens
    <3>1. t \in Owners /\ Owners' = Owners \ {t}
      BY <1>34, OwnerLetsGo DEF LetsGo
    <3> QED BY <1>34, <3>1 DEF Revert, SellExclusive, Owners, Tokens
  <2>2. pos.state \in {"Selling", "Failed", "Absent"}
    BY <2>1 DEF SellExclusive
  <2>3. CASE pos.state = "Selling"
    <3>1. Phase = "Selling" /\ Phase' = "Active" /\ pos'.state = "Active"
      BY <1>34, <2>3
      DEF Revert, AfterFailedSale, RevertToActive, TypeOK, PositionOrNone,
          Phase, Exists
    <3>2. Tokens # "none"
      BY <2>1, <3>1 DEF Evidence, ActiveMeansBought, Tokens, TypeOK
    <3> QED BY <2>1, <3>1, <3>2 DEF Contract!Next, Contract!Release
  <2>4. CASE pos.state # "Selling"
    <3>1. Phase' = Phase /\ Phase # "Selling"
      BY <1>34, <2>2, <2>4
      DEF Revert, AfterFailedSale, RevertToActive, Phase, Exists
    <3> QED BY <2>1, <3>1 DEF Contract!Next, Contract!Abandon
  <2> QED BY <2>3, <2>4
<1>35. ASSUME NEW t \in SellTasks, FailEmpty(t) PROVE Goal
  <2>1. Owners = {t} /\ Owners' = {} /\ Tokens' = Tokens
    <3>1. t \in Owners /\ Owners' = Owners \ {t}
      BY <1>35, OwnerLetsGo DEF LetsGo
    <3> QED BY <1>35, <3>1 DEF FailEmpty, SellExclusive, Owners, Tokens
  <2>2. pos.state \in {"Selling", "Failed", "Absent"}
    BY <2>1 DEF SellExclusive
  <2>3. Phase' = IF Phase = "Selling" THEN "Failed" ELSE Phase
    BY <1>35, <2>2
    DEF FailEmpty, MarkFailed, TypeOK, PositionOrNone, Phase, Exists
  <2> QED BY <2>1, <2>3 DEF Contract!Next, Contract!Abandon
<1>36. ASSUME UNCHANGED vars PROVE Goal
  BY <1>36 DEF vars, Phase, Tokens, Owners
<1>37. Goal
  BY <1>1, <1>2, <1>3, <1>4, <1>5, <1>6, <1>7, <1>8, <1>9, <1>10, <1>11, <1>12,
     <1>13, <1>14, <1>15, <1>16, <1>17, <1>18, <1>19, <1>20, <1>21, <1>22,
     <1>23, <1>24, <1>25, <1>26, <1>27, <1>28, <1>29, <1>30, <1>31, <1>32,
     <1>33, <1>34, <1>35, <1>36
       DEF Next, Buying, Chain, Monitoring, ConfirmerStep, Signalling, SellStep
<1> QED BY <1>37 DEF Contract!vars

(* The concurrent tasks implement the contract of a single careful owner.  *)
THEOREM ImplementsContract == Spec => KeepsContract
<1>1. Init => SellExclusive /\ Lifecycle
  BY DEF Init, SellExclusive, Lifecycle, Owners, OwnerPoints, NoPosition,
         IdleTask
<1>2. Init => Contract!Init
  BY DEF Init, Contract!Init, Phase, Owners, OwnerPoints, Tokens,
         NoPosition, Exists, IdleTask
<1> QED BY <1>1, <1>2, TypeCorrect, EvidenceHolds, ExclusiveStep,
           ContractStep, PTL DEF Spec, KeepsContract, Contract!Spec
=============================================================================
