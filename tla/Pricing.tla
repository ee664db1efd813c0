------------------------------- MODULE Pricing -------------------------------
(***************************************************************************)
(* The prices of one position: what is ordered and what is recorded as     *)
(* paid (main.rs, processor/pumpfun.rs, tx/confirm.rs), and the rules that *)
(* ask for a sale by price (autosell/manager.rs, autosell/position.rs).    *)
(*                                                                         *)
(* The curve moves on chain.  The program knows it through a cache that    *)
(* the account stream and an RPC prefetch both write, and through the      *)
(* stream's events, which the gRPC monitor handles in order.  AutoSell     *)
(* models how a position is sold; here a sale only begins and ends.        *)
(***************************************************************************)
EXTENDS BondingCurve, Position, Sequences

CONSTANTS
  Curves,        \* the states other traders may bring the curve to
  BaseCurve,     \* the state of the curve at the start
  BuyConfig,     \* AppConfig: BUY_SOL_AMOUNT, in lamports
  BuySettings,   \* DynConfig: buy amounts the operator may have set
  Slippage,      \* AppConfig: SLIPPAGE_BPS
  RulesConfig,   \* AppConfig: the exit rules at the start
  RuleSets,      \* the exit rules the operator may choose
  Targets,       \* buy instructions of the followed wallet
  FeeBps,        \* the fee of the program on chain (external)
  AssumedSol,    \* reserve assumed when only the target's order is known
  MaxTargetSol,  \* a larger max_sol_cost tells no price (100 SOL)
  Tip,           \* the Jito tip the buy pays
  Channels,      \* the endpoints a transaction is sent to
  MaxAttempts,   \* MAX_TOTAL_SELL_ATTEMPTS
  MaxMoves,      \* bound: moves of the curve by other traders; a further
                 \* bound is one prefetch of the curve in flight at a time
  MaxEvents,     \* bound: events waiting for the gRPC monitor
  MaxSignals     \* bound: sell signals waiting for their task

\* Percentages; trail = 0 switches the trailing stop off.  follow: sales are
\* left to the followed wallets.
Rules == [sl : Nat, tp : Nat, trail : Nat, follow : BOOLEAN]

Target == [tokens : Nat, maxSol : Nat]

\* A curve that is still traded on has both reserves.
ChainCurve == {c \in CurveState : c.complete \/ (c.tok > 0 /\ c.sol > 0)}

ASSUME PricingAssumption ==
  /\ Curves \subseteq ChainCurve
  /\ BaseCurve \in ChainCurve
  /\ BuyConfig \in Nat \ {0}
  /\ BuySettings \subseteq Nat \ {0}
  /\ Slippage \in Nat
  /\ FeeBps \in Nat
  /\ RuleSets \subseteq Rules
  /\ RulesConfig \in RuleSets
  /\ Targets \subseteq Target
  /\ AssumedSol \in Nat \ {0}
  /\ MaxTargetSol \in Nat
  /\ Tip \in Nat
  /\ MaxAttempts \in Nat \ {0}
  /\ MaxMoves \in Nat
  /\ MaxEvents \in Nat
  /\ MaxSignals \in Nat

\* The slippage allowed covers the lamport that rounding may add and the fee
\* on top of both.
ASSUME SlippageCoversFee ==
  WithFee(BuyConfig + 1, FeeBps) <= BuyConfig + (BuyConfig * Slippage) \div Bps

\* A raw token is cheaper than a lamport on every curve one can buy from, as
\* pump.fun's are (30 SOL against 1.073e15 raw tokens to begin with, 115 SOL
\* against 2.8e14 at the end), so the least buy is of one token.
ASSUME TokensAreCheap ==
  \A c \in Curves \cup {BaseCurve} : c.complete \/ c.sol < c.tok

VARIABLES
  curve,        \* the bonding curve on chain
  moves,        \* how often others moved it
  bcCache,      \* the cached curve
  fetched,      \* the curve an RPC prefetch has read and not yet stored
  curveEvents,  \* curve updates on their way to the gRPC monitor
  rules,        \* DynConfig: exit rules
  age,          \* 1: past confirm_timeout_secs, 2: past max_hold_seconds
  order,        \* the buy that was placed
  sending,      \* channels that have not answered yet
  accepted,     \* some channel took the transaction
  buyTx,        \* the buy transaction
  cost,         \* lamports it took for the tokens, the program's fee included
  pos,          \* the position, with its prices
  confirmer,    \* the buy confirmer and its background correction
  signals       \* reasons of the sell signals waiting

chain == <<curve, moves>>
known == <<bcCache, fetched, curveEvents>>
txVars == <<order, sending, accepted, buyTx, cost>>
vars == <<chain, known, rules, age, txVars, pos, confirmer, signals>>

-----------------------------------------------------------------------------

\* A buy order: the cached curve it was computed from, if any, the amount its
\* instruction spends, the amount recorded as the position's size.
Order == [from : CurveState, sol : Nat, size : Nat, tokens : Nat,
          maxCost : Nat]

NoOrder == [from |-> NoCurve, sol |-> 0, size |-> 0, tokens |-> 0,
            maxCost |-> 0]

\* The position's record with its prices.
Priced(p, entry, highest, current) ==
  [state |-> p.state, attempts |-> p.attempts,
   entry |-> entry, highest |-> highest, current |-> current]

NoPriced == Priced(NoPosition, ZeroPrice, ZeroPrice, ZeroPrice)

PricedPosition ==
  [state : States \cup {"Absent"}, attempts : Nat,
   entry : Prices, highest : Prices, current : Prices]

Reasons == {"MaxLifetime", "StopLoss", "TakeProfit", "TrailingStop"}

TypeOK ==
  /\ curve \in CurveState
  /\ moves \in 0 .. MaxMoves
  /\ bcCache \in CurveState
  /\ fetched \in CurveState
  /\ curveEvents \in Seq(CurveState)
  /\ rules \in RuleSets
  /\ age \in 0 .. 2
  /\ order \in Order
  /\ sending \subseteq Channels
  /\ accepted \in BOOLEAN
  /\ buyTx \in {"none", "sent", "landed", "failed"}
  /\ cost \in Nat
  /\ pos \in PricedPosition
  /\ confirmer \in {"none", "polling", "correcting", "corrected", "done"}
  /\ signals \in Seq(Reasons)

Init ==
  /\ curve = BaseCurve
  /\ moves = 0
  /\ bcCache = NoCurve
  /\ fetched = NoCurve
  /\ curveEvents = <<>>
  /\ rules = RulesConfig
  /\ age = 0
  /\ order = NoOrder
  /\ sending = {}
  /\ accepted = FALSE
  /\ buyTx = "none"
  /\ cost = 0
  /\ pos = NoPriced
  /\ confirmer = "none"
  /\ signals = <<>>

-----------------------------------------------------------------------------
(* The curve and what is known of it.                                      *)

\* Others trade, or the token leaves the curve.
TradeByOthers(c) ==
  /\ ~curve.complete
  /\ moves < MaxMoves
  /\ c # curve
  /\ curve' = c
  /\ moves' = moves + 1
  /\ UNCHANGED <<known, rules, age, txVars, pos, confirmer, signals>>

\* handle_account_update, of an account the stream reports as changed.  Which
\* curves it reports is AccountSubscriber's; here it may report this one at
\* any time, as a later trade of the token has it tracked again.
CurveUpdate ==
  /\ curve # bcCache
  /\ Len(curveEvents) < MaxEvents
  /\ bcCache' = curve
  /\ curveEvents' = Append(curveEvents, curve)
  /\ UNCHANGED <<chain, fetched, rules, age, txVars, pos, confirmer, signals>>

\* A target's buy of a token that is not cached, be it the first or one after
\* our own: prefetch_bonding_curve runs in a task of its own and stores its
\* answer whatever came meanwhile.
PrefetchReads ==
  /\ bcCache = NoCurve
  /\ fetched = NoCurve
  /\ fetched' = curve
  /\ UNCHANGED <<chain, bcCache, curveEvents, rules, age, txVars, pos,
                 confirmer, signals>>

PrefetchStores ==
  /\ fetched # NoCurve
  /\ bcCache' \in {bcCache, fetched}  \* the request may also have failed
  /\ fetched' = NoCurve
  /\ UNCHANGED <<chain, curveEvents, rules, age, txVars, pos, confirmer,
                 signals>>

-----------------------------------------------------------------------------
(* The operator: /set sl, tp, trailing and the switch of the sell mode.     *)

SetRules(r) ==
  /\ r # rules
  /\ rules' = r
  /\ UNCHANGED <<chain, known, age, txVars, pos, confirmer, signals>>

-----------------------------------------------------------------------------
(* execute_buy.                                                            *)

\* The instruction spends the static configuration's amount, although /set buy
\* answers that it changed the amount; the estimate and the recorded size come
\* from the operator's setting of the moment.
Place(from, tokens, setting, estimate) ==
  /\ order = NoOrder
  /\ order' = [from |-> from, sol |-> BuyConfig, size |-> setting,
               tokens |-> tokens, maxCost |-> MaxSolCost(BuyConfig, Slippage)]
  /\ sending' = Channels
  /\ buyTx' = "sent"
  /\ LET price == PerToken(setting, estimate)
     IN  pos' = Priced(MarkConfirming(MarkSubmitted(NewPosition)),
                       price, price, price)
  /\ confirmer' = "polling"
  /\ UNCHANGED <<chain, known, rules, age, accepted, cost, signals>>

\* buy_from_cached_state refuses a completed curve.
BuyFromCache(setting) ==
  /\ bcCache # NoCurve
  /\ ~bcCache.complete
  /\ Place(bcCache, SolToTokenQuote(bcCache, BuyConfig),
           setting, SolToTokenQuote(bcCache, setting))

\* buy_from_target_instruction, when nothing is cached.
BuyFromTarget(setting, t) ==
  /\ bcCache = NoCurve
  /\ t.tokens > 0
  /\ t.maxSol \in 1 .. MaxTargetSol
  /\ LET c == TargetCurve(t, AssumedSol)
         tokens == AtLeastOne(SolToTokenQuote(c, BuyConfig))
     IN  Place(NoCurve, tokens, setting, tokens)

-----------------------------------------------------------------------------
(* fire_and_forget: every channel is sent the same transaction, and nobody *)
(* waits for the answers.                                                  *)

ChannelAnswers(ch) ==
  /\ ch \in sending
  /\ buyTx = "sent"
  /\ sending' = sending \ {ch}
  /\ accepted' \in {accepted, TRUE}
  /\ UNCHANGED <<chain, known, rules, age, order, buyTx, cost, pos,
                 confirmer, signals>>

\* The chain (external): the tokens are bought if with the fee they cost no
\* more than the order allows.
BuyLands ==
  /\ buyTx = "sent"
  /\ accepted
  /\ IF /\ ~curve.complete
        /\ order.tokens \in 1 .. curve.tok - 1
        /\ TotalCost(curve, order.tokens, FeeBps) <= order.maxCost
     THEN /\ buyTx' = "landed"
          /\ cost' = TotalCost(curve, order.tokens, FeeBps)
          /\ curve' = AfterBuy(curve, order.tokens)
     ELSE /\ buyTx' = "failed"
          /\ UNCHANGED <<cost, curve>>
  /\ sending' = {}
  /\ UNCHANGED <<moves, known, rules, age, order, accepted, pos, confirmer,
                 signals>>

-----------------------------------------------------------------------------
(* Confirming the buy, and the price it is recorded with.                  *)

\* Seeded fault: every confirmation writes its price.
ActivatedAgain(p) ==
  LET spot == PriceOf(bcCache)
      entry == IF IsPositive(spot) THEN spot
               ELSE PerToken(order.size, order.tokens)
  IN  Priced(MarkActive(p), entry, entry, entry)

\* mark_active: the cached curve's price, or else size / tokens.
Activated(p) ==
  LET spot == PriceOf(bcCache)
      entry == IF IsPositive(spot) THEN spot
               ELSE PerToken(order.size, order.tokens)
  IN  IF Unconfirmed(p) THEN Priced(MarkActive(p), entry, entry, entry)
      ELSE p

\* The wallet's token account answers the tokens bought.
ConfirmerSees ==
  /\ confirmer = "polling"
  /\ buyTx = "landed"
  /\ pos' = Activated(pos)
  /\ confirmer' = "correcting"
  /\ UNCHANGED <<chain, known, rules, age, txVars, signals>>

ConfirmerGivesUp ==
  /\ confirmer = "polling"
  /\ pos' = MarkFailed(pos)
  /\ confirmer' = "done"
  /\ UNCHANGED <<chain, known, rules, age, txVars, signals>>

\* get_actual_sol_spent: what left the wallet, less the transaction's fee and
\* the rent.  The tip, a transfer of the same transaction, stays in, although
\* the function's comment deducts it.
Spent == cost + Tip

RealPrice == PerToken(Spent, order.tokens)

\* Seeded fault: the highest price is left behind.
CorrectedEntryOnly(p, price) ==
  IF Exists(p) /\ IsPositive(price) THEN [p EXCEPT !.entry = price] ELSE p

\* update_entry_price
Corrected(p, price) ==
  IF Exists(p) /\ IsPositive(price)
  THEN [p EXCEPT !.entry = price, !.highest = Higher(@, price)]
  ELSE p

CorrectEntry ==
  /\ confirmer = "correcting"
  /\ \/ /\ pos' = Corrected(pos, RealPrice)
        /\ confirmer' = "corrected"
     \/ /\ confirmer' = "done"  \* getTransaction failed
        /\ UNCHANGED pos
  /\ UNCHANGED <<chain, known, rules, age, txVars, signals>>

\* The account stream reports the wallet's tokens to the gRPC monitor.
AtaEvent ==
  /\ buyTx = "landed"
  /\ pos' = Activated(pos)
  /\ UNCHANGED <<chain, known, rules, age, txVars, confirmer, signals>>

-----------------------------------------------------------------------------
(* Exit rules: update_price and check_exit_conditions_dyn.                 *)

UpdatePrice(p, price) ==
  [p EXCEPT !.current = price, !.highest = Higher(@, price)]

LifetimeOver(p) == age = 2 /\ CanSell(p)

\* Seeded fault: the limit's sign is lost.
StopLossUnsigned(p) == PnlAtMost(p.entry, p.current, rules.sl)

StopLossHit(p) == PnlAtMost(p.entry, p.current, -rules.sl)
TakeProfitHit(p) == PnlAtLeast(p.entry, p.current, rules.tp)

TrailingStopHit(p) ==
  /\ rules.trail > 0
  /\ IsPositive(p.entry)
  /\ Below(p.entry, p.current)
  /\ DrawdownAtLeast(p.highest, p.current, rules.trail)

\* The first rule that holds, in the code's order.
ExitReason(p) ==
  IF LifetimeOver(p) THEN "MaxLifetime"
  ELSE IF rules.follow \/ ~CanCheckExit(p) THEN "none"
  ELSE IF StopLossHit(p) THEN "StopLoss"
  ELSE IF TakeProfitHit(p) THEN "TakeProfit"
  ELSE IF TrailingStopHit(p) THEN "TrailingStop"
  ELSE "none"

Signalled(p) ==
  IF ExitReason(p) = "none" THEN signals ELSE Append(signals, ExitReason(p))

\* A monitor leaves the position as p, and sends a signal if a rule holds.
Check(p) ==
  /\ Len(signals) < MaxSignals
  /\ pos' = p
  /\ signals' = Signalled(p)

\* The gRPC monitor.  A price of 0 says nothing.
CurveEvent ==
  /\ curveEvents # <<>>
  /\ curveEvents' = Tail(curveEvents)
  /\ LET price == PriceOf(Head(curveEvents))
     IN  IF Exists(pos) /\ IsPositive(price)
         THEN Check(UpdatePrice(pos, price))
         ELSE UNCHANGED <<pos, signals>>
  /\ UNCHANGED <<chain, bcCache, fetched, rules, age, txVars, confirmer>>

-----------------------------------------------------------------------------
(* The fallback monitor's turn of the position.                            *)

NeedsConfirmCheck == age > 0 /\ Unconfirmed(pos)

\* The balance by RPC; a failed request counts as none.
FallbackConfirms ==
  /\ NeedsConfirmCheck
  /\ \/ buyTx = "landed" /\ pos' = Activated(pos)
     \/ pos' = MarkFailed(pos)
  /\ UNCHANGED <<chain, known, rules, age, txVars, confirmer, signals>>

FallbackTurn == Exists(pos) /\ ~NeedsConfirmCheck

\* After max_hold the signal does not wait for a price.
FallbackLifetime ==
  /\ FallbackTurn
  /\ LifetimeOver(pos)
  /\ Check(pos)
  /\ UNCHANGED <<chain, known, rules, age, txVars, confirmer>>

\* Seeded fault: the rules look at the price the last event left.
SeenAsBefore(p, price) == p

SeenAt(p, price) == IF IsPositive(price) THEN UpdatePrice(p, price) ELSE p

FallbackCached ==
  /\ FallbackTurn
  /\ ~LifetimeOver(pos)
  /\ bcCache # NoCurve
  /\ Check(SeenAt(pos, PriceOf(bcCache)))
  /\ UNCHANGED <<chain, known, rules, age, txVars, confirmer>>

\* Not cached: the curve by RPC, if it answers.
FallbackFetches ==
  /\ FallbackTurn
  /\ ~LifetimeOver(pos)
  /\ bcCache = NoCurve
  /\ CanSell(pos)
  /\ Check(SeenAt(pos, PriceOf(curve)))
  /\ bcCache' = IF IsPositive(PriceOf(curve)) THEN curve ELSE bcCache
  /\ UNCHANGED <<chain, fetched, curveEvents, rules, age, txVars, confirmer>>

\* The monitor does one of these in its turn; which one, the state decides.
FallbackStep ==
  FallbackConfirms \/ FallbackLifetime \/ FallbackCached \/ FallbackFetches

\* held_seconds
GrowsOld ==
  /\ Exists(pos)
  /\ age < 2
  /\ age' = age + 1
  /\ UNCHANGED <<chain, known, rules, txVars, pos, confirmer, signals>>

-----------------------------------------------------------------------------
(* The sell task: the position is taken for sale, and sold or given back.  *)

TakeSignal ==
  /\ signals # <<>>
  /\ signals' = Tail(signals)
  /\ IF pos.attempts >= MaxAttempts
     THEN pos' = MarkFailed(pos) /\ bcCache' = NoCurve
     ELSE pos' = MarkSelling(pos) /\ UNCHANGED bcCache
  /\ UNCHANGED <<chain, fetched, curveEvents, rules, age, txVars, confirmer>>

SaleEnds ==
  /\ pos.state = "Selling"
  /\ \/ buyTx = "landed" /\ pos' = MarkClosed(pos) /\ bcCache' = NoCurve
     \/ buyTx = "landed" /\ pos' = RevertToActive(pos) /\ UNCHANGED bcCache
     \/ pos' = MarkFailed(pos) /\ bcCache' \in {bcCache, NoCurve}
  /\ UNCHANGED <<chain, fetched, curveEvents, rules, age, txVars, confirmer,
                 signals>>

-----------------------------------------------------------------------------

Next ==
  \/ \E c \in Curves : TradeByOthers(c)
  \/ CurveUpdate
  \/ PrefetchReads
  \/ PrefetchStores
  \/ \E r \in RuleSets : SetRules(r)
  \/ \E v \in BuySettings : BuyFromCache(v)
  \/ \E v \in BuySettings, t \in Targets : BuyFromTarget(v, t)
  \/ \E ch \in Channels : ChannelAnswers(ch)
  \/ BuyLands
  \/ ConfirmerSees
  \/ ConfirmerGivesUp
  \/ CorrectEntry
  \/ AtaEvent
  \/ CurveEvent
  \/ FallbackStep
  \/ GrowsOld
  \/ TakeSignal
  \/ SaleEnds

Spec == Init /\ [][Next]_vars

\* The fallback monitor turns for ever, and every signal gets its task.
FairSpec == Spec /\ WF_vars(FallbackStep) /\ WF_vars(TakeSignal)

-----------------------------------------------------------------------------

\* The highest price is never below the entry price nor the current one: the
\* trailing stop (drawdown_percent) measures a fall from it, and the late
\* correction of the entry price must lift it too.
HighWater ==
  /\ ~Below(pos.highest, pos.entry)
  /\ ~Below(pos.highest, pos.current)

\* An order computed from the curve as it is on chain is carried out there:
\* it asks for at least one token, and with the rounding of both sides and
\* the program's fee the tokens cost no more than max_sol_cost
\* (buy_from_cached_state against the program's own arithmetic).
FreshQuoteLands ==
  buyTx = "sent" /\ order.from = curve
    => /\ order.tokens \in 1 .. curve.tok - 1
       /\ TotalCost(curve, order.tokens, FeeBps) <= order.maxCost

\* Once the entry price was corrected to what left the wallet, nobody
\* replaces it: a late confirmation by the stream, the fallback monitor or
\* a sale given back must not write the spot price over it.
CorrectionIsFinal ==
  [][confirmer = "corrected" => pos'.entry = pos.entry]_vars

\* After the correction a sale for a loss is asked for below the price per
\* token of what left the wallet for them, fee and tip included, and a sale
\* for a profit above it, whichever monitor asks and whatever amount the
\* position was recorded with.  (The comment at confirm.rs:459 has the tip
\* deducted; the code measures profit with it.)
ExitsMatchCost ==
  [][LET reason == signals'[Len(signals')]
     IN  confirmer = "corrected" /\ Len(signals') > Len(signals)
           => /\ reason = "StopLoss" /\ rules.sl > 0
                   => Below(pos'.current, RealPrice)
              /\ reason = "TakeProfit" /\ rules.tp > 0
                   => Below(RealPrice, pos'.current)
              /\ reason = "TrailingStop"
                   => Below(RealPrice, pos'.current)]_vars

\* A loss beyond the stop that the cached curve goes on showing is acted on:
\* the position does not stay Active for ever (the fallback monitor, where
\* the gRPC monitor's events came too early or not at all).
CachedLoss ==
  /\ ~rules.follow
  /\ IsPositive(PriceOf(bcCache))
  /\ PnlAtMost(pos.entry, PriceOf(bcCache), -rules.sl)

LossIsSignalled == <>[]CachedLoss => []<>~CanCheckExit(pos)
=============================================================================
