------------------------ MODULE TradePipelineProofs ------------------------
(***************************************************************************)
(* Proofs about TradePipeline, for every set of tokens, wallets and trades *)
(* and every quorum.                                                       *)
(*                                                                         *)
(* BoughtOnce is not inductive: a mint whose buy was sent must also be     *)
(* remembered (SentIsRemembered).  TriggersAreBacked follows from          *)
(* SignalsAreBacked, which needs that nothing counts in instant mode       *)
(* (InstantIsIdle), where sales are not passed on to the engine.           *)
(***************************************************************************)
EXTENDS TradePipeline, TLAPS

-----------------------------------------------------------------------------
(* Types.                                                                  *)

ContractTyped ==
  /\ counted \in [Mints -> SUBSET Wallets]
  /\ triggered \subseteq Mints
  /\ triggers \in Seq(Trigger)

LoopTyped ==
  /\ instant \in BOOLEAN
  /\ running \in BOOLEAN
  /\ pending \in Seq(Trades)
  /\ Len(pending) <= MaxPending
  /\ sigCache \subseteq Sigs
  /\ blocked \subseteq Mints
  /\ lastTrade \in [Mints -> [Wallets -> {"none", "bought", "sold"}]]
  /\ soldUnseen \subseteq Mints \X Wallets

BuyTyped ==
  /\ mintDedup \subseteq Mints
  /\ prefetched \subseteq admitted
  /\ admitted \subseteq Mints
  /\ bcCached \subseteq admitted
  /\ sent \in [Mints -> Nat]

LEMMA TypeParts ==
  /\ TypeOK <=> ContractTyped /\ LoopTyped /\ BuyTyped
  /\ TypeOK' <=> (ContractTyped /\ LoopTyped /\ BuyTyped)'
  BY DEF TypeOK, ContractTyped, LoopTyped, BuyTyped

LEMMA TradeTyped ==
  ASSUME NEW t \in Trades
  PROVE  t.sig \in Sigs /\ t.wallet \in Wallets /\ t.mint \in Mints
  BY PipelineAssumption DEF Trade, Sigs

LEMMA InitTyped == Init => TypeOK
  <1> SUFFICES ASSUME Init PROVE TypeOK
    OBVIOUS
  <1>1. ContractTyped
    BY DEF Init, ContractInit, ContractTyped
  <1>2. LoopTyped
    <2>1. pending \in Seq(Trades) /\ Len(pending) <= MaxPending
      BY PipelineAssumption DEF Init
    <2> QED BY <2>1 DEF Init, LoopTyped
  <1>3. BuyTyped
    BY DEF Init, BuyTyped
  <1> QED BY <1>1, <1>2, <1>3, TypeParts

\* What the engine's operations do to its own state.
LEMMA EngineTyped ==
  ASSUME ContractTyped, NEW m \in Mints, NEW w \in Wallets,
         Submit(m, w) \/ Revoke(m, w) \/ Expire \/ Deliver
  PROVE  ContractTyped'
  <1>1. CASE Submit(m, w)
    <2>1. CASE Count(m, w)
      BY <2>1 DEF Count, ContractTyped
    <2>2. CASE Agree(m, w)
      <3>1. PICK kept \in SUBSET counted[m] :
              triggers' = Append(triggers,
                                 [mint |-> m, wallets |-> kept \cup {w}])
        BY <2>2 DEF Agree
      <3>2. [mint |-> m, wallets |-> kept \cup {w}] \in Trigger
        BY DEF ContractTyped, Trigger
      <3> QED BY <2>2, <3>1, <3>2 DEF Agree, ContractTyped
    <2>3. CASE Ignore(m)
      BY <2>3 DEF Ignore, contractVars, ContractTyped
    <2> QED BY <1>1, <2>1, <2>2, <2>3 DEF Submit
  <1>2. CASE Revoke(m, w)
    BY <1>2 DEF Revoke, ContractTyped
  <1>3. CASE Expire
    BY <1>3 DEF Expire, ContractTyped
  <1>4. CASE Deliver
    BY <1>4 DEF Deliver, ContractTyped
  <1> QED BY <1>1, <1>2, <1>3, <1>4

LEMMA ExecuteBuyTyped ==
  ASSUME BuyTyped, NEW m \in Mints, NEW h \in BOOLEAN, ExecuteBuy(m, h)
  PROVE  sent' \in [Mints -> Nat] /\ bcCached' = bcCached
  BY DEF ExecuteBuy, BuyTyped

LEMMA HistoryTyped ==
  ASSUME LoopTyped, NEW t \in Trades,
         \/ \E what \in {"none", "bought", "sold"} : Taken(t, what)
         \/ Dropped(t)
         \/ UNCHANGED tradeVars
  PROVE  /\ lastTrade' \in [Mints -> [Wallets -> {"none", "bought", "sold"}]]
         /\ soldUnseen' \subseteq Mints \X Wallets
  <1>1. <<t.mint, t.wallet>> \in Mints \X Wallets
    BY TradeTyped
  <1>2. ASSUME NEW what \in {"none", "bought", "sold"}, Taken(t, what)
        PROVE  lastTrade' \in [Mints -> [Wallets -> {"none", "bought", "sold"}]]
    BY <1>2, TradeTyped DEF LoopTyped, Taken
  <1> QED BY <1>1, <1>2 DEF LoopTyped, Taken, Dropped, tradeVars

LEMMA HeadTyped ==
  ASSUME ContractTyped, triggers # <<>>
  PROVE  Head(triggers).mint \in Mints
  <1>1. Head(triggers) \in Trigger
    BY DEF ContractTyped
  <1> QED BY <1>1 DEF Trigger

\* The main loop's part of the state after any trade.
LEMMA HandleTyped ==
  ASSUME TypeOK, NEW t \in Trades, HandleTrade(t)
  PROVE  TypeOK'
  <1> USE TypeParts
  <1>1. /\ pending' \in Seq(Trades) /\ Len(pending') <= MaxPending
        /\ instant' = instant /\ running' = running /\ blocked' = blocked
    BY PipelineAssumption DEF HandleTrade, Received, LoopTyped
  <1>2. Fresh(t) => sigCache' \subseteq Sigs
    BY TradeTyped DEF Fresh, LoopTyped
  <1>3. CASE DropStopped(t)
    <2>1. LoopTyped'
      BY <1>1, <1>3, HistoryTyped DEF DropStopped, LoopTyped
    <2> QED BY <1>3, <2>1
            DEF DropStopped, contractVars, buyVars, ContractTyped, BuyTyped
  <1>4. CASE DropDuplicate(t) \/ SkipSmallBuy(t) \/ SkipBlocked(t)
               \/ SkipBought(t)
    <2>1. LoopTyped'
      BY <1>1, <1>2, <1>4
         DEF DropDuplicate, SkipSmallBuy, SkipBlocked, SkipBought, tradeVars,
             LoopTyped
    <2> QED BY <1>4, <2>1
            DEF DropDuplicate, SkipSmallBuy, SkipBlocked, SkipBought,
                contractVars, buyVars, ContractTyped, BuyTyped
  <1>5. CASE TakeSale(t)
    <2>1. LoopTyped'
      BY <1>1, <1>2, <1>5, HistoryTyped DEF TakeSale, LoopTyped
    <2>2. ContractTyped'
      BY <1>5, EngineTyped, TradeTyped
         DEF TakeSale, RevokeSignal, contractVars, ContractTyped
    <2> QED BY <1>5, <2>1, <2>2 DEF TakeSale, buyVars, BuyTyped
  <1>6. CASE BuyAtOnce(t)
    <2>1. LoopTyped'
      BY <1>1, <1>2, <1>6, HistoryTyped DEF BuyAtOnce, LoopTyped
    <2>2. BuyTyped'
      BY <1>6, ExecuteBuyTyped, TradeTyped DEF BuyAtOnce, Prefetch, BuyTyped
    <2> QED BY <1>6, <2>1, <2>2 DEF BuyAtOnce, contractVars, ContractTyped
  <1>7. CASE SubmitToConsensus(t)
    <2>1. LoopTyped'
      BY <1>1, <1>2, <1>7, HistoryTyped DEF SubmitToConsensus, LoopTyped
    <2>2. BuyTyped'
      BY <1>7, TradeTyped DEF SubmitToConsensus, Prefetch, BuyTyped
    <2> QED BY <1>7, <2>1, <2>2, EngineTyped, TradeTyped
            DEF SubmitToConsensus
  <1> QED BY <1>3, <1>4, <1>5, <1>6, <1>7 DEF HandleTrade

LEMMA ConsumeTyped ==
  ASSUME TypeOK, ConsumeTrigger
  PROVE  TypeOK'
  <1> USE TypeParts
  <1> DEFINE m == Head(triggers).mint
  <1>1. m \in Mints
    BY HeadTyped DEF ConsumeTrigger, Deliver
  <1>2. LoopTyped'
    BY DEF ConsumeTrigger, loopVars, tradeVars, LoopTyped
  <1>3. ContractTyped'
    BY DEF ConsumeTrigger, Deliver, ContractTyped
  <1>4. BuyTyped'
    <2>1. CASE ConsumeKnown(m)
      BY <2>1 DEF ConsumeKnown, buyVars, BuyTyped
    <2>2. CASE ConsumeNew(m)
      BY <1>1, <2>2, ExecuteBuyTyped DEF ConsumeNew, Remembered, BuyTyped
    <2> QED BY <2>1, <2>2 DEF ConsumeTrigger
  <1> QED BY <1>2, <1>3, <1>4

LEMMA NextTyped == TypeOK /\ [Next]_vars => TypeOK'
  <1> SUFFICES ASSUME TypeOK, [Next]_vars PROVE TypeOK'
    OBVIOUS
  <1> USE TypeParts
  <1>1. ASSUME NEW t \in Trades, Detect(t) PROVE TypeOK'
    BY <1>1, PipelineAssumption
       DEF Detect, contractVars, buyVars, tradeVars, ContractTyped, BuyTyped, LoopTyped
  <1>2. CASE Operator
    BY <1>2 DEF Operator, SetRunning, SetBlocklist, contractVars, buyVars,
                tradeVars, ContractTyped, BuyTyped, LoopTyped
  <1>3. CASE ForgetSignatures
    BY <1>3 DEF ForgetSignatures, contractVars, buyVars,
                tradeVars, ContractTyped, BuyTyped, LoopTyped
  <1>4. CASE EvictPrefetched
    BY <1>4 DEF EvictPrefetched, contractVars, loopVars,
                tradeVars, ContractTyped, BuyTyped, LoopTyped
  <1>5. ASSUME NEW m \in Mints, CurveArrives(m) \/ CurveDropped(m)
        PROVE  TypeOK'
    BY <1>5 DEF CurveArrives, CurveDropped, contractVars, loopVars,
                tradeVars, ContractTyped, BuyTyped, LoopTyped
  <1>6. CASE ExpireSignals
    BY <1>6 DEF ExpireSignals, Expire, buyVars, loopVars,
                tradeVars, ContractTyped, BuyTyped, LoopTyped
  <1>7. CASE UNCHANGED vars
    BY <1>7 DEF vars, contractVars, buyVars, loopVars,
                tradeVars, ContractTyped, BuyTyped, LoopTyped
  <1> QED BY <1>1, <1>2, <1>3, <1>4, <1>5, <1>6, <1>7,
             HandleTyped, ConsumeTyped DEF Next

(* The caches and channels keep their types, and whoever writes them, only *)
(* a token of which a buy was admitted is prefetched or has a cached curve.*)
THEOREM TypeCorrect == Spec => []TypeOK
  BY InitTyped, NextTyped, PTL DEF Spec

-----------------------------------------------------------------------------
(* A token is bought once.                                                 *)

SentIsRemembered ==
  \A m \in Mints : sent[m] <= 1 /\ (sent[m] = 1 => m \in mintDedup)

LEMMA ExecuteBuyOnce ==
  ASSUME TypeOK, SentIsRemembered, NEW m \in Mints, NEW h \in BOOLEAN,
         m \notin mintDedup, mintDedup' = mintDedup \cup {m},
         ExecuteBuy(m, h)
  PROVE  SentIsRemembered'
  <1>1. sent[m] = 0
    BY TypeParts DEF SentIsRemembered, BuyTyped
  <1> QED BY <1>1, TypeParts DEF SentIsRemembered, ExecuteBuy, BuyTyped

LEMMA NextRemembers ==
  ASSUME TypeOK, SentIsRemembered, [Next]_vars
  PROVE  SentIsRemembered'
  <1>1. CASE UNCHANGED <<mintDedup, sent>>
    BY <1>1 DEF SentIsRemembered
  <1>2. ASSUME NEW t \in Trades, HandleTrade(t), BuyAtOnce(t)
        PROVE  SentIsRemembered'
    BY <1>2, ExecuteBuyOnce, TradeTyped DEF BuyAtOnce
  <1>3. ASSUME ConsumeTrigger, ConsumeNew(Head(triggers).mint)
        PROVE  SentIsRemembered'
    <2>1. Head(triggers).mint \in Mints
      BY <1>3, TypeParts, HeadTyped DEF ConsumeTrigger, Deliver
    <2> QED BY <1>3, <2>1, ExecuteBuyOnce DEF ConsumeNew, Remembered
  <1>4. ASSUME NEW t \in Trades, HandleTrade(t), ~BuyAtOnce(t)
        PROVE  UNCHANGED <<mintDedup, sent>>
    BY <1>4 DEF HandleTrade, DropStopped, DropDuplicate, TakeSale,
                SkipSmallBuy, SkipBlocked, SkipBought, SubmitToConsensus,
                buyVars
  <1>5. ASSUME ConsumeTrigger, ~ConsumeNew(Head(triggers).mint)
        PROVE  UNCHANGED <<mintDedup, sent>>
    BY <1>5 DEF ConsumeTrigger, ConsumeKnown, buyVars
  <1>6. CASE \/ \E t \in Trades : Detect(t)
             \/ Operator \/ ForgetSignatures \/ EvictPrefetched
             \/ \E m \in Mints : CurveArrives(m) \/ CurveDropped(m)
             \/ ExpireSignals \/ UNCHANGED vars
    BY <1>1, <1>6 DEF Detect, Operator, SetRunning, SetBlocklist,
                ForgetSignatures, EvictPrefetched, CurveArrives, CurveDropped,
                ExpireSignals, vars, buyVars
  <1> QED BY <1>1, <1>2, <1>3, <1>4, <1>5, <1>6 DEF Next

(* A token is bought once in a run, in both modes.                         *)
THEOREM TokensAreBoughtOnce == Spec => []BoughtOnce
  <1>1. Init => SentIsRemembered
    BY DEF Init, SentIsRemembered
  <1>2. SentIsRemembered => BoughtOnce
    BY DEF SentIsRemembered, BoughtOnce
  <1> QED BY <1>1, <1>2, NextRemembers, TypeCorrect, PTL DEF Spec

-----------------------------------------------------------------------------
(* Triggers are backed by trades.                                          *)

InstantIsIdle == instant => \A m \in Mints : counted[m] = {}

BackedInv == SignalsAreBacked /\ InstantIsIdle

LEMMA HandleBacked ==
  ASSUME TypeOK, BackedInv, NEW t \in Trades, HandleTrade(t)
  PROVE  BackedInv'
  <1> USE TypeParts DEF BackedInv, SignalsAreBacked, InstantIsIdle
  <1>1. t.mint \in Mints /\ t.wallet \in Wallets /\ instant' = instant
    BY TradeTyped DEF HandleTrade
  <1>2. CASE DropStopped(t)
    BY <1>1, <1>2 DEF DropStopped, Dropped, contractVars
  <1>3. CASE DropDuplicate(t) \/ SkipSmallBuy(t) \/ SkipBlocked(t)
               \/ SkipBought(t)
    BY <1>1, <1>3 DEF DropDuplicate, SkipSmallBuy, SkipBlocked, SkipBought,
                      contractVars, tradeVars
  <1>4. CASE TakeSale(t)
    BY <1>1, <1>4 DEF TakeSale, RevokeSignal, Revoke, Taken, contractVars,
                      ContractTyped, LoopTyped
  <1>5. CASE BuyAtOnce(t)
    BY <1>1, <1>5 DEF BuyAtOnce, Taken, contractVars,
                      ContractTyped, LoopTyped
  <1>6. CASE SubmitToConsensus(t)
    <2>1. \A m \in Mints :
            counted'[m] \subseteq
              counted[m] \cup (IF m = t.mint THEN {t.wallet} ELSE {})
      BY <1>1, <1>6 DEF SubmitToConsensus, Submit, Count, Agree, Ignore,
                        contractVars, ContractTyped
    <2> QED BY <1>1, <1>6, <2>1
            DEF SubmitToConsensus, Taken, ContractTyped, LoopTyped
  <1> QED BY <1>2, <1>3, <1>4, <1>5, <1>6 DEF HandleTrade

LEMMA NextBacked ==
  ASSUME TypeOK, BackedInv, [Next]_vars
  PROVE  BackedInv'
  <1> USE DEF BackedInv, SignalsAreBacked, InstantIsIdle
  <1>1. CASE ExpireSignals
    BY <1>1, TypeParts
       DEF ExpireSignals, Expire, loopVars, tradeVars, ContractTyped
  <1>2. CASE \/ \E t \in Trades : Detect(t)
             \/ ConsumeTrigger
             \/ Operator \/ ForgetSignatures \/ EvictPrefetched
             \/ \E m \in Mints : CurveArrives(m) \/ CurveDropped(m)
             \/ UNCHANGED vars
    BY <1>2 DEF Detect, ConsumeTrigger, Deliver, Operator, SetRunning,
                SetBlocklist, ForgetSignatures, EvictPrefetched,
                CurveArrives, CurveDropped, vars, contractVars, loopVars, tradeVars
  <1> QED BY <1>1, <1>2, HandleBacked DEF Next

LEMMA BackedInvariant == Spec => []BackedInv
  <1>1. Init => BackedInv
    BY DEF Init, ContractInit, BackedInv, SignalsAreBacked, InstantIsIdle
  <1> QED BY <1>1, NextBacked, TypeCorrect, PTL DEF Spec

\* The channel grows by a submission that fills the quorum only.
LEMMA OnlyAgreeTriggers ==
  ASSUME TypeOK, [Next]_vars, Len(triggers') > Len(triggers)
  PROVE  \E t \in Trades : SubmitToConsensus(t) /\ Agree(t.mint, t.wallet)
  <1>1. CASE UNCHANGED triggers
    BY <1>1, TypeParts DEF ContractTyped
  <1>2. CASE Deliver
    BY <1>2, TypeParts DEF Deliver, ContractTyped
  <1>3. ASSUME NEW t \in Trades, HandleTrade(t), ~SubmitToConsensus(t)
        PROVE  UNCHANGED triggers
    BY <1>3 DEF HandleTrade, DropStopped, DropDuplicate, TakeSale,
                RevokeSignal, Revoke, SkipSmallBuy, SkipBlocked, SkipBought,
                BuyAtOnce, contractVars
  <1>4. ASSUME NEW t \in Trades, SubmitToConsensus(t),
               ~Agree(t.mint, t.wallet)
        PROVE  UNCHANGED triggers
    BY <1>4 DEF SubmitToConsensus, Submit, Count, Ignore, contractVars
  <1>5. CASE \/ \E t \in Trades : Detect(t)
             \/ Operator \/ ForgetSignatures \/ EvictPrefetched
             \/ \E m \in Mints : CurveArrives(m) \/ CurveDropped(m)
             \/ ExpireSignals \/ UNCHANGED vars
    BY <1>1, <1>5 DEF Detect, Operator, SetRunning, SetBlocklist,
                ForgetSignatures, EvictPrefetched, CurveArrives, CurveDropped,
                ExpireSignals, Expire, vars, contractVars
  <1> QED BY <1>1, <1>2, <1>3, <1>4, <1>5 DEF Next, ConsumeTrigger

LEMMA AgreeIsBacked ==
  ASSUME TypeOK, BackedInv, [Next]_vars, Len(triggers') > Len(triggers)
  PROVE  LET t == triggers'[Len(triggers')]
         IN  /\ Cardinality(t.wallets) >= MinWallets
             /\ \A w \in t.wallets : lastTrade'[t.mint][w] = "bought"
  <1>1. PICK t \in Trades : SubmitToConsensus(t) /\ Agree(t.mint, t.wallet)
    BY OnlyAgreeTriggers
  <1>2. t.mint \in Mints /\ t.wallet \in Wallets
    BY TradeTyped
  <1>3. PICK kept \in SUBSET counted[t.mint] :
          /\ Cardinality(kept \cup {t.wallet}) >= MinWallets
          /\ triggers' = Append(triggers, [mint |-> t.mint,
                                           wallets |-> kept \cup {t.wallet}])
    BY <1>1 DEF Agree
  <1>4. triggers'[Len(triggers')]
          = [mint |-> t.mint, wallets |-> kept \cup {t.wallet}]
    BY <1>3, TypeParts DEF ContractTyped
  <1>5. \A w \in kept \cup {t.wallet} : lastTrade'[t.mint][w] = "bought"
    BY <1>1, <1>2, TypeParts
       DEF SubmitToConsensus, Taken, BackedInv, SignalsAreBacked,
           LoopTyped, ContractTyped
  <1> QED BY <1>3, <1>4, <1>5

(* A trigger names at least MinWallets wallets, and of each the last trade *)
(* that the running loop took is a buy it admitted.                        *)
THEOREM NoTriggerWithoutTrades == Spec => TriggersAreBacked
  <1>1. TypeOK /\ BackedInv /\ [Next]_vars
          => [Len(triggers') > Len(triggers) =>
                LET t == triggers'[Len(triggers')]
                IN  /\ Cardinality(t.wallets) >= MinWallets
                    /\ \A w \in t.wallets :
                         lastTrade'[t.mint][w] = "bought"]_vars
    BY AgreeIsBacked
  <1> QED BY <1>1, TypeCorrect, BackedInvariant, PTL
          DEF Spec, TriggersAreBacked

-----------------------------------------------------------------------------
(* Stopping and blocking.                                                  *)

\* Nothing new happens to the token.
NothingNew(m) ==
  /\ counted'[m] \subseteq counted[m]
  /\ m \in triggered' => m \in triggered
  /\ sent'[m] # sent[m] => triggers # <<>> /\ Head(triggers).mint = m

LEMMA StepUnwanted ==
  ASSUME TypeOK, [Next]_vars, NEW m \in Mints, ~running \/ m \in blocked
  PROVE  NothingNew(m)
  <1> USE TypeParts
  <1>1. CASE UNCHANGED <<counted, triggered, sent>>
    BY <1>1 DEF NothingNew
  <1>2. ASSUME NEW t \in Trades, HandleTrade(t), TakeSale(t)
        PROVE  NothingNew(m)
    BY <1>2, TradeTyped DEF TakeSale, RevokeSignal, Revoke, NothingNew,
                            contractVars, buyVars, ContractTyped
  <1>3. ASSUME NEW t \in Trades, HandleTrade(t), BuyAtOnce(t)
        PROVE  NothingNew(m)
    <2>1. t.mint # m
      BY <1>3 DEF BuyAtOnce, Fresh, Allowed
    <2> QED BY <1>3, <2>1, TradeTyped
            DEF BuyAtOnce, ExecuteBuy, NothingNew, contractVars, BuyTyped
  <1>4. ASSUME NEW t \in Trades, HandleTrade(t), SubmitToConsensus(t)
        PROVE  NothingNew(m)
    <2>1. t.mint # m
      BY <1>4 DEF SubmitToConsensus, Fresh, Allowed
    <2> QED BY <1>4, <2>1, TradeTyped
            DEF SubmitToConsensus, Submit, Count, Agree, Ignore, NothingNew,
                contractVars, ContractTyped
  <1>5. ASSUME NEW t \in Trades, HandleTrade(t),
               ~TakeSale(t), ~BuyAtOnce(t), ~SubmitToConsensus(t)
        PROVE  UNCHANGED <<counted, triggered, sent>>
    BY <1>5 DEF HandleTrade, DropStopped, DropDuplicate, SkipSmallBuy,
                SkipBlocked, SkipBought, contractVars, buyVars
  <1>6. CASE ConsumeTrigger
    <2> DEFINE h == Head(triggers).mint
    <2>1. triggers # <<>> /\ UNCHANGED <<counted, triggered>>
      BY <1>6 DEF ConsumeTrigger, Deliver
    <2>2. sent'[m] # sent[m] => h = m
      <3>1. h \in Mints
        BY <2>1, HeadTyped
      <3>2. CASE ConsumeKnown(h)
        BY <3>2 DEF ConsumeKnown, buyVars
      <3>3. CASE ConsumeNew(h)
        BY <3>1, <3>3 DEF ConsumeNew, ExecuteBuy, BuyTyped
      <3> QED BY <1>6, <3>2, <3>3 DEF ConsumeTrigger
    <2> QED BY <2>1, <2>2 DEF NothingNew
  <1>7. CASE ExpireSignals
    BY <1>7 DEF ExpireSignals, Expire, buyVars, NothingNew
  <1>8. CASE \/ \E t \in Trades : Detect(t)
             \/ Operator \/ ForgetSignatures \/ EvictPrefetched
             \/ \E k \in Mints : CurveArrives(k) \/ CurveDropped(k)
             \/ UNCHANGED vars
    BY <1>1, <1>8 DEF Detect, Operator, SetRunning, SetBlocklist,
                ForgetSignatures, EvictPrefetched, CurveArrives, CurveDropped, vars,
                contractVars, buyVars
  <1> QED BY <1>1, <1>2, <1>3, <1>4, <1>5, <1>6, <1>7, <1>8 DEF Next

(* Once the bot is stopped or a token blocked, the token counts for no     *)
(* wallet anew, does not trigger, and is bought from a queued trigger only.*)
THEOREM StopAndBlockWork == Spec => NothingNewUnwanted
  <1>1. TypeOK /\ [Next]_vars
          => [\A m \in Mints :
                ~running \/ m \in blocked =>
                  /\ counted'[m] \subseteq counted[m]
                  /\ m \in triggered' => m \in triggered
                  /\ sent'[m] # sent[m]
                       => triggers # <<>> /\ Head(triggers).mint = m]_vars
    BY StepUnwanted DEF NothingNew
  <1> QED BY <1>1, TypeCorrect, PTL DEF Spec, NothingNewUnwanted

-----------------------------------------------------------------------------
(* No trigger is lost.                                                     *)

Queued(m) == \E k \in DOMAIN triggers : triggers[k].mint = m

\* The engine's operations leave what waits in the channel, and what triggers
\* waits.
LEMMA EngineQueues ==
  ASSUME ContractTyped, NEW n \in Mints, NEW w \in Wallets,
         Submit(n, w) \/ Revoke(n, w) \/ Expire,
         NEW m
  PROVE  /\ m \in triggered' => m \in triggered \/ Queued(m)'
         /\ Queued(m) => Queued(m)'
  <1>1. CASE Agree(n, w)
    <2>1. PICK kept \in SUBSET counted[n] :
            triggers' = Append(triggers, [mint |-> n, wallets |-> kept \cup {w}])
      BY <1>1 DEF Agree
    <2> DEFINE t == [mint |-> n, wallets |-> kept \cup {w}]
    <2>2. t.mint = n
      OBVIOUS
    <2> HIDE DEF t
    <2>3. triggers' = Append(triggers, t) /\ triggers \in Seq(Trigger)
      BY <2>1 DEF t, ContractTyped
    <2>4. /\ DOMAIN triggers = 1 .. Len(triggers) /\ Len(triggers) \in Nat
          /\ DOMAIN triggers' = 1 .. Len(triggers) + 1
          /\ \A k \in 1 .. Len(triggers) : triggers'[k] = triggers[k]
          /\ triggers'[Len(triggers) + 1] = t
      BY <2>3
    <2>5. Queued(n)' /\ (Queued(m) => Queued(m)')
      BY <2>2, <2>4 DEF Queued
    <2>6. triggered' = triggered \cup {n}
      BY <1>1 DEF Agree
    <2> QED BY <2>5, <2>6
  <1>2. CASE Count(n, w) \/ Ignore(n) \/ Revoke(n, w) \/ Expire
    <2>1. triggers' = triggers /\ triggered' \subseteq triggered
      BY <1>2 DEF Count, Ignore, Revoke, Expire, contractVars
    <2> QED BY <2>1 DEF Queued
  <1> QED BY <1>1, <1>2 DEF Submit

LEMMA HandleQueues ==
  ASSUME TypeOK, NoTriggerLost, NEW t \in Trades, HandleTrade(t)
  PROVE  NoTriggerLost'
  <1>1. mintDedup \subseteq mintDedup'
    BY DEF HandleTrade, DropStopped, DropDuplicate, TakeSale, SkipSmallBuy,
       SkipBlocked, SkipBought, BuyAtOnce, SubmitToConsensus, buyVars
  <1>2. CASE UNCHANGED <<triggered, triggers>>
    BY <1>1, <1>2 DEF NoTriggerLost
  <1>3. CASE SubmitToConsensus(t) \/ (TakeSale(t) /\ Revoke(t.mint, t.wallet))
    <2>1. \/ Submit(t.mint, t.wallet)
          \/ Revoke(t.mint, t.wallet)
      BY <1>3 DEF SubmitToConsensus
    <2> SUFFICES ASSUME NEW m \in triggered'
                 PROVE  m \in mintDedup' \/ Queued(m)'
      BY DEF NoTriggerLost, Queued
    <2>2. m \in triggered \/ Queued(m)'
      BY <2>1, TypeParts, TradeTyped, EngineQueues
    <2>3. m \in triggered => m \in mintDedup \/ Queued(m)
      BY DEF NoTriggerLost, Queued
    <2>4. Queued(m) => Queued(m)'
      BY <2>1, TypeParts, TradeTyped, EngineQueues
    <2> QED BY <1>1, <2>2, <2>3, <2>4
  <1>4. \/ UNCHANGED <<triggered, triggers>>
        \/ SubmitToConsensus(t)
        \/ TakeSale(t) /\ Revoke(t.mint, t.wallet)
    BY DEF HandleTrade, DropStopped, DropDuplicate, TakeSale, RevokeSignal,
       SkipSmallBuy, SkipBlocked, SkipBought, BuyAtOnce, contractVars
  <1> QED BY <1>2, <1>3, <1>4

\* The consumer remembers what it takes.
LEMMA ConsumeQueues ==
  ASSUME TypeOK, NoTriggerLost, ConsumeTrigger
  PROVE  NoTriggerLost'
  <1> DEFINE h == Head(triggers).mint
  <1>1. /\ triggers \in Seq(Trigger) /\ triggers # <<>>
        /\ triggers' = Tail(triggers) /\ triggered' = triggered
    BY TypeParts DEF ConsumeTrigger, Deliver, ContractTyped
  <1>2. mintDedup \subseteq mintDedup' /\ h \in mintDedup'
    BY DEF ConsumeTrigger, ConsumeKnown, ConsumeNew, Remembered, buyVars
  <1>3. ASSUME NEW m, Queued(m), m # h PROVE Queued(m)'
    <2>1. PICK k \in DOMAIN triggers : triggers[k].mint = m
      BY <1>3 DEF Queued
    <2>2. k # 1
      BY <1>1, <1>3, <2>1
    <2>3. k - 1 \in DOMAIN triggers' /\ triggers'[k - 1] = triggers[k]
      BY <1>1, <2>1, <2>2
    <2> QED BY <2>1, <2>3 DEF Queued
  <1> HIDE DEF h
  <1> QED BY <1>1, <1>2, <1>3 DEF NoTriggerLost, Queued

(* What the engine agreed on is never dropped on its way to the consumer:  *)
(* a token it is deaf for was bought, or its buy tried, or still waits.    *)
THEOREM TriggersAreNotLost == Spec => []NoTriggerLost
  <1>1. Init => NoTriggerLost
    BY DEF Init, ContractInit, NoTriggerLost
  <1>2. TypeOK /\ NoTriggerLost /\ [Next]_vars => NoTriggerLost'
    <2> SUFFICES ASSUME TypeOK, NoTriggerLost, [Next]_vars
                 PROVE  NoTriggerLost'
      OBVIOUS
    <2>1. CASE ExpireSignals
      BY <2>1 DEF ExpireSignals, Expire, buyVars, NoTriggerLost
    <2>2. CASE \/ \E t \in Trades : Detect(t)
               \/ Operator \/ ForgetSignatures \/ EvictPrefetched
               \/ \E m \in Mints : CurveArrives(m) \/ CurveDropped(m)
               \/ UNCHANGED vars
      BY <2>2 DEF Detect, Operator, SetRunning, SetBlocklist,
                  ForgetSignatures, EvictPrefetched, CurveArrives, CurveDropped, vars,
                  contractVars, buyVars, NoTriggerLost
    <2> QED BY <2>1, <2>2, HandleQueues, ConsumeQueues DEF Next
  <1> QED BY <1>1, <1>2, TypeCorrect, PTL DEF Spec
=============================================================================
