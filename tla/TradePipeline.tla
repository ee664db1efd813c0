--------------------------- MODULE TradePipeline ---------------------------
(***************************************************************************)
(* From a detected trade to a buy: the transaction stream                  *)
(* (grpc/subscriber.rs), the main loop with its filters and deduplications *)
(* and the consumer of consensus triggers (main.rs), the prefetch cache    *)
(* (processor/prefetch.rs) and the operator's /start, /stop, /block and    *)
(* /unblock (telegram.rs).  The consensus engine takes part as what it     *)
(* promises, ConsensusContract.                                            *)
(*                                                                         *)
(* The main loop handles one trade at a time and awaits nothing while it   *)
(* does; every shared table is read or written once per trade.  One trade  *)
(* is therefore one action, and so is one trigger of the consumer.         *)
(*                                                                         *)
(* Time is left out: a signature may be forgotten and a prefetched token   *)
(* evicted at any moment, where the code waits ten and three hundred       *)
(* seconds.                                                                *)
(*                                                                         *)
(* So is the tracking of accounts.  The loop prefetches, tracks and asks   *)
(* for the curve in separate calls; that a sale may clean up between them  *)
(* is MirrorOrder's subject, who keeps the curve cache AccountSubscriber's.*)
(* Here a curve may come at any time once a buy of the token was admitted, *)
(* and go at any time once the token was bought.                           *)
(***************************************************************************)
EXTENDS ConsensusContract

CONSTANTS
  Trades,     \* the trades of the followed wallets, see Trade
  MaxPending  \* bound on undelivered trades (the channel has none)

Sigs == {t.sig : t \in Trades}

VARIABLES
  instant,     \* is_instant_mode: fixed when the program starts
  running,     \* is_running
  pending,     \* the channel from the stream to the main loop
  sigCache,    \* the signatures remembered
  mintDedup,   \* the mints a buy was executed for, sent or not
  blocked,     \* the operator's blocklist
  prefetched,  \* mints in the prefetch cache
  admitted,    \* history: mints a buy of which was prefetched
  bcCached,    \* mints in the bonding curve cache
  sent,        \* history: buys sent, per mint
  lastTrade,   \* history: the last trade taken, per mint and wallet
  soldUnseen   \* history: mints and wallets of sales dropped since

buyVars == <<mintDedup, prefetched, admitted, bcCached, sent>>
tradeVars == <<lastTrade, soldUnseen>>
loopVars == <<instant, running, pending, sigCache, blocked, tradeVars>>
vars == <<contractVars, buyVars, loopVars>>

Trade == [sig : Sigs, wallet : Wallets, mint : Mints, buy : BOOLEAN]

ASSUME PipelineAssumption ==
  /\ Trades \subseteq Trade
  /\ MaxPending \in Nat \ {0}

TypeOK ==
  /\ counted \in [Mints -> SUBSET Wallets]
  /\ triggered \subseteq Mints
  /\ triggers \in Seq(Trigger)
  /\ instant \in BOOLEAN
  /\ running \in BOOLEAN
  /\ pending \in Seq(Trades)
  /\ Len(pending) <= MaxPending
  /\ sigCache \subseteq Sigs
  /\ mintDedup \subseteq Mints
  /\ blocked \subseteq Mints
  /\ prefetched \subseteq admitted
  /\ admitted \subseteq Mints
  /\ bcCached \subseteq admitted
  /\ sent \in [Mints -> Nat]
  /\ lastTrade \in [Mints -> [Wallets -> {"none", "bought", "sold"}]]
  /\ soldUnseen \subseteq Mints \X Wallets

\* The bot starts paused and waits for /start.
Init ==
  /\ ContractInit
  /\ instant \in BOOLEAN
  /\ running = FALSE
  /\ pending = <<>>
  /\ sigCache = {}
  /\ mintDedup = {}
  /\ blocked = {}
  /\ prefetched = {}
  /\ admitted = {}
  /\ bcCached = {}
  /\ sent = [m \in Mints |-> 0]
  /\ lastTrade = [m \in Mints |-> [w \in Wallets |-> "none"]]
  /\ soldUnseen = {}

-----------------------------------------------------------------------------
(* The stream: any trade may be detected, twice, late or never.            *)

Detect(t) ==
  /\ Len(pending) < MaxPending
  /\ pending' = Append(pending, t)
  /\ UNCHANGED <<contractVars, buyVars, instant, running, sigCache, blocked,
                 tradeVars>>

-----------------------------------------------------------------------------
(* execute_buy: build from the prefetched token and a price, and send.     *)

\* The price comes from the bonding curve cache or from the target's own
\* instruction, which the consensus consumer does not have.
CanBuild(m, hasInstruction) ==
  /\ m \in prefetched'
  /\ m \in bcCached \/ hasInstruction

\* Building or sending may fail all the same; nothing is undone then.
ExecuteBuy(m, hasInstruction) ==
  /\ \/ /\ CanBuild(m, hasInstruction)
        /\ sent' = [sent EXCEPT ![m] = @ + 1]
     \/ UNCHANGED sent
  /\ UNCHANGED bcCached

-----------------------------------------------------------------------------
(* The main loop, for the trade at the head of the channel.                *)

Received(t) == pending # <<>> /\ t = Head(pending)

\* The histories: a trade that is taken, and a sale that is not.
Taken(t, what) ==
  /\ lastTrade' = [lastTrade EXCEPT ![t.mint][t.wallet] = what]
  /\ soldUnseen' = soldUnseen \ {<<t.mint, t.wallet>>}

Dropped(t) ==
  /\ soldUnseen' = IF t.buy THEN soldUnseen
                   ELSE soldUnseen \cup {<<t.mint, t.wallet>>}
  /\ UNCHANGED lastTrade

\* Stopped: the trade is dropped, a sale as well as a buy.
DropStopped(t) ==
  /\ ~running
  /\ Dropped(t)
  /\ UNCHANGED <<contractVars, buyVars, sigCache>>

DropDuplicate(t) ==
  /\ running
  /\ t.sig \in sigCache
  /\ UNCHANGED <<contractVars, buyVars, sigCache, tradeVars>>

Fresh(t) ==
  /\ running
  /\ t.sig \notin sigCache
  /\ sigCache' = sigCache \cup {t.sig}

\* Seeded fault: sales only matter to a bot that follows them.
KeepSignal(t) == UNCHANGED contractVars

RevokeSignal(t) ==
  IF instant THEN UNCHANGED contractVars ELSE Revoke(t.mint, t.wallet)

TakeSale(t) ==
  /\ ~t.buy
  /\ Fresh(t)
  /\ RevokeSignal(t)
  /\ Taken(t, "sold")
  /\ UNCHANGED buyVars

\* Below the amount the operator set, or no mint found in it.
SkipSmallBuy(t) ==
  /\ t.buy
  /\ Fresh(t)
  /\ UNCHANGED <<contractVars, buyVars, tradeVars>>

\* Seeded fault: the blocklist holds for immediate buys only.
AllowedBySubmit(m) == instant => m \notin blocked

Allowed(m) == m \notin blocked

SkipBlocked(t) ==
  /\ t.buy
  /\ Fresh(t)
  /\ ~Allowed(t.mint)
  /\ UNCHANGED <<contractVars, buyVars, tradeVars>>

SkipBought(t) ==
  /\ t.buy
  /\ Fresh(t)
  /\ instant
  /\ Allowed(t.mint)
  /\ t.mint \in mintDedup
  /\ UNCHANGED <<contractVars, buyVars, tradeVars>>

\* prefetch_token; what the loop does next makes curves of the mint come.
Prefetch(m) ==
  /\ prefetched' = prefetched \cup {m}
  /\ admitted' = admitted \cup {m}

BuyAtOnce(t) ==
  /\ t.buy
  /\ Fresh(t)
  /\ instant
  /\ Allowed(t.mint)
  /\ t.mint \notin mintDedup
  /\ mintDedup' = mintDedup \cup {t.mint}
  /\ Prefetch(t.mint)
  /\ \E hasInstruction \in BOOLEAN : ExecuteBuy(t.mint, hasInstruction)
  /\ Taken(t, "bought")
  /\ UNCHANGED contractVars

SubmitToConsensus(t) ==
  /\ t.buy
  /\ Fresh(t)
  /\ ~instant
  /\ Allowed(t.mint)
  /\ Prefetch(t.mint)
  /\ Submit(t.mint, t.wallet)
  /\ Taken(t, "bought")
  /\ UNCHANGED <<mintDedup, bcCached, sent>>

HandleTrade(t) ==
  /\ Received(t)
  /\ pending' = Tail(pending)
  /\ UNCHANGED <<instant, running, blocked>>
  /\ \/ DropStopped(t)
     \/ DropDuplicate(t)
     \/ TakeSale(t)
     \/ SkipSmallBuy(t)
     \/ SkipBlocked(t)
     \/ SkipBought(t)
     \/ BuyAtOnce(t)
     \/ SubmitToConsensus(t)

-----------------------------------------------------------------------------
(* The consumer of consensus triggers.  It looks neither at the blocklist  *)
(* nor at is_running.                                                      *)

ConsumeKnown(m) ==
  /\ m \in mintDedup
  /\ UNCHANGED buyVars

\* Seeded fault: the mint is not remembered.
NotRemembered(m) == mintDedup

\* Seeded fault: only a mint whose buy can be built is remembered.
RememberedIfBuilt(m) ==
  IF m \in prefetched \cap bcCached THEN mintDedup \cup {m} ELSE mintDedup

Remembered(m) == mintDedup \cup {m}

ConsumeNew(m) ==
  /\ m \notin mintDedup
  /\ mintDedup' = Remembered(m)
  /\ UNCHANGED <<prefetched, admitted>>
  /\ ExecuteBuy(m, FALSE)

ConsumeTrigger ==
  /\ Deliver
  /\ LET m == Head(triggers).mint IN ConsumeKnown(m) \/ ConsumeNew(m)
  /\ UNCHANGED loopVars

-----------------------------------------------------------------------------
(* The other tasks.                                                        *)

SetRunning(value) ==
  /\ running' = value
  /\ UNCHANGED <<contractVars, buyVars, instant, pending, sigCache, blocked,
                 tradeVars>>

SetBlocklist(value) ==
  /\ blocked' = value
  /\ UNCHANGED <<contractVars, buyVars, instant, running, pending, sigCache,
                 tradeVars>>

Operator ==
  \/ \E value \in BOOLEAN : SetRunning(value)
  \/ \E m \in Mints :
       SetBlocklist(blocked \cup {m}) \/ SetBlocklist(blocked \ {m})

\* The cleanup of sig_cache; mint_dedup is never cleaned.
ForgetSignatures ==
  /\ sigCache' \in SUBSET sigCache
  /\ UNCHANGED <<contractVars, buyVars, instant, running, pending, blocked,
                 tradeVars>>

EvictPrefetched ==
  /\ prefetched' \in SUBSET prefetched
  /\ UNCHANGED <<contractVars, loopVars, mintDedup, admitted, bcCached, sent>>

\* An update of the account stream, the answer of a prefetch task or that of
\* the fallback monitor; an answer is stored whether the token is tracked or
\* not, so it may come after the token was dropped.
CurveArrives(m) ==
  /\ m \in admitted
  /\ bcCached' = bcCached \cup {m}
  /\ UNCHANGED <<contractVars, loopVars, mintDedup, prefetched, admitted, sent>>

\* A sell task is done with the token: untrack_mint.
CurveDropped(m) ==
  /\ sent[m] > 0
  /\ bcCached' = bcCached \ {m}
  /\ UNCHANGED <<contractVars, loopVars, mintDedup, prefetched, admitted, sent>>

ExpireSignals ==
  /\ Expire
  /\ UNCHANGED <<buyVars, loopVars>>

Next ==
  \/ \E t \in Trades : Detect(t) \/ HandleTrade(t)
  \/ ConsumeTrigger
  \/ Operator
  \/ ForgetSignatures
  \/ EvictPrefetched
  \/ \E m \in Mints : CurveArrives(m) \/ CurveDropped(m)
  \/ ExpireSignals

Spec == Init /\ [][Next]_vars

\* The consumer is scheduled; wallets, stream and operator owe nothing.
FairSpec == Spec /\ WF_vars(ConsumeTrigger)

-----------------------------------------------------------------------------

(* A token is bought once in a run (main.rs:264 and 494), in both modes:   *)
(* whatever is replayed, stopped and started again, and however often the  *)
(* consensus engine forgets the token and triggers anew.                   *)
BoughtOnce == \A m \in Mints : sent[m] <= 1

(* No consensus is lost between the engine and the consumer: of a token    *)
(* the engine is deaf for, the buy was tried or its trigger still waits.   *)
NoTriggerLost ==
  \A m \in triggered :
    m \in mintDedup \/ \E k \in DOMAIN triggers : triggers[k].mint = m

(* Stopping and blocking work at once: while the bot is stopped or a token *)
(* blocked, no wallet starts to count for the token, it does not trigger   *)
(* and it is not bought, except from a trigger queued before.              *)
NothingNewUnwanted ==
  [][\A m \in Mints :
       ~running \/ m \in blocked =>
         /\ counted'[m] \subseteq counted[m]
         /\ m \in triggered' => m \in triggered
         /\ sent'[m] # sent[m] => triggers # <<>> /\ Head(triggers).mint = m]_vars

\* The last trade of every wallet that counts, of those the loop took, is a
\* buy: why the next property holds.
SignalsAreBacked ==
  \A m \in Mints : \A w \in counted[m] : lastTrade[m][w] = "bought"

(* No consensus without its trades: a trigger names at least MinWallets    *)
(* wallets, and the last trade of each that the running loop took is a buy *)
(* it admitted.  A sale that reaches the loop while it is stopped is not   *)
(* taken; SalesWithdraw is about those.                                    *)
TriggersAreBacked ==
  [][Len(triggers') > Len(triggers) =>
       LET t == triggers'[Len(triggers')]
       IN  /\ Cardinality(t.wallets) >= MinWallets
           /\ \A w \in t.wallets : lastTrade'[t.mint][w] = "bought"]_vars

(* main.rs 435: whatever the mode, a wallet's sale withdraws its signal,   *)
(* against false consensus.  A sale that the stopped loop drops (main.rs   *)
(* 420) withdraws nothing: after /start the wallet still counts.           *)
SalesWithdraw ==
  [][Len(triggers') > Len(triggers) =>
       LET t == triggers'[Len(triggers')]
       IN  \A w \in t.wallets : <<t.mint, w>> \notin soldUnseen']_vars

(* A consensus is answered: its token is bought or its buy was tried.      *)
TriggerIsAnswered ==
  \A m \in Mints :
    (m \in triggered) ~> (m \in mintDedup)
=============================================================================
