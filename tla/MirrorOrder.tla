----------------------------- MODULE MirrorOrder -----------------------------
(***************************************************************************)
(* The accounts of our orders.  A buy copies the account list of the       *)
(* followed wallet's instruction and puts ours in place of the wallet's    *)
(* (processor/pumpfun.rs); the list waits in the prefetch cache            *)
(* (processor/prefetch.rs), where the buy, often of another wallet's       *)
(* trade, and much later the sale take it from (main.rs,                   *)
(* tx/sell_executor.rs).                                                   *)
(*                                                                         *)
(* TradePipeline models which trades become buys and AutoSell when a       *)
(* position is sold.  Here any admitted buy may complete a consensus, any  *)
(* open position may be signalled for sale, and an entry of the cache may  *)
(* be evicted at any moment, where the code waits three hundred seconds;   *)
(* the stream may show a transaction again, as after a reconnect.          *)
(***************************************************************************)
EXTENDS TradeDetection

CONSTANTS
  Transactions,   \* what the stream may show
  MaxTriggers     \* bound on waiting triggers (the channel has none)

\* A transaction's first account pays for it, so it is no program's; no mint
\* is the address of an accumulator.
ASSUME MirrorAssumption ==
  /\ MaxTriggers \in Nat
  /\ \A tx \in Transactions : Head(AccountKeys(tx)) \notin SystemAddresses
  /\ \A m \in Mints, w \in Followed : m # Volume(w)

VARIABLES
  instant,    \* is_instant_mode
  prefetch,   \* the prefetch cache, with the trade of every entry
  watched,    \* tracked accounts, with the token they are tracked for
  toTrack,    \* the answer of prefetch_token, to be tracked next
  mintDedup,  \* mints a buy was executed for
  triggers,   \* mints waiting for the consumer of triggers
  orders,     \* the buys sent
  bought,     \* tokens on chain: the mint and the account that holds them
  open,       \* mints with a position that may be sold
  confirming, \* those whose position is not confirmed yet
  seller,     \* the sell task
  sale        \* the last pump.fun sale built

loopVars == <<instant, toTrack, triggers>>
posVars == <<open, confirming>>
sellVars == <<posVars, seller, sale>>
vars == <<loopVars, prefetch, watched, mintDedup, orders, bought, sellVars>>

Idle == [mint |-> None, ata |-> None, step |-> "idle"]

TypeOK ==
  /\ instant \in BOOLEAN
  /\ \A e \in prefetch : e.trade.tx \in Transactions
  /\ \A e, f \in prefetch : e.mint = f.mint => e = f
  /\ toTrack # None => toTrack.trade.tx \in Transactions
  /\ Len(triggers) <= MaxTriggers
  /\ \A o \in orders : o.mint \in mintDedup
  /\ \A b \in bought : b[1] \in Mints
  /\ open \subseteq {b[1] : b \in bought}
  /\ confirming \subseteq open
  /\ seller.step \in {"idle", "selling", "ending", "ended"}
  /\ sale # None => \E b \in bought : b[1] = sale.mint

Init ==
  /\ instant \in BOOLEAN
  /\ prefetch = {}
  /\ watched = {}
  /\ toTrack = None
  /\ mintDedup = {}
  /\ triggers = <<>>
  /\ orders = {}
  /\ bought = {}
  /\ open = {}
  /\ confirming = {}
  /\ seller = Idle
  /\ sale = None

Prefetched(m) == {e \in prefetch : e.mint = m}

-----------------------------------------------------------------------------
(* prefetch_token: the first trade's list is kept.                         *)

Entry(trade) ==
  LET m == TokenMint(trade)
  IN  [mint |-> m, curve |-> Curve(m), ata |-> Ata(Us, m, TokenProgram(trade)),
       program |-> TokenProgram(trade), trade |-> trade]

\* What it answers, and what is in the cache from then on.
PrefetchToken(trade) ==
  LET existing == Prefetched(TokenMint(trade))
  IN  IF existing = {} THEN Entry(trade) ELSE CHOOSE e \in existing : TRUE

\* track_bonding_curve and track_ata.
Tracked(e) == {<<e.curve, e.mint>>, <<e.ata, e.mint>>}

-----------------------------------------------------------------------------
(* replace_user_pdas and build_buy_instruction_from_mirror.  Of the seeds  *)
(* that are tried, one is in use.                                          *)

\* Seeded fault: our accounts one place too far.
MirroredShifted(e) ==
  [i \in DOMAIN e.trade.accounts |->
     CASE i - 1 = 6 -> e.ata
       [] i - 1 = 7 -> Us
       [] OTHER ->
            IF e.trade.accounts[i] = Volume(e.trade.wallet)
            THEN Volume(Us) ELSE e.trade.accounts[i]]

Mirrored(e) ==
  [i \in DOMAIN e.trade.accounts |->
     CASE i - 1 = 5 -> e.ata
       [] i - 1 = 6 -> Us
       [] OTHER ->
            IF e.trade.accounts[i] = Volume(e.trade.wallet)
            THEN Volume(Us) ELSE e.trade.accounts[i]]

\* The account of create_associated_token_account_idempotent.
BuyOrder(e) ==
  [mint |-> e.mint, accounts |-> Mirrored(e),
   created |-> Ata(Us, e.mint, e.program), trade |-> e.trade]

\* execute_buy: the order needs an entry.  Whether there is a price for it, of
\* the cached curve or of the target's own instruction, is Pricing's matter;
\* here finding one, building the order or sending it may fail.
ExecuteBuy(m) ==
  orders' \in {orders} \cup {orders \cup {BuyOrder(e)} : e \in Prefetched(m)}

-----------------------------------------------------------------------------
(* The main loop.                                                          *)

\* Too small, blocked or, in instant mode, already bought.
Ignored(trade) ==
  \/ ~HasToken(trade)
  \/ instant /\ TokenMint(trade) \in mintDedup

\* A sale, and what is ignored, changes nothing here.
HandleBuy(tx) ==
  /\ toTrack = None
  /\ LET trade == ParseTransaction(tx)
     IN  /\ trade # None
         /\ trade.buy
         /\ ~Ignored(trade)
         /\ mintDedup' = IF instant THEN mintDedup \cup {TokenMint(trade)}
                                    ELSE mintDedup
         /\ toTrack' = PrefetchToken(trade)
         /\ prefetch' = prefetch \cup {toTrack'}
  /\ UNCHANGED <<instant, triggers, watched, orders, bought, sellVars>>

\* The entry's accounts are tracked; then the token is bought, or the wallet
\* counted and the consensus perhaps reached.
TrackAndBuy ==
  /\ toTrack # None
  /\ watched' = watched \cup Tracked(toTrack)
  /\ \/ /\ instant
        /\ ExecuteBuy(toTrack.mint)
        /\ UNCHANGED triggers
     \/ ~instant /\ UNCHANGED <<orders, triggers>>
     \/ /\ ~instant
        /\ Len(triggers) < MaxTriggers
        /\ triggers' = Append(triggers, toTrack.mint)
        /\ UNCHANGED orders
  /\ toTrack' = None
  /\ UNCHANGED <<instant, prefetch, mintDedup, bought, sellVars>>

\* The consumer of triggers.
ConsumeTrigger ==
  /\ triggers # <<>>
  /\ triggers' = Tail(triggers)
  /\ LET m == Head(triggers)
     IN  IF m \in mintDedup THEN UNCHANGED <<mintDedup, orders>>
         ELSE mintDedup' = mintDedup \cup {m} /\ ExecuteBuy(m)
  /\ UNCHANGED <<instant, toTrack, prefetch, watched, bought, sellVars>>

\* PrefetchCache::cleanup
Evict ==
  /\ prefetch' \in SUBSET prefetch
  /\ UNCHANGED <<loopVars, watched, mintDedup, orders, bought, sellVars>>

-----------------------------------------------------------------------------
(* The chain (external): a buy needs every account pump.fun asks for.      *)

BuyLands(o) ==
  /\ o.mint \in Mints
  /\ o.accounts = BuyAccounts(Us, o.mint)
  /\ \A b \in bought : b[1] # o.mint
  /\ bought' = bought \cup {<<o.mint, o.created>>}
  /\ open' = open \cup {o.mint}
  /\ confirming' = confirming \cup {o.mint}
  /\ UNCHANGED <<loopVars, prefetch, watched, mintDedup, orders, seller, sale>>

-----------------------------------------------------------------------------
(* Confirming the buy.                                                     *)

\* By the confirmer or the account stream.
Confirmed(m) ==
  /\ m \in confirming
  /\ confirming' = confirming \ {m}
  /\ UNCHANGED <<loopVars, prefetch, watched, mintDedup, orders, bought, open,
                 seller, sale>>

\* The account the fallback monitor asks for, whatever the token's program.
FallbackAccount(m) == Ata(Us, m, TokenLegacy)

\* The fallback monitor after confirm_timeout_secs.
FallbackLooks(m) ==
  /\ m \in confirming
  /\ confirming' = confirming \ {m}
  /\ open' = IF <<m, FallbackAccount(m)>> \in bought THEN open
             ELSE open \ {m}  \* mark_failed
  /\ UNCHANGED <<loopVars, prefetch, watched, mintDedup, orders, bought,
                 seller, sale>>

\* A request that fails counts as no tokens.
FallbackLookFails(m) ==
  /\ m \in confirming
  /\ confirming' = confirming \ {m}
  /\ open' = open \ {m}
  /\ UNCHANGED <<loopVars, prefetch, watched, mintDedup, orders, bought,
                 seller, sale>>

-----------------------------------------------------------------------------
(* handle_sell_signal.                                                     *)

\* Seeded fault: the account listed for the followed wallet.
ListedAccount(m) ==
  IF Prefetched(m) = {} THEN Ata(Us, m, TokenLegacy)
  ELSE (CHOOSE e \in Prefetched(m) : TRUE).trade.accounts[6]

\* The prefetched account; without an entry that of a legacy token.
OwnAccount(m) ==
  IF Prefetched(m) = {} THEN Ata(Us, m, TokenLegacy)
  ELSE (CHOOSE e \in Prefetched(m) : TRUE).ata

\* The balance: by the cache, if the tokens' account is tracked, or by RPC.
SeesTokens(m) ==
  \E b \in bought : b[1] = m /\ (<<b[2], m>> \in watched \/ b[2] = OwnAccount(m))

BeginSale(m) ==
  /\ seller = Idle
  /\ m \in open
  /\ open' = open \ {m}
  /\ confirming' = confirming \ {m}
  /\ seller' = IF SeesTokens(m)
               THEN [mint |-> m, ata |-> OwnAccount(m), step |-> "selling"]
               ELSE Idle  \* confirm_failed: zero balance
  /\ UNCHANGED <<loopVars, prefetch, watched, mintDedup, orders, bought, sale>>

\* The accounts after the fixed ones.
RemainingOf(m, curveV2) ==
  IF m \in Cashback THEN << Volume(Us), curveV2 >> ELSE << curveV2 >>

\* Seeded fault: positions counted from one.
SaleOrderFromOne(e) ==
  LET list == e.trade.accounts
  IN  [mint |-> e.mint, ata |-> e.ata, trade |-> e.trade,
       accounts |->
         << <<"global">>, <<"fee">>, list[2], list[3], list[4], e.ata, Us,
            System, CreatorVault(e.mint), e.program, <<"event">>, Pumpfun,
            <<"fee_config">>, <<"fee_program">> >>
         \o RemainingOf(e.mint, CurveV2(list[2]))]

\* build_sell_instruction_from_mirror: the creator and is_cashback come with
\* the curve, the rest from the entry.
SaleOrder(e) ==
  LET list == e.trade.accounts
  IN  [mint |-> e.mint, ata |-> e.ata, trade |-> e.trade,
       accounts |->
         << <<"global">>, <<"fee">>, list[3], list[4], list[5], e.ata, Us,
            System, CreatorVault(e.mint), e.program, <<"event">>, Pumpfun,
            <<"fee_config">>, <<"fee_program">> >>
         \o RemainingOf(e.mint, CurveV2(list[3]))]

\* try_pumpfun_sell; without an entry the sale goes through Jupiter.
TrySale ==
  /\ seller.step = "selling"
  /\ \E e \in Prefetched(seller.mint) : sale' = SaleOrder(e)
  /\ UNCHANGED <<loopVars, prefetch, watched, mintDedup, orders, bought,
                 posVars, seller>>

\* Sold or given up, or else handed back.
SaleEnds ==
  /\ seller.step = "selling"
  /\ \/ seller' = [seller EXCEPT !.step = "ending"] /\ UNCHANGED open
     \/ seller' = Idle /\ open' = open \cup {seller.mint}
  /\ UNCHANGED <<loopVars, prefetch, watched, mintDedup, orders, bought,
                 confirming, sale>>

UntrackMint(m) == watched' = {w \in watched : w[2] # m} /\ UNCHANGED prefetch
RemoveEntry(m) == prefetch' = prefetch \ Prefetched(m) /\ UNCHANGED watched

\* Seeded fault: the other way round.
RemoveThenUntrack(m, step) ==
  IF step = "ending" THEN RemoveEntry(m) ELSE UntrackMint(m)

UntrackThenRemove(m, step) ==
  IF step = "ending" THEN UntrackMint(m) ELSE RemoveEntry(m)

CleanUp ==
  /\ seller.step \in {"ending", "ended"}
  /\ UntrackThenRemove(seller.mint, seller.step)
  /\ seller' = IF seller.step = "ended" THEN Idle
               ELSE [seller EXCEPT !.step = "ended"]
  /\ UNCHANGED <<loopVars, mintDedup, orders, bought, posVars, sale>>

-----------------------------------------------------------------------------

Next ==
  \/ \E tx \in Transactions : HandleBuy(tx)
  \/ TrackAndBuy
  \/ ConsumeTrigger
  \/ Evict
  \/ \E o \in orders : BuyLands(o)
  \/ \E m \in Mints : Confirmed(m)
  \/ \E m \in Mints : FallbackLooks(m)
  \/ \E m \in Mints : FallbackLookFails(m)
  \/ \E m \in Mints : BeginSale(m)
  \/ TrySale
  \/ SaleEnds
  \/ CleanUp

Spec == Init /\ [][Next]_vars

-----------------------------------------------------------------------------

\* The trade of a wallet that itself bought a token, all accounts seen.
Plain(trade) ==
  \E w \in Followed, m \in Mints :
    trade.wallet = w /\ trade.accounts = BuyAccounts(w, m)

(* A mirrored buy is the buy we would have built: whichever wallet's list  *)
(* the cache held, and whichever completed the consensus, no account of    *)
(* the followed wallet is left in it, and the account it fills is the one  *)
(* created for it (replace_user_pdas takes the entry's wallet).            *)
BuyIsOurs ==
  \A o \in orders :
    Plain(o.trade) => /\ o.accounts = BuyAccounts(Us, o.mint)
                      /\ o.created = o.accounts[6]

(* A sale built from a buyer's list, perhaps another than the one bought   *)
(* with, names what pump.fun asks for and draws on the tokens bought.      *)
SaleMatchesBuy ==
  sale # None /\ Plain(sale.trade) =>
    /\ sale.accounts = SellAccounts(Us, sale.mint)
    /\ <<sale.mint, sale.ata>> \in bought

(* A position's tokens are where the program looks for them.  The sell     *)
(* task (handle_sell_signal) finds them though the entry they were bought  *)
(* with may be evicted and made anew from another wallet's trade, but in   *)
(* two cases, in which it sells no token: the entry was made from what is  *)
(* no wallet's own buy, or it is gone and the token is a Token-2022 one.   *)
(* The fallback monitor finds those of a legacy token.  Of a Token-2022    *)
(* position it finds none and fails it, against manager.rs:253.            *)
TokensAreFound ==
  \A m \in open :
    /\ TokenProgramOf[m] = Token2022 \/ <<m, FallbackAccount(m)>> \in bought
    /\ \/ <<m, OwnAccount(m)>> \in bought
       \/ \E e \in Prefetched(m) : ~Plain(e.trade)
       \/ Prefetched(m) = {} /\ TokenProgramOf[m] = Token2022

(* What is prefetched is watched, but for the moment between prefetch and  *)
(* track and between untrack and remove: a trade that comes in while a     *)
(* sale cleans up (sell_executor.rs:248) leaves no entry unwatched.        *)
PrefetchedIsWatched ==
  \A e \in prefetch :
    \/ Tracked(e) \subseteq watched
    \/ toTrack = e
    \/ seller.mint = e.mint /\ seller.step = "ended"

(* pumpfun.rs:328: every account of the followed wallet is replaced.  One  *)
(* is left where the positions are not those of a buy: in the list of all  *)
(* accounts that a routed trade leaves in the cache, and in a list from    *)
(* which the addresses of an unresolved lookup table are missing.          *)
NoForeignAccount ==
  \A o \in orders, w \in Followed :
    ToSet(o.accounts) \cap
      ({w, Volume(w)} \cup {Ata(w, m, TokenProgramOf[m]) : m \in Mints}) = {}
=============================================================================
