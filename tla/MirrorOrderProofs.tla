--------------------------- MODULE MirrorOrderProofs ---------------------------
(***************************************************************************)
(* Proofs about MirrorOrder, for all transactions the stream may show,     *)
(* wallets and tokens.                                                     *)
(***************************************************************************)
EXTENDS MirrorOrder, TLAPS

\* The trades the main loop goes on with, their tokens and their entries.
Trades == {t \in {ParseTransaction(tx) : tx \in Transactions} :
             t # None /\ t.buy /\ HasToken(t)}
Tokens == {TokenMint(t) : t \in Trades}
Entries == {Entry(t) : t \in Trades}

\* The tokens a position was opened for.
Held == {b[1] : b \in bought}

-----------------------------------------------------------------------------
(* Trades and account lists.                                               *)

\* A trade has its transaction; if it was found by its accounts alone, its
\* list begins with the payer.
LEMMA TradeForms ==
  ASSUME NEW t \in Trades
  PROVE  /\ t.tx \in Transactions
         /\ t.mint = None \/ Head(t.accounts) \notin SystemAddresses
<1>1. PICK tx \in Transactions : t = ParseTransaction(tx) /\ t # None
  BY DEF Trades
<1>2. \/ \E ix : t = InstructionTrade(tx, ix)
      \/ t = CpiTrade(tx)
  BY <1>1 DEF ParseTransaction
<1>3. ASSUME NEW ix, t = InstructionTrade(tx, ix)
      PROVE  t.tx = tx /\ t.mint = None
  BY <1>3 DEF InstructionTrade
<1>4. ASSUME t = CpiTrade(tx)
      PROVE  t.tx = tx /\ t.accounts = AccountKeys(tx)
  BY <1>4 DEF CpiTrade
<1> QED
  BY <1>1, <1>2, <1>3, <1>4, MirrorAssumption

LEMMA EntryParts ==
  ASSUME NEW e \in Entries
  PROVE  /\ e.trade \in Trades
         /\ e = Entry(e.trade)
         /\ e.mint = TokenMint(e.trade)
         /\ e.mint \in Tokens
         /\ e.program = TokenProgram(e.trade)
         /\ e.ata = Ata(Us, e.mint, e.program)
         /\ e # None
<1>1. PICK t \in Trades : e = Entry(t)
  BY DEF Entries
<1>2. e = [mint |-> TokenMint(t), curve |-> Curve(TokenMint(t)),
           ata |-> Ata(Us, TokenMint(t), TokenProgram(t)),
           program |-> TokenProgram(t), trade |-> t]
  BY <1>1 DEF Entry
<1>3. e # None
  <2>1. DOMAIN e # {}
    BY <1>2
  <2>2. DOMAIN None = {}
    BY DEF None
  <2> QED
    BY <2>1, <2>2
<1>4. /\ e.trade = t /\ e.mint = TokenMint(t) /\ e.program = TokenProgram(t)
      /\ e.ata = Ata(Us, TokenMint(t), TokenProgram(t))
  BY <1>2
<1>5. TokenMint(t) \in Tokens
  BY DEF Tokens
<1> QED
  BY <1>1, <1>3, <1>4, <1>5

\* An entry made from a list that begins as a buy's was made from an
\* instruction, and tells its token and token program.
LEMMA ListedEntry ==
  ASSUME NEW e \in Entries, Head(e.trade.accounts) = <<"global">>
  PROVE  /\ e.mint = e.trade.accounts[3]
         /\ e.program = e.trade.accounts[9]
<1>1. <<"global">> \in SystemAddresses
  BY DEF SystemAddresses
<1>2. e.trade.mint = None
  BY <1>1, EntryParts, TradeForms
<1> QED
  BY <1>2, EntryParts DEF TokenMint, TokenProgram

LEMMA PlainEntry ==
  ASSUME NEW e \in Entries, NEW w, NEW m,
         e.trade.accounts = BuyAccounts(w, m)
  PROVE  e.mint = m /\ e.program = TokenProgramOf[m]
         /\ e.ata = Ata(Us, m, TokenProgramOf[m])
<1>1. /\ Head(BuyAccounts(w, m)) = <<"global">>
      /\ BuyAccounts(w, m)[3] = m
      /\ BuyAccounts(w, m)[9] = TokenProgramOf[m]
  BY DEF BuyAccounts
<1> QED
  BY <1>1, ListedEntry, EntryParts

-----------------------------------------------------------------------------
(* Orders.                                                                 *)

\* Our accounts in place of the wallet's make a buyer's list ours.
LEMMA MirroredIsOurs ==
  ASSUME NEW e \in Entries, NEW w \in Followed, NEW m \in Mints,
         e.trade.wallet = w, e.trade.accounts = BuyAccounts(w, m)
  PROVE  Mirrored(e) = BuyAccounts(Us, m)
<1> DEFINE a == BuyAccounts(w, m)
           b == BuyAccounts(Us, m)
           f == Mirrored(e)
<1>1. e.ata = Ata(Us, m, TokenProgramOf[m])
  BY PlainEntry
<1>2. m # Volume(w) /\ TokenProgramOf[m] \in {TokenLegacy, Token2022}
  BY MirrorAssumption, DetectionAssumption
<1>3. f = [i \in 1 .. 17 |->
             CASE i - 1 = 5 -> Ata(Us, m, TokenProgramOf[m])
               [] i - 1 = 6 -> Us
               [] OTHER -> IF a[i] = Volume(w) THEN Volume(Us) ELSE a[i]]
  <2>1. DOMAIN a = 1 .. 17
    BY DEF BuyAccounts
  <2> HIDE DEF a
  <2> QED
    BY <1>1, <2>1 DEF Mirrored, a
<1>4. ASSUME NEW i \in 1 .. 17 PROVE f[i] = b[i]
  <2>1. CASE i = 6
    BY <1>3, <2>1 DEF BuyAccounts
  <2>2. CASE i = 7
    BY <1>3, <2>2 DEF BuyAccounts
  <2>3. CASE i = 14
    <3>1. a[i] = Volume(w) /\ b[i] = Volume(Us)
      BY <2>3 DEF BuyAccounts
    <3> HIDE DEF a, b, f
    <3> QED
      BY <1>3, <2>3, <3>1
  <2>4. CASE i \in {1, 2, 3, 4, 5, 8, 9, 10, 11, 12, 13, 15, 16, 17}
    <3>1. a[i] = b[i]
      BY <2>4 DEF BuyAccounts
    <3>2. a[i] # Volume(w)
      BY <1>2, <2>4 DEF BuyAccounts, Volume, TokenLegacy, Token2022, Curve,
         Ata, System, Pumpfun, CreatorVault, CurveV2
    <3> HIDE DEF a, b, f
    <3> QED
      BY <1>3, <2>4, <3>1, <3>2
  <2> QED
    BY <2>1, <2>2, <2>3, <2>4
<1>5. b = [i \in 1 .. 17 |-> b[i]]
  BY DEF BuyAccounts
<1>6. f = [i \in 1 .. 17 |-> f[i]]
  BY Zenon, <1>3
<1> HIDE DEF b, f
<1>7. f = b
  BY <1>4, <1>5, <1>6
<1> QED
  BY <1>7 DEF b, f

\* A buy with the accounts pump.fun asks for fills the account of the token's
\* own program.
LEMMA LandedAccount ==
  ASSUME NEW e \in Entries, NEW m \in Mints,
         BuyOrder(e).accounts = BuyAccounts(Us, m), BuyOrder(e).mint = m
  PROVE  BuyOrder(e).created = Ata(Us, m, TokenProgramOf[m])
<1> DEFINE a == e.trade.accounts
           f == Mirrored(e)
           v == Volume(e.trade.wallet)
<1>1. f = BuyAccounts(Us, m) /\ e.mint = m
  BY DEF BuyOrder
<1>2. /\ DOMAIN f = DOMAIN a
      /\ \A i \in DOMAIN f : i \notin {6, 7} =>
           f[i] = IF a[i] = v THEN Volume(Us) ELSE a[i]
  BY DEF Mirrored
<1>3. /\ DOMAIN f = 1 .. 17
      /\ f[1] = <<"global">> /\ f[9] = TokenProgramOf[m]
  BY <1>1 DEF BuyAccounts
<1>4. TokenProgramOf[m] \in {TokenLegacy, Token2022}
  BY DetectionAssumption
<1>5. f[1] # Volume(Us) /\ f[9] # Volume(Us)
  BY <1>3, <1>4 DEF Volume, TokenLegacy, Token2022
<1>6. a[1] = <<"global">> /\ a[9] = TokenProgramOf[m]
  BY <1>2, <1>3, <1>5
<1>7. e.program = TokenProgramOf[m]
  BY <1>6, ListedEntry
<1> QED
  BY <1>1, <1>7 DEF BuyOrder

LEMMA SaleParts ==
  ASSUME NEW e
  PROVE  /\ SaleOrder(e).mint = e.mint
         /\ SaleOrder(e).ata = e.ata
         /\ SaleOrder(e).trade = e.trade
  BY DEF SaleOrder

\* A sale from a buyer's list names what pump.fun asks for.
LEMMA SaleFromBuyersList ==
  ASSUME NEW e \in Entries, NEW w, NEW m,
         e.trade.accounts = BuyAccounts(w, m)
  PROVE  /\ SaleOrder(e).accounts = SellAccounts(Us, m)
         /\ SaleOrder(e).mint = m
         /\ SaleOrder(e).ata = Ata(Us, m, TokenProgramOf[m])
<1>1. /\ e.mint = m /\ e.program = TokenProgramOf[m]
      /\ e.ata = Ata(Us, m, TokenProgramOf[m])
  BY PlainEntry
<1>2. /\ e.trade.accounts[3] = m
      /\ e.trade.accounts[4] = Curve(m)
      /\ e.trade.accounts[5] = Ata(Curve(m), m, TokenProgramOf[m])
  BY DEF BuyAccounts
<1>3. RemainingOf(m, CurveV2(m)) = RemainingAccounts(Us, m)
  BY DEF RemainingOf, RemainingAccounts
<1> QED
  BY <1>1, <1>2, <1>3 DEF SaleOrder, SellAccounts

-----------------------------------------------------------------------------
(* The inductive invariant: the cache, the loop and the consumer.          *)

\* What waits is an entry or names a token; a token bought at once is
\* remembered before its entry waits.
Cached ==
  /\ instant \in BOOLEAN
  /\ prefetch \subseteq Entries
  /\ \A e, f \in prefetch : e.mint = f.mint => e = f
  /\ toTrack \in Entries \cup {None}
  /\ toTrack # None /\ instant => toTrack.mint \in mintDedup
  /\ triggers \in Seq(Tokens)
  /\ Len(triggers) <= MaxTriggers

\* An order was built from an entry, and fills the right account if it lands.
Ordered ==
  /\ \A o \in orders : \E e \in Entries : o = BuyOrder(e) /\ e.mint \in mintDedup
  /\ \A b \in bought : /\ b[1] \in Mints
                       /\ b = <<b[1], Ata(Us, b[1], TokenProgramOf[b[1]])>>

\* What is sold is held, and what is to be confirmed may be sold.
Selling ==
  /\ open \subseteq Held
  /\ confirming \subseteq open
  /\ \/ seller = Idle
     \/ /\ seller.mint \in Held
        /\ seller.step \in {"selling", "ending", "ended"}
        /\ seller = [mint |-> seller.mint, ata |-> seller.ata,
                     step |-> seller.step]
  /\ sale # None
       => \E e \in Entries : sale = SaleOrder(e) /\ e.mint \in Held

IInv == Cached /\ Ordered /\ Selling

LEMMA NotAnEntry == None \notin Entries
  BY EntryParts

LEMMA IInvTyped == IInv => TypeOK
<1> SUFFICES ASSUME IInv PROVE TypeOK
  OBVIOUS
<1>1. \A e \in Entries : e.trade.tx \in Transactions
  BY EntryParts, TradeForms
<1>2. \A o \in orders : o.mint \in mintDedup
  BY DEF IInv, Ordered, BuyOrder
<1>3. seller.step \in {"idle", "selling", "ending", "ended"}
  BY DEF IInv, Selling, Idle
<1>4. \A b \in bought : b[1] \in Mints
  BY DEF IInv, Ordered
<1>5. sale # None => \E b \in bought : b[1] = sale.mint
  <2> SUFFICES ASSUME sale # None PROVE \E b \in bought : b[1] = sale.mint
    OBVIOUS
  <2>1. PICK e \in Entries : sale = SaleOrder(e) /\ e.mint \in Held
    BY DEF IInv, Selling
  <2>2. sale.mint \in Held
    BY <2>1, SaleParts
  <2> QED
    BY <2>2 DEF Held
<1> QED
  BY <1>1, <1>2, <1>3, <1>4, <1>5 DEF IInv, Cached, Selling, Held, TypeOK

LEMMA InitIInv == Init => IInv
<1> SUFFICES ASSUME Init PROVE IInv
  OBVIOUS
<1>1. Cached
  <2>1. instant \in BOOLEAN
    BY Zenon DEF Init
  <2> QED
    BY <2>1, MirrorAssumption DEF Init, Cached
<1>2. Ordered
  BY DEF Init, Ordered
<1>3. Selling
  BY DEF Init, Selling
<1> QED
  BY <1>1, <1>2, <1>3 DEF IInv

\* prefetch_token keeps one entry per token.
LEMMA PrefetchKeepsOne ==
  ASSUME Cached, NEW t \in Trades
  PROVE  LET e == PrefetchToken(t)
         IN  /\ e \in Entries
             /\ e.mint = TokenMint(t)
             /\ \A f \in prefetch : f.mint = e.mint => f = e
<1>1. CASE Prefetched(TokenMint(t)) = {}
  <2>1. PrefetchToken(t) = Entry(t) /\ Entry(t) \in Entries
    BY <1>1 DEF PrefetchToken, Entries
  <2>2. Entry(t).mint = TokenMint(t)
    BY DEF Entry
  <2> QED
    BY <1>1, <2>1, <2>2 DEF Prefetched
<1>2. CASE Prefetched(TokenMint(t)) # {}
  <2>1. PrefetchToken(t) \in Prefetched(TokenMint(t))
    BY <1>2 DEF PrefetchToken
  <2> QED
    BY <2>1 DEF Prefetched, Cached
<1> QED
  BY <1>1, <1>2

\* execute_buy adds an order from an entry of the token, or none.
LEMMA BuyKeepsOrdered ==
  ASSUME Cached, Ordered, NEW m, ExecuteBuy(m),
         m \in mintDedup', mintDedup \subseteq mintDedup', UNCHANGED bought
  PROVE  Ordered'
<1>1. \A o \in orders' :
        o \in orders \/ \E e \in Entries : o = BuyOrder(e) /\ e.mint = m
  BY DEF ExecuteBuy, Prefetched, Cached
<1> QED
  BY <1>1 DEF Ordered

LEMMA HandleBuyStep ==
  ASSUME IInv, NEW tx \in Transactions, HandleBuy(tx)
  PROVE  IInv'
<1> DEFINE t == ParseTransaction(tx)
<1>1. t \in Trades
  BY DEF HandleBuy, Ignored, Trades
<1>2. /\ toTrack' = PrefetchToken(t)
      /\ prefetch' = prefetch \cup {toTrack'}
      /\ mintDedup' = IF instant THEN mintDedup \cup {TokenMint(t)}
                                 ELSE mintDedup
      /\ UNCHANGED <<instant, triggers, orders, bought, sellVars>>
  BY DEF HandleBuy
<1> HIDE DEF t
<1>3. /\ toTrack' \in Entries /\ toTrack'.mint = TokenMint(t)
      /\ \A f \in prefetch : f.mint = toTrack'.mint => f = toTrack'
  BY <1>1, <1>2, PrefetchKeepsOne DEF IInv
<1>4. Cached'
  BY <1>2, <1>3 DEF IInv, Cached
<1>5. Ordered'
  BY <1>2 DEF IInv, Ordered
<1>6. Selling'
  BY <1>2 DEF IInv, Selling, Held, sellVars, posVars
<1> QED
  BY <1>4, <1>5, <1>6 DEF IInv

LEMMA TrackAndBuyStep ==
  ASSUME IInv, TrackAndBuy
  PROVE  IInv'
<1>1. toTrack \in Entries /\ toTrack.mint \in Tokens
  BY EntryParts DEF IInv, Cached, TrackAndBuy
<1>2. triggers' \in Seq(Tokens) /\ Len(triggers') <= MaxTriggers
  <2>1. \/ triggers' = triggers
        \/ /\ Len(triggers) < MaxTriggers
           /\ triggers' = Append(triggers, toTrack.mint)
    BY DEF TrackAndBuy
  <2> QED
    BY <1>1, <2>1, MirrorAssumption DEF IInv, Cached
<1>3. Cached'
  BY <1>2 DEF IInv, Cached, TrackAndBuy
<1>4. Ordered'
  <2>1. CASE /\ instant
             /\ ExecuteBuy(toTrack.mint)
    BY <2>1, BuyKeepsOrdered DEF IInv, Cached, TrackAndBuy
  <2>2. CASE UNCHANGED orders
    BY <2>2 DEF IInv, Ordered, TrackAndBuy
  <2> QED
    BY <2>1, <2>2 DEF TrackAndBuy
<1>5. Selling'
  BY DEF IInv, Selling, Held, TrackAndBuy, sellVars, posVars
<1> QED
  BY <1>3, <1>4, <1>5 DEF IInv

LEMMA ConsumeTriggerStep ==
  ASSUME IInv, ConsumeTrigger
  PROVE  IInv'
<1>1. triggers' \in Seq(Tokens) /\ Len(triggers') <= MaxTriggers
  BY MirrorAssumption DEF IInv, Cached, ConsumeTrigger
<1>2. mintDedup \subseteq mintDedup'
  BY DEF ConsumeTrigger
<1>3. Cached'
  BY <1>1, <1>2 DEF IInv, Cached, ConsumeTrigger
<1>4. Ordered'
  <2> DEFINE m == Head(triggers)
  <2>1. CASE mintDedup' = mintDedup \cup {m} /\ ExecuteBuy(m)
    BY <2>1, BuyKeepsOrdered DEF IInv, ConsumeTrigger
  <2>2. CASE UNCHANGED <<mintDedup, orders>>
    BY <2>2 DEF IInv, Ordered, ConsumeTrigger
  <2> QED
    BY <2>1, <2>2 DEF ConsumeTrigger
<1>5. Selling'
  BY DEF IInv, Selling, Held, ConsumeTrigger, sellVars, posVars
<1> QED
  BY <1>3, <1>4, <1>5 DEF IInv

LEMMA BuyLandsStep ==
  ASSUME IInv, NEW o \in orders, BuyLands(o)
  PROVE  IInv'
<1>1. PICK e \in Entries : o = BuyOrder(e)
  BY DEF IInv, Ordered
<1>2. o.mint \in Mints /\ o.created = Ata(Us, o.mint, TokenProgramOf[o.mint])
  BY <1>1, LandedAccount DEF BuyLands
<1>3. /\ bought' = bought \cup {<<o.mint, o.created>>}
      /\ open' = open \cup {o.mint}
      /\ confirming' = confirming \cup {o.mint}
      /\ UNCHANGED <<loopVars, prefetch, mintDedup, orders, seller, sale>>
  BY DEF BuyLands
<1>4. Cached'
  BY <1>3 DEF IInv, Cached, loopVars
<1>5. Ordered'
  <2> DEFINE b == <<o.mint, o.created>>
  <2>1. b[1] \in Mints /\ b = <<b[1], Ata(Us, b[1], TokenProgramOf[b[1]])>>
    BY <1>2
  <2> HIDE DEF b
  <2> QED
    BY <1>3, <2>1 DEF IInv, Ordered, b
<1>6. Selling'
  <2>1. Held \subseteq Held' /\ o.mint \in Held'
    <3>1. <<o.mint, o.created>> \in bought' /\ bought \subseteq bought'
      BY <1>3
    <3>2. <<o.mint, o.created>>[1] = o.mint
      OBVIOUS
    <3> QED
      BY <3>1, <3>2 DEF Held
  <2> QED
    BY <1>3, <2>1 DEF IInv, Selling
<1> QED
  BY <1>4, <1>5, <1>6 DEF IInv

\* The sell task.
LEMMA SellerStep ==
  ASSUME IInv,
         (\E m \in Mints : BeginSale(m)) \/ TrySale \/ SaleEnds
  PROVE  IInv'
<1>1. UNCHANGED <<loopVars, prefetch, mintDedup, orders, bought>>
  BY DEF BeginSale, TrySale, SaleEnds
<1>2. Cached' /\ Ordered'
  BY <1>1 DEF IInv, Cached, Ordered, loopVars
<1>3. UNCHANGED Held
  BY <1>1 DEF Held
<1>4. ASSUME NEW m \in Mints, BeginSale(m) PROVE Selling'
  <2>1. m \in Held
    BY <1>4 DEF IInv, Selling, BeginSale
  <2> QED
    BY <1>3, <1>4, <2>1 DEF IInv, Selling, BeginSale
<1>5. CASE TrySale
  <2>1. seller # Idle
    BY <1>5 DEF TrySale, Idle
  <2>2. PICK e \in Prefetched(seller.mint) : sale' = SaleOrder(e)
    BY <1>5 DEF TrySale
  <2>3. e \in Entries /\ e.mint \in Held
    BY <2>1, <2>2 DEF IInv, Cached, Selling, Prefetched
  <2> QED
    BY <1>2, <1>3, <1>5, <2>2, <2>3 DEF IInv, Selling, TrySale, posVars
<1>6. CASE SaleEnds
  <2>1. seller # Idle
    BY <1>6 DEF SaleEnds, Idle
  <2>2. \/ seller' = [mint |-> seller.mint, ata |-> seller.ata,
                      step |-> "ending"] /\ open' = open
        \/ seller' = Idle /\ open' = open \cup {seller.mint}
    BY <1>6, <2>1 DEF SaleEnds, IInv, Selling
  <2> QED
    BY <1>2, <1>3, <1>6, <2>1, <2>2 DEF IInv, Selling, SaleEnds
<1> QED
  BY <1>2, <1>4, <1>5, <1>6 DEF IInv

\* A confirmed position stays, a position that is dropped is no longer
\* waited for.
LEMMA ConfirmStep ==
  ASSUME IInv, NEW m \in Mints,
         Confirmed(m) \/ FallbackLooks(m) \/ FallbackLookFails(m)
  PROVE  IInv'
<1>1. /\ confirming' = confirming \ {m}
      /\ open' = open \/ open' = open \ {m}
      /\ UNCHANGED <<loopVars, prefetch, mintDedup, orders, bought, seller,
                     sale>>
  BY DEF Confirmed, FallbackLooks, FallbackLookFails
<1>2. Cached' /\ Ordered'
  BY <1>1 DEF IInv, Cached, Ordered, loopVars
<1>3. UNCHANGED Held
  BY <1>1 DEF Held
<1>4. Selling'
  BY <1>1, <1>3 DEF IInv, Selling
<1> QED
  BY <1>2, <1>4 DEF IInv

LEMMA CleanUpStep ==
  ASSUME IInv, CleanUp
  PROVE  IInv'
<1>1. /\ prefetch' \subseteq prefetch
      /\ UNCHANGED <<loopVars, mintDedup, orders, bought, posVars, sale>>
  BY DEF CleanUp, UntrackThenRemove, UntrackMint, RemoveEntry
<1>2. Cached' /\ Ordered'
  BY <1>1 DEF IInv, Cached, Ordered, loopVars
<1>3. seller # Idle
  BY DEF CleanUp, Idle
<1>4. \/ seller' = Idle
      \/ seller' = [mint |-> seller.mint, ata |-> seller.ata,
                    step |-> "ended"]
  BY <1>3 DEF CleanUp, IInv, Selling
<1>5. Selling'
  BY <1>1, <1>3, <1>4 DEF IInv, Selling, Held, posVars
<1> QED
  BY <1>2, <1>5 DEF IInv

LEMMA NextIInv == IInv /\ [Next]_vars => IInv'
<1> SUFFICES ASSUME IInv, [Next]_vars PROVE IInv'
  OBVIOUS
<1>1. CASE Evict
  <2>1. /\ prefetch' \subseteq prefetch
        /\ UNCHANGED <<loopVars, mintDedup, orders, bought, sellVars>>
    BY <1>1 DEF Evict
  <2> QED
    BY <2>1 DEF IInv, Cached, Ordered, Selling, Held, loopVars,
       sellVars, posVars
<1>2. CASE UNCHANGED vars
  BY <1>2 DEF vars, loopVars, sellVars, posVars, IInv, Cached, Ordered, Selling,
     Held
<1> QED
  BY <1>1, <1>2, HandleBuyStep, TrackAndBuyStep, ConsumeTriggerStep,
     BuyLandsStep, ConfirmStep, SellerStep, CleanUpStep DEF Next

LEMMA InvariantHolds == Spec => []IInv
  BY InitIInv, NextIInv, PTL DEF Spec

-----------------------------------------------------------------------------
(* The theorems.                                                           *)

(* One entry per token, from a transaction shown; orders of remembered     *)
(* tokens; positions and sales of tokens bought.                           *)
THEOREM TypeCorrect == Spec => []TypeOK
  BY InvariantHolds, IInvTyped, PTL

(* Whatever list the cache held, and whichever wallet's trade completed    *)
(* the consensus, an order from a buyer's list is the order of our wallet. *)
THEOREM OrdersAreOurs == Spec => []BuyIsOurs
<1>1. IInv => BuyIsOurs
  <2> SUFFICES ASSUME IInv, NEW o \in orders, Plain(o.trade)
               PROVE  /\ o.accounts = BuyAccounts(Us, o.mint)
                      /\ o.created = o.accounts[6]
    BY DEF BuyIsOurs
  <2>1. PICK e \in Entries : o = BuyOrder(e)
    BY DEF IInv, Ordered
  <2>2. /\ o.trade = e.trade /\ o.mint = e.mint /\ o.accounts = Mirrored(e)
        /\ o.created = Ata(Us, e.mint, e.program)
    BY <2>1 DEF BuyOrder
  <2>3. PICK w \in Followed, m \in Mints :
          e.trade.wallet = w /\ e.trade.accounts = BuyAccounts(w, m)
    BY <2>2 DEF Plain
  <2>4. /\ o.accounts = BuyAccounts(Us, m) /\ o.mint = m
        /\ o.created = Ata(Us, m, TokenProgramOf[m])
    BY <2>2, <2>3, MirroredIsOurs, PlainEntry
  <2>5. BuyAccounts(Us, m)[6] = Ata(Us, m, TokenProgramOf[m])
    BY DEF BuyAccounts
  <2> QED
    BY <2>4, <2>5
<1> QED
  BY <1>1, InvariantHolds, PTL

(* A sale from a buyer's list is the sale of what was bought, whichever    *)
(* list it was bought with.                                                *)
THEOREM SalesMatchBuys == Spec => []SaleMatchesBuy
<1>1. IInv => SaleMatchesBuy
  <2> SUFFICES ASSUME IInv, sale # None, Plain(sale.trade)
               PROVE  /\ sale.accounts = SellAccounts(Us, sale.mint)
                      /\ <<sale.mint, sale.ata>> \in bought
    BY DEF SaleMatchesBuy
  <2>1. PICK e \in Entries : sale = SaleOrder(e) /\ e.mint \in Held
    BY DEF IInv, Selling
  <2>2. sale.trade = e.trade /\ sale.mint = e.mint
    BY <2>1 DEF SaleOrder
  <2>3. PICK w \in Followed, m \in Mints : e.trade.accounts = BuyAccounts(w, m)
    BY <2>2 DEF Plain
  <2>4. /\ sale.accounts = SellAccounts(Us, m) /\ sale.mint = m
        /\ sale.ata = Ata(Us, m, TokenProgramOf[m])
    BY <2>1, <2>3, SaleFromBuyersList
  <2>5. PICK b \in bought : b[1] = m
    BY <2>1, <2>2, <2>4 DEF Held
  <2>6. b = <<m, Ata(Us, m, TokenProgramOf[m])>>
    BY <2>5 DEF IInv, Ordered
  <2> QED
    BY <2>4, <2>5, <2>6
<1> QED
  BY <1>1, InvariantHolds, PTL

-----------------------------------------------------------------------------
(* What is prefetched is watched.                                          *)

\* Accounts are watched for their token.
LEMMA TrackedFor ==
  ASSUME NEW e, NEW w \in Tracked(e)
  PROVE  w[2] = e.mint
  BY DEF Tracked

LEMMA NextWatched ==
  IInv /\ PrefetchedIsWatched /\ [Next]_vars => PrefetchedIsWatched'
<1> SUFFICES ASSUME IInv, PrefetchedIsWatched, [Next]_vars,
                    NEW e \in prefetch'
             PROVE  \/ Tracked(e) \subseteq watched'
                    \/ toTrack' = e
                    \/ seller'.mint = e.mint /\ seller'.step = "ended"
  BY DEF PrefetchedIsWatched, Tracked
<1>1. ASSUME e \in prefetch
      PROVE  /\ e \in Entries /\ e # None
             /\ \/ Tracked(e) \subseteq watched
                \/ toTrack = e
                \/ seller.mint = e.mint /\ seller.step = "ended"
  BY <1>1, NotAnEntry DEF IInv, Cached, PrefetchedIsWatched
<1>2. ASSUME NEW tx \in Transactions, HandleBuy(tx)
      PROVE  \/ Tracked(e) \subseteq watched'
             \/ toTrack' = e
             \/ seller'.mint = e.mint /\ seller'.step = "ended"
  BY <1>1, <1>2 DEF HandleBuy, sellVars
<1>3. CASE TrackAndBuy
  BY <1>1, <1>3 DEF TrackAndBuy, sellVars, posVars
<1>4. CASE CleanUp /\ seller.step = "ending"
  <2>1. e \in prefetch /\ toTrack' = toTrack /\ seller # Idle
    BY <1>4 DEF CleanUp, UntrackThenRemove, UntrackMint, loopVars, Idle
  <2>2. seller'.mint = seller.mint /\ seller'.step = "ended"
    BY <1>4, <2>1 DEF CleanUp, IInv, Selling
  <2>3. \A w \in watched : w[2] # seller.mint => w \in watched'
    BY <1>4 DEF CleanUp, UntrackThenRemove, UntrackMint
  <2> QED
    BY <1>1, <1>4, <2>1, <2>2, <2>3, TrackedFor
<1>5. CASE CleanUp /\ seller.step = "ended"
  <2>1. e \in prefetch /\ e.mint # seller.mint /\ UNCHANGED <<watched, toTrack>>
    BY <1>5 DEF CleanUp, UntrackThenRemove, RemoveEntry, Prefetched, loopVars
  <2> QED
    BY <1>1, <2>1
<1>6. CASE \/ \E m \in Mints : BeginSale(m)
           \/ SaleEnds
  <2>1. seller.step # "ended" /\ UNCHANGED <<prefetch, watched, toTrack>>
    BY <1>6 DEF BeginSale, SaleEnds, Idle, loopVars
  <2> QED
    BY <1>1, <2>1
<1>7. CASE \/ ConsumeTrigger \/ Evict \/ TrySale
           \/ \E o \in orders : BuyLands(o)
           \/ \E m \in Mints : \/ Confirmed(m) \/ FallbackLooks(m)
                              \/ FallbackLookFails(m)
           \/ UNCHANGED vars
  <2>1. prefetch' \subseteq prefetch /\ UNCHANGED <<watched, toTrack, seller>>
    BY <1>7 DEF ConsumeTrigger, Evict, TrySale, BuyLands, Confirmed,
       FallbackLooks, FallbackLookFails, vars, loopVars, sellVars
  <2> QED
    BY <1>1, <2>1
<1> QED
  BY <1>2, <1>3, <1>4, <1>5, <1>6, <1>7 DEF Next, CleanUp

(* An entry's accounts are watched, however trades, evictions and the      *)
(* clean-up after a sale fall, but for the two moments between two calls.  *)
THEOREM EntriesAreWatched == Spec => []PrefetchedIsWatched
<1>1. Init => PrefetchedIsWatched
  BY DEF Init, PrefetchedIsWatched
<1> QED
  BY <1>1, InvariantHolds, NextWatched, PTL DEF Spec

-----------------------------------------------------------------------------
(* The tokens of a position are found.                                     *)

(* However entries are evicted and made anew, and from whichever wallet's  *)
(* trades, a position's tokens are where the sell task would look; only an *)
(* entry that is no buyer's, or the lack of one for a Token-2022 token,    *)
(* leads it elsewhere.  The fallback finds those of every legacy token.    *)
THEOREM PositionsAreFound == Spec => []TokensAreFound
<1>1. IInv => TokensAreFound
  <2> SUFFICES ASSUME IInv, NEW m \in open
               PROVE  /\ \/ TokenProgramOf[m] = Token2022
                         \/ <<m, FallbackAccount(m)>> \in bought
                      /\ \/ <<m, OwnAccount(m)>> \in bought
                         \/ \E e \in Prefetched(m) : ~Plain(e.trade)
                         \/ /\ Prefetched(m) = {}
                            /\ TokenProgramOf[m] = Token2022
    BY DEF TokensAreFound
  <2>1. PICK b \in bought : b[1] = m
    BY DEF IInv, Selling, Held
  <2>2. b = <<m, Ata(Us, m, TokenProgramOf[m])>> /\ m \in Mints
    BY <2>1 DEF IInv, Ordered
  <2>3. TokenProgramOf[m] = Token2022 \/ <<m, FallbackAccount(m)>> \in bought
    BY <2>1, <2>2, DetectionAssumption DEF FallbackAccount
  <2>4. ASSUME \A e \in Prefetched(m) : Plain(e.trade),
               Prefetched(m) = {} => TokenProgramOf[m] # Token2022
        PROVE  OwnAccount(m) = Ata(Us, m, TokenProgramOf[m])
    <3>1. CASE Prefetched(m) = {}
      <4>1. TokenProgramOf[m] = TokenLegacy
        BY <2>2, <2>4, <3>1, DetectionAssumption
      <4> QED
        BY <3>1, <4>1 DEF OwnAccount
    <3>2. CASE Prefetched(m) # {}
      <4>1. PICK e \in Prefetched(m) : OwnAccount(m) = e.ata
        BY <3>2 DEF OwnAccount
      <4>2. e \in Entries /\ e.mint = m /\ Plain(e.trade)
        BY <2>4, <4>1 DEF Prefetched, IInv, Cached
      <4>3. PICK w \in Followed, n \in Mints :
              e.trade.accounts = BuyAccounts(w, n)
        BY <4>2 DEF Plain
      <4>4. e.mint = n /\ e.ata = Ata(Us, n, TokenProgramOf[n])
        BY <4>2, <4>3, PlainEntry
      <4> QED
        BY <4>1, <4>2, <4>4
    <3> QED
      BY <3>1, <3>2
  <2> QED
    BY <2>1, <2>2, <2>3, <2>4
<1> QED
  BY <1>1, InvariantHolds, PTL
=============================================================================
