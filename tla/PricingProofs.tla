---------------------------- MODULE PricingProofs ----------------------------
(***************************************************************************)
(* Proofs about Pricing, for every curve, setting and set of exit rules.   *)
(***************************************************************************)
EXTENDS Pricing, TLAPS

(* Integer division and products.                                          *)

LEMMA DivBounds ==
  ASSUME NEW a \in Nat, NEW b \in Nat, b > 0
  PROVE  /\ a \div b \in Nat
         /\ b * (a \div b) <= a
  BY SMT

LEMMA ProductMonotone ==
  ASSUME NEW a \in Int, NEW b \in Int, NEW k \in Nat, a <= b
  PROVE  a * k <= b * k
  BY SMT

LEMMA ProductStrict ==
  ASSUME NEW a \in Int, NEW b \in Int, NEW k \in Nat, k > 0, a < b
  PROVE  a * k < b * k
  BY SMT

LEMMA DivAtMost ==
  ASSUME NEW a \in Nat, NEW b \in Nat, NEW x \in Nat, b > 0, a <= x * b
  PROVE  a \div b <= x
<1> DEFINE q == a \div b
<1>1. q \in Nat /\ b * q <= a
  BY DivBounds
<1>2. ASSUME q > x PROVE FALSE
  <2>1. x * b < q * b
    BY <1>1, <1>2, ProductStrict
  <2> QED
    BY <1>1, <2>1
<1> QED
  BY <1>1, <1>2

(* A quote never empties the curve.                                        *)
LEMMA QuoteBelowReserve ==
  ASSUME NEW c \in CurveState, NEW x \in Nat, c.tok > 0, c.sol > 0
  PROVE  /\ SolToTokenQuote(c, x) \in Nat
         /\ SolToTokenQuote(c, x) < c.tok
         /\ SolToTokenQuote(c, x) * (c.sol + x) <= c.tok * x
<1> DEFINE q == SolToTokenQuote(c, x)
           d == c.sol + x
<1>0. c.tok \in Nat /\ c.sol \in Nat /\ d \in Nat /\ d > 0 /\ c.tok * x \in Nat
  BY DEF CurveState
<1>1. q = (c.tok * x) \div d
  BY <1>0 DEF SolToTokenQuote
<1>2. q \in Nat /\ d * q <= c.tok * x
  BY <1>0, <1>1, DivBounds
<1>3. ASSUME q >= c.tok PROVE FALSE
  <2>1. c.tok * d <= q * d
    BY <1>0, <1>2, <1>3, ProductMonotone
  <2>2. c.tok * d = c.tok * c.sol + c.tok * x
    BY <1>0
  <2>3. c.tok * c.sol > 0
    BY <1>0
  <2> QED
    BY <1>0, <1>2, <2>1, <2>2, <2>3
<1> QED
  BY <1>0, <1>2, <1>3

\* The program on chain asks for at most one lamport more than the amount
\* the quote was made for.
LEMMA CostOfQuote ==
  ASSUME NEW c \in CurveState, NEW x \in Nat, c.tok > 0, c.sol > 0
  PROVE  BuyCost(c, SolToTokenQuote(c, x)) <= x + 1
<1> DEFINE q == SolToTokenQuote(c, x)
           b == c.tok - q
<1>0. c.tok \in Nat /\ c.sol \in Nat
  BY DEF CurveState
<1>1. q \in Nat /\ q < c.tok /\ q * (c.sol + x) <= c.tok * x
  BY QuoteBelowReserve
<1>2. b \in Nat /\ b > 0 /\ q * c.sol \in Nat
  BY <1>0, <1>1
<1>3. q * c.sol <= x * b
  <2>1. q * (c.sol + x) = q * c.sol + x * q
    BY <1>0, <1>1
  <2>2. x * b = c.tok * x - x * q
    BY <1>0, <1>1
  <2> QED
    BY <1>0, <1>1, <2>1, <2>2
<1>4. (q * c.sol) \div b <= x
  BY <1>2, <1>3, DivAtMost
<1> QED
  BY <1>2, <1>4, DivBounds DEF BuyCost

\* A curve that sells a token for less than a lamport sells at least one.
LEMMA CheapQuote ==
  ASSUME NEW c \in CurveState, NEW x \in Nat, x > 0, c.sol > 0, c.sol < c.tok
  PROVE  SolToTokenQuote(c, x) >= 1
<1> DEFINE n == c.tok * x
           d == c.sol + x
<1>0. c.tok \in Nat /\ c.sol \in Nat
  BY DEF CurveState
<1>1. n >= d
  <2>1. (c.sol + 1) * x <= c.tok * x
    BY <1>0, ProductMonotone
  <2>2. (c.sol + 1) * x = c.sol * x + x
    BY <1>0
  <2>3. c.sol * 1 <= c.sol * x
    BY <1>0
  <2> QED
    BY <1>0, <2>1, <2>2, <2>3
<1>2. n \in Nat /\ d \in Nat /\ d > 0
  BY <1>0
<1>3. SolToTokenQuote(c, x) = n \div d
  BY <1>0 DEF SolToTokenQuote
<1> HIDE DEF n, d
<1>4. n \div d >= 1
  BY <1>1, <1>2
<1> QED
  BY <1>3, <1>4

\* The fee only adds, and adds no less to a greater amount.
LEMMA FeeTyped ==
  ASSUME NEW a \in Nat
  PROVE  WithFee(a, FeeBps) \in Nat /\ WithFee(a, FeeBps) >= a
<1> DEFINE n == a * FeeBps
<1>1. n \in Nat
  BY PricingAssumption
<1> HIDE DEF n
<1>2. (n + 10000 - 1) \div 10000 \in Nat
  BY <1>1
<1>3. WithFee(a, FeeBps) = a + (n + 10000 - 1) \div 10000
  BY DEF WithFee, Bps, n
<1> QED
  BY <1>2, <1>3

LEMMA FeeMonotone ==
  ASSUME NEW a \in Nat, NEW b \in Nat, a <= b
  PROVE  WithFee(a, FeeBps) <= WithFee(b, FeeBps)
<1> DEFINE n == a * FeeBps
           m == b * FeeBps
<1>1. n \in Nat /\ m \in Nat /\ n <= m
  BY PricingAssumption, ProductMonotone
<1>2. /\ WithFee(a, FeeBps) = a + (n + 10000 - 1) \div 10000
      /\ WithFee(b, FeeBps) = b + (m + 10000 - 1) \div 10000
  BY DEF WithFee, Bps
<1> HIDE DEF n, m
<1>3. (n + 10000 - 1) \div 10000 <= (m + 10000 - 1) \div 10000
  BY <1>1
<1> QED
  BY <1>1, <1>2, <1>3

LEMMA MaxCostTyped == MaxSolCost(BuyConfig, Slippage) \in Nat
<1> DEFINE n == BuyConfig * Slippage
<1>1. n \in Nat /\ BuyConfig \in Nat
  BY PricingAssumption
<1> HIDE DEF n
<1>2. n \div 10000 \in Nat
  BY <1>1
<1> QED
  BY <1>1, <1>2 DEF MaxSolCost, Bps, n

\* A buy of fewer tokens than the curve holds leaves a curve to trade on.
LEMMA BuyTyped ==
  ASSUME NEW c \in CurveState, NEW n \in Nat, n < c.tok
  PROVE  /\ BuyCost(c, n) \in Nat
         /\ BuyCost(c, n) > 0
         /\ AfterBuy(c, n) \in ChainCurve
<1>1. /\ c.tok \in Nat /\ c.sol \in Nat
      /\ n * c.sol \in Nat /\ c.tok - n \in Nat /\ c.tok - n > 0
  BY DEF CurveState
<1> DEFINE k == (n * c.sol) \div (c.tok - n)
<1>2. BuyCost(c, n) \in Nat /\ BuyCost(c, n) > 0
  <2>1. k \in Nat
    BY <1>1, DivBounds
  <2>2. BuyCost(c, n) = k + 1
    BY DEF BuyCost
  <2> QED
    BY <2>1, <2>2
<1>3. AfterBuy(c, n) = [tok |-> c.tok - n, sol |-> c.sol + BuyCost(c, n),
                        complete |-> c.complete]
  BY DEF AfterBuy
<1>4. c.complete \in BOOLEAN /\ c.sol + BuyCost(c, n) \in Nat
      /\ c.sol + BuyCost(c, n) > 0
  BY <1>1, <1>2 DEF CurveState
<1> HIDE DEF CurveState
<1>5. AfterBuy(c, n) \in CurveState
  BY <1>1, <1>3, <1>4 DEF CurveState
<1> QED
  BY <1>1, <1>2, <1>3, <1>4, <1>5 DEF ChainCurve

\* What the program on chain takes for a quote is no more than the order allows.
LEMMA QuoteIsAffordable ==
  ASSUME NEW c \in CurveState, c.tok > 0, c.sol > 0
  PROVE  TotalCost(c, SolToTokenQuote(c, BuyConfig), FeeBps)
           <= MaxSolCost(BuyConfig, Slippage)
<1> DEFINE k == BuyCost(c, SolToTokenQuote(c, BuyConfig))
           w == WithFee(BuyConfig + 1, FeeBps)
<1>0. BuyConfig \in Nat /\ BuyConfig + 1 \in Nat
  BY PricingAssumption
<1>1. k \in Nat /\ k <= BuyConfig + 1
  BY <1>0, QuoteBelowReserve, BuyTyped, CostOfQuote
<1>2. WithFee(k, FeeBps) \in Nat /\ w \in Nat /\ WithFee(k, FeeBps) <= w
  BY <1>0, <1>1, FeeTyped, FeeMonotone
<1>3. w <= MaxSolCost(BuyConfig, Slippage)
  BY SlippageCoversFee DEF MaxSolCost
<1> HIDE DEF k, w
<1>4. WithFee(k, FeeBps) <= MaxSolCost(BuyConfig, Slippage)
  BY <1>2, <1>3, MaxCostTyped
<1> QED
  BY <1>4 DEF TotalCost, k

-----------------------------------------------------------------------------
(* The order of prices.                                                    *)

LEMMA PriceParts ==
  ASSUME NEW p \in Prices
  PROVE  p[1] \in Nat /\ p[2] \in Nat /\ p[2] > 0
  BY DEF Prices

LEMMA BelowIrreflexive ==
  ASSUME NEW p \in Prices
  PROVE  ~Below(p, p)
  BY PriceParts DEF Below

\* What is above h is not below what h is not below.
LEMMA AboveStaysAbove ==
  ASSUME NEW h \in Prices, NEW e \in Prices, NEW x \in Prices,
         ~Below(h, e), Below(h, x)
  PROVE  ~Below(x, e)
<1> SUFFICES ASSUME Below(x, e) PROVE FALSE
  OBVIOUS
<1>0. /\ h[1] \in Nat /\ h[2] \in Nat /\ h[2] > 0
      /\ e[1] \in Nat /\ e[2] \in Nat /\ e[2] > 0
      /\ x[1] \in Nat /\ x[2] \in Nat /\ x[2] > 0
  BY PriceParts
<1>1. (x[1] * e[2]) * h[2] < (e[1] * x[2]) * h[2]
  BY <1>0, ProductStrict DEF Below
<1>2. (e[1] * h[2]) * x[2] <= (h[1] * e[2]) * x[2]
  BY <1>0, ProductMonotone DEF Below
<1>3. (h[1] * x[2]) * e[2] < (x[1] * h[2]) * e[2]
  BY <1>0, ProductStrict DEF Below
<1>4. /\ (e[1] * x[2]) * h[2] = (e[1] * h[2]) * x[2]
      /\ (h[1] * e[2]) * x[2] = (h[1] * x[2]) * e[2]
      /\ (x[1] * h[2]) * e[2] = (x[1] * e[2]) * h[2]
  BY <1>0
<1>5. /\ (x[1] * e[2]) * h[2] \in Int
      /\ (e[1] * h[2]) * x[2] \in Int
      /\ (h[1] * x[2]) * e[2] \in Int
  BY <1>0
<1> QED
  BY <1>1, <1>2, <1>3, <1>4, <1>5

LEMMA HigherIsAbove ==
  ASSUME NEW h \in Prices, NEW x \in Prices
  PROVE  /\ Higher(h, x) \in Prices
         /\ ~Below(Higher(h, x), x)
         /\ \A e \in Prices : ~Below(h, e) => ~Below(Higher(h, x), e)
<1>1. CASE Below(h, x)
  BY <1>1, AboveStaysAbove, BelowIrreflexive DEF Higher
<1>2. CASE ~Below(h, x)
  BY <1>2 DEF Higher
<1> QED
  BY <1>1, <1>2

LEMMA PricesTyped ==
  /\ ZeroPrice \in Prices
  /\ \A c \in CurveState : PriceOf(c) \in Prices
  /\ \A sol \in Nat, tokens \in Nat : PerToken(sol, tokens) \in Prices
  BY DEF ZeroPrice, Prices, PriceOf, PerToken, CurveState

-----------------------------------------------------------------------------
(* What the steps of the state machine leave of a position's prices.       *)

SamePrices(p, q) ==
  q.entry = p.entry /\ q.highest = p.highest /\ q.current = p.current

LEMMA MarksKeepPrices ==
  ASSUME NEW p \in PricedPosition,
         NEW q \in {MarkFailed(p), MarkSelling(p), MarkClosed(p),
                    RevertToActive(p)}
  PROVE  /\ q \in PricedPosition
         /\ SamePrices(p, q)
         /\ Exists(p) => Exists(q)
         /\ ~Unconfirmed(p) => ~Unconfirmed(q)
<1> USE DEF PricedPosition, SamePrices, Exists, Unconfirmed, States
<1>1. CASE q = MarkFailed(p)
  BY <1>1 DEF MarkFailed
<1>2. CASE q = MarkSelling(p)
  <2>1. CASE Sellable(p)
    <3> DEFINE r == [p EXCEPT !.state = "Selling"]
    <3>1. r \in PricedPosition /\ SamePrices(p, r) /\ r.state = "Selling"
      OBVIOUS
    <3>2. q = [r EXCEPT !.attempts = p.attempts + 1]
      BY <1>2, <2>1 DEF MarkSelling
    <3>3. p.attempts + 1 \in Nat
      OBVIOUS
    <3> HIDE DEF r
    <3> QED
      BY <3>1, <3>2, <3>3
  <2>2. CASE ~Sellable(p)
    BY <1>2, <2>2 DEF MarkSelling
  <2> QED
    BY <2>1, <2>2
<1>3. CASE q = MarkClosed(p)
  BY <1>3 DEF MarkClosed
<1>4. CASE q = RevertToActive(p)
  BY <1>4 DEF RevertToActive
<1> QED
  BY <1>1, <1>2, <1>3, <1>4

LEMMA UpdateLifts ==
  ASSUME NEW p \in PricedPosition, NEW x \in Prices
  PROVE  LET q == UpdatePrice(p, x)
         IN  /\ q \in PricedPosition
             /\ q.entry = p.entry /\ q.current = x
             /\ q.highest = Higher(p.highest, x)
             /\ q.state = p.state
<1>1. p.highest \in Prices
  BY DEF PricedPosition
<1>2. Higher(p.highest, x) \in Prices
  BY <1>1, HigherIsAbove
<1> QED
  BY <1>2 DEF UpdatePrice, PricedPosition

LEMMA CorrectionLifts ==
  ASSUME NEW p \in PricedPosition, NEW x \in Prices
  PROVE  LET q == Corrected(p, x)
         IN  /\ q \in PricedPosition
             /\ q.state = p.state
             /\ q = p \/ ( /\ q.entry = x /\ q.current = p.current
                          /\ q.highest = Higher(p.highest, x))
             /\ Exists(p) /\ IsPositive(x) => q.entry = x
<1>1. p.highest \in Prices
  BY DEF PricedPosition
<1>2. Higher(p.highest, x) \in Prices
  BY <1>1, HigherIsAbove
<1> QED
  BY <1>2 DEF Corrected, PricedPosition

LEMMA ActivationPrices ==
  ASSUME NEW p \in PricedPosition, TypeOK
  PROVE  LET q == Activated(p)
         IN  /\ q \in PricedPosition
             /\ ~Unconfirmed(p) => q = p
             /\ Unconfirmed(p) => /\ q.state = "Active"
                                  /\ q.highest = q.entry
                                  /\ q.current = q.entry
<1> DEFINE spot == PriceOf(bcCache)
           entry == IF IsPositive(spot) THEN spot
                    ELSE PerToken(order.size, order.tokens)
<1>1. entry \in Prices
  BY PricesTyped DEF TypeOK, Order
<1>2. CASE Unconfirmed(p)
  <2>1. MarkActive(p) = [p EXCEPT !.state = "Active"]
    BY <1>2 DEF MarkActive, Unconfirmed
  <2>2. Activated(p) = Priced(MarkActive(p), entry, entry, entry)
    BY <1>2 DEF Activated
  <2> HIDE DEF entry
  <2>3. Activated(p) = [state |-> "Active", attempts |-> p.attempts,
                        entry |-> entry, highest |-> entry, current |-> entry]
    BY <2>1, <2>2 DEF Priced, PricedPosition
  <2> QED
    BY <1>1, <1>2, <2>3 DEF PricedPosition, States
<1>3. CASE ~Unconfirmed(p)
  BY <1>3 DEF Activated
<1> QED
  BY <1>2, <1>3

-----------------------------------------------------------------------------
(* Types.                                                                  *)

LEMMA CurvesTyped ==
  /\ NoCurve \in CurveState
  /\ BaseCurve \in CurveState
  /\ Curves \subseteq CurveState
  BY PricingAssumption DEF NoCurve, CurveState, ChainCurve

LEMMA QuoteTyped ==
  ASSUME NEW c \in CurveState, NEW x \in Nat
  PROVE  SolToTokenQuote(c, x) \in Nat
<1>1. c.tok \in Nat /\ c.sol \in Nat
  BY DEF CurveState
<1>2. ASSUME c.sol # 0 PROVE (c.tok * x) \div (c.sol + x) \in Nat
  <2>1. c.tok * x \in Nat /\ c.sol + x \in Nat /\ c.sol + x > 0
    BY <1>1, <1>2
  <2> QED
    BY <2>1, DivBounds
<1> QED
  BY <1>2 DEF SolToTokenQuote

LEMMA TargetTyped ==
  ASSUME NEW t \in Targets, t.maxSol > 0
  PROVE  TargetCurve(t, AssumedSol) \in CurveState
<1>1. /\ t.tokens \in Nat /\ t.maxSol \in Nat /\ AssumedSol \in Nat
      /\ AssumedSol * t.tokens \in Nat
  BY PricingAssumption DEF Target
<1>2. (AssumedSol * t.tokens) \div t.maxSol \in Nat
  BY <1>1, DivBounds
<1> QED
  BY <1>1, <1>2 DEF TargetCurve, CurveState

LEMMA ReasonTyped ==
  ASSUME NEW p
  PROVE  ExitReason(p) \in Reasons \cup {"none"}
  BY DEF ExitReason, Reasons

LEMMA SignalsTyped ==
  ASSUME signals \in Seq(Reasons), NEW p
  PROVE  Signalled(p) \in Seq(Reasons)
<1>1. ExitReason(p) = "none" \/ ExitReason(p) \in Reasons
  BY ReasonTyped
<1> QED
  BY <1>1 DEF Signalled

LEMMA InitTyped == Init => TypeOK
<1> SUFFICES ASSUME Init PROVE TypeOK
  OBVIOUS
<1>1. NoOrder \in Order
  BY CurvesTyped DEF NoOrder, Order
<1>2. NoPriced \in PricedPosition
  BY PricesTyped DEF NoPriced, Priced, NoPosition, PricedPosition
<1>3. 0 \in 0 .. MaxMoves /\ RulesConfig \in RuleSets
  BY PricingAssumption
<1>4. <<>> \in Seq(CurveState) /\ <<>> \in Seq(Reasons)
  OBVIOUS
<1>5. /\ moves \in 0 .. MaxMoves
      /\ curveEvents \in Seq(CurveState)
      /\ signals \in Seq(Reasons)
      /\ rules \in RuleSets
  BY <1>3, <1>4 DEF Init
<1>6. /\ curve \in CurveState
      /\ bcCache \in CurveState
      /\ fetched \in CurveState
      /\ order \in Order
      /\ pos \in PricedPosition
  BY <1>1, <1>2, CurvesTyped DEF Init
<1>7. /\ age \in 0 .. 2
      /\ sending \subseteq Channels
      /\ buyTx \in {"none", "sent", "landed", "failed"}
      /\ cost \in Nat
      /\ confirmer \in {"none", "polling", "correcting", "corrected", "done"}
  BY DEF Init
<1>8. accepted \in BOOLEAN
  BY Zenon DEF Init
<1> QED
  BY <1>5, <1>6, <1>7, <1>8 DEF TypeOK

LEMMA PlaceTyped ==
  ASSUME TypeOK, NEW from \in CurveState, NEW tokens \in Nat,
         NEW setting \in Nat, NEW estimate \in Nat,
         Place(from, tokens, setting, estimate)
  PROVE  /\ TypeOK'
         /\ order'.sol = BuyConfig
         /\ order'.from = from
         /\ order'.tokens = tokens
         /\ order'.maxCost = MaxSolCost(BuyConfig, Slippage)
         /\ pos'.highest = pos'.entry
         /\ pos'.current = pos'.entry
<1> DEFINE price == PerToken(setting, estimate)
<1>1. price \in Prices
  BY PricesTyped
<1>2. order' = [from |-> from, sol |-> BuyConfig, size |-> setting,
                tokens |-> tokens, maxCost |-> MaxSolCost(BuyConfig, Slippage)]
  BY DEF Place
<1>3. order' \in Order
  BY <1>2, MaxCostTyped, PricingAssumption DEF Order
<1>4. pos' = Priced(MarkConfirming(MarkSubmitted(NewPosition)),
                    price, price, price)
  BY DEF Place
<1> HIDE DEF price
<1>5. MarkConfirming(MarkSubmitted(NewPosition))
        = [state |-> "Confirming", attempts |-> 0]
  BY DEF MarkConfirming, MarkSubmitted, NewPosition
<1>6. pos' = [state |-> "Confirming", attempts |-> 0, entry |-> price,
              highest |-> price, current |-> price]
  BY <1>4, <1>5 DEF Priced
<1>7. pos' \in PricedPosition
  BY <1>1, <1>6 DEF PricedPosition, States
<1>8. /\ sending' \subseteq Channels
      /\ buyTx' \in {"none", "sent", "landed", "failed"}
      /\ confirmer' \in {"none", "polling", "correcting", "corrected", "done"}
      /\ UNCHANGED <<chain, known, rules, age, accepted, cost, signals>>
  BY DEF Place
<1>9. TypeOK'
  BY <1>3, <1>7, <1>8 DEF TypeOK, chain, known
<1> QED
  BY <1>2, <1>6, <1>9

LEMMA CheckTyped ==
  ASSUME TypeOK, NEW p \in PricedPosition, Check(p)
  PROVE  pos' \in PricedPosition /\ signals' \in Seq(Reasons)
  BY SignalsTyped DEF Check, TypeOK

LEMMA SeenTyped ==
  ASSUME NEW p \in PricedPosition, NEW c \in CurveState
  PROVE  SeenAt(p, PriceOf(c)) \in PricedPosition
  BY PricesTyped, UpdateLifts DEF SeenAt

LEMMA NextTyped == TypeOK /\ [Next]_vars => TypeOK'
<1> SUFFICES ASSUME TypeOK, [Next]_vars PROVE TypeOK'
  OBVIOUS
<1> USE DEF TypeOK, chain, known, txVars
<1>0. CASE UNCHANGED vars
  BY <1>0 DEF vars
<1>1. ASSUME NEW c \in Curves, TradeByOthers(c) PROVE TypeOK'
  BY <1>1, CurvesTyped, PricingAssumption DEF TradeByOthers
<1>2. CASE CurveUpdate
  BY <1>2 DEF CurveUpdate
<1>3. CASE PrefetchReads
  BY <1>3 DEF PrefetchReads
<1>4. CASE PrefetchStores
  BY <1>4, CurvesTyped DEF PrefetchStores
<1>5. ASSUME NEW r \in RuleSets, SetRules(r) PROVE TypeOK'
  BY <1>5 DEF SetRules
<1>6. ASSUME NEW v \in BuySettings, BuyFromCache(v) PROVE TypeOK'
  <2>1. v \in Nat /\ BuyConfig \in Nat
    BY PricingAssumption
  <2>2. /\ SolToTokenQuote(bcCache, BuyConfig) \in Nat
        /\ SolToTokenQuote(bcCache, v) \in Nat
    BY <2>1, QuoteTyped
  <2> QED
    BY <1>6, <2>1, <2>2, PlaceTyped DEF BuyFromCache
<1>7. ASSUME NEW v \in BuySettings, NEW t \in Targets, BuyFromTarget(v, t)
      PROVE  TypeOK'
  <2> DEFINE c == TargetCurve(t, AssumedSol)
             tokens == AtLeastOne(SolToTokenQuote(c, BuyConfig))
  <2>1. v \in Nat /\ BuyConfig \in Nat /\ t.maxSol > 0
    BY <1>7, PricingAssumption DEF BuyFromTarget
  <2>2. tokens \in Nat
    BY <2>1, TargetTyped, QuoteTyped DEF AtLeastOne
  <2>3. Place(NoCurve, tokens, v, tokens)
    BY <1>7 DEF BuyFromTarget
  <2> HIDE DEF tokens
  <2> QED
    BY <2>1, <2>2, <2>3, PlaceTyped, CurvesTyped
<1>8. ASSUME NEW ch \in Channels, ChannelAnswers(ch) PROVE TypeOK'
  <2>1. accepted' \in BOOLEAN
    BY <1>8, Zenon DEF ChannelAnswers
  <2>2. sending' \subseteq Channels
    BY <1>8 DEF ChannelAnswers
  <2> QED
    BY <1>8, <2>1, <2>2 DEF ChannelAnswers
<1>9. CASE BuyLands
  <2>1. ASSUME order.tokens \in 1 .. curve.tok - 1
        PROVE  /\ TotalCost(curve, order.tokens, FeeBps) \in Nat
               /\ AfterBuy(curve, order.tokens) \in CurveState
    <3>1. curve \in CurveState /\ order.tokens \in Nat /\ curve.tok \in Nat
      BY DEF CurveState, Order
    <3>2. /\ BuyCost(curve, order.tokens) \in Nat
          /\ AfterBuy(curve, order.tokens) \in ChainCurve
      BY <2>1, <3>1, BuyTyped
    <3> QED
      BY <3>2, FeeTyped DEF ChainCurve, TotalCost
  <2> QED
    BY <1>9, <2>1 DEF BuyLands
<1>10. CASE ConfirmerSees \/ AtaEvent
  BY <1>10, ActivationPrices DEF ConfirmerSees, AtaEvent
<1>11. CASE ConfirmerGivesUp
  BY <1>11, MarksKeepPrices DEF ConfirmerGivesUp
<1>12. CASE CorrectEntry
  <2>1. RealPrice \in Prices
    BY PricesTyped, PricingAssumption DEF RealPrice, Spent, Order
  <2> QED
    BY <1>12, <2>1, CorrectionLifts DEF CorrectEntry
<1>13. CASE CurveEvent
  <2>1. /\ Head(curveEvents) \in CurveState
        /\ Tail(curveEvents) \in Seq(CurveState)
    BY <1>13 DEF CurveEvent
  <2>2. UpdatePrice(pos, PriceOf(Head(curveEvents))) \in PricedPosition
    BY <2>1, PricesTyped, UpdateLifts
  <2> QED
    BY <1>13, <2>1, <2>2, CheckTyped DEF CurveEvent
<1>14. CASE FallbackConfirms
  BY <1>14, ActivationPrices, MarksKeepPrices DEF FallbackConfirms
<1>15. CASE FallbackLifetime
  BY <1>15, CheckTyped DEF FallbackLifetime
<1>16. CASE FallbackCached
  BY <1>16, CheckTyped, SeenTyped DEF FallbackCached
<1>17. CASE FallbackFetches
  BY <1>17, CheckTyped, SeenTyped DEF FallbackFetches
<1>18. CASE GrowsOld
  BY <1>18 DEF GrowsOld
<1>19. CASE TakeSignal
  BY <1>19, MarksKeepPrices, CurvesTyped DEF TakeSignal
<1>20. CASE SaleEnds
  BY <1>20, MarksKeepPrices, CurvesTyped DEF SaleEnds
<1> QED
  BY <1>0, <1>1, <1>2, <1>3, <1>4, <1>5, <1>6, <1>7, <1>8, <1>9, <1>10, <1>11,
     <1>12, <1>13, <1>14, <1>15, <1>16, <1>17, <1>18, <1>19, <1>20
     DEF Next, FallbackStep

(* Amounts stay natural numbers and prices quotients, whatever the curve,  *)
(* the settings and the order of the tasks.                                *)
THEOREM TypeCorrect == Spec => []TypeOK
  BY InitTyped, NextTyped, PTL DEF Spec

-----------------------------------------------------------------------------
(* The highest price.                                                      *)

HighWaterOf(p) == ~Below(p.highest, p.entry) /\ ~Below(p.highest, p.current)

LEMMA FlatIsHighWater ==
  ASSUME NEW p \in PricedPosition, p.highest = p.entry, p.current = p.entry
  PROVE  HighWaterOf(p)
  BY BelowIrreflexive DEF HighWaterOf, PricedPosition

LEMMA MarksKeepHighWater ==
  ASSUME NEW p \in PricedPosition, HighWaterOf(p),
         NEW q \in {MarkFailed(p), MarkSelling(p), MarkClosed(p),
                    RevertToActive(p)}
  PROVE  HighWaterOf(q)
  BY MarksKeepPrices DEF HighWaterOf, SamePrices

LEMMA ActivationIsHighWater ==
  ASSUME TypeOK, HighWaterOf(pos)
  PROVE  HighWaterOf(Activated(pos))
<1>1. pos \in PricedPosition
  BY DEF TypeOK
<1> QED
  BY <1>1, ActivationPrices, FlatIsHighWater

LEMMA UpdateIsHighWater ==
  ASSUME NEW p \in PricedPosition, HighWaterOf(p), NEW x \in Prices
  PROVE  HighWaterOf(UpdatePrice(p, x))
<1>1. p.highest \in Prices /\ p.entry \in Prices
  BY DEF PricedPosition
<1>2. /\ ~Below(Higher(p.highest, x), x)
      /\ ~Below(Higher(p.highest, x), p.entry)
  BY <1>1, HigherIsAbove DEF HighWaterOf
<1> DEFINE q == UpdatePrice(p, x)
<1>3. q.entry = p.entry /\ q.current = x /\ q.highest = Higher(p.highest, x)
  BY UpdateLifts
<1> HIDE DEF q
<1>4. ~Below(q.highest, q.entry) /\ ~Below(q.highest, q.current)
  BY <1>2, <1>3
<1> QED
  BY <1>4 DEF HighWaterOf, q

LEMMA SeenIsHighWater ==
  ASSUME NEW p \in PricedPosition, HighWaterOf(p), NEW c \in CurveState
  PROVE  HighWaterOf(SeenAt(p, PriceOf(c)))
  BY PricesTyped, UpdateIsHighWater DEF SeenAt

LEMMA CorrectionIsHighWater ==
  ASSUME NEW p \in PricedPosition, HighWaterOf(p), NEW x \in Prices
  PROVE  HighWaterOf(Corrected(p, x))
<1>1. p.highest \in Prices /\ p.current \in Prices
  BY DEF PricedPosition
<1>2. /\ ~Below(Higher(p.highest, x), x)
      /\ ~Below(Higher(p.highest, x), p.current)
  BY <1>1, HigherIsAbove DEF HighWaterOf
<1> DEFINE q == Corrected(p, x)
<1>3. q = p \/ ( /\ q.entry = x /\ q.current = p.current
                /\ q.highest = Higher(p.highest, x))
  BY CorrectionLifts
<1> HIDE DEF q
<1>4. ASSUME q # p PROVE ~Below(q.highest, q.entry) /\ ~Below(q.highest, q.current)
  BY <1>2, <1>3, <1>4
<1>5. HighWaterOf(q)
  BY <1>4 DEF HighWaterOf
<1> QED
  BY <1>5 DEF q

LEMMA InitHighWater == Init => HighWater
<1> SUFFICES ASSUME Init PROVE HighWater
  OBVIOUS
<1>1. pos.highest = ZeroPrice /\ pos.entry = ZeroPrice /\ pos.current = ZeroPrice
  BY DEF Init, NoPriced, Priced
<1> QED
  BY <1>1, PricesTyped, BelowIrreflexive DEF HighWater

LEMMA NextHighWater ==
  TypeOK /\ HighWater /\ [Next]_vars => HighWater'
<1> SUFFICES ASSUME TypeOK, HighWater, [Next]_vars PROVE HighWaterOf(pos')
  BY DEF HighWater, HighWaterOf
<1>0. /\ pos \in PricedPosition /\ HighWaterOf(pos)
      /\ bcCache \in CurveState /\ curve \in CurveState
  BY DEF TypeOK, HighWater, HighWaterOf
<1>1. CASE pos' = pos
  BY <1>0, <1>1
<1>2. ASSUME NEW from \in CurveState, NEW tokens, NEW setting, NEW estimate,
             Place(from, tokens, setting, estimate)
      PROVE  pos'.highest = pos'.entry /\ pos'.current = pos'.entry
  BY <1>2 DEF Place, Priced
<1>3. pos' \in PricedPosition
  BY NextTyped DEF TypeOK
<1>4. ASSUME NEW v \in BuySettings, BuyFromCache(v) PROVE HighWaterOf(pos')
  BY <1>0, <1>2, <1>3, <1>4, FlatIsHighWater DEF BuyFromCache
<1>5. ASSUME NEW v \in BuySettings, NEW t \in Targets, BuyFromTarget(v, t)
      PROVE  HighWaterOf(pos')
  BY <1>2, <1>3, <1>5, CurvesTyped, FlatIsHighWater DEF BuyFromTarget
<1>6. CASE ConfirmerSees \/ AtaEvent
  BY <1>6, <1>0, ActivationIsHighWater DEF ConfirmerSees, AtaEvent
<1>7. CASE ConfirmerGivesUp
  BY <1>7, <1>0, MarksKeepHighWater DEF ConfirmerGivesUp
<1>8. CASE CorrectEntry
  <2>1. RealPrice \in Prices
    BY PricesTyped, PricingAssumption DEF RealPrice, Spent, Order, TypeOK
  <2> QED
    BY <1>8, <1>0, <1>1, <2>1, CorrectionIsHighWater DEF CorrectEntry
<1>9. CASE CurveEvent
  <2>1. Head(curveEvents) \in CurveState
    BY <1>9 DEF CurveEvent, TypeOK
  <2>2. HighWaterOf(UpdatePrice(pos, PriceOf(Head(curveEvents))))
    BY <1>0, <2>1, PricesTyped, UpdateIsHighWater
  <2> QED
    BY <1>9, <1>1, <2>2 DEF CurveEvent, Check
<1>10. CASE FallbackConfirms
  BY <1>10, <1>0, ActivationIsHighWater, MarksKeepHighWater
     DEF FallbackConfirms
<1>11. CASE FallbackLifetime
  BY <1>11, <1>0 DEF FallbackLifetime, Check
<1>12. CASE FallbackCached \/ FallbackFetches
  BY <1>12, <1>0, SeenIsHighWater DEF FallbackCached, FallbackFetches, Check
<1>13. CASE TakeSignal
  BY <1>13, <1>0, MarksKeepHighWater DEF TakeSignal
<1>14. CASE SaleEnds
  BY <1>14, <1>0, MarksKeepHighWater DEF SaleEnds
<1>15. CASE \/ \E c \in Curves : TradeByOthers(c)
            \/ CurveUpdate \/ PrefetchReads \/ PrefetchStores
            \/ \E r \in RuleSets : SetRules(r)
            \/ \E ch \in Channels : ChannelAnswers(ch)
            \/ BuyLands \/ GrowsOld \/ UNCHANGED vars
  BY <1>15, <1>1 DEF TradeByOthers, CurveUpdate, PrefetchReads,
     PrefetchStores, SetRules, ChannelAnswers, BuyLands, GrowsOld, vars
<1> QED
  BY <1>4, <1>5, <1>6, <1>7, <1>8, <1>9, <1>10, <1>11, <1>12, <1>13, <1>14,
     <1>15 DEF Next, FallbackStep

(* The trailing stop's reference is never below the price paid nor the     *)
(* price seen last, the corrected entry price included.                    *)
THEOREM HighWaterHolds == Spec => []HighWater
  BY InitTyped, NextTyped, InitHighWater, NextHighWater, PTL DEF Spec

-----------------------------------------------------------------------------
(* The entry price once it was corrected.                                  *)

\* The strengthening: a correction comes after a confirmation, which leaves
\* a position no later confirmation applies to.
Settled ==
  /\ confirmer # "none" => order.sol = BuyConfig /\ Exists(pos)
  /\ buyTx = "landed" => cost > 0 /\ order.tokens > 0
  /\ confirmer \in {"correcting", "corrected"}
       => buyTx = "landed" /\ ~Unconfirmed(pos)
  /\ confirmer = "corrected" => pos.entry = RealPrice

\* What every step but the order and the correction does to the position.
Quiet(p, q) ==
  /\ Exists(p) => Exists(q)
  /\ ~Unconfirmed(p) => ~Unconfirmed(q) /\ q.entry = p.entry

LEMMA MarksAreQuiet ==
  ASSUME NEW p \in PricedPosition,
         NEW q \in {MarkFailed(p), MarkSelling(p), MarkClosed(p),
                    RevertToActive(p)}
  PROVE  Quiet(p, q)
  BY MarksKeepPrices DEF Quiet, SamePrices

LEMMA ActivationIsQuiet ==
  ASSUME TypeOK
  PROVE  /\ Quiet(pos, Activated(pos))
         /\ Exists(pos) => ~Unconfirmed(Activated(pos))
<1>1. pos \in PricedPosition
  BY DEF TypeOK
<1> DEFINE q == Activated(pos)
<1>2. /\ ~Unconfirmed(pos) => q = pos
      /\ Unconfirmed(pos) => q.state = "Active"
  BY <1>1, ActivationPrices
<1> HIDE DEF q
<1>3. Quiet(pos, q) /\ ~Unconfirmed(q)
  BY <1>2 DEF Quiet, Exists, Unconfirmed
<1> QED
  BY <1>3 DEF q

LEMMA UpdateIsQuiet ==
  ASSUME NEW p \in PricedPosition, NEW x \in Prices
  PROVE  /\ Quiet(p, UpdatePrice(p, x))
         /\ UpdatePrice(p, x).entry = p.entry
  BY UpdateLifts DEF Quiet, Exists, Unconfirmed

LEMMA SeenIsQuiet ==
  ASSUME NEW p \in PricedPosition, NEW c \in CurveState
  PROVE  /\ Quiet(p, SeenAt(p, PriceOf(c)))
         /\ SeenAt(p, PriceOf(c)).entry = p.entry
  BY PricesTyped, UpdateIsQuiet DEF SeenAt, Quiet

LEMMA RealPriceIsPositive ==
  ASSUME TypeOK, cost > 0, order.tokens > 0
  PROVE  RealPrice \in Prices /\ IsPositive(RealPrice)
<1>1. /\ cost \in Nat /\ Tip \in Nat /\ order.tokens \in Nat
  BY PricingAssumption DEF TypeOK, Order
<1>2. RealPrice = <<cost + Tip, order.tokens>>
  BY <1>1 DEF RealPrice, Spent, PerToken
<1> QED
  BY <1>1, <1>2 DEF Prices, IsPositive

LEMMA QuietKeepsSettled ==
  ASSUME Settled, Quiet(pos, pos'),
         UNCHANGED <<order, buyTx, cost, confirmer>>
  PROVE  Settled'
<1>1. RealPrice' = RealPrice
  BY DEF RealPrice, Spent
<1> QED
  BY <1>1 DEF Settled, Quiet

LEMMA NextSettled ==
  TypeOK /\ Settled /\ [Next]_vars
    => Settled' /\ (confirmer = "corrected" => pos'.entry = pos.entry)
<1> SUFFICES ASSUME TypeOK, Settled, [Next]_vars
             PROVE  /\ Settled'
                    /\ confirmer = "corrected" => pos'.entry = pos.entry
  OBVIOUS
<1>0. /\ pos \in PricedPosition /\ bcCache \in CurveState
      /\ curve \in CurveState /\ order \in Order
  BY DEF TypeOK
<1>1. ASSUME Quiet(pos, pos'), UNCHANGED <<order, buyTx, cost, confirmer>>
      PROVE  Settled' /\ (confirmer = "corrected" => pos'.entry = pos.entry)
  BY <1>1, QuietKeepsSettled DEF Settled, Quiet
<1>2. Quiet(pos, pos)
  BY DEF Quiet
<1>3. ASSUME NEW from, NEW tokens, NEW setting, NEW estimate,
             Place(from, tokens, setting, estimate)
      PROVE  Settled' /\ confirmer # "corrected"
  <2>1. confirmer = "none"
    BY <1>3, PricingAssumption DEF Place, NoOrder, Settled
  <2>2. order'.sol = BuyConfig /\ buyTx' = "sent" /\ confirmer' = "polling"
    BY <1>3 DEF Place
  <2>3. Exists(pos')
    BY <1>3 DEF Place, Priced, MarkConfirming, MarkSubmitted, NewPosition,
                Exists
  <2> QED
    BY <2>1, <2>2, <2>3 DEF Settled
<1>4. ASSUME NEW v \in BuySettings, BuyFromCache(v)
      PROVE  Settled' /\ confirmer # "corrected"
  BY <1>3, <1>4 DEF BuyFromCache
<1>5. ASSUME NEW v \in BuySettings, NEW t \in Targets, BuyFromTarget(v, t)
      PROVE  Settled' /\ confirmer # "corrected"
  BY <1>3, <1>5 DEF BuyFromTarget
<1>6. CASE BuyLands
  <2>1. ASSUME order.tokens \in 1 .. curve.tok - 1
        PROVE  TotalCost(curve, order.tokens, FeeBps) > 0 /\ order.tokens > 0
    <3> DEFINE k == BuyCost(curve, order.tokens)
    <3>1. k \in Nat /\ k > 0 /\ order.tokens > 0
      BY <1>0, <2>1, BuyTyped DEF CurveState
    <3>2. WithFee(k, FeeBps) \in Nat /\ WithFee(k, FeeBps) >= k
      BY <3>1, FeeTyped
    <3> QED
      BY <3>1, <3>2 DEF TotalCost
  <2>2. confirmer \notin {"correcting", "corrected"}
    BY <1>6 DEF BuyLands, Settled
  <2>3. UNCHANGED <<order, pos, confirmer>>
    BY <1>6 DEF BuyLands
  <2>4. buyTx' = "landed" => cost' > 0 /\ order'.tokens > 0
    BY <1>6, <2>1, <2>3 DEF BuyLands
  <2> QED
    BY <2>2, <2>3, <2>4 DEF Settled
<1>7. CASE ConfirmerSees
  <2>1. /\ Quiet(pos, pos')
        /\ Exists(pos) => ~Unconfirmed(pos')
        /\ confirmer = "polling" /\ confirmer' = "correcting"
        /\ buyTx = "landed" /\ UNCHANGED <<order, buyTx, cost>>
    BY <1>7, ActivationIsQuiet DEF ConfirmerSees, txVars
  <2> QED
    BY <2>1 DEF Settled, Quiet
<1>8. CASE ConfirmerGivesUp
  <2>1. Quiet(pos, pos')
    BY <1>8, <1>0, MarksAreQuiet DEF ConfirmerGivesUp
  <2> QED
    BY <1>8, <2>1 DEF ConfirmerGivesUp, txVars, Settled, Quiet
<1>9. CASE CorrectEntry
  <2>1. confirmer = "correcting" /\ UNCHANGED <<order, buyTx, cost>>
    BY <1>9 DEF CorrectEntry, txVars
  <2>2. RealPrice' = RealPrice
    BY <2>1 DEF RealPrice, Spent
  <2>3. RealPrice \in Prices /\ IsPositive(RealPrice)
    BY <2>1, RealPriceIsPositive DEF Settled
  <2> DEFINE q == Corrected(pos, RealPrice)
  <2>4. q.state = pos.state /\ (Exists(pos) => q.entry = RealPrice)
    BY <1>0, <2>3, CorrectionLifts
  <2>5. \/ pos' = q /\ confirmer' = "corrected"
        \/ pos' = pos /\ confirmer' = "done"
    BY <1>9 DEF CorrectEntry
  <2> HIDE DEF q
  <2> QED
    BY <2>1, <2>2, <2>4, <2>5 DEF Settled, Exists, Unconfirmed
<1>10. CASE AtaEvent
  BY <1>10, <1>1, ActivationIsQuiet DEF AtaEvent, txVars
<1>11. CASE CurveEvent
  <2>1. Head(curveEvents) \in CurveState
    BY <1>11 DEF CurveEvent, TypeOK
  <2>2. Quiet(pos, UpdatePrice(pos, PriceOf(Head(curveEvents))))
    BY <1>0, <2>1, PricesTyped, UpdateIsQuiet
  <2>3. Quiet(pos, pos')
    BY <1>11, <1>2, <2>2 DEF CurveEvent, Check
  <2> QED
    BY <1>11, <1>1, <2>3 DEF CurveEvent, txVars
<1>12. CASE FallbackConfirms
  <2>1. Quiet(pos, pos')
    BY <1>12, <1>0, MarksAreQuiet, ActivationIsQuiet DEF FallbackConfirms
  <2> QED
    BY <1>12, <1>1, <2>1 DEF FallbackConfirms, txVars
<1>13. CASE FallbackLifetime
  BY <1>13, <1>1, <1>2 DEF FallbackLifetime, Check, txVars
<1>14. CASE FallbackCached \/ FallbackFetches
  <2>1. Quiet(pos, pos')
    BY <1>14, <1>0, SeenIsQuiet DEF FallbackCached, FallbackFetches, Check
  <2> QED
    BY <1>14, <1>1, <2>1 DEF FallbackCached, FallbackFetches, txVars
<1>15. CASE TakeSignal
  <2>1. Quiet(pos, pos')
    BY <1>15, <1>0, MarksAreQuiet DEF TakeSignal
  <2> QED
    BY <1>15, <1>1, <2>1 DEF TakeSignal, txVars
<1>16. CASE SaleEnds
  <2>1. Quiet(pos, pos')
    BY <1>16, <1>0, MarksAreQuiet DEF SaleEnds
  <2> QED
    BY <1>16, <1>1, <2>1 DEF SaleEnds, txVars
<1>17. CASE \/ \E c \in Curves : TradeByOthers(c)
            \/ CurveUpdate \/ PrefetchReads \/ PrefetchStores
            \/ \E r \in RuleSets : SetRules(r)
            \/ \E ch \in Channels : ChannelAnswers(ch)
            \/ GrowsOld \/ UNCHANGED vars
  BY <1>17, <1>1, <1>2 DEF TradeByOthers, CurveUpdate, PrefetchReads,
     PrefetchStores, SetRules, ChannelAnswers, GrowsOld, txVars, vars
<1> QED
  BY <1>4, <1>5, <1>6, <1>7, <1>8, <1>9, <1>10, <1>11, <1>12, <1>13, <1>14,
     <1>15, <1>16, <1>17 DEF Next, FallbackStep

LEMMA InitSettled == Init => Settled
  BY DEF Init, Settled

(* Nobody writes over the corrected entry price.                           *)
THEOREM CorrectionIsFinalHolds == Spec => CorrectionIsFinal
<1>1. TypeOK /\ Settled /\ [Next]_vars
        => [confirmer = "corrected" => pos'.entry = pos.entry]_vars
  BY NextSettled
<1> QED
  BY <1>1, InitTyped, NextTyped, InitSettled, NextSettled, PTL
     DEF Spec, CorrectionIsFinal
-----------------------------------------------------------------------------
(* An order meets the curve it was computed from.                          *)

\* The curves before our own buy.
Offered == Curves \cup {BaseCurve}

\* The strengthening: until the order is placed the program knows curves that
\* others left on chain, and the order keeps what was computed from its curve.
Quoted ==
  /\ curve \in ChainCurve
  /\ order = NoOrder => /\ buyTx = "none"
                        /\ curve \in Offered
                        /\ bcCache \in Offered \cup {NoCurve}
                        /\ fetched \in Offered \cup {NoCurve}
  /\ order.from # NoCurve
       => /\ order.from.tok > 0 /\ order.from.sol > 0
          /\ order.from.sol < order.from.tok
          /\ order.tokens = SolToTokenQuote(order.from, BuyConfig)
          /\ order.maxCost = MaxSolCost(BuyConfig, Slippage)

LEMMA InitQuoted == Init => Quoted
  BY PricingAssumption DEF Init, Quoted, NoOrder, Offered

\* An order from the cache is computed from a curve that is traded on, and
\* one from the target's order from no curve at all.
LEMMA PlaceQuotes ==
  ASSUME TypeOK, Quoted,
         NEW v \in BuySettings,
         BuyFromCache(v) \/ \E t \in Targets : BuyFromTarget(v, t)
  PROVE  Quoted'
<1>1. CASE BuyFromCache(v)
  <2>1. bcCache \in Offered /\ ~bcCache.complete
    BY <1>1 DEF BuyFromCache, Place, Quoted
  <2>2. bcCache.tok > 0 /\ bcCache.sol > 0 /\ bcCache.sol < bcCache.tok
    BY <2>1, PricingAssumption, TokensAreCheap DEF Offered, ChainCurve
  <2>3. order' # NoOrder
    BY <1>1, PricingAssumption DEF BuyFromCache, Place, NoOrder
  <2>4. /\ order'.from = bcCache
        /\ order'.tokens = SolToTokenQuote(bcCache, BuyConfig)
        /\ order'.maxCost = MaxSolCost(BuyConfig, Slippage)
        /\ UNCHANGED curve
    BY <1>1 DEF BuyFromCache, Place, chain
  <2> QED
    BY <2>2, <2>3, <2>4 DEF Quoted
<1>2. ASSUME NEW t \in Targets, BuyFromTarget(v, t) PROVE Quoted'
  <2>1. order'.from = NoCurve /\ UNCHANGED curve
    BY <1>2 DEF BuyFromTarget, Place, chain
  <2>2. order' # NoOrder
    BY <1>2, PricingAssumption DEF BuyFromTarget, Place, NoOrder
  <2> QED
    BY <2>1, <2>2 DEF Quoted
<1> QED
  BY <1>1, <1>2

LEMMA NextQuoted == TypeOK /\ Quoted /\ [Next]_vars => Quoted'
<1> SUFFICES ASSUME TypeOK, Quoted, [Next]_vars PROVE Quoted'
  OBVIOUS
<1>1. CASE BuyLands
  <2>1. curve' \in ChainCurve
    <3>1. ASSUME order.tokens \in 1 .. curve.tok - 1
          PROVE  AfterBuy(curve, order.tokens) \in ChainCurve
      <4>1. curve \in CurveState /\ curve.tok \in Nat /\ order.tokens \in Nat
        BY DEF TypeOK, CurveState, Order
      <4> QED
        BY <3>1, <4>1, BuyTyped
    <3> QED
      BY <1>1, <3>1 DEF BuyLands, Quoted
  <2> QED
    BY <1>1, <2>1 DEF BuyLands, known, Quoted
<1>2. CASE \E c \in Curves : TradeByOthers(c)
  BY <1>2, PricingAssumption DEF TradeByOthers, known, txVars, Quoted, Offered
<1>3. ASSUME NEW v \in BuySettings,
             BuyFromCache(v) \/ \E t \in Targets : BuyFromTarget(v, t)
      PROVE  Quoted'
  BY <1>3, PlaceQuotes
<1>4. CASE CurveUpdate \/ PrefetchReads \/ PrefetchStores
  BY <1>4 DEF CurveUpdate, PrefetchReads, PrefetchStores, chain, txVars,
     Quoted
<1>5. CASE FallbackCached \/ FallbackFetches
  BY <1>5 DEF FallbackCached, FallbackFetches, chain, known, txVars, Quoted
<1>6. CASE TakeSignal \/ SaleEnds
  BY <1>6 DEF TakeSignal, SaleEnds, chain, txVars, Quoted
<1>7. CASE \/ \E r \in RuleSets : SetRules(r)
           \/ \E ch \in Channels : ChannelAnswers(ch)
           \/ ConfirmerSees \/ ConfirmerGivesUp \/ CorrectEntry \/ AtaEvent
           \/ CurveEvent \/ FallbackConfirms \/ FallbackLifetime
           \/ GrowsOld \/ UNCHANGED vars
  BY <1>7 DEF SetRules, ChannelAnswers, ConfirmerSees, ConfirmerGivesUp,
     CorrectEntry, AtaEvent, CurveEvent, FallbackConfirms, FallbackLifetime,
     GrowsOld, chain, known, txVars, vars, Quoted
<1> QED
  BY <1>1, <1>2, <1>3, <1>4, <1>5, <1>6, <1>7 DEF Next, FallbackStep

(* An order that meets the very curve it was computed from is carried out: *)
(* it asks for a token at least (TokensAreCheap), and its cost exceeds the *)
(* amount quoted for by one lamport and the program's fee at most, which   *)
(* the slippage allows (SlippageCoversFee; without either it may fail).    *)
THEOREM FreshQuotesLand == Spec => []FreshQuoteLands
<1>1. TypeOK /\ Quoted => FreshQuoteLands
  <2> SUFFICES ASSUME TypeOK, Quoted, order.from = curve
               PROVE  /\ order.tokens \in 1 .. curve.tok - 1
                      /\ TotalCost(curve, order.tokens, FeeBps)
                           <= order.maxCost
    BY DEF FreshQuoteLands
  <2>1. curve # NoCurve
    BY DEF Quoted, ChainCurve, NoCurve
  <2>2. /\ curve \in CurveState /\ curve.tok > 0 /\ curve.sol > 0
        /\ curve.sol < curve.tok
        /\ order.tokens = SolToTokenQuote(curve, BuyConfig)
        /\ order.maxCost = MaxSolCost(BuyConfig, Slippage)
    BY <2>1 DEF Quoted, TypeOK
  <2>3. BuyConfig \in Nat /\ BuyConfig > 0 /\ curve.tok \in Nat
    BY <2>2, PricingAssumption DEF CurveState
  <2>4. /\ order.tokens \in Nat /\ order.tokens < curve.tok
        /\ order.tokens >= 1
    BY <2>2, <2>3, QuoteBelowReserve, CheapQuote
  <2>5. TotalCost(curve, order.tokens, FeeBps) <= order.maxCost
    BY <2>2, QuoteIsAffordable
  <2> QED
    BY <2>3, <2>4, <2>5
<1> QED
  BY <1>1, InitTyped, NextTyped, InitQuoted, NextQuoted, PTL DEF Spec

-----------------------------------------------------------------------------
(* Signals after the correction.                                           *)

LEMMA LossIsBelow ==
  ASSUME NEW e \in Prices, NEW x \in Prices, NEW k \in Nat, k > 0,
         IsPositive(e), PnlAtMost(e, x, -k)
  PROVE  Below(x, e)
<1>0. /\ e[1] \in Nat /\ e[2] \in Nat /\ e[2] > 0
      /\ x[1] \in Nat /\ x[2] \in Nat /\ x[2] > 0 /\ e[1] > 0
  BY PriceParts DEF IsPositive
<1> DEFINE a == x[1] * e[2]
           b == e[1] * x[2]
<1>1. a \in Nat /\ b \in Nat /\ b > 0
  BY <1>0
<1>2. 100 * (a - b) <= (-k) * e[1] * x[2]
  BY DEF PnlAtMost
<1>3. (-k) * e[1] * x[2] = -(k * b) /\ k * b \in Nat /\ k * b > 0
  <2>1. (-k) * e[1] * x[2] = (-k) * b
    BY <1>0
  <2> HIDE DEF b
  <2>2. (-k) * b = -(k * b)
    BY <1>1
  <2>3. k * b \in Nat /\ k * b > 0
    BY <1>1
  <2> QED
    BY <2>1, <2>2, <2>3
<1>4. a < b
  <2> HIDE DEF a, b
  <2> DEFINE c == k * b
  <2>1. c \in Nat /\ c > 0 /\ 100 * (a - b) <= -c
    BY <1>2, <1>3
  <2> HIDE DEF c
  <2> QED
    BY <1>1, <2>1
<1> QED
  BY <1>4 DEF Below

LEMMA ProfitIsAbove ==
  ASSUME NEW e \in Prices, NEW x \in Prices, NEW k \in Nat, k > 0,
         IsPositive(e), PnlAtLeast(e, x, k)
  PROVE  Below(e, x)
<1>0. /\ e[1] \in Nat /\ e[2] \in Nat /\ e[2] > 0
      /\ x[1] \in Nat /\ x[2] \in Nat /\ x[2] > 0 /\ e[1] > 0
  BY PriceParts DEF IsPositive
<1> DEFINE a == x[1] * e[2]
           b == e[1] * x[2]
<1>1. a \in Nat /\ b \in Nat /\ b > 0
  BY <1>0
<1>2. 100 * (a - b) >= k * e[1] * x[2]
  BY DEF PnlAtLeast
<1>3. k * e[1] * x[2] = k * b /\ k * b \in Nat /\ k * b > 0
  BY <1>0, <1>1
<1>4. b < a
  <2> HIDE DEF a, b
  <2> DEFINE c == k * b
  <2>1. c \in Nat /\ c > 0 /\ 100 * (a - b) >= c
    BY <1>2, <1>3
  <2> HIDE DEF c
  <2> QED
    BY <1>1, <2>1
<1> QED
  BY <1>4 DEF Below

\* The rule that holds says on which side of the entry price the price is.
LEMMA ReasonMatches ==
  ASSUME TypeOK, NEW p \in PricedPosition, IsPositive(p.entry)
  PROVE  /\ ExitReason(p) = "StopLoss" /\ rules.sl > 0
              => Below(p.current, p.entry)
         /\ ExitReason(p) = "TakeProfit" /\ rules.tp > 0
              => Below(p.entry, p.current)
         /\ ExitReason(p) = "TrailingStop" => Below(p.entry, p.current)
<1>1. rules.sl \in Nat /\ rules.tp \in Nat
  BY PricingAssumption DEF TypeOK, Rules
<1>2. p.entry \in Prices /\ p.current \in Prices
  BY DEF PricedPosition
<1>3. /\ ExitReason(p) = "StopLoss" => StopLossHit(p)
      /\ ExitReason(p) = "TakeProfit" => TakeProfitHit(p)
      /\ ExitReason(p) = "TrailingStop" => TrailingStopHit(p)
  BY DEF ExitReason
<1>4. StopLossHit(p) /\ rules.sl > 0 => Below(p.current, p.entry)
  BY <1>1, <1>2, LossIsBelow DEF StopLossHit
<1>5. TakeProfitHit(p) /\ rules.tp > 0 => Below(p.entry, p.current)
  BY <1>1, <1>2, ProfitIsAbove DEF TakeProfitHit
<1>6. TrailingStopHit(p) => Below(p.entry, p.current)
  BY DEF TrailingStopHit
<1> QED
  BY <1>3, <1>4, <1>5, <1>6

\* The signal a step has sent, if it has, against the price really paid.
Matches ==
  LET reason == signals'[Len(signals')]
  IN  confirmer = "corrected" /\ Len(signals') > Len(signals)
        => /\ reason = "StopLoss" /\ rules.sl > 0
                => Below(pos'.current, RealPrice)
           /\ reason = "TakeProfit" /\ rules.tp > 0
                => Below(RealPrice, pos'.current)
           /\ reason = "TrailingStop" => Below(RealPrice, pos'.current)

LEMMA CheckMatches ==
  ASSUME TypeOK, Settled, NEW p \in PricedPosition, p.entry = pos.entry,
         Check(p)
  PROVE  Matches
<1> SUFFICES ASSUME confirmer = "corrected", Len(signals') > Len(signals)
             PROVE  LET reason == signals'[Len(signals')]
                    IN  /\ reason = "StopLoss" /\ rules.sl > 0
                             => Below(pos'.current, RealPrice)
                        /\ reason = "TakeProfit" /\ rules.tp > 0
                             => Below(RealPrice, pos'.current)
                        /\ reason = "TrailingStop"
                             => Below(RealPrice, pos'.current)
  BY DEF Matches
<1>1. p.entry = RealPrice /\ IsPositive(p.entry)
  BY RealPriceIsPositive DEF Settled
<1>2. pos' = p /\ signals \in Seq(Reasons) /\ signals' = Signalled(p)
  BY DEF Check, TypeOK
<1>3. signals' = Append(signals, ExitReason(p)) /\ ExitReason(p) \in Reasons
  BY <1>2, ReasonTyped DEF Signalled
<1>4. signals'[Len(signals')] = ExitReason(p)
  BY <1>2, <1>3
<1> QED
  BY <1>1, <1>2, <1>4, ReasonMatches

LEMMA SilentMatches ==
  ASSUME TypeOK, UNCHANGED signals \/ (signals # <<>> /\ signals' = Tail(signals))
  PROVE  Matches
<1>1. signals \in Seq(Reasons)
  BY DEF TypeOK
<1>2. ~(Len(signals') > Len(signals))
  BY <1>1
<1> QED
  BY <1>2 DEF Matches

LEMMA NextMatches == TypeOK /\ Settled /\ [Next]_vars => Matches
<1> SUFFICES ASSUME TypeOK, Settled, [Next]_vars PROVE Matches
  OBVIOUS
<1>0. pos \in PricedPosition /\ bcCache \in CurveState /\ curve \in CurveState
  BY DEF TypeOK
<1>1. CASE CurveEvent
  <2>1. Head(curveEvents) \in CurveState
    BY <1>1 DEF CurveEvent, TypeOK
  <2> DEFINE p == UpdatePrice(pos, PriceOf(Head(curveEvents)))
  <2>2. p \in PricedPosition /\ p.entry = pos.entry
    BY <1>0, <2>1, PricesTyped, UpdateLifts
  <2>3. Check(p) \/ UNCHANGED signals
    BY <1>1 DEF CurveEvent
  <2> HIDE DEF p
  <2> QED
    BY <2>2, <2>3, CheckMatches, SilentMatches
<1>2. CASE FallbackLifetime
  BY <1>2, <1>0, CheckMatches DEF FallbackLifetime
<1>3. CASE FallbackCached
  BY <1>3, <1>0, SeenTyped, SeenIsQuiet, CheckMatches DEF FallbackCached
<1>4. CASE FallbackFetches
  BY <1>4, <1>0, SeenTyped, SeenIsQuiet, CheckMatches DEF FallbackFetches
<1>5. CASE TakeSignal
  BY <1>5, SilentMatches DEF TakeSignal
<1>6. ASSUME NEW v \in BuySettings,
             BuyFromCache(v) \/ \E t \in Targets : BuyFromTarget(v, t)
      PROVE  Matches
  BY <1>6, SilentMatches DEF BuyFromCache, BuyFromTarget, Place
<1>7. CASE \/ \E c \in Curves : TradeByOthers(c)
           \/ CurveUpdate \/ PrefetchReads \/ PrefetchStores
           \/ \E r \in RuleSets : SetRules(r)
           \/ \E ch \in Channels : ChannelAnswers(ch)
           \/ BuyLands \/ ConfirmerSees \/ ConfirmerGivesUp \/ CorrectEntry
           \/ AtaEvent \/ FallbackConfirms \/ GrowsOld \/ SaleEnds
           \/ UNCHANGED vars
  <2>1. UNCHANGED signals
    BY <1>7 DEF TradeByOthers, CurveUpdate, PrefetchReads, PrefetchStores,
       SetRules, ChannelAnswers, BuyLands, ConfirmerSees, ConfirmerGivesUp,
       CorrectEntry, AtaEvent, FallbackConfirms, GrowsOld, SaleEnds, vars
  <2> QED
    BY <2>1, SilentMatches
<1> QED
  BY <1>1, <1>2, <1>3, <1>4, <1>5, <1>6, <1>7 DEF Next, FallbackStep

(* After the correction a sale for a loss is asked for below the price     *)
(* really paid and a sale for a profit above it, for all rules and prices. *)
THEOREM ExitsFollowCost == Spec => ExitsMatchCost
<1>1. TypeOK /\ Settled /\ [Next]_vars => [Matches]_vars
  BY NextMatches
<1>2. (TypeOK /\ Settled /\ [Next]_vars => [Matches]_vars)
        => (TypeOK /\ Settled /\ [Next]_vars
              => [LET reason == signals'[Len(signals')]
                  IN  confirmer = "corrected" /\ Len(signals') > Len(signals)
                        => /\ reason = "StopLoss" /\ rules.sl > 0
                                => Below(pos'.current, RealPrice)
                           /\ reason = "TakeProfit" /\ rules.tp > 0
                                => Below(RealPrice, pos'.current)
                           /\ reason = "TrailingStop"
                                => Below(RealPrice, pos'.current)]_vars)
  BY DEF Matches
<1> QED
  BY <1>1, <1>2, InitTyped, NextTyped, InitSettled, NextSettled, PTL
     DEF Spec, ExitsMatchCost
=============================================================================
