----------------------------- MODULE BondingCurve -----------------------------
(***************************************************************************)
(* The arithmetic of orders on a pump.fun bonding curve                    *)
(* (processor/pumpfun.rs) and of profit and loss (autosell/position.rs).   *)
(*                                                                         *)
(* Amounts are lamports and raw tokens.  A price is a pair <<sol, tokens>> *)
(* that stands for the quotient the code keeps as a float; prices and      *)
(* percentages are compared by cross-multiplication, without rounding.     *)
(***************************************************************************)
EXTENDS Integers

\* The virtual reserves a quote looks at.
CurveState == [tok : Nat, sol : Nat, complete : BOOLEAN]

\* What the cache of curves answers for a token it does not hold.
NoCurve == [tok |-> 0, sol |-> 0, complete |-> FALSE]

Bps == 10000

\* sol_to_token_quote: computed in 128 bits and cut to 64, which loses
\* nothing since a quote is never more than the reserve.
SolToTokenQuote(c, amount) ==
  IF c.sol = 0 THEN 0 ELSE (c.tok * amount) \div (c.sol + amount)

\* Seeded fault: basis points taken for parts of a million.
MaxSolCostPpm(amount, slippage) ==
  amount + (amount * slippage) \div (100 * Bps)

\* The most a buy of this amount may cost.
MaxSolCost(amount, slippage) == amount + (amount * slippage) \div Bps

\* buy_from_target_instruction: the target's order stands for the price of a
\* curve that holds assumedSol (30 SOL).
TargetCurve(target, assumedSol) ==
  [tok |-> (assumedSol * target.tokens) \div target.maxSol,
   sol |-> assumedSol, complete |-> FALSE]

AtLeastOne(n) == IF n = 0 THEN 1 ELSE n

-----------------------------------------------------------------------------
(* What the program on chain takes for a buy of exactly so many tokens     *)
(* (external): the rounded-up cost on the curve, which the curve keeps,    *)
(* and its fee on top, which goes to other accounts.                       *)

BuyCost(c, tokens) == (tokens * c.sol) \div (c.tok - tokens) + 1

WithFee(amount, fee) == amount + (amount * fee + Bps - 1) \div Bps

TotalCost(c, tokens, fee) == WithFee(BuyCost(c, tokens), fee)

AfterBuy(c, tokens) ==
  [tok |-> c.tok - tokens, sol |-> c.sol + BuyCost(c, tokens),
   complete |-> c.complete]

-----------------------------------------------------------------------------
(* Prices.                                                                 *)

ZeroPrice == <<0, 1>>

Prices == Nat \X (Nat \ {0})

IsPositive(p) == p[1] > 0
Below(p, q) == p[1] * q[2] < q[1] * p[2]

\* price_sol
PriceOf(c) == IF c.tok = 0 THEN ZeroPrice ELSE <<c.sol, c.tok>>

\* sol / tokens, or 0 without tokens.
PerToken(sol, tokens) == IF tokens = 0 THEN ZeroPrice ELSE <<sol, tokens>>

Higher(p, q) == IF Below(p, q) THEN q ELSE p

\* pnl_percent against a limit: 0 when the entry price is not known.
PnlAtLeast(entry, now, percent) ==
  IF IsPositive(entry)
  THEN 100 * (now[1] * entry[2] - entry[1] * now[2])
         >= percent * entry[1] * now[2]
  ELSE 0 >= percent

PnlAtMost(entry, now, percent) ==
  IF IsPositive(entry)
  THEN 100 * (now[1] * entry[2] - entry[1] * now[2])
         <= percent * entry[1] * now[2]
  ELSE 0 <= percent

\* drawdown_percent
DrawdownAtLeast(highest, now, percent) ==
  IF IsPositive(highest)
  THEN 100 * (highest[1] * now[2] - now[1] * highest[2])
         >= percent * highest[1] * now[2]
  ELSE 0 >= percent
=============================================================================
