-------------------------- MODULE MCTradePipeline --------------------------
(* Instances of TradePipeline for TLC: see the .cfg files for the bounds.  *)
EXTENDS TradePipeline

CONSTANTS m1, w1, w2, b1, b2, b3, s1

\* Two wallets buy the token, the first one sells it and buys it again.
MCTrades ==
  { [sig |-> b1, wallet |-> w1, mint |-> m1, buy |-> TRUE],
    [sig |-> s1, wallet |-> w1, mint |-> m1, buy |-> FALSE],
    [sig |-> b3, wallet |-> w1, mint |-> m1, buy |-> TRUE],
    [sig |-> b2, wallet |-> w2, mint |-> m1, buy |-> TRUE] }
=============================================================================
