------------------------------ MODULE MCPricing ------------------------------
(* One token with few reserves, whose price can more than double.          *)
EXTENDS Pricing, TLC

Curve(t, s) == [tok |-> t, sol |-> s, complete |-> FALSE]

MCBaseCurve == Curve(500, 240)
MCCurves ==
  {Curve(435, 276), Curve(352, 341),
   [tok |-> 0, sol |-> 0, complete |-> TRUE]}

MCRulesConfig == [sl |-> 10, tp |-> 50, trail |-> 10, follow |-> FALSE]
MCRuleSets == {MCRulesConfig, [MCRulesConfig EXCEPT !.follow = TRUE]}

MCTargets == {[tokens |-> 30, maxSol |-> 30], [tokens |-> 1, maxSol |-> 90]}
=============================================================================
