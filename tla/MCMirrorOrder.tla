---------------------------- MODULE MCMirrorOrder ----------------------------
(* Instances of MirrorOrder for TLC: see the .cfg files for the bounds.     *)
EXTENDS MirrorOrder

CONSTANTS m1, m2, w1, w2

MCPrograms == (m1 :> TokenLegacy) @@ (m2 :> Token2022)

\* A transaction with one instruction; its payer comes first.
Direct(payer, disc, accounts) ==
  [static |-> <<payer>> \o accounts, loaded |-> <<>>, hasMeta |-> FALSE,
   outer |-> << [program |-> Pumpfun, disc |-> disc, accounts |-> accounts] >>,
   inner |-> <<>>]

\* A trade through another program.
Routed(w, m, disc, accounts) ==
  [static |-> <<w, Ata(w, Wsol, TokenLegacy), Curve(m), Ata(w, m, TokenLegacy),
                m, Aggregator, Pumpfun>>,
   loaded |-> <<>>, hasMeta |-> TRUE,
   outer |-> << [program |-> Aggregator, disc |-> "other",
                 accounts |-> <<m>>] >>,
   inner |-> << [program |-> Pumpfun, disc |-> disc, accounts |-> accounts] >>]

\* A buy whose fixed accounts are in a lookup table that is not resolved.
Compressed(w, m) ==
  [Direct(w, "buy", BuyAccounts(w, m)) EXCEPT
     !.static = SelectSeq(@, LAMBDA a : a \notin {<<"global">>, <<"fee">>}),
     !.loaded = << <<"global">>, <<"fee">> >>]

\* Both wallets buy m1, one pays for the other, one buys through another
\* program; a wallet buys m2, of the other token program.  An instruction
\* that is not known, or a failed one, names another account where a buy has
\* the token program.
MCTransactions ==
  { Direct(w1, "buy", BuyAccounts(w1, m1)),
    Direct(w2, "buy", BuyAccounts(w2, m1)),
    Direct(w1, "buy", BuyAccounts(w2, m1)),
    Routed(w1, m1, "buy", BuyAccounts(w1, m1)),
    Direct(w1, "buy", BuyAccounts(w1, m2)),
    Direct(w2, "other", SellAccounts(w2, m1)) }

MCUnusual ==
  { Direct(w1, "sell", SellAccounts(w1, m1)),
    Direct(w2, "other", <<Curve(m1), w2, System, <<"event">>, Pumpfun>>),
    Routed(w1, m1, "buy", BuyAccounts(w1, m1)),
    Compressed(w2, m1) }
=============================================================================
