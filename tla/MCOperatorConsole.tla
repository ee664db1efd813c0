--------------------------- MODULE MCOperatorConsole ---------------------------
(* The commands of the check: the switches, one token, two wallets, one of     *)
(* them configured, the list of positions, and a stranger's /start.            *)
EXTENDS OperatorConsole

CONSTANTS token, w1, w2

Command(kind, about) ==
  [ours |-> TRUE, kind |-> kind, about |-> about, number |-> 0]

MCCommands ==
  {Command("start", token), Command("stop", token), Command("follow", token),
   Command("block", token), Command("unblock", token),
   Command("add", w2), Command("remove", w1), Command("positions", token),
   [Command("remove at", token) EXCEPT !.number = 1],
   [Command("start", token) EXCEPT !.ours = FALSE]}

MCConfigured == <<w1>>

\* What the proof of LastWordCounts supposes of the configuration.
ASSUME EachWalletOnce
=============================================================================
