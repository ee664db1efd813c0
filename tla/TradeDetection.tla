--------------------------- MODULE TradeDetection ---------------------------
(***************************************************************************)
(* From a transaction to a detected trade (grpc/subscriber.rs) and from a  *)
(* trade to its token (main.rs: extract_token_info).                       *)
(*                                                                         *)
(* An address is a wallet or a mint, or else a tuple: a fixed address has  *)
(* its name, a derived one what it is derived from, so that two of them    *)
(* are equal when the program derives them alike.  Of an instruction's     *)
(* data the model has the discriminator: "buy", "sell" or "other", which   *)
(* stands for too short a one as well.                                     *)
(***************************************************************************)
EXTENDS Naturals, Sequences, SequencesExt

CONSTANTS
  Mints,           \* the tokens
  Followed,        \* target_wallets
  Us,              \* our wallet
  TokenProgramOf,  \* the token program each token lives under
  Cashback         \* the tokens whose curve says is_cashback

Pumpfun == <<"pumpfun">>
Aggregator == <<"aggregator">>
System == <<"system">>
TokenLegacy == <<"token">>
Token2022 == <<"token2022">>
Wsol == <<"wsol">>

Curve(m) == <<"bonding-curve", m>>
Ata(owner, m, program) == <<"ata", owner, m, program>>
Volume(w) == <<"user_volume_accumulator", w>>
CreatorVault(m) == <<"creator-vault", m>>
CurveV2(m) == <<"bonding-curve-v2", m>>

ASSUME DetectionAssumption ==
  /\ Us \notin Followed
  /\ TokenProgramOf \in [Mints -> {TokenLegacy, Token2022}]
  /\ Cashback \subseteq Mints

\* The value of an address or a trade that is missing.
None == <<>>

-----------------------------------------------------------------------------
(* What pump.fun asks of a buy and of a sale (external; the positions are  *)
(* those processor/pumpfun.rs relies on).                                  *)

BuyAccounts(w, m) ==
  LET program == TokenProgramOf[m]
  IN  << <<"global">>, <<"fee">>, m, Curve(m), Ata(Curve(m), m, program),
         Ata(w, m, program), w, System, program, CreatorVault(m),
         <<"event">>, Pumpfun, <<"volume">>, Volume(w), <<"fee_config">>,
         <<"fee_program">>, CurveV2(m) >>

\* The accounts that follow a sale's fixed ones.
RemainingAccounts(w, m) ==
  IF m \in Cashback THEN << Volume(w), CurveV2(m) >> ELSE << CurveV2(m) >>

SellAccounts(w, m) ==
  LET program == TokenProgramOf[m]
  IN  << <<"global">>, <<"fee">>, m, Curve(m), Ata(Curve(m), m, program),
         Ata(w, m, program), w, System, CreatorVault(m), program,
         <<"event">>, Pumpfun, <<"fee_config">>, <<"fee_program">> >>
        \o RemainingAccounts(w, m)

-----------------------------------------------------------------------------
(* parse_transaction.                                                      *)

\* The accounts of the message, and those of lookup tables when the stream
\* has the transaction's meta.
AccountKeys(tx) == IF tx.hasMeta THEN tx.static \o tx.loaded ELSE tx.static

\* The first followed wallet among the accounts.
WalletsIn(tx) == SelectSeq(AccountKeys(tx), LAMBDA a : a \in Followed)
SourceWallet(tx) == Head(WalletsIn(tx))

\* try_parse_instruction takes whatever is pump.fun's for a trade.
PumpfunIn(instructions, keys) ==
  SelectSeq(instructions,
            LAMBDA ix : ix.program = Pumpfun /\ Pumpfun \in ToSet(keys))

\* detect_buy_or_sell: what is not known is a buy.
IsBuy(disc) == disc # "sell"

\* An index that points nowhere is passed over, and the rest moves up.
AccountsOf(ix, keys) ==
  SelectSeq(ix.accounts, LAMBDA a : a \in ToSet(keys))

InstructionTrade(tx, ix) ==
  [tx |-> tx, wallet |-> SourceWallet(tx), buy |-> IsBuy(ix.disc),
   accounts |-> AccountsOf(ix, AccountKeys(tx)), mint |-> None]

\* try_detect_cpi_pumpfun: the first account whose curve is listed as well.
SystemAddresses == {Pumpfun, Wsol, System, TokenLegacy, <<"global">>,
                    <<"event">>}

MintsIn(keys) ==
  SelectSeq(keys, LAMBDA a : /\ a \notin SystemAddresses \cup Followed
                             /\ Curve(a) \in ToSet(keys))

CpiTrade(tx) ==
  LET keys == AccountKeys(tx)
      wallet == SourceWallet(tx)
  IN  [tx |-> tx, wallet |-> wallet,
       buy |-> Ata(wallet, Wsol, TokenLegacy) \in ToSet(keys),
       accounts |-> keys, mint |-> Head(MintsIn(keys))]

\* The instructions of the message, then the accounts, then the inner
\* instructions: the first that shows a trade.
ParseTransaction(tx) ==
  LET keys == AccountKeys(tx)
      outer == PumpfunIn(tx.outer, keys)
      inner == IF tx.hasMeta THEN PumpfunIn(tx.inner, keys) ELSE <<>>
  IN  IF WalletsIn(tx) = <<>> THEN None
      ELSE IF outer # <<>> THEN InstructionTrade(tx, Head(outer))
      ELSE IF Pumpfun \in ToSet(keys) /\ MintsIn(keys) # <<>> THEN CpiTrade(tx)
      ELSE IF inner # <<>> THEN InstructionTrade(tx, Head(inner))
      ELSE None

-----------------------------------------------------------------------------
(* extract_token_info.                                                     *)

\* is_system_address knows fewer addresses than the detection.
NoMint == {System, TokenLegacy, Wsol}

HasToken(trade) ==
  \/ trade.mint # None
  \/ Len(trade.accounts) >= 9 /\ trade.accounts[3] \notin NoMint

TokenMint(trade) ==
  IF trade.mint # None THEN trade.mint ELSE trade.accounts[3]

TokenProgram(trade) ==
  IF trade.mint # None THEN TokenLegacy ELSE trade.accounts[9]
=============================================================================
