------------------------------ MODULE AutoSell ------------------------------
(***************************************************************************)
(* The life of the position of one token, from the buy that opens it to    *)
(* its removal: autosell/manager.rs, tx/confirm.rs, tx/sell_executor.rs    *)
(* and the ends of main.rs and grpc/account_subscriber.rs that touch it.   *)
(*                                                                         *)
(* Five kinds of task run concurrently on the position: the buy confirmer, *)
(* the gRPC monitor, the fallback monitor, the operator's and main loop's  *)
(* requests to sell, and one sell task per sell signal.  An action is what *)
(* a task does between two points where another task can run: a lock of    *)
(* the positions map released, an RPC awaited.  Positions of different     *)
(* tokens share no state, so the token is not a parameter.                 *)
(*                                                                         *)
(* The chain is external: the buy lands, fails or never lands; a sale      *)
(* lands, fails or never lands, and may land after its task gave it up.    *)
(* An RPC balance query answers the balance, or 0 when it fails.           *)
(***************************************************************************)
EXTENDS Position, FiniteSets

CONSTANTS
  SellTasks,       \* bound: sell signals handled at the same time
  Bought,          \* raw tokens the buy transaction credits
  MaxAttempts,     \* MAX_TOTAL_SELL_ATTEMPTS
  MaxRetries,      \* MAX_SELL_RETRIES
  ConfirmTimeout,  \* confirm_timeout_secs, in ticks (5 s by default)
  ConfirmLimit,    \* max_wait of the buy confirmer (10 s)
  PurgeAge,        \* age at which dead positions are dropped (60 s)
  MaxHold,         \* max_hold_seconds (120 s by default)
  BuyExpiry,       \* life of the buy's blockhash
  Horizon,         \* ages saturate here
  MaxLate          \* bound: abandoned sales of one size that may still land

ASSUME AutoSellAssumption ==
  /\ IsFiniteSet(SellTasks)
  /\ Bought \in Nat \ {0}
  /\ MaxAttempts \in Nat \ {0}
  /\ MaxRetries \in Nat \ {0}
  /\ Horizon \in Nat
  /\ {ConfirmTimeout, ConfirmLimit, PurgeAge, MaxHold, BuyExpiry}
       \subseteq 0 .. Horizon
  /\ MaxLate \in Nat

VARIABLES
  pos,        \* this token's entry of the positions map
  held,       \* held_seconds, saturated at Horizon
  buyTx,      \* the buy transaction
  balance,    \* the wallet's tokens on chain
  late,       \* per amount, abandoned sales that may still land
  tracked,    \* the account subscriber holds the token's accounts
  ataCache,   \* the cached balance of the token account
  ataEvents,  \* amounts on their way to the gRPC monitor
  confirmer,  \* the buy confirmer task
  fallback,   \* the fallback monitor, within one token's turn
  task        \* the sell tasks

chainVars == <<buyTx, balance, late>>
ataVars == <<tracked, ataCache, ataEvents>>
vars == <<pos, held, chainVars, ataVars, confirmer, fallback, task>>

-----------------------------------------------------------------------------

NotCached == Bought + 1

\* What a sell task knows: where it is, the try it is on (1..MaxRetries),
\* the balance it read, and the transaction it waits for.
SellTask == [pc : {"idle", "received", "givingUp", "cleared", "reading",
                   "zero", "trying", "waiting", "sold", "exhausted",
                   "remains", "empty"},
             try : 0 .. MaxRetries,
             amount : 0 .. Bought,
             tx : {"none", "pending", "landed", "failed"}]

IdleTask == [pc |-> "idle", try |-> 0, amount |-> 0, tx |-> "none"]

TypeOK ==
  /\ pos \in PositionOrNone
  /\ held \in 0 .. Horizon
  /\ buyTx \in {"none", "pending", "landed", "failed"}
  /\ balance \in 0 .. Bought
  /\ late \in [1 .. Bought -> 0 .. MaxLate]
  /\ tracked \in BOOLEAN
  /\ ataCache \in 0 .. NotCached
  /\ ataEvents \in SUBSET (0 .. Bought)
  /\ confirmer \in {"none", "polling", "confirmed", "credited", "done"}
  /\ fallback \in {"idle", "asking", "zero", "credited"}
  /\ task \in [SellTasks -> SellTask]

Init ==
  /\ pos = NoPosition
  /\ held = 0
  /\ buyTx = "none"
  /\ balance = 0
  /\ late = [a \in 1 .. Bought |-> 0]
  /\ tracked = FALSE
  /\ ataCache = NotCached
  /\ ataEvents = {}
  /\ confirmer = "none"
  /\ fallback = "idle"
  /\ task = [t \in SellTasks |-> IdleTask]

\* get_token_account_balance, with errors read as 0 (unwrap_or(0)).
RpcBalances == {0, balance}

\* The task's next control point.
Goto(t, pc) == task' = [task EXCEPT ![t].pc = pc]
Finish(t) == task' = [task EXCEPT ![t] = IdleTask]

-----------------------------------------------------------------------------
(* Buying: main.rs, execute_buy.                                           *)

\* The main loop registers the token's accounts at every target buy of it.
TrackMint ==
  /\ ~tracked
  /\ tracked' = TRUE
  /\ UNCHANGED <<pos, held, chainVars, ataCache, ataEvents, confirmer,
                 fallback, task>>

\* fire_and_forget: at most once per token and run (mint_dedup).
FireBuy ==
  /\ tracked
  /\ buyTx = "none"
  /\ buyTx' = "pending"
  /\ UNCHANGED <<pos, held, balance, late, ataVars, confirmer, fallback,
                 task>>

\* mark_submitted, mark_confirming, add_position, spawn_confirm_task.
OpenPosition ==
  /\ buyTx # "none"
  /\ confirmer = "none"
  /\ pos' = MarkConfirming(MarkSubmitted(NewPosition))
  /\ held' = 0
  /\ confirmer' = "polling"
  /\ UNCHANGED <<chainVars, ataVars, fallback, task>>

-----------------------------------------------------------------------------
(* The chain (external).                                                   *)

BuyLands ==
  /\ buyTx = "pending"
  /\ held < BuyExpiry
  /\ buyTx' = "landed"
  /\ balance' = Bought
  /\ UNCHANGED <<pos, held, late, ataVars, confirmer, fallback, task>>

BuyFails ==
  /\ buyTx = "pending"
  /\ held < BuyExpiry
  /\ buyTx' = "failed"
  /\ UNCHANGED <<pos, held, balance, late, ataVars, confirmer, fallback,
                 task>>

\* A sale of more than the balance fails on chain; so may any other.
SellSettles(t) ==
  /\ task[t].tx = "pending"
  /\ \/ /\ task[t].amount <= balance
        /\ balance' = balance - task[t].amount
        /\ task' = [task EXCEPT ![t].tx = "landed"]
     \/ /\ task' = [task EXCEPT ![t].tx = "failed"]
        /\ UNCHANGED balance
  /\ UNCHANGED <<pos, held, buyTx, late, ataVars, confirmer, fallback>>

LateSellLands(a) ==
  /\ late[a] > 0
  /\ a <= balance
  /\ late' = [late EXCEPT ![a] = @ - 1]
  /\ balance' = balance - a
  /\ UNCHANGED <<pos, held, buyTx, ataVars, confirmer, fallback, task>>

Tick ==
  /\ pos.state # "Absent"
  /\ held < Horizon
  /\ held' = held + 1
  /\ UNCHANGED <<pos, chainVars, ataVars, confirmer, fallback, task>>

-----------------------------------------------------------------------------
(* Account updates: account_subscriber.rs fills the cache and forwards the *)
(* event, manager.rs handles it.  The stream reports an account after a    *)
(* change of it, so nothing is reported before the buy landed.             *)

AtaUpdate ==
  /\ tracked
  /\ buyTx = "landed"
  /\ ataCache' = balance
  /\ ataEvents' = ataEvents \cup {balance}
  /\ UNCHANGED <<pos, held, chainVars, tracked, confirmer, fallback, task>>

AtaEvent(a) ==
  /\ a \in ataEvents
  /\ ataEvents' = ataEvents \ {a}
  /\ pos' = IF a > 0 /\ Unconfirmed(pos) THEN MarkActive(pos) ELSE pos
  /\ UNCHANGED <<held, chainVars, tracked, ataCache, confirmer, fallback,
                 task>>

-----------------------------------------------------------------------------
(* The buy confirmer (confirm.rs): polls the signature status, the cached  *)
(* balance and, once the signature is confirmed, the balance by RPC.       *)

\* get_signature_statuses, when it answers.
ConfirmerStatus ==
  /\ confirmer = "polling"
  /\ \/ /\ buyTx = "failed"
        /\ pos' = MarkFailed(pos)
        /\ confirmer' = "done"
     \/ /\ buyTx = "landed"
        /\ confirmer' = "confirmed"
        /\ UNCHANGED pos
  /\ UNCHANGED <<held, chainVars, ataVars, fallback, task>>

ConfirmerCredit ==
  /\ \/ confirmer \in {"polling", "confirmed"} /\ ataCache \in 1 .. Bought
     \/ confirmer = "confirmed" /\ balance > 0
  /\ confirmer' = "credited"
  /\ UNCHANGED <<pos, held, chainVars, ataVars, fallback, task>>

\* Seeded fault: the confirmed buy is written back over the position.
ConfirmSuccessOver(p) == IF Exists(p) THEN [p EXCEPT !.state = "Active"] ELSE p

ConfirmSuccess(p) == MarkActive(p)

ConfirmerSucceeds ==
  /\ confirmer = "credited"
  /\ pos' = ConfirmSuccess(pos)
  /\ confirmer' = "done"
  /\ UNCHANGED <<held, chainVars, ataVars, fallback, task>>

\* After max_wait.  Unconfirmed: failed.  Confirmed without a balance: the
\* transaction's post balances decide, and a failed query counts as none.
ConfirmerExpires ==
  /\ held >= ConfirmLimit
  /\ \/ /\ confirmer \in {"polling", "confirmed"}
        /\ pos' = MarkFailed(pos)
        /\ confirmer' = "done"
     \/ /\ confirmer = "confirmed"
        /\ confirmer' = "credited"
        /\ UNCHANGED pos
  /\ UNCHANGED <<held, chainVars, ataVars, fallback, task>>

ConfirmerStep ==
  ConfirmerStatus \/ ConfirmerCredit \/ ConfirmerSucceeds \/ ConfirmerExpires

-----------------------------------------------------------------------------
(* The fallback monitor (manager.rs): looks for the tokens of a buy that   *)
(* is unconfirmed for too long, asks for a sale after max_hold, drops dead *)
(* positions.  The balance is awaited with the position unlocked.          *)

NeedsConfirmCheck == Unconfirmed(pos) /\ held >= ConfirmTimeout

FallbackCheck ==
  /\ fallback = "idle"
  /\ NeedsConfirmCheck
  /\ fallback' = "asking"
  /\ UNCHANGED <<pos, held, chainVars, ataVars, confirmer, task>>

\* Seeded fault: the account answers, and that is taken for tokens in it.
AnyAnswer(b) == b >= 0

HasTokens(b) == b > 0

FallbackRead ==
  /\ fallback = "asking"
  /\ \E b \in RpcBalances :
       fallback' = IF HasTokens(b) THEN "credited" ELSE "zero"
  /\ UNCHANGED <<pos, held, chainVars, ataVars, confirmer, task>>

FallbackApply ==
  /\ fallback \in {"zero", "credited"}
  /\ pos' = IF fallback = "credited" THEN MarkActive(pos) ELSE MarkFailed(pos)
  /\ fallback' = "idle"
  /\ UNCHANGED <<held, chainVars, ataVars, confirmer, task>>

FallbackPurge ==
  /\ fallback = "idle"
  /\ pos.state \in {"Closed", "Failed"}
  /\ held >= PurgeAge
  /\ pos' = NoPosition
  /\ UNCHANGED <<held, chainVars, ataVars, confirmer, fallback, task>>

-----------------------------------------------------------------------------
(* Sell signals.  Each one sent is handled by a task of its own (main.rs   *)
(* 313-321); the reason it carries changes nothing.                        *)

Signal(t) ==
  /\ task[t].pc = "idle"
  /\ Goto(t, "received")
  /\ UNCHANGED <<pos, held, chainVars, ataVars, confirmer, fallback>>

\* Seeded fault: a position whose sale failed once is not asked for again.
LifetimeOverOnce ==
  MaxHold > 0 /\ held >= MaxHold /\ CanSell(pos) /\ pos.attempts = 0

LifetimeOver == MaxHold > 0 /\ held >= MaxHold /\ CanSell(pos)

\* A price update of the gRPC monitor: a price rule holds, or max_hold.
GrpcSignal(t) == (CanCheckExit(pos) \/ LifetimeOver) /\ Signal(t)

FallbackPriceSignal(t) ==
  /\ fallback = "idle"
  /\ ~NeedsConfirmCheck
  /\ CanCheckExit(pos)
  /\ Signal(t)

FallbackLifetimeSignal(t) ==
  /\ fallback = "idle"
  /\ ~NeedsConfirmCheck
  /\ LifetimeOver
  /\ Signal(t)

\* The operator's /sellall.
ManualSignal(t) == Listed(pos) /\ Signal(t)

\* A followed wallet sells, in follow-sell mode.
FollowSignal(t) == CanSell(pos) /\ Signal(t)

-----------------------------------------------------------------------------
(* handle_sell_signal (sell_executor.rs).                                  *)

\* Seeded fault: the limit is off by one.
OneAttemptMore(p) == p.attempts <= MaxAttempts

AttemptsLeft(p) == p.attempts < MaxAttempts

\* The attempts are read from a copy of the position.
CheckAttempts(t) ==
  /\ task[t].pc = "received"
  /\ Goto(t, IF Exists(pos) /\ ~AttemptsLeft(pos)
             THEN "givingUp" ELSE "cleared")
  /\ UNCHANGED <<pos, held, chainVars, ataVars, confirmer, fallback>>

GiveUp(t) ==
  /\ task[t].pc = "givingUp"
  /\ pos' = MarkFailed(pos)
  /\ tracked' = FALSE
  /\ Finish(t)
  /\ UNCHANGED <<held, chainVars, ataCache, ataEvents, confirmer, fallback>>

\* Seeded fault: the answer of mark_selling is ignored.
MayProceed(p) == Exists(p)

\* mark_selling answered true.
TookPosition(p) == Sellable(p)

BeginSelling(t) ==
  /\ task[t].pc = "cleared"
  /\ pos' = MarkSelling(pos)
  /\ IF TookPosition(pos) THEN Goto(t, "reading") ELSE Finish(t)
  /\ UNCHANGED <<held, chainVars, ataVars, confirmer, fallback>>

\* The cached balance, or else the balance by RPC.
ReadableBalances == IF ataCache = NotCached THEN RpcBalances ELSE {ataCache}

ReadBalance(t) ==
  /\ task[t].pc = "reading"
  /\ \E b \in ReadableBalances :
       task' = [task EXCEPT ![t].pc = IF b = 0 THEN "zero" ELSE "trying",
                            ![t].amount = b,
                            ![t].try = IF b = 0 THEN 0 ELSE 1]
  /\ UNCHANGED <<pos, held, chainVars, ataVars, confirmer, fallback>>

FailZero(t) ==
  /\ task[t].pc = "zero"
  /\ pos' = MarkFailed(pos)
  /\ Finish(t)
  /\ UNCHANGED <<held, chainVars, ataVars, confirmer, fallback>>

\* Seeded fault: the retry loop runs once too often.
OneTryMore(t) ==
  IF task[t].try <= MaxRetries
  THEN [task[t] EXCEPT !.pc = "trying", !.try = @ + 1, !.tx = "none"]
  ELSE [task[t] EXCEPT !.pc = "exhausted", !.tx = "none"]

\* Seeded fault: the tries are not counted.
SameTry(t) == [task[t] EXCEPT !.pc = "trying", !.tx = "none"]

\* The retry loop's next try, or its end.
NextTry(t) ==
  IF task[t].try < MaxRetries
  THEN [task[t] EXCEPT !.pc = "trying", !.try = @ + 1, !.tx = "none"]
  ELSE [task[t] EXCEPT !.pc = "exhausted", !.tx = "none"]

\* A sale that is given up may have been delivered, and may land later.
Abandoned(a) ==
  \/ UNCHANGED late
  \/ late[a] < MaxLate /\ late' = [late EXCEPT ![a] = @ + 1]

\* One try: a pump.fun sale, or one through Jupiter when it cannot be built.
\* Neither may be built, and the request that sends it may time out.
TrySell(t) ==
  /\ task[t].pc = "trying"
  /\ \/ /\ task' = [task EXCEPT ![t].pc = "waiting", ![t].tx = "pending"]
        /\ UNCHANGED late
     \/ /\ task' = [task EXCEPT ![t] = NextTry(t)]
        /\ Abandoned(task[t].amount)
  /\ UNCHANGED <<pos, held, buyTx, balance, ataVars, confirmer, fallback>>

\* wait_sell_confirm: the status of the transaction is known and no error.
SaleConfirmed(tx) == tx = "landed"

SellConfirmed(t) ==
  /\ task[t].pc = "waiting"
  /\ SaleConfirmed(task[t].tx)
  /\ Goto(t, "sold")
  /\ UNCHANGED <<pos, held, chainVars, ataVars, confirmer, fallback>>

\* An error, or ten seconds without a status.  The transaction may have
\* landed unseen, and a pending one may land afterwards.
SellUnconfirmed(t) ==
  /\ task[t].pc = "waiting"
  /\ task' = [task EXCEPT ![t] = NextTry(t)]
  /\ IF task[t].tx = "pending" THEN Abandoned(task[t].amount)
     ELSE UNCHANGED late
  /\ UNCHANGED <<pos, held, buyTx, balance, ataVars, confirmer, fallback>>

\* mark_closed, ata_cache.remove, untrack_mint.  An account update may slip
\* in between the last two.
CloseSold(t) ==
  /\ task[t].pc = "sold"
  /\ pos' = MarkClosed(pos)
  /\ \/ ataCache' = NotCached
     \/ tracked /\ ataCache' = balance
  /\ tracked' = FALSE
  /\ Finish(t)
  /\ UNCHANGED <<held, chainVars, ataEvents, confirmer, fallback>>

ReadRemaining(t) ==
  /\ task[t].pc = "exhausted"
  /\ \E b \in RpcBalances :
       Goto(t, IF HasTokens(b) THEN "remains" ELSE "empty")
  /\ UNCHANGED <<pos, held, chainVars, ataVars, confirmer, fallback>>

\* Seeded fault: the position is left as it is for the next signal.
KeepSelling(p) == p

AfterFailedSale(p) == RevertToActive(p)

Revert(t) ==
  /\ task[t].pc = "remains"
  /\ pos' = AfterFailedSale(pos)
  /\ Finish(t)
  /\ UNCHANGED <<held, chainVars, ataVars, confirmer, fallback>>

FailEmpty(t) ==
  /\ task[t].pc = "empty"
  /\ pos' = MarkFailed(pos)
  /\ tracked' = FALSE
  /\ Finish(t)
  /\ UNCHANGED <<held, chainVars, ataCache, ataEvents, confirmer, fallback>>

SellStep(t) ==
  \/ CheckAttempts(t)
  \/ GiveUp(t)
  \/ BeginSelling(t)
  \/ ReadBalance(t)
  \/ FailZero(t)
  \/ TrySell(t)
  \/ SellConfirmed(t)
  \/ SellUnconfirmed(t)
  \/ CloseSold(t)
  \/ ReadRemaining(t)
  \/ Revert(t)
  \/ FailEmpty(t)

-----------------------------------------------------------------------------

Buying == TrackMint \/ FireBuy \/ OpenPosition

Chain ==
  \/ BuyLands
  \/ BuyFails
  \/ \E t \in SellTasks : SellSettles(t)
  \/ \E a \in 1 .. Bought : LateSellLands(a)
  \/ Tick

Monitoring ==
  \/ AtaUpdate
  \/ \E a \in 0 .. Bought : AtaEvent(a)
  \/ FallbackCheck
  \/ FallbackRead
  \/ FallbackApply
  \/ FallbackPurge

Signalling ==
  \E t \in SellTasks :
    \/ GrpcSignal(t)
    \/ FallbackPriceSignal(t)
    \/ FallbackLifetimeSignal(t)
    \/ ManualSignal(t)
    \/ FollowSignal(t)

Next ==
  \/ Buying
  \/ Chain
  \/ Monitoring
  \/ ConfirmerStep
  \/ Signalling
  \/ \E t \in SellTasks : SellStep(t)

Spec == Init /\ [][Next]_vars

\* Every spawned task is scheduled and its RPC calls return; the fallback
\* monitor keeps looping.  Nothing is assumed of the chain, of the account
\* stream, of prices, of wallets or of the operator.
Fairness ==
  /\ WF_vars(Tick)
  /\ WF_vars(OpenPosition)
  /\ WF_vars(ConfirmerStep)
  /\ WF_vars(FallbackCheck)
  /\ WF_vars(FallbackRead)
  /\ WF_vars(FallbackApply)
  /\ WF_vars(FallbackPurge)
  /\ WF_vars(\E t \in SellTasks : FallbackLifetimeSignal(t))
  /\ \A t \in SellTasks : WF_vars(SellStep(t))

FairSpec == Spec /\ Fairness

-----------------------------------------------------------------------------

\* The points of handle_sell_signal after mark_selling.
OwnerPoints == {"reading", "zero", "trying", "waiting", "sold", "exhausted",
                "remains", "empty"}

\* The sell tasks that took the position and have not let go of it.
Owners == {t \in SellTasks : task[t].pc \in OwnerPoints}

(* Whatever mixture of signals arrives, one task at most is selling the    *)
(* position, a position in Selling has such a task, and while it sells no  *)
(* other task closes the position or makes it sellable again: the test and *)
(* set of mark_selling is the only lock there is.                          *)
SellExclusive ==
  /\ \A t, u \in Owners : t = u
  /\ pos.state = "Selling" => Owners # {}
  /\ Owners # {} => pos.state \in {"Selling", "Failed", "Absent"}

(* A position is Closed only when the wallet really has no token left,     *)
(* although the amount sold comes from a cache that may be stale and the   *)
(* sale that is confirmed may not be the only one in flight.               *)
ClosedMeansSold == pos.state = "Closed" => buyTx = "landed" /\ balance = 0

(* The confirmer, the account stream and the fallback monitor race to      *)
(* confirm the buy, and a failed sale takes the position back: on none of  *)
(* these paths is a position Active whose buy did not land.                *)
ActiveMeansBought == pos.state = "Active" => buyTx = "landed"

(* The limit of sales is read before the position is taken, so signals     *)
(* handled at the same time can overrun it, by one less than their number. *)
AttemptsBounded ==
  pos.attempts <= MaxAttempts - 1 + Cardinality(SellTasks)

Phase ==
  IF Exists(pos) THEN pos.state
  ELSE IF confirmer = "none" THEN "Unopened" ELSE "Dropped"

Tokens ==
  IF buyTx # "landed" THEN "none" ELSE IF balance > 0 THEN "held" ELSE "sold"

Contract == INSTANCE PositionContract WITH
  Sellers <- SellTasks, phase <- Phase, owners <- Owners, tokens <- Tokens

(* The tasks together keep the promise a single careful owner of the       *)
(* position would give: see PositionContract.                              *)
KeepsContract == Contract!Spec

\* The steps a sell task has yet to take, at most.
StepsLeft(t) ==
  LET pc == task[t].pc
      tries == MaxRetries - task[t].try
  IN  CASE pc = "received" -> 2 * MaxRetries + 5
        [] pc = "cleared" -> 2 * MaxRetries + 4
        [] pc = "reading" -> 2 * MaxRetries + 3
        [] pc = "trying" -> 2 * tries + 4
        [] pc = "waiting" -> 2 * tries + 3
        [] pc = "exhausted" -> 2
        [] pc \in {"givingUp", "zero", "sold", "remains", "empty"} -> 1
        [] OTHER -> 0

(* The handling of a signal runs down, whatever the chain answers: no path *)
(* of the retry loop starts again, and nothing that happens around the     *)
(* task sends it back.  So a task that takes the position lets go of it    *)
(* after a number of its steps that the number of tries bounds.            *)
SalesRunDown ==
  [][\A t \in SellTasks :
       /\ SellStep(t) => StepsLeft(t)' < StepsLeft(t)
       /\ task[t].pc # "idle" => StepsLeft(t)' <= StepsLeft(t)]_vars

(* No position is left in Selling, which nothing but its task gets it out  *)
(* of: neither monitor looks at a position in that state.                  *)
SellingEnds == pos.state = "Selling" ~> pos.state # "Selling"

(* With a maximal holding time, every position that was opened is closed,  *)
(* failed or dropped in the end, whatever prices and wallets do.           *)
PositionEnds ==
  pos.state \in {"Confirming", "Active"}
    ~> pos.state \in {"Closed", "Failed", "Absent"}

(* manager.rs 254: the fallback deletes a position that is CONFIRMING and  *)
(* has no tokens.  The state is not looked at again after the RPC call, so *)
(* a position confirmed meanwhile is failed all the same.                  *)
FallbackFailsOnlyUnconfirmed ==
  [][fallback = "zero" /\ fallback' = "idle" /\ pos'.state = "Failed"
       => Unconfirmed(pos) \/ pos.state = "Failed"]_vars
=============================================================================
