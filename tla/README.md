# A TLA+ model of the copy-trading bot

This directory holds TLA+ modules for the Rust program in
`solana-copy-trader/`: what its tasks do to the state they share, TLC
configurations that check small instances, and proofs that TLAPS checks for
every value of the constants. File names below are relative to
`solana-copy-trader/src/`; line numbers refer to the same files.
`PROJECT.json` names, for every definition, the lines it stands for.

## 1. The system

The bot follows a list of wallets. It sees their transactions on a gRPC stream,
buys a pump.fun token when one wallet buys it (instant mode) or when enough
wallets agree within a window (consensus mode), and then sells the token by
rules of its own. One process, many tokio tasks, no database: the shared state
is a handful of concurrent maps, atomics and unbounded channels.

### Components

| component | state | operations | what makes it correct |
|---|---|---|---|
| Consensus engine, `consensus/engine.rs` | per token: signals (wallet, time), triggered flag; the channel of triggers | `submit_signal`, `revoke_signal`, cleanup every 10 s | no consensus missed, none false, no token triggers twice in a window, the table does not grow for ever |
| Main loop, `main.rs` | signatures seen (10 s), mints bought (for ever), mode, running flag | one trade at a time: filters, deduplication, follow-sell, submit or buy; consumer of triggers; `execute_buy` | a token bought once; stop and block obeyed; a trigger answered |
| Trade detection, `grpc/subscriber.rs` | the stream | decode outer, CPI and inner instructions | the right wallet, token, direction and account list |
| Prefetch cache, `processor/prefetch.rs` | account list and addresses per token, dropped after 300 s | `prefetch_token`, `remove`, `cleanup` | what a buy and a sale are built from fits the token and is watched |
| Pump.fun processor, `processor/pumpfun.rs` | none | quotes, cost bounds, mirrored buy and sale | an order is affordable on the curve it was computed for and names our accounts |
| Account subscriber, `grpc/account_subscriber.rs` | tracked accounts, filter of the stream, two caches | track, untrack, subscribe, renew the filter, apply updates | additions are subscribed; the stream brings no dropped token back |
| Position, `autosell/position.rs` | state, times, balance, attempts, prices | the `mark_*` transitions, `update_price` | only legal transitions; prices that agree with each other |
| Auto-sell manager, `autosell/manager.rs` | the map of positions | gRPC monitor, fallback monitor, exit rules | a false confirmation never happens; every position ends; a lasting loss is acted on |
| Buy confirmer, `tx/confirm.rs` | one task per buy | signature status, cache and RPC balance, correction of the entry price | as above; the price paid is final |
| Sell executor, `tx/sell_executor.rs` | one task per sell signal | attempts, `mark_selling`, retries, confirmation, closing or reverting; partial sales | one seller at a time; Closed means sold; bounded attempts |
| Operator, `telegram.rs` | offset, running flag, sell mode, block list, wallet list | polling loop, notices, commands, buttons | no command lost, none obeyed twice in a run, the last word counts; running sales are not disturbed |
| Persistence, `autosell/persistence.rs` | `positions.json` | save (load has no caller) | nothing reads the file |
| Transactions, `tx/*`, processors, `utils/*`, `config.rs` | blockhash, RPC and HTTP clients, prices | build, sign, send | a transaction may or may not land |

### Interactions

    gRPC trades --> main loop --submit/revoke--> consensus engine
                      |  ^                             | triggers
                      |  | /start /stop /block         v
                      |  operator            consensus consumer
                      |  instant mode                  |
                      +---------> execute_buy <--------+
                                    | track   | position + confirmer task
                                    v         v
    gRPC accounts --> account subscriber   positions map <-- fallback monitor
                        | caches, events      ^  ^
                        +----> gRPC monitor --+  | mark_selling, mark_closed ...
                                    | signals    |
                                    +--> one sell task per signal
                                    ^
                 operator, follow-sell, fallback monitor

### What is hard

* Several tasks confirm, sell and fail the same position. The positions map
  locks one entry for one call; a task that awaits an RPC answer between two
  calls acts on what it read before.
* Transactions land late, never, or after the sender gave them up and sent
  another one.
* The trade stream loses, repeats and reorders; trades arrive while the bot is
  stopped.
* Two caches are filled by a stream whose filter follows the tracked accounts
  with a delay.
* Timers race with answers: 5 s, 10 s, 60 s, 120 s for a position; 60 s and
  10 s for a consensus.
* A price is an estimate, then the spot price, then what was really paid, and
  three tasks write it.
* An order is built from the account list of somebody else's transaction,
  found by position.
* Every notice cancels the console's request for commands; a restart forgets
  which commands were obeyed.

`PROJECT.json` lists the hazards one by one, each at its line, with the property
that would catch it or the reason why none does yet.

## 2. The modules

| module | models | kind |
|---|---|---|
| `Consensus` | `engine.rs` with signals, ages, cleanup and the channel | detailed |
| `ConsensusContract` | what the engine promises: sets of wallets that count, triggers | abstract |
| `TradePipeline` | main loop, consumer, operator's switches, prefetch, `execute_buy`; EXTENDS `ConsensusContract` | composition |
| `Position` | `position.rs`: the record and its transitions, as operators | operators |
| `AutoSell` | the life of one position: chain, confirmer, both monitors, caches, sell tasks; EXTENDS `Position` | composition |
| `PositionContract` | what the auto-sell promises about a position | abstract |
| `OperatorSell` | `handle_partial_sell` (sell buttons) beside all of `AutoSell` | composition |
| `SharedPositionContract` | what is left of that promise beside the buttons; EXTENDS `PositionContract` | abstract |
| `AccountSubscriber` | `account_subscriber.rs`: tracked accounts, filter, caches | detailed |
| `BondingCurve` | quotes, cost bounds, profit and loss, as operators on integers | operators |
| `Pricing` | one token's price: curve, caches, order, channels, position, exit rules; EXTENDS `BondingCurve`, `Position` | composition |
| `TradeDetection` | `parse_transaction`, `extract_token_info`, as operators on account lists | operators |
| `MirrorOrder` | prefetch cache, mirrored buys, sales and their clean-up; EXTENDS `TradeDetection` | composition |
| `OperatorConsole` | the polling loop of `telegram.rs` and what its commands set | detailed |
| `CommandLog` | the log of commands the operator may rely on | abstract |
| `*Proofs` | theorems and proofs about the module of the same name | proofs |
| `MC*` | instances for TLC | checking |

### Consensus

`signals[m]`, `status[m]` are an entry of the table. `SubmitSignal` is the whole
of `submit_signal`, split by its returns: already triggered, wallet already
counted, below the quorum, quorum reached. It expires before it deduplicates,
as the code does. `RevokeSignal` and `Cleanup` are the other two operations;
`ReceiveTrigger` is the receiving end of the channel. Instants are ages that
saturate above `2 * Timeout`, beyond which the code compares nothing;
`sinceCleanup` lets the cleanup oversleep but never wake early. `lastBuy` and
`sinceTrigger` are histories for the properties.

`ConsensusContract` forgets ages: wallets may stop counting at any time, a token
triggers exactly when a submission fills the quorum and is then deaf until it is
forgotten. `Consensus` implements it with `counted` = the wallets of the signals
of entries that have not triggered.

### TradePipeline

One trade is one action, `HandleTrade`: the main loop awaits nothing while it
handles a trade, and reads or writes each shared table once. Its disjuncts
follow the loop's early exits in order: stopped, duplicate signature, sale, small
buy or no mint, blocked, already bought (instant mode only), buy at once, submit
to consensus. `ConsumeTrigger` is the other task. Its check-and-insert on
`mint_dedup` is two calls on the map, but in each mode only one task runs it, so
one step is exact. `Operator`, `ForgetSignatures`, `EvictPrefetched`,
`CurveArrives` and `ExpireSignals` are the tasks beside.

* `instant` is fixed by `Init`, in either value: the mode is read from the
  configuration once.
* Time is left out; what the code forgets after 10 s or 300 s may be forgotten
  at any moment. That allows more behaviours than the code has.
* The amount of a buy is left out: the threshold can be changed at any time, so
  whether a buy is too small is a free choice, made together with "no mint found".
* Building and sending a buy may fail for reasons outside (an RPC, a price over
  a limit); the two conditions inside the model are the prefetched token and a
  price (`CanBuild`).
* Tracking is left out. Prefetch, track and the request for the curve are separate
  calls, and a sale may clean up between them: that is `MirrorOrder`'s subject, and
  who restores a dropped curve is `AccountSubscriber`'s. Here a curve comes at any
  time once a buy of its token was admitted (`CurveArrives`: the stream, a prefetch
  task, the fallback monitor), before or after it was dropped, and goes at any time
  once the token was bought (`CurveDropped`).
* `lastTrade` records, per token and wallet, the last trade that the running loop
  took; `soldUnseen` the sales it dropped since, being stopped. They are histories
  for `TriggersAreBacked` and `SalesWithdraw`.
* A sale whose token cannot be extracted is taken to have none; every sale in
  the model has one.

### AutoSell and Position

The program counter of a sell task (`task[t].pc`) names the points where
`handle_sell_signal` lets another task run: `cleared` (attempts checked),
`reading`, `trying`, `waiting`, `sold`, `exhausted`, `remains`, `empty` and
`givingUp`. Between two of them the task holds a lock or computes. `confirmer`
and `fallback` are the same for the other two tasks. A monitor's price rule
either holds or not, freely; the maximal holding time is modelled, since it is
the one rule that needs no price.

* The position's token is not a parameter: positions of two tokens share no
  state, and the monitors' loops visit them one after the other.
* Balances are small numbers. An RPC query answers the balance or, when it
  fails, 0, which is what the code makes of an error. The wallet holds none of
  the token before the buy.
* Transactions: `buyTx` lands, fails or expires with its blockhash. A sale that
  its task abandons may land later; `late` counts such sales, at most `MaxLate`
  of each amount.
* Events on their way to the gRPC monitor are a set: the monitor cannot tell a
  repeated amount, and taking them in any order allows more than a queue does.
* A sold position's cache entry is removed before the accounts are untracked, so
  an update may put a balance back in between (`CloseSold`).
* Only `Confirming` is ever visible in the map: `execute_buy` inserts the
  position after two transitions.

`PositionContract` is what a single careful owner would promise: opened once,
Active only for tokens bought, one seller at a time, Closed only when nothing is
left, never back from its end. The refinement maps the pc of the sell tasks to
the set of owners and buy and balance to what happened to the tokens.

### OperatorSell

The sell buttons start `handle_partial_sell` at once, without `mark_selling`. It
shares the chain, the caches and the position with the automatic sales; the
module adds its tasks (`partial`) to `Next` of `AutoSell` unchanged.

A button may close the position under the task that sells it, so `PositionContract`
does not hold any more. `SharedPositionContract` is what does: the same promise,
with two steps added. A button may close a position that has not ended when its
tokens are gone (`CloseByButton`), which is what `sell_executor.rs:501` says of a
full sale, and the seller, who is not told, may report it failed when it finds
nothing to sell (`FailClosed`). The contract allows the close in every state and
demands it in none: that the code closes in Selling only is the subject of
`FullSaleCloses`, which is violated.

### AccountSubscriber

`tracked` is `subscribed_accounts`; `read` the accounts read for a request under
way, `asked` the filter of the stream; `lastCount` the number the code compares.
The first request reads the accounts again after the wait, so `LeaveWaiting` and
`ReadAccounts` are two steps and the first filter may be empty. A request takes
two steps as well, since accounts come and go while it is sent: `Resubscribe` reads
them, and `SendRequest` or `SendFails` notes their number, in either case, as the
code does. After `SendFails` the filter is the old one (history `lost`).

The other tasks' calls are single steps where the code can be interleaved:
`TrackCurve` and `TrackAta`; `UntrackCurve` and `UntrackRest`, the two halves of
`untrack_mint`, of which several may run for one token (bound `MaxDrops`). An
update holds the guards of its entries until the cache is written, and a removal
waits for them (`BeginUpdate`, `StoreUpdate`, `held`). `StoreAnswer` is every other
writer of the curve cache, the two prefetch tasks (`main.rs:529`, `main.rs:565`)
and the fallback monitor (`manager.rs:368`): it looks at no subscription, and may
restore a dropped curve at any time.

### Pricing and BondingCurve

`AutoSell` lets a price rule hold or not, freely; `Pricing` has the rules and
leaves the sale out: a sale only begins (`TakeSignal`) and ends (`SaleEnds`).

* A price is a quotient `<<sol, tokens>>`; comparisons multiply crosswise. The
  code computes with 64-bit floats, whose rounding is left out: it matters in
  the last digit of a percentage.
* Amounts are unbounded. `sol_to_token_quote` computes in 128 bits and its
  result is below a 64-bit reserve; `max_sol_cost` adds amounts in 64 bits,
  which real balances do not exhaust.
* `curve` is the account on chain, `bcCache` the cache, `fetched` an RPC answer
  not stored yet. `CurveUpdate` and `PrefetchStores` write the cache in the order
  of arrival, as the code does.
* `Place` has both amounts of a buy: what the instruction spends (`order.sol`)
  and what the position is recorded with (`order.size`).
* `PrefetchReads` and `PrefetchStores` are the request for a curve that is not
  cached, in both modes and after our own buy, too; one is under way at a time
  (a named bound).
* `ChannelAnswers` is `fire_and_forget`: the same transaction over every
  channel, and nobody waits. `BuyLands` is the pump.fun program: the curve's cost
  rounded up and the fee on top of it (`TotalCost`), against `max_sol_cost`. Only
  the curve's cost enters the curve.
* `Spent` is what `get_actual_sol_spent` computes: what left the wallet less the
  transaction's fee and the rent. The Jito tip stays in, as the code has it; the
  function's comment deducts it (see "Known behaviour").
* `Activated` writes the price by spot or by order, `CorrectEntry` is the
  confirmer's late correction; `AtaEvent` and `FallbackConfirms` confirm at any
  time, repeatedly.
* `CurveEvent` and `FallbackStep` are the two monitors: `update_price`, then the
  rules in the code's order. `age` has three values, since two limits are
  compared.

### MirrorOrder and TradeDetection

An address is a term: `<<"ata", owner, mint, program>>` is equal to another
exactly if it is derived from the same. The three passes of `parse_transaction`
become operators that take the first trade an instruction, the account list or
an inner instruction shows. The account lists of a pump.fun buy and sale are
external and are written out: the code relies on their positions. A token with
cashback (`Cashback`) has one account more in a sale (`RemainingAccounts`).

`HandleBuy` is the loop up to `prefetch_token`, `TrackAndBuy` from
`track_bonding_curve` on; a sale's clean-up is two steps as well (`untrack_mint`,
then `remove`), and in between anything may happen. Any admitted buy may complete
a consensus: how wallets agree is `TradePipeline`'s subject. `ExecuteBuy` needs an
entry and leaves open whether a price is found, which is `Pricing`'s. Eviction comes
at any moment. A buy on chain needs exactly the accounts pump.fun asks for; a
transaction shown need not have succeeded, so the lists the cache holds may be any.

A landed buy is `confirming` until the confirmer or the stream says so
(`Confirmed`) or the fallback monitor looks at the balance: of the account a legacy
token would have (`FallbackLooks`), or in vain (`FallbackLookFails`). Without tokens
it fails the position.

### OperatorConsole

An update is a number; a request, its answer and its loss are `Ask`, `Answer`,
`PollFails`. The receipt is in the request: the server forgets what is below the
offset asked for. `TakeNotice` is the other branch of `select!`, which drops the
request with whatever was answered to it. `Restart` starts the task anew with
nothing but the server's state. `HandleUpdate` sets the offset before it obeys,
as the code does, and may end the task for good when it lists positions: the cut
of a name at a byte offset panics within a character.

`CommandLog` is what the operator may rely on: a log of commands, read one by one
in the order of sending, from which a restart goes back to a command up to which
all were obeyed before. The refinement forgets requests, answers, batches and
notices; the next command of the log is the offset of the run or, before its first
update, the first one the server holds.

## 3. What is checked

### Runs that pass

**consensus** (38 625 states): one token, three wallets, quorum 3, window 2,
cleanup every tick or later. `PendingBelowQuorum`, `QuorumIsFresh`,
`SuppressedOneTimeout`, `ForgottenAfterTwoTimeouts` (no cleanup leaves a triggered
entry that is older), `TriggeredIsForgotten` (liveness), and `KeepsContract`:
the engine implements `ConsensusContract`. One token is enough since tokens share
the channel only; three wallets let one expire, one sell and one trigger; a
window of two ticks tells fresh, old and just expired signals apart.

**trade_pipeline** (186 240 states): one token, two wallets, quorum 2, four
trades: three buys and a sale, each of which may be detected any number of times
in any order, in both modes. `BoughtOnce`, `NothingNewUnwanted`, `NoTriggerLost`,
`TriggersAreBacked`, `TriggerIsAnswered` (liveness). `MaxPending = 1`: trades
are detected in any order, so a longer queue adds no order of handling, only
delay between detection and handling, which no part of the state depends on.
`MaxQueued = 2` lets a token trigger again while a trigger of it is queued.

**mirror_order** (347 739 states): two wallets, a legacy token and a Token-2022
token with cashback, six transactions: both wallets buy, one pays for the other, one
buys through another program, one buys the second token, and one sends pump.fun an
instruction it does not know, whose list the code takes for a buy's. `BuyIsOurs`,
`SaleMatchesBuy`, `TokensAreFound`, `PrefetchedIsWatched`. Six lists are the ways
two entries of a token may differ; one sell task and one waiting trigger suffice,
since tokens share nothing but the loop. `TokensAreFound` names its exceptions, which
are faults of the code rather than of the property: for a sale an entry that stems
from no wallet's own buy, and a Token-2022 token whose entry was evicted; for the
fallback every Token-2022 token.

**account_subscriber** (3 207 states): the two accounts of one token, two
`untrack_mint` at a time. `GrowthIsSeen`, `OnlyRpcRestoresCurves`,
`AdditionIsSubscribed` (liveness). Two accounts let one come while the other leaves
or a request is on its way. Two tokens (668 814 states) show the same in more than
four minutes; the two invariants are proved for any number.

**autosell** (481 694 states): two sell tasks, two attempts, two retries, ages
up to 3, one late sale per amount. `SellExclusive`, `ActiveMeansBought`,
`AttemptsBounded`, `KeepsContract` (which says of one position that it is closed
only when its tokens are sold, too), `SalesRunDown` (every step of a sell task
brings it nearer to its end, and nothing else takes it farther); `SellingEnds`
and `PositionEnds` (liveness). Two tasks are the smallest number that can race;
the constants keep the order of the code's timeouts (fallback before confirmer,
confirmer before purge). One raw token suffices: every sale is of the whole
balance.

**operator_sell** (about 1.8 million states): one sell task, one button, two raw
tokens so that half can be sold. `NotResoldMeanwhile`, `ClosedMeansSold`,
`KeepsButtonContract`: tasks and button implement `SharedPositionContract`. Two
sell tasks exceed ten million states; two automatic sales are the subject of
`autosell`.

**pricing** (about 1.2 million states): a curve that others move twice among
three prices more than 10 % apart, or complete; a fee of 10 % and a slippage of
20 %, with which `SlippageCoversFee` holds; a tip of one lamport; two channels, two
sets of rules, orders from the cached curve, from a target's order and from one too
small to quote. `HighWater`, `FreshQuoteLands`, `CorrectionIsFinal`, `ExitsMatchCost`,
`LossIsSignalled` (liveness). Reserves of a few hundred make every rounding
visible; two moves let the price rise and fall, which a trailing stop needs;
one event and one signal waiting are enough, since a monitor looks at one price
at a time.

**operator_console** (475 044 states): three updates out of ten commands, one of
them a stranger's, one notice, one restart. `HandledOnceInOrder`,
`NothingForgottenUnhandled`, `LastWordCounts`, `KeepsContract` (`CommandLog`),
`CommandIsHandled` (liveness).
Three updates make a batch of two and a later one, which is what cancelling,
repeating and skipping can mix up.

`autosell` also checks the type invariant; those of the other modules with state
are proved for every value of the constants (`TypeCorrect` of each) and not run
again. A position's life ends and updates
and transactions are finite, so the runs of `AutoSell`, `OperatorSell`,
`Pricing`, `MirrorOrder` and `OperatorConsole` switch the deadlock check off; in
the others it is on. Each property has a mutant: a definition altered as a
plausible mistake in the code would alter it, under which TLC finds the property
violated. The altered forms stand beside the true ones, marked "Seeded fault",
and are used nowhere else.

### Runs that show a disagreement

Each states what a comment or a reply says and finds the code doing otherwise.

1. **autosell_fallback**: the fallback monitor awaits a balance and fails the
   position without looking at its state again; it may have become Active
   meanwhile (`manager.rs:305`).
2. **operator_full_sale**: a 100 % sale by button calls `mark_closed`, which
   applies in Selling only, on a position nobody put there: it stays Active and
   is signalled for sale again (`sell_executor.rs:501`).
3. **mirror_accounts**: "all accounts of the user are replaced" (`pumpfun.rs:328`)
   holds for the list of a buy instruction only. A trade found by its accounts
   has all accounts of the transaction for a list, and an unresolved lookup table
   moves the positions; the wallet's accounts stay in the order, which the chain
   refuses.
4. **pipeline_sale_stopped**: "whatever the mode, a wallet's sale withdraws its
   signal" (`main.rs:435`). A sale that arrives while the bot is stopped is dropped
   before that (`main.rs:420`), and after `/start` the wallet still counts towards a
   trigger.

### Known behaviour without a run

Read off the code while modelling, and present in the models:

* A triggered entry is removed about one timeout after its trigger, where
  `WORKFLOW.md:143` says two: the cleanup strips expired signals of triggered
  entries too (`engine.rs:187`).
* A second signal that arrives during the last sale allowed fails the position
  and untracks it while that sale may still succeed (`sell_executor.rs:157`).
* `/set buy` answers that the amount is changed, and the position is recorded with
  it, but the instruction goes on spending the amount of the configuration
  (`pumpfun.rs:848`). The profit of such a position is wrong until its entry price
  is corrected; from then on `ExitsMatchCost` holds.
* "token_cost = total_spent - fee - ATA_rent - jito_tip" (`confirm.rs:459`): the code
  deducts the fee and the rent only, so the corrected entry price contains the tip,
  and profit and loss are measured from what left the wallet. That is what
  `ExitsMatchCost` says; with a tip of a larger share than the stop's percentage a
  stop-loss may sell above what the comment calls the cost.
* "Tokens there: confirm, none: delete" (`manager.rs:253`): the fallback asks for the
  account of a legacy token whatever the token's program is (`manager.rs:293`), so it
  fails a Token-2022 position whose buy landed, and its tokens remain without a
  position (`FallbackLooks`). `TokensAreFound` claims legacy tokens only of it.
* "Every second new accounts are looked for" (`account_subscriber.rs:210`): if one
  account leaves and another comes within an interval, the count is unchanged and the
  new one stays unsubscribed (`account_subscriber.rs:276`). For a buy this means
  confirmation and prices by polling only.
* A request to renew the filter that cannot be sent counts as sent
  (`account_subscriber.rs:282`): the new accounts stay unsubscribed until their
  number changes again or the stream ends.
* The answer of a prefetch or of the fallback monitor puts the curve of a token
  that was sold and dropped back into the cache (`main.rs:530`, `manager.rs:368`),
  where nothing removes it. Since `mint_dedup` keeps the token from being bought
  again in the run, it only takes room.
* The slippage must cover the program's fee: with a smaller one a buy from a fresh
  curve is refused by the chain (`pumpfun.rs:850` does not add it).
* `/set consensus` and `/addwallet` change values that nothing reads before a
  restart, which forgets them.
* A wallet the configuration names twice stays in the list after
  `/rmwallet`, which takes the first of the two (`telegram.rs:628`).
* After an eviction a sale, too, looks for the balance of a Token-2022 token in the
  legacy account and reads zero (`sell_executor.rs:173`).

### Fairness

* `Consensus`: the clock and the cleanup task.
* `TradePipeline`: the consumer of triggers.
* `AutoSell`: the clock, the confirmer, the steps of the fallback monitor, its
  signal when the holding time is over, and every step of a sell task. The code
  runs each of them in a spawned task, and its RPC and HTTP clients time out.
* `AccountSubscriber`: the subscriber task up to its request, its answer to a request (sent or failed),
  the update it is handling, and `untrack_mint` under way. The timer strongly: an
  update that is being handled disables its tick again and again, and `select!`
  chooses among the branches that are ready at random, so the tick is taken in the
  end. Nothing is assumed of the network.
* `Pricing`: the fallback monitor's loop and the dispatcher of signals. The gRPC
  monitor is not assumed to run: a loss must be seen without its events.
* `OperatorConsole`: the task, weakly. Its network strongly: an answer that is
  possible again and again comes in the end, and the loop takes an answer that is
  there again and again. Weak fairness would say nothing, since every failure and
  every notice takes the request away; what is assumed is that they do not come
  within every round trip for ever.

Where it is weak, a step that stays possible is taken in the end, and no order
among tasks is assumed. Nothing is assumed of the chain, the streams, prices,
the followed wallets or the operator.

## 4. What is proved

All theorems are about `Spec`, for every value of the constants that satisfies
the module's assumption: finite sets of wallets, tasks and accounts, positive
quorum and bounds, timeouts within the horizon. They do not assume an order
among the timeouts. The bounds on channels (`MaxQueued`, `MaxPending`,
`MaxLate`, `MaxDrops`) are arbitrary. Two theorems suppose something more of the
constants, which the code does not enforce; each hypothesis is a definition or an
assumption of its module by name, evaluated by TLC on the constants of the runs,
where it holds:

* `EachWalletOnce` (`LastWordHolds`): the configuration names no wallet twice. It
  is read from an environment variable without removing duplicates
  (`config.rs:84`), and a duplicate makes the claim about the wallet list false:
  see "Known behaviour".
* `SlippageCoversFee` and `TokensAreCheap` (`FreshQuotesLand`): the slippage set
  covers the program's fee and a lamport of rounding, and a raw token costs less
  than a lamport on every curve one can buy from. The first is up to the operator's
  configuration. The second holds of pump.fun's curves by far (30 SOL against
  1.073e15 raw tokens to begin with); without it an order may ask for no token.

**ConsensusProofs.** `TypeCorrect`, `NoMissedConsensus`, `NoFalseConsensus`,
`SuppressedForAWindow`, `ForgottenInTime`, `ImplementsContract`. None of the properties is
inductive by itself. The inductive invariant is
`TypeOK /\ Collecting /\ Anchored`. `Collecting`: an entry that has not triggered
holds fewer than `MinWallets` signals, of different wallets, each at least as old
as its wallet's last unsold buy; the last part is needed since the trigger counts
signals while `QuorumIsFresh` speaks of buys. `Anchored`: a triggered entry keeps,
for one timeout, a signal no older than its trigger, which is why the cleanup
does not remove it. `ForgottenInTime` needs the opposite bound (`NoneYounger`): no
signal of a triggered entry is younger than its trigger, since the entry takes no
more, so two timeouts later all of them have expired. The refinement follows with
the invariant of the others.

**AutoSellProofs.** `TypeCorrect`; `SellingIsExclusive` with
`SellExclusive /\ Lifecycle` (no position without a buy); `ClosedIsSold` and
`ActiveIsBought` from `Evidence`: whoever believes in the buy, a cache, an event,
the confirmer, the fallback monitor or a sell task, does so only after it landed,
and a cached balance is out of date on one side only since the balance never
grows again; `AttemptsAreBounded` with `AttemptsInv`, which counts the tasks that
passed the limit and have not begun to sell; `SalesComeToAnEnd` with the measure
`StepsLeft`: of a signal at most five steps are left and two for each try, the
task's steps make it smaller and no other step makes it larger; so what
`SellingEnds` still needs is only that the task is scheduled, which is the part
left to TLC; `ImplementsContract`: every step maps to a step of `PositionContract`
or a stutter.

**TradePipelineProofs.** `TypeCorrect`; `TokensAreBoughtOnce` with
`SentIsRemembered`: a mint is in `mint_dedup` before it is sent;
`NoTriggerWithoutTrades` with `BackedInv`: the last trade the running loop took of
a wallet that counts is an admitted buy, and in instant mode nobody counts (of the
sales it does not take, see `SalesWithdraw`);
`StopAndBlockWork`, from the types alone; `TriggersAreNotLost` (`NoTriggerLost`):
each operation of the engine leaves what is queued, and the consumer remembers the
token before it takes the trigger off the queue. It is the part of
`TriggerIsAnswered` that does not depend on scheduling.

**AccountSubscriberProofs.** `TypeCorrect`; `CountsSeeGrowth` (`GrowthIsSeen`): as
long as nothing was removed since the filter's accounts were read, those read and
those asked for are tracked, and unless a request was lost `lastCount` is the size
of the filter, so equal sizes mean equal sets. `StreamRestoresNothing`
(`OnlyRpcRestoresCurves`): while an update holds a curve's entries the curve is
tracked, and whoever removes the entries has still to clear the cache.

**OperatorSellProofs.** Every step of `AutoSell` keeps its invariants beside the
buttons. `PartialTypeCorrect`; `NotResold` with `Shared`, what is left of
exclusiveness when a button may close a position under the task that sells it;
`ClosedIsSoldByButtonToo` with `AllEvidence`: a press, too, knows of the balance
only what was true after the buy landed, and the balance never grows again.
`ImplementsButtonContract` puts them together. While `SellExclusive` holds a step
of the tasks is a step of `PositionContract` (`ContractStep`, from
`AutoSellProofs`), which is one of `SharedPositionContract` (`ContractIsKept`). It
fails only for a closed position that still has a seller, where all the seller can
do is to let go (`ClosedUnderSeller`); and a press sells, or closes a position in
Selling whose tokens are gone (`PressKeepsContract`, from `AllEvidence`).

**PricingProofs.** `TypeCorrect`; `HighWaterHolds`, with the order of quotients
(`AboveStaysAbove`); `CorrectionIsFinalHolds` with `Settled`: a correction comes
after a confirmation, which no later confirmation repeats, and leaves the price
paid; `ExitsFollowCost` (`ExitsMatchCost`) from the same; `FreshQuotesLand` with
`Quoted`: an order keeps what was computed from its curve. Its arithmetic is a few
lemmas on integer division: a quote leaves the curve something
(`QuoteBelowReserve`), costs at most one lamport more than it was made for
(`CostOfQuote`), is of a token at least on a curve with cheap tokens
(`CheapQuote`), and the fee does not fall with the cost (`FeeMonotone`).

**MirrorOrderProofs.** `TypeCorrect`, `OrdersAreOurs` (`BuyIsOurs`),
`SalesMatchBuys` (`SaleMatchesBuy`), `EntriesAreWatched` (`PrefetchedIsWatched`),
`PositionsAreFound` (`TokensAreFound`), for any transactions whose payer is not a
program (`MirrorAssumption`). The inductive invariant is
`Cached /\ Ordered /\ Selling`: an entry is made from a trade shown, one per token;
an order is built from an entry; what was bought lies in the account of its own
token program (`LandedAccount`), since an order made with the wrong one has not the
accounts the chain asks for; what is sold was bought. `PositionsAreFound` follows:
an entry that stems from a wallet's own buy names the token's own program, whatever
other transactions were shown, and without an entry a sale of a legacy token falls
back on the right account, as the fallback monitor does.

**OperatorConsoleProofs.** `TypeCorrect`, `EachOnceInOrder`, `NothingIsLost`, with
`Polling`: an answer begins where this run stopped or, before its first update,
at the first one the server holds, and what is below the offset was handled.
`ImplementsCommandLog` follows from the same: the update handled is the upcoming
one (`HandlesUpcoming`), a request only moves the receipt to where the run is
(`UpcomingStays`), and what the server has forgotten was handled, so a restart
skips nothing (`RestartGoesBack`). `LastWordHolds` is inductive with two more
facts (`Words`): what this run has heard is below its offset, so that the update
handled next is the last word about what it sets (`LatestIsNew`), and the list
names no wallet twice, so that taking out its first place takes it off
(`WithoutPlace`). That a set of updates has a latest one is a use of the
well-foundedness of the order of numbers, not an induction over data.

### Only model-checked

The liveness properties (`TriggeredIsForgotten`, `TriggerIsAnswered`,
`SellingEnds`, `PositionEnds`, `AdditionIsSubscribed`, `LossIsSignalled`,
`CommandIsHandled`): fairness and ENABLED are beyond the prover. Of four of them
the part that is a safety property is proved: `ForgottenAfterTwoTimeouts`,
`NoTriggerLost`, `SalesRunDown` and, for additions, `GrowthIsSeen`. Every invariant
and every action property of the passing runs is a theorem.

## 5. Not modelled

* Code without a caller: `load_positions`, `remove_position`, the exit rules that
  ignore the operator's settings, `sell_standard`, `buy_with_mirror`,
  `sell_with_mirror`, `build_mirror_instructions`, `send_all_channels` and its
  relatives, the processors for Raydium and PumpSwap with their branches of
  `detect_buy_or_sell`.
* Encoding, signing and transport: instruction data, endpoints, the Jupiter
  client, the blockhash cache (its effect is that a buy expires).
* `positions.json`: written, never read.
* Texts: replies, notices, names and prices fetched for display, metrics.
* Parsing of the environment; its values are constants.
* Rounding of floats and 64-bit overflow of amounts, see `Pricing`.
* Threads: a map shard that stays locked across an RPC call (`manager.rs:329`)
  blocks worker threads, which is below the level of these models; so is a panic
  of the gRPC monitor's task (`manager.rs:205`).

## 6. Plan

1. A restart of the whole program: what is lost (`mint_dedup`, signals,
   positions) and what remains (tokens in the wallet, `positions.json`).
   `OperatorConsole` has the restart of the console.
2. `TradePipeline` fed by `ParseTransaction` in the place of arbitrary trades:
   failed transactions, sales attributed to another wallet.
3. A partial sale that timed out and is repeated; what share may be sold in all.
