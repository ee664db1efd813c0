----------------------------- MODULE Consensus -----------------------------
(***************************************************************************)
(* The consensus engine (consensus/engine.rs): per token it collects the   *)
(* buy signals of the followed wallets and emits one trigger when enough   *)
(* distinct wallets bought the token inside the signal window.             *)
(*                                                                         *)
(* Three tasks share the DashMap of entries: the main loop submits and     *)
(* revokes signals, the cleanup task forgets entries, the consensus        *)
(* consumer takes triggers from an unbounded channel.  Each DashMap entry  *)
(* is locked for the whole of an operation, so an operation is one action. *)
(*                                                                         *)
(* Time is kept as ages.  The code compares an age with the timeout and    *)
(* with twice the timeout only, so ages saturate one past the latter.      *)
(***************************************************************************)
EXTENDS Naturals, FiniteSets, Sequences

CONSTANTS
  Mints,          \* token mints
  Wallets,        \* followed wallets
  MinWallets,     \* consensus_min_wallets
  Timeout,        \* consensus_timeout_secs, in ticks
  CleanupPeriod,  \* the cleanup task's sleep, in ticks
  MaxQueued       \* bound on undelivered triggers (the channel has none)

ASSUME ConsensusAssumption ==
  /\ IsFiniteSet(Wallets)
  /\ MinWallets \in Nat \ {0}
  /\ Timeout \in Nat \ {0}
  /\ CleanupPeriod \in Nat \ {0}
  /\ MaxQueued \in Nat \ {0}

VARIABLES
  status,        \* per mint: no entry, an open entry, or a triggered one
  signals,       \* per mint: the entry's signals, as wallets with an age
  triggers,      \* the channel to the consensus consumer
  sinceCleanup,  \* ticks the cleanup task has slept
  lastBuy,       \* history: age of a wallet's last buy not yet sold
  sinceTrigger   \* history: age of the last trigger of a mint

vars == <<status, signals, triggers, sinceCleanup, lastBuy, sinceTrigger>>

-----------------------------------------------------------------------------

Oldest == 2 * Timeout + 1
Age == 0 .. Oldest

Older(a) == IF a < Oldest THEN a + 1 ELSE a

Signal == [wallet : Wallets, age : Age]
Trigger == [mint : Mints, wallets : SUBSET Wallets]

WalletsOf(S) == {s.wallet : s \in S}

\* Signals still inside the window.
Fresh(S) == {s \in S : s.age < Timeout}

TypeOK ==
  /\ status \in [Mints -> {"absent", "open", "triggered"}]
  /\ signals \in [Mints -> SUBSET Signal]
  /\ triggers \in Seq(Trigger)
  /\ sinceCleanup \in 0 .. CleanupPeriod
  /\ lastBuy \in [Mints -> [Wallets -> Age]]
  /\ sinceTrigger \in [Mints -> Age]

Init ==
  /\ status = [m \in Mints |-> "absent"]
  /\ signals = [m \in Mints |-> {}]
  /\ triggers = <<>>
  /\ sinceCleanup = 0
  /\ lastBuy = [m \in Mints |-> [w \in Wallets |-> Oldest]]
  /\ sinceTrigger = [m \in Mints |-> Oldest]

-----------------------------------------------------------------------------
(* submit_signal: drop expired signals, ignore a wallet already counted,   *)
(* add the signal, and trigger once the quorum is reached.                 *)

\* Seeded fault: no deduplication by wallet.
NeverCounted(m, w) == FALSE

AlreadyCounted(m, w) == w \in WalletsOf(Fresh(signals[m]))

Counted(m, w) == Fresh(signals[m]) \cup {[wallet |-> w, age |-> 0]}

SubmitAlreadyTriggered(m, w) ==
  /\ status[m] = "triggered"
  /\ UNCHANGED <<status, signals, triggers, sinceTrigger>>

SubmitAlreadyCounted(m, w) ==
  /\ status[m] # "triggered"
  /\ AlreadyCounted(m, w)
  /\ status' = [status EXCEPT ![m] = "open"]
  /\ signals' = [signals EXCEPT ![m] = Fresh(@)]
  /\ UNCHANGED <<triggers, sinceTrigger>>

SubmitBelowQuorum(m, w) ==
  /\ status[m] # "triggered"
  /\ ~AlreadyCounted(m, w)
  /\ Cardinality(Counted(m, w)) < MinWallets
  /\ status' = [status EXCEPT ![m] = "open"]
  /\ signals' = [signals EXCEPT ![m] = Counted(m, w)]
  /\ UNCHANGED <<triggers, sinceTrigger>>

SubmitQuorum(m, w) ==
  /\ status[m] # "triggered"
  /\ ~AlreadyCounted(m, w)
  /\ Cardinality(Counted(m, w)) >= MinWallets
  /\ Len(triggers) < MaxQueued
  /\ status' = [status EXCEPT ![m] = "triggered"]
  /\ signals' = [signals EXCEPT ![m] = Counted(m, w)]
  /\ triggers' = Append(triggers,
                        [mint |-> m, wallets |-> WalletsOf(Counted(m, w))])
  /\ sinceTrigger' = [sinceTrigger EXCEPT ![m] = 0]

SubmitSignal(m, w) ==
  /\ \/ SubmitAlreadyTriggered(m, w)
     \/ SubmitAlreadyCounted(m, w)
     \/ SubmitBelowQuorum(m, w)
     \/ SubmitQuorum(m, w)
  /\ lastBuy' = [lastBuy EXCEPT ![m][w] = 0]
  /\ UNCHANGED sinceCleanup

-----------------------------------------------------------------------------
(* revoke_signal: the wallet sold the token; its signals leave an entry    *)
(* that has not triggered.                                                 *)

\* Seeded fault: the wallet's signal survives its sale.
KeptDespiteSale(S, w) == S

WithoutWallet(S, w) == {s \in S : s.wallet # w}

RevokeSignal(m, w) ==
  /\ signals' = IF status[m] = "triggered" THEN signals
                ELSE [signals EXCEPT ![m] = WithoutWallet(@, w)]
  /\ lastBuy' = [lastBuy EXCEPT ![m][w] = Oldest]
  /\ UNCHANGED <<status, triggers, sinceCleanup, sinceTrigger>>

-----------------------------------------------------------------------------
(* The cleanup pass.  A triggered entry whose signals are all older than   *)
(* two timeouts is removed; every other entry, triggered or not, loses its *)
(* expired signals; an open entry left empty is removed.                   *)

\* Seeded fault: one expired signal is taken for all of them.
AnyExpired(S) == \E s \in S : s.age >= Timeout

AllExpired(S) == \A s \in S : s.age > 2 * Timeout

\* Seeded fault: triggered entries are never removed.
RemovedWhenOpen(m) == status[m] = "open" /\ Fresh(signals[m]) = {}

Removed(m) ==
  \/ status[m] = "triggered" /\ AllExpired(signals[m])
  \/ status[m] = "open" /\ Fresh(signals[m]) = {}

Cleanup ==
  /\ sinceCleanup = CleanupPeriod
  /\ status' = [m \in Mints |-> IF Removed(m) THEN "absent" ELSE status[m]]
  /\ signals' = [m \in Mints |->
                   IF Removed(m) THEN {} ELSE Fresh(signals[m])]
  /\ sinceCleanup' = 0
  /\ UNCHANGED <<triggers, lastBuy, sinceTrigger>>

\* consensus_rx.recv: the consumer takes the oldest trigger.
ReceiveTrigger ==
  /\ triggers # <<>>
  /\ triggers' = Tail(triggers)
  /\ UNCHANGED <<status, signals, sinceCleanup, lastBuy, sinceTrigger>>

\* Time passes.  The cleanup task may oversleep, it never wakes early.
Tick ==
  /\ signals' = [m \in Mints |->
                   {[s EXCEPT !.age = Older(@)] : s \in signals[m]}]
  /\ lastBuy' = [m \in Mints |-> [w \in Wallets |-> Older(lastBuy[m][w])]]
  /\ sinceTrigger' = [m \in Mints |-> Older(sinceTrigger[m])]
  /\ sinceCleanup' = IF sinceCleanup < CleanupPeriod
                     THEN sinceCleanup + 1 ELSE sinceCleanup
  /\ UNCHANGED <<status, triggers>>

Next ==
  \/ \E m \in Mints, w \in Wallets : SubmitSignal(m, w)
  \/ \E m \in Mints, w \in Wallets : RevokeSignal(m, w)
  \/ Cleanup
  \/ ReceiveTrigger
  \/ Tick

Spec == Init /\ [][Next]_vars

\* The clock and the cleanup task run; wallets owe the bot nothing.
FairSpec == Spec /\ WF_vars(Tick) /\ WF_vars(Cleanup)

-----------------------------------------------------------------------------

(* An entry that has not triggered counts every wallet once and has not    *)
(* reached the quorum: no consensus is ever reached and then missed.       *)
PendingBelowQuorum ==
  \A m \in Mints :
    status[m] # "triggered" =>
      /\ Cardinality(signals[m]) < MinWallets
      /\ \A s, t \in signals[m] : s.wallet = t.wallet => s = t

(* A trigger names at least MinWallets different wallets, each of which    *)
(* bought the token inside the window and has not been seen selling since: *)
(* expiry, deduplication and revocation together rule out a false          *)
(* consensus.                                                              *)
QuorumIsFresh ==
  [][Len(triggers') > Len(triggers) =>
       LET t == triggers'[Len(triggers')]
       IN  /\ Cardinality(t.wallets) >= MinWallets
           /\ \A w \in t.wallets : lastBuy'[t.mint][w] < Timeout]_vars

(* A triggered entry suppresses the token for a full window: the cleanup   *)
(* task does not remove it before one timeout has passed since it          *)
(* triggered.                                                              *)
SuppressedOneTimeout ==
  [][\A m \in Mints :
       status[m] = "triggered" /\ status'[m] = "absent"
         => sinceTrigger[m] >= Timeout]_vars

(* The table does not grow for ever: a cleanup later than two timeouts     *)
(* after the trigger finds every signal of the entry expired, whatever the *)
(* passes in between left of them, and removes it.                         *)
ForgottenAfterTwoTimeouts ==
  [][Cleanup =>
       \A m \in Mints :
         status[m] = "triggered" /\ sinceTrigger[m] > 2 * Timeout
           => status'[m] = "absent"]_vars

(* A triggered entry is removed in the end, although it refuses every new  *)
(* signal and only the cleanup task looks at it.                           *)
TriggeredIsForgotten ==
  \A m \in Mints : status[m] = "triggered" ~> status[m] = "absent"

\* The wallets that count and the tokens that are deaf.
CountedNow ==
  [m \in Mints |->
     IF status[m] = "triggered" THEN {} ELSE WalletsOf(signals[m])]

TriggeredNow == {m \in Mints : status[m] = "triggered"}

Contract ==
  INSTANCE ConsensusContract
    WITH counted <- CountedNow, triggered <- TriggeredNow

(* The engine keeps what ConsensusContract promises to the trade pipeline: *)
(* a token triggers exactly when a submission fills the quorum of wallets  *)
(* that count, and is deaf from then on until it is forgotten.             *)
KeepsContract == Contract!ContractSpec
=============================================================================
