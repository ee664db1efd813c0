------------------------- MODULE ConsensusContract -------------------------
(***************************************************************************)
(* What the consensus engine promises the rest of the bot, without ages,   *)
(* signals or periods: per token a set of wallets that count, and a        *)
(* trigger exactly when the set reaches the quorum.  A wallet may stop     *)
(* counting at any time (its signal expires), a token that triggered is    *)
(* deaf until it is forgotten.  Consensus implements this module and       *)
(* TradePipeline is built on it.                                           *)
(***************************************************************************)
EXTENDS Naturals, FiniteSets, Sequences

CONSTANTS
  Mints,       \* token mints
  Wallets,     \* followed wallets
  MinWallets,  \* consensus_min_wallets
  MaxQueued    \* bound on undelivered triggers (the channel has none)

ASSUME ContractAssumption ==
  /\ IsFiniteSet(Wallets)
  /\ MinWallets \in Nat \ {0}
  /\ MaxQueued \in Nat \ {0}

VARIABLES
  counted,    \* per mint: the wallets that count, none once it triggered
  triggered,  \* the mints that triggered and are not forgotten yet
  triggers    \* the channel to the consensus consumer

contractVars == <<counted, triggered, triggers>>

Trigger == [mint : Mints, wallets : SUBSET Wallets]

ContractInit ==
  /\ counted = [m \in Mints |-> {}]
  /\ triggered = {}
  /\ triggers = <<>>

\* The wallet counts, others may have expired: below the quorum.
Count(m, w) ==
  /\ m \notin triggered
  /\ \E kept \in SUBSET counted[m] :
       /\ Cardinality(kept \cup {w}) < MinWallets
       /\ counted' = [counted EXCEPT ![m] = kept \cup {w}]
  /\ UNCHANGED <<triggered, triggers>>

\* The wallet makes the quorum full.
Agree(m, w) ==
  /\ m \notin triggered
  /\ Len(triggers) < MaxQueued
  /\ \E kept \in SUBSET counted[m] :
       /\ Cardinality(kept \cup {w}) >= MinWallets
       /\ triggers' = Append(triggers, [mint |-> m, wallets |-> kept \cup {w}])
  /\ counted' = [counted EXCEPT ![m] = {}]
  /\ triggered' = triggered \cup {m}

\* A token that triggered is deaf.
Ignore(m) ==
  /\ m \in triggered
  /\ UNCHANGED contractVars

Submit(m, w) == Count(m, w) \/ Agree(m, w) \/ Ignore(m)

Revoke(m, w) ==
  /\ counted' = [counted EXCEPT ![m] = @ \ {w}]
  /\ UNCHANGED <<triggered, triggers>>

\* Signals expire and triggered tokens are forgotten, of any mints at once.
Expire ==
  /\ counted' \in [Mints -> SUBSET Wallets]
  /\ \A m \in Mints : counted'[m] \subseteq counted[m]
  /\ triggered' \in SUBSET triggered
  /\ UNCHANGED triggers

Deliver ==
  /\ triggers # <<>>
  /\ triggers' = Tail(triggers)
  /\ UNCHANGED <<counted, triggered>>

ContractNext ==
  \/ \E m \in Mints, w \in Wallets : Submit(m, w) \/ Revoke(m, w)
  \/ Expire
  \/ Deliver

ContractSpec == ContractInit /\ [][ContractNext]_contractVars
=============================================================================
