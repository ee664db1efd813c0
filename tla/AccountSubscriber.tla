------------------------- MODULE AccountSubscriber -------------------------
(***************************************************************************)
(* The account subscriber (grpc/account_subscriber.rs): the main loop and  *)
(* the sell tasks add and remove accounts, one task keeps a gRPC stream    *)
(* whose filter lists them, and the stream's updates fill the caches.      *)
(*                                                                         *)
(* The task compares the number of tracked accounts with the number last   *)
(* requested, and nothing else, to decide whether to renew the filter; and *)
(* it notes the number whether or not the request could be sent.           *)
(*                                                                         *)
(* The cache of curves has other writers, who look at no subscription: the *)
(* prefetch tasks of main.rs and the fallback monitor of                   *)
(* autosell/manager.rs store what an RPC call brought.  What an update of  *)
(* a token account does is part of AutoSell.                               *)
(*                                                                         *)
(* An update holds the guards of its entries until the cache is written,   *)
(* and a removal waits for them.  The entries of an account in             *)
(* subscribed_accounts and in the map to its mint come and go in one step: *)
(* an update that finds one of them only does nothing.  untrack_mint takes *)
(* two steps, since the entries of the curve go before its cached value;   *)
(* those of the token account, in between, go with the second.             *)
(***************************************************************************)
EXTENDS Naturals, FiniteSets

CONSTANTS
  Mints,     \* token mints
  MaxDrops   \* bound: sell tasks that untrack one token at the same time

ASSUME AccountsAssumption == IsFiniteSet(Mints) /\ MaxDrops \in Nat

\* A token's bonding curve, and the wallet's account of the token.
Accounts == Mints \X {"curve", "ata"}

Curve(m) == <<m, "curve">>
Ata(m) == <<m, "ata">>

VARIABLES
  tracked,    \* subscribed_accounts
  phase,      \* of the subscriber task
  read,       \* the accounts it read for the request it is making
  asked,      \* the accounts of the stream's filter
  lastCount,  \* last_subscribed_count
  held,       \* the token whose curve's entries an update holds, if any
  dropping,   \* per token: the untrack_mint calls yet to clear the cache
  cached,     \* tokens with a value in bc_cache
  shrunk,     \* history: an account was removed since they were read
  lost,       \* history: no request got through since one that failed
  seen,       \* history: tokens tracked before
  byRpc       \* history: tokens whose cached value an RPC call brought

taskVars == <<phase, read, asked, lastCount, lost>>
cacheVars == <<held, dropping, cached, byRpc>>
vars == <<tracked, shrunk, seen, taskVars, cacheVars>>

TypeOK ==
  /\ tracked \subseteq Accounts
  /\ phase \in {"waiting", "reading", "connecting", "streaming", "renewing"}
  /\ read \subseteq Accounts
  /\ asked \subseteq Accounts
  /\ lastCount \in 0 .. Cardinality(Accounts)
  /\ held \subseteq Mints
  /\ dropping \in [Mints -> 0 .. MaxDrops]
  /\ cached \subseteq Mints
  /\ shrunk \in BOOLEAN
  /\ lost \in BOOLEAN
  /\ seen \subseteq Mints
  /\ byRpc \subseteq cached

Init ==
  /\ tracked = {}
  /\ phase = "waiting"
  /\ read = {}
  /\ asked = {}
  /\ lastCount = 0
  /\ held = {}
  /\ dropping = [m \in Mints |-> 0]
  /\ cached = {}
  /\ shrunk = FALSE
  /\ lost = FALSE
  /\ seen = {}
  /\ byRpc = {}

-----------------------------------------------------------------------------
(* track_bonding_curve, track_ata and untrack_mint.                        *)

TrackCurve(m) ==
  /\ tracked' = tracked \cup {Curve(m)}
  /\ seen' = seen \cup {m}
  /\ UNCHANGED <<shrunk, taskVars, cacheVars>>

\* The main loop has tracked the curve before.
TrackAta(m) ==
  /\ m \in seen
  /\ tracked' = tracked \cup {Ata(m)}
  /\ UNCHANGED <<shrunk, seen, taskVars, cacheVars>>

Remove(a) ==
  /\ tracked' = tracked \ {a}
  /\ shrunk' = (shrunk \/ a \in tracked)

UntrackCurve(m) ==
  /\ m \in seen \ held
  /\ dropping[m] < MaxDrops
  /\ Remove(Curve(m))
  /\ dropping' = [dropping EXCEPT ![m] = @ + 1]
  /\ UNCHANGED <<seen, taskVars, held, cached, byRpc>>

UntrackRest(m) ==
  /\ dropping[m] > 0
  /\ Remove(Ata(m))
  /\ dropping' = [dropping EXCEPT ![m] = @ - 1]
  /\ cached' = cached \ {m}
  /\ byRpc' = byRpc \ {m}
  /\ UNCHANGED <<seen, taskVars, held>>

-----------------------------------------------------------------------------
(* subscribe, called again two seconds after it returned.                  *)

\* get_subscribed_addresses, for a request.
ReadTracked ==
  /\ read' = tracked
  /\ shrunk' = FALSE

\* Seeded fault: the accounts are counted again once the request is sent.
CountAtSend == Cardinality(tracked)

CountRead == Cardinality(read)

\* The request made of what was read gets through.
Requested ==
  /\ asked' = read
  /\ lastCount' = CountRead
  /\ lost' = FALSE
  /\ read' = {}

\* There is something to subscribe to.
LeaveWaiting ==
  /\ phase = "waiting"
  /\ tracked # {}
  /\ phase' = "reading"
  /\ UNCHANGED <<tracked, shrunk, seen, read, asked, lastCount, lost,
                 cacheVars>>

\* The accounts are read a second time, for the first request.
ReadAccounts ==
  /\ phase = "reading"
  /\ ReadTracked
  /\ phase' = "connecting"
  /\ UNCHANGED <<tracked, seen, asked, lastCount, lost, cacheVars>>

Connect ==
  /\ phase = "connecting"
  /\ Requested
  /\ phase' = "streaming"
  /\ UNCHANGED <<tracked, shrunk, seen, cacheVars>>

\* Connecting failed, or the stream ended or returned an error.
StreamEnds ==
  /\ phase \in {"connecting", "streaming"}
  /\ held = {}
  /\ phase' = "waiting"
  /\ read' = {}
  /\ asked' = {}
  /\ lastCount' = 0
  /\ lost' = FALSE
  /\ UNCHANGED <<tracked, shrunk, seen, cacheVars>>

\* Seeded fault: only a smaller set is noticed.
FewerAccounts == Cardinality(tracked) < lastCount

CountChanged == Cardinality(tracked) # lastCount

\* The resubscription timer.
Resubscribe ==
  /\ phase = "streaming"
  /\ held = {}
  /\ CountChanged
  /\ ReadTracked
  /\ phase' = "renewing"
  /\ UNCHANGED <<tracked, seen, asked, lastCount, lost, cacheVars>>

SendRequest ==
  /\ phase = "renewing"
  /\ Requested
  /\ phase' = "streaming"
  /\ UNCHANGED <<tracked, shrunk, seen, cacheVars>>

\* The error is logged, and the accounts count as requested.
SendFails ==
  /\ phase = "renewing"
  /\ lastCount' = CountRead
  /\ lost' = TRUE
  /\ read' = {}
  /\ phase' = "streaming"
  /\ UNCHANGED <<tracked, shrunk, seen, asked, cacheVars>>

-----------------------------------------------------------------------------
(* handle_account_update, for a bonding curve.                             *)

\* Seeded fault: the update is not checked against the tracked accounts.
InFilter(m) == Curve(m) \in asked

Wanted(m) == Curve(m) \in tracked

\* The filter may still list a curve that is tracked no more.
BeginUpdate(m) ==
  /\ phase = "streaming"
  /\ held = {}
  /\ Curve(m) \in asked
  /\ Wanted(m)
  /\ held' = {m}
  /\ UNCHANGED <<tracked, shrunk, seen, taskVars, dropping, cached, byRpc>>

StoreUpdate(m) ==
  /\ m \in held
  /\ held' = {}
  /\ cached' = cached \cup {m}
  /\ byRpc' = byRpc \ {m}
  /\ UNCHANGED <<tracked, shrunk, seen, taskVars, dropping>>

\* A prefetch task or the fallback monitor has its answer.
StoreAnswer(m) ==
  /\ m \in seen
  /\ cached' = cached \cup {m}
  /\ byRpc' = byRpc \cup {m}
  /\ UNCHANGED <<tracked, shrunk, seen, taskVars, held, dropping>>

Next ==
  \/ \E m \in Mints :
       \/ TrackCurve(m) \/ TrackAta(m) \/ UntrackCurve(m) \/ UntrackRest(m)
       \/ BeginUpdate(m) \/ StoreUpdate(m) \/ StoreAnswer(m)
  \/ LeaveWaiting
  \/ ReadAccounts
  \/ Connect
  \/ StreamEnds
  \/ Resubscribe
  \/ SendRequest
  \/ SendFails

Spec == Init /\ [][Next]_vars

\* The task is scheduled, and its select! takes the timer's tick in the end,
\* however many updates come; untrack_mint goes on.  Nothing is assumed of the
\* network.
FairSpec ==
  /\ Spec
  /\ WF_vars(LeaveWaiting)
  /\ WF_vars(ReadAccounts)
  /\ SF_vars(Resubscribe)
  /\ WF_vars(SendRequest \/ SendFails)
  /\ WF_vars(\E m \in Mints : StoreUpdate(m))
  /\ \A m \in Mints : WF_vars(UntrackRest(m))

-----------------------------------------------------------------------------

(* As long as no account was removed since the filter was made and no      *)
(* request was lost, the number of accounts tells whether the filter is    *)
(* complete, although accounts come while a request is on its way:         *)
(* comparing the counts misses no addition.                                *)
GrowthIsSeen ==
  phase = "streaming" /\ ~shrunk /\ ~lost =>
    /\ asked \subseteq tracked
    /\ Cardinality(tracked) = lastCount => asked = tracked

(* The stream does not bring a dropped token back into the cache of        *)
(* bonding curves: an update under way when the token is untracked is      *)
(* either stored before the cache is cleared or ignored.  What is cached   *)
(* of a token that nobody tracks or is dropping, an RPC call brought.      *)
OnlyRpcRestoresCurves ==
  \A m \in cached : Curve(m) \in tracked \/ dropping[m] > 0 \/ m \in byRpc

(* Without removals and lost requests a new account is in the filter       *)
(* sooner or later, however many updates and additions come.  With them it *)
(* need not be, against account_subscriber.rs 210: an account that comes   *)
(* while another leaves changes no number, and a lost request is noted.    *)
AdditionIsSubscribed ==
  \A a \in Accounts :
    (phase = "streaming" /\ ~shrunk /\ ~lost /\ a \in tracked)
      ~> (\/ phase \notin {"streaming", "renewing"}
          \/ shrunk \/ lost \/ a \in asked)
=============================================================================
