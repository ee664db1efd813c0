---------------------- MODULE AccountSubscriberProofs ----------------------
(***************************************************************************)
(* Proofs about AccountSubscriber, for any finite set of tokens and any    *)
(* number of sell tasks that drop them.                                    *)
(*                                                                         *)
(* GrowthIsSeen speaks of numbers only; it is inductive with the fact that *)
(* lastCount is the size of the filter, unless a request was lost, and     *)
(* that what was read for a request is tracked while nothing was removed   *)
(* (FilterGrows).  OnlyRpcRestoresCurves needs that a removal waits for    *)
(* the update that holds the curve (HeldIsTracked).                        *)
(***************************************************************************)
EXTENDS AccountSubscriber, FiniteSetTheorems, TLAPS

LEMMA AccountsFinite == IsFiniteSet(Accounts)
  <1>1. IsFiniteSet({} \cup {"curve"})
    BY FS_EmptySet, FS_AddElement
  <1>2. IsFiniteSet(({} \cup {"curve"}) \cup {"ata"})
    BY <1>1, FS_AddElement
  <1>3. ({} \cup {"curve"}) \cup {"ata"} = {"curve", "ata"}
    OBVIOUS
  <1> QED BY <1>2, <1>3, AccountsAssumption, FS_Product DEF Accounts

LEMMA Size ==
  ASSUME NEW S \in SUBSET Accounts
  PROVE  IsFiniteSet(S) /\ Cardinality(S) \in 0 .. Cardinality(Accounts)
  <1>1. IsFiniteSet(S) /\ Cardinality(S) <= Cardinality(Accounts)
    BY AccountsFinite, FS_Subset
  <1>2. Cardinality(S) \in Nat /\ Cardinality(Accounts) \in Nat
    BY <1>1, AccountsFinite, FS_CardinalityType
  <1> QED BY <1>1, <1>2

LEMMA InitTyped == Init => TypeOK
  <1>1. Cardinality(Accounts) \in Nat
    BY AccountsFinite, FS_CardinalityType
  <1>2. 0 \in 0 .. Cardinality(Accounts) /\ 0 \in 0 .. MaxDrops
    BY <1>1, AccountsAssumption
  <1> QED BY <1>2 DEF Init, TypeOK

LEMMA NextTyped == TypeOK /\ [Next]_vars => TypeOK'
  <1> SUFFICES ASSUME TypeOK, [Next]_vars PROVE TypeOK'
    OBVIOUS
  <1> USE DEF TypeOK, taskVars, cacheVars
  <1>1. CountRead \in 0 .. Cardinality(Accounts)
    BY Size DEF CountRead
  <1>2. 0 \in 0 .. Cardinality(Accounts)
    BY AccountsFinite, FS_CardinalityType
  <1>3. ASSUME NEW m \in Mints, TrackCurve(m) \/ TrackAta(m) PROVE TypeOK'
    BY <1>3 DEF TrackCurve, TrackAta, Curve, Ata, Accounts
  <1>4. ASSUME NEW m \in Mints, UntrackCurve(m) \/ UntrackRest(m)
        PROVE  TypeOK'
    <2>1. tracked' \subseteq Accounts /\ shrunk' \in BOOLEAN
      BY <1>4 DEF UntrackCurve, UntrackRest, Remove
    <2>2. dropping' \in [Mints -> 0 .. MaxDrops]
      <3>1. dropping[m] \in 0 .. MaxDrops /\ MaxDrops \in Nat
        BY AccountsAssumption
      <3> QED BY <1>4, <3>1 DEF UntrackCurve, UntrackRest
    <2> QED BY <1>4, <2>1, <2>2 DEF UntrackCurve, UntrackRest
  <1>5. ASSUME NEW m \in Mints, BeginUpdate(m) \/ StoreUpdate(m) \/ StoreAnswer(m)
        PROVE  TypeOK'
    BY <1>5 DEF BeginUpdate, StoreUpdate, StoreAnswer
  <1>6. CASE LeaveWaiting \/ ReadAccounts \/ Resubscribe \/ UNCHANGED vars
    BY <1>6 DEF LeaveWaiting, ReadAccounts, Resubscribe, ReadTracked, vars
  <1>7. CASE Connect \/ SendRequest \/ SendFails \/ StreamEnds
    BY <1>1, <1>2, <1>7 DEF Connect, SendRequest, SendFails, StreamEnds,
                            Requested
  <1> QED BY <1>3, <1>4, <1>5, <1>6, <1>7 DEF Next

(* The count last requested never exceeds the accounts there are.          *)
THEOREM TypeCorrect == Spec => []TypeOK
  BY InitTyped, NextTyped, PTL DEF Spec

-----------------------------------------------------------------------------
(* The comparison of numbers.                                              *)

FilterGrows ==
  /\ phase = "streaming" /\ ~lost =>
       /\ lastCount = Cardinality(asked)
       /\ ~shrunk => asked \subseteq tracked
  /\ phase \in {"connecting", "renewing"} /\ ~shrunk => read \subseteq tracked

LEMMA NextGrows == TypeOK /\ FilterGrows /\ [Next]_vars => FilterGrows'
  <1> SUFFICES ASSUME TypeOK, FilterGrows, [Next]_vars PROVE FilterGrows'
    OBVIOUS
  <1> USE DEF FilterGrows, taskVars, cacheVars
  <1>1. ASSUME NEW m \in Mints, TrackCurve(m) \/ TrackAta(m)
        PROVE  FilterGrows'
    BY <1>1 DEF TrackCurve, TrackAta
  <1>2. ASSUME NEW m \in Mints, UntrackCurve(m) \/ UntrackRest(m)
        PROVE  FilterGrows'
    <2>1. UNCHANGED taskVars
      BY <1>2 DEF UntrackCurve, UntrackRest
    <2>2. shrunk' = FALSE => shrunk = FALSE /\ tracked' = tracked
      BY <1>2 DEF UntrackCurve, UntrackRest, Remove, TypeOK
    <2> QED BY <2>1, <2>2
  <1>3. ASSUME NEW m \in Mints, BeginUpdate(m) \/ StoreUpdate(m) \/ StoreAnswer(m)
        PROVE  FilterGrows'
    BY <1>3 DEF BeginUpdate, StoreUpdate, StoreAnswer
  <1>4. CASE LeaveWaiting \/ ReadAccounts \/ Resubscribe \/ UNCHANGED vars
    BY <1>4 DEF LeaveWaiting, ReadAccounts, Resubscribe, ReadTracked, vars
  <1>5. CASE Connect \/ SendRequest \/ SendFails \/ StreamEnds
    BY <1>5 DEF Connect, SendRequest, SendFails, StreamEnds, Requested,
                CountRead
  <1> QED BY <1>1, <1>2, <1>3, <1>4, <1>5 DEF Next

(* While accounts are only added and every request gets through, equal     *)
(* counts mean that the filter lists every tracked account: the comparison *)
(* of lengths misses no addition.                                          *)
THEOREM CountsSeeGrowth == Spec => []GrowthIsSeen
  <1>1. Init => FilterGrows
    BY DEF Init, FilterGrows
  <1>2. TypeOK /\ FilterGrows => GrowthIsSeen
    <2> SUFFICES ASSUME TypeOK, FilterGrows,
                        phase = "streaming", ~shrunk, ~lost
                 PROVE  /\ asked \subseteq tracked
                        /\ Cardinality(tracked) = lastCount => asked = tracked
      BY DEF GrowthIsSeen
    <2>1. asked \subseteq tracked /\ lastCount = Cardinality(asked)
      BY DEF FilterGrows
    <2>2. IsFiniteSet(tracked)
      BY Size DEF TypeOK
    <2>3. Cardinality(tracked) = Cardinality(asked) => asked = tracked
      BY <2>1, <2>2, FS_Subset
    <2> QED BY <2>1, <2>3
  <1> QED BY <1>1, <1>2, NextGrows, TypeCorrect, PTL DEF Spec

-----------------------------------------------------------------------------
(* The cache of curves.                                                    *)

HeldIsTracked == \A m \in held : Curve(m) \in tracked

CacheInv == HeldIsTracked /\ OnlyRpcRestoresCurves

LEMMA NextCached == TypeOK /\ CacheInv /\ [Next]_vars => CacheInv'
  <1> SUFFICES ASSUME TypeOK, CacheInv, [Next]_vars PROVE CacheInv'
    OBVIOUS
  <1> USE DEF CacheInv, HeldIsTracked, OnlyRpcRestoresCurves, cacheVars
  <1>0. /\ held \subseteq Mints /\ cached \subseteq Mints
        /\ dropping \in [Mints -> Nat]
    BY AccountsAssumption DEF TypeOK
  <1>1. ASSUME NEW m \in Mints, TrackCurve(m) \/ TrackAta(m) PROVE CacheInv'
    BY <1>1 DEF TrackCurve, TrackAta
  <1>2. ASSUME NEW m \in Mints, UntrackCurve(m) PROVE CacheInv'
    <2>1. \A k \in Mints \ {m} : Curve(k) \in tracked => Curve(k) \in tracked'
      BY <1>2 DEF UntrackCurve, Remove, Curve
    <2>2. /\ m \notin held /\ held' = held /\ cached' = cached /\ byRpc' = byRpc
          /\ dropping'[m] > 0
          /\ \A k \in Mints \ {m} : dropping'[k] = dropping[k]
      BY <1>0, <1>2 DEF UntrackCurve
    <2> QED BY <1>0, <2>1, <2>2
  <1>3. ASSUME NEW m \in Mints, UntrackRest(m) PROVE CacheInv'
    <2>1. \A k \in Mints : Curve(k) \in tracked => Curve(k) \in tracked'
      BY <1>3 DEF UntrackRest, Remove, Curve, Ata
    <2>2. /\ held' = held /\ cached' = cached \ {m} /\ byRpc' = byRpc \ {m}
          /\ \A k \in Mints \ {m} : dropping'[k] = dropping[k]
      BY <1>0, <1>3 DEF UntrackRest
    <2> QED BY <1>0, <2>1, <2>2
  <1>4. ASSUME NEW m \in Mints, BeginUpdate(m) \/ StoreUpdate(m) \/ StoreAnswer(m)
        PROVE  CacheInv'
    BY <1>4 DEF BeginUpdate, StoreUpdate, StoreAnswer, Wanted
  <1>5. CASE \/ LeaveWaiting \/ ReadAccounts \/ Resubscribe \/ UNCHANGED vars
             \/ Connect \/ SendRequest \/ SendFails \/ StreamEnds
    BY <1>5 DEF LeaveWaiting, ReadAccounts, Resubscribe, Connect, SendRequest,
                SendFails, StreamEnds, vars
  <1> QED BY <1>1, <1>2, <1>3, <1>4, <1>5 DEF Next

(* An update under way when a token is untracked does not bring its curve  *)
(* back into the cache, however many tasks untrack it and whatever the     *)
(* RPC calls store; what is cached of a dropped token they brought.        *)
THEOREM StreamRestoresNothing == Spec => []OnlyRpcRestoresCurves
  <1>1. Init => CacheInv
    BY DEF Init, CacheInv, HeldIsTracked, OnlyRpcRestoresCurves
  <1>2. CacheInv => OnlyRpcRestoresCurves
    BY DEF CacheInv
  <1> QED BY <1>1, <1>2, NextCached, TypeCorrect, PTL DEF Spec
=============================================================================
